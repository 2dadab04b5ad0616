---------------------------- MODULE MCResultSet ----------------------------
(* Values of the constants of ResultSet for TLC. *)
EXTENDS ResultSet, TLC

CONSTANTS r1, r2, s1, s2, s3, i1, i2

Symmetry == Permutations(Results) \cup Permutations(Statements) \cup Permutations(Iterators)
=============================================================================
