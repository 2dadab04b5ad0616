------------------------------- MODULE MCQuery -------------------------------
(* Small instances of Query: the kind of query, the backend and the client   *)
(* calls in play are chosen in the .cfg.                                     *)
EXTENDS Query, TLC

CONSTANTS q1, q2, c1, c2, s1, s2, v1, v2

Symmetry == Permutations(Queries) \cup Permutations(Clauses)
              \cup Permutations(Slots) \cup Permutations(Values)
=============================================================================
