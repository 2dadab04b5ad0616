---------------------------- MODULE MCTransaction ----------------------------
(* Small instances of Transaction: which backend and which client calls are   *)
(* in play is chosen in the .cfg.                                             *)
EXTENDS Transaction, TLC

CONSTANTS h1, h2, h3, i1, i2, c1, c2, w1, w2, n1, n2

Symmetry == Permutations(Handles) \cup Permutations(Impls)
              \cup Permutations(Conns) \cup Permutations(Writes)
              \cup Permutations(Names)
=============================================================================
