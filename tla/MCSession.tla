----------------------------- MODULE MCSession -----------------------------
(* One session, two connections in turn and four objects. *)
EXTENDS Session, TLC

Symmetry == Permutations(Objects)
=============================================================================
