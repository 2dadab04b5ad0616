---------------------------- MODULE MCParameters ----------------------------
(* Values of the constants of Parameters for TLC. *)
EXTENDS Parameters

CONSTANTS b1, b2, blob, at

Symmetry == Permutations(Objects)
=============================================================================
