------------------------------ MODULE MCRecord ------------------------------
(* Two records and two sessions on one table. *)
EXTENDS Record
=============================================================================
