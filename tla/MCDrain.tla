------------------------------ MODULE MCDrain -------------------------------
(* Instance of Drain for TLC. *)
EXTENDS Drain, TLC
=============================================================================
