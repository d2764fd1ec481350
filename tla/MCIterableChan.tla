--------------------------- MODULE MCIterableChan ---------------------------
(* Instances of IterableChan for TLC. *)
EXTENDS IterableChan
=============================================================================
