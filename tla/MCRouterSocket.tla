--------------------------- MODULE MCRouterSocket ---------------------------
(* Instances of RouterSocket for TLC. *)
EXTENDS RouterSocket
=============================================================================
