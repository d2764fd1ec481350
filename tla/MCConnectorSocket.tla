------------------------- MODULE MCConnectorSocket --------------------------
(* Instances of ConnectorSocket for TLC. *)
EXTENDS ConnectorSocket
=============================================================================
