--------------------------- MODULE MCWebsocketFarm ---------------------------
(* Instances of WebsocketFarm for TLC. *)
EXTENDS WebsocketFarm, TLC

Symmetric == Permutations(Sockets) \cup Permutations(Requests)
=============================================================================
