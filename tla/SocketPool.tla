----------------------------- MODULE SocketPool -----------------------------
(***************************************************************************)
(* What the pool of idle router sockets promises to its users, with no     *)
(* mention of channels, maps or counters: a socket enters the pool once,   *)
(* and leaves it at most once, either taken by the one request that will   *)
(* use it or removed because its websocket went away.                      *)
(***************************************************************************)
CONSTANT Sockets

VARIABLE stage      \* stage[s]: where socket s is in its life

Stages == {"new", "pooled", "taken", "removed"}

TypeOK == stage \in [Sockets -> Stages]

Init == stage = [s \in Sockets |-> "new"]

Move(s, from, to) ==
    /\ stage[s] = from
    /\ stage' = [stage EXCEPT ![s] = to]

Add(s)    == Move(s, "new", "pooled")
Take(s)   == Move(s, "pooled", "taken")
Remove(s) == Move(s, "pooled", "removed")

Next == \E s \in Sockets : Add(s) \/ Take(s) \/ Remove(s)

Spec == Init /\ [][Next]_stage
=============================================================================
