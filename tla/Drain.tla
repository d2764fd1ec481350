------------------------------- MODULE Drain --------------------------------
(***************************************************************************)
(* Connectors of one route, the router that pools their idle websockets,   *)
(* and the requests of clients: how connectors come and go under load.     *)
(*                                                                         *)
(* It composes what the other modules detail: a queue is the pool that     *)
(* IterableChan implements; a slot of a connector's window is used and     *)
(* replaced as in Connector; a connector shuts down, deregisters at the    *)
(* router (WebsocketFarm.DeregisterSocket) and its process exits.          *)
(***************************************************************************)
EXTENDS Integers, FiniteSets

CONSTANTS
    Connectors,     \* the connectors that register the route
    Window,         \* slidingWindowSize of each
    Requests,       \* requests for the route
    NoSocket

ASSUME WindowAssumption == Window \in Nat \ {0}
ASSUME ConnectorsAssumption == IsFiniteSet(Connectors)

Sockets == Connectors \X (1..Window)
ASSUME NoSocketAssumption == NoSocket \notin Sockets

VARIABLES
    process,        \* how far each connector's process is
    verdict,        \* what ShutDownAfterTimeout returned
    deregister,     \* the call of each connector to deregister
    socket,         \* the current websocket of each slot
    request,        \* where each request is
    by,             \* the slot whose websocket serves it
    late,           \* history: requests given a socket whose connector was shutting down
    missed          \* history: requests neither counted nor over when a shutdown returned

vars == <<process, verdict, deregister, socket, request, by, late, missed>>
requestVars == <<request, by, late>>

Processes == {"off", "RUNNING", "ShutDown", "returned", "exited", "crashed"}

TypeOK ==
    /\ process \in [Connectors -> Processes]
    /\ verdict \in [Connectors -> {"none", "true", "false"}]
    /\ deregister \in [Connectors -> {"no", "dialing", "done"}]
    /\ socket \in [Sockets -> {"off", "dialing", "pooled", "taken", "forgotten"}]
    /\ request \in [Requests -> {"none", "waiting", "unserved", "sent", "arrived", "counted",
                                 "ended", "answered", "broken"}]
    /\ by \in [Requests -> Sockets \union {NoSocket}]
    /\ late \subseteq Requests /\ missed \subseteq Requests

Init ==
    /\ process = [c \in Connectors |-> "off"]
    /\ verdict = [c \in Connectors |-> "none"]
    /\ deregister = [c \in Connectors |-> "no"]
    /\ socket = [s \in Sockets |-> "off"]
    /\ request = [r \in Requests |-> "none"]
    /\ by = [r \in Requests |-> NoSocket]
    /\ late = {} /\ missed = {}

Gone(c)   == process[c] \in {"off", "exited", "crashed"}
Pooled    == {s \in Sockets : socket[s] = "pooled"}
Serves(c, r) == by[r] # NoSocket /\ by[r][1] = c
Counted(c)   == {r \in Requests : Serves(c, r) /\ request[r] = "counted"}

\* not counted yet, or counted no more although the router still waits for the close
Uncounted(c) == {r \in Requests : Serves(c, r) /\ request[r] \in {"sent", "arrived", "ended"}}

\* a websocket is opened whatever became of the connector
ReplacementAlways(s) == "dialing"

\* what whenConsumedAction leaves in the slot: another dial, or nothing
Replacement(s) == IF process[s[1]] = "RUNNING" THEN "dialing" ELSE "off"

-----------------------------------------------------------------------------
(* A connector.                                                            *)

\* Connector.Start
Start(c) ==
    /\ process[c] = "off"
    /\ process' = [process EXCEPT ![c] = "RUNNING"]
    /\ socket' = [s \in Sockets |-> IF s[1] = c THEN "dialing" ELSE socket[s]]
    /\ UNCHANGED <<verdict, deregister, requestVars, missed>>

\* ShutDownAfterTimeout: no replacement from now on; the deregistration is dialled
ShutDown(c) ==
    /\ process[c] = "RUNNING"
    /\ process' = [process EXCEPT ![c] = "ShutDown"]
    /\ deregister' = [deregister EXCEPT ![c] = "dialing"]
    /\ UNCHANGED <<verdict, socket, requestVars, missed>>

\* it returns, whatever requests are still counted
ShutDownReturnsAtOnce(c) ==
    /\ process[c] = "ShutDown"
    /\ process' = [process EXCEPT ![c] = "returned"]
    /\ verdict' = [verdict EXCEPT ![c] = "true"]
    /\ missed' = missed \union Uncounted(c)
    /\ UNCHANGED <<deregister, socket, requestVars>>

\* it returns whether no request is counted any more, or after the timeout
ShutDownReturns(c) ==
    /\ process[c] = "ShutDown"
    /\ process' = [process EXCEPT ![c] = "returned"]
    /\ verdict' = [verdict EXCEPT ![c] = IF Counted(c) = {} THEN "true" ELSE "false"]
    /\ missed' = missed \union Uncounted(c)
    /\ UNCHANGED <<deregister, socket, requestVars>>

\* the process ends after the shutdown, or at any time
ProcessEnds(c) ==
    /\ ~Gone(c)
    /\ process' = [process EXCEPT ![c] = IF @ = "returned" THEN "exited" ELSE "crashed"]
    /\ UNCHANGED <<verdict, deregister, socket, requestVars, missed>>

-----------------------------------------------------------------------------
(* The websocket of a slot.                                                *)

SocketGoes(s, to) ==
    /\ socket' = [socket EXCEPT ![s] = to]
    /\ UNCHANGED <<process, verdict, deregister, requestVars, missed>>

\* the dial succeeds, and the router offers the socket to the queue of the route
Registers(s) == socket[s] = "dialing" /\ ~Gone(s[1]) /\ SocketGoes(s, "pooled")

\* a dial fails after the shutdown has begun: its retry is cancelled
DialGivenUp(s) ==
    socket[s] = "dialing" /\ process[s[1]] \in {"ShutDown", "returned"} /\ SocketGoes(s, "off")

\* an idle websocket is closed or lost: both ends notice
WebsocketLost(s) ==
    socket[s] \in {"pooled", "forgotten"} /\ ~Gone(s[1]) /\ SocketGoes(s, Replacement(s))

\* the router notices that the connector has gone
RouterNotices(s) ==
    socket[s] \in {"dialing", "pooled", "forgotten"} /\ Gone(s[1]) /\ SocketGoes(s, "off")

DeregisterFrame == UNCHANGED <<process, verdict, requestVars, missed>>

\* every socket in the queue is taken out of it
DeregisterAll(c) ==
    /\ deregister[c] = "dialing"
    /\ deregister' = [deregister EXCEPT ![c] = "done"]
    /\ socket' = [s \in Sockets |-> IF s \in Pooled THEN "forgotten" ELSE socket[s]]
    /\ DeregisterFrame

(* DeregisterSocket polls the queue of the route while a socket is alive,  *)
(* and removeWebsockets panics on the first it gets, whoever opened it.    *)
DeregisterSocket(c) ==
    /\ deregister[c] = "dialing"
    /\ deregister' = [deregister EXCEPT ![c] = "done"]
    /\ IF Pooled = {} THEN UNCHANGED socket
                      ELSE \E s \in Pooled : socket' = [socket EXCEPT ![s] = "forgotten"]
    /\ DeregisterFrame

\* the process ended before it was connected
DeregisterLost(c) ==
    /\ deregister[c] = "dialing" /\ Gone(c)
    /\ deregister' = [deregister EXCEPT ![c] = "done"]
    /\ UNCHANGED socket /\ DeregisterFrame

-----------------------------------------------------------------------------
(* A request.                                                              *)

RequestGoes(r, from, to) ==
    /\ request[r] = from
    /\ request' = [request EXCEPT ![r] = to]
    /\ UNCHANGED <<process, verdict, deregister, missed>>

\* ReverseProxy.Handle
RequestComes(r) == RequestGoes(r, "none", "waiting") /\ UNCHANGED <<socket, by, late>>

\* AcquireSocket gives up after its time
AcquireTimeout(r) == RequestGoes(r, "waiting", "unserved") /\ UNCHANGED <<socket, by, late>>

\* AcquireSocket, and the request is written on the websocket
Acquire(r) ==
    /\ RequestGoes(r, "waiting", "sent")
    /\ \E s \in Pooled :
          /\ socket' = [socket EXCEPT ![s] = "taken"]
          /\ by' = [by EXCEPT ![r] = s]
          /\ late' = IF process[s[1]] = "RUNNING" THEN late ELSE late \union {r}

\* the request goes to the target and the window is not filled up
ArrivesUnreplaced(r) ==
    /\ RequestGoes(r, "sent", "arrived") /\ ~Gone(by[r][1])
    /\ socket' = [socket EXCEPT ![by[r]] = "off"]
    /\ UNCHANGED <<by, late>>

\* onRequestReceived: the slot is filled by whenConsumedAction
Arrives(r) ==
    /\ RequestGoes(r, "sent", "arrived") /\ ~Gone(by[r][1])
    /\ socket' = [socket EXCEPT ![by[r]] = Replacement(by[r])]
    /\ UNCHANGED <<by, late>>

\* OnConnectionStarted, and the request is fired
Count(r) ==
    /\ RequestGoes(r, "arrived", "counted") /\ ~Gone(by[r][1])
    /\ UNCHANGED <<socket, by, late>>

\* the callback of a request whose response is sent back begins with it
OnConnectionEnded(r) ==
    /\ RequestGoes(r, "counted", "ended") /\ ~Gone(by[r][1])
    /\ UNCHANGED <<socket, by, late>>

\* and goes on to close the websocket, which is what ends the response for the router
Answer(r) ==
    /\ RequestGoes(r, "ended", "answered") /\ ~Gone(by[r][1])
    /\ UNCHANGED <<socket, by, late>>

\* the websocket ends with the process: the router answers 502
Breaks(r) ==
    /\ \E from \in {"sent", "arrived", "counted", "ended"} : RequestGoes(r, from, "broken")
    /\ Gone(by[r][1])
    /\ socket' = IF request[r] = "sent" THEN [socket EXCEPT ![by[r]] = "off"] ELSE socket
    /\ UNCHANGED <<by, late>>

-----------------------------------------------------------------------------
RequestNext(r) ==
    \/ Acquire(r) \/ Arrives(r) \/ Count(r)
    \/ OnConnectionEnded(r) \/ Answer(r) \/ Breaks(r)
DeregisterNext(c) == DeregisterSocket(c) \/ DeregisterLost(c)

Next ==
    \/ \E c \in Connectors : \/ Start(c) \/ ShutDown(c) \/ ShutDownReturns(c) \/ ProcessEnds(c)
                             \/ DeregisterNext(c)
    \/ \E s \in Sockets : Registers(s) \/ DialGivenUp(s) \/ WebsocketLost(s) \/ RouterNotices(s)
    \/ \E r \in Requests : RequestComes(r) \/ AcquireTimeout(r) \/ RequestNext(r)

Spec == Init /\ [][Next]_vars

(* A dial ends, a poll that finds a socket takes it, goroutines run, and a *)
(* target answers.  An idle websocket may be lost over and over, so that a *)
(* poll needs strong fairness to find one.                                 *)
Fairness ==
    /\ \A s \in Sockets : WF_vars(Registers(s)) /\ WF_vars(RouterNotices(s))
    /\ \A r \in Requests : SF_vars(RequestNext(r))

FairSpec == Spec /\ Fairness

-----------------------------------------------------------------------------
(* A request is broken only if its connector crashed; if the shutdown of   *)
(* its connector ran into the timeout; if the shutdown returned true while *)
(* the request was on its way and not counted, or counted no more and its  *)
(* websocket not closed; or if the router gave it a socket that was still  *)
(* pooled after the shutdown had begun.                                    *)
BrokenOnlyInGaps ==
    \A r \in Requests : request[r] = "broken" =>
        LET c == by[r][1] IN
        process[c] = "crashed" \/ verdict[c] = "false" \/ r \in late \union missed

(* Each deregistration takes at most one socket out of the pool, its own   *)
(* or another connector's: a connector that goes on running loses no more  *)
(* of its window than there were shutdowns.                                *)
OneForgottenEach ==
    Cardinality({s \in Sockets : socket[s] = "forgotten"})
        <= Cardinality({c \in Connectors : deregister[c] = "done"})

\* what the windows know of a slot
SlotOf(s) ==
    IF socket[s] = "off" THEN IF process[s[1]] = "off" THEN "vacant" ELSE "closed"
    ELSE IF socket[s] = "dialing" THEN "filling" ELSE "open"

Filled == INSTANCE SlidingWindow WITH
    Slots <- Sockets, slot <- [s \in Sockets |-> SlotOf(s)],
    closing <- {s \in Sockets : process[s[1]] \notin {"off", "RUNNING"}},
    mayRefuse <- FALSE

(* Each connector keeps its window, as Connector does by itself: whatever  *)
(* requests, other connectors and deregistrations do to its sockets, a     *)
(* slot is filled again until its connector shuts down, is never filled    *)
(* twice for one websocket, and stays empty when it was left so.  That the *)
(* farm of a connector may refuse a websocket is left to Connector.        *)
WindowsKept == Filled!Spec

Starved ==
    \A s \in Sockets : process[s[1]] = "RUNNING" => socket[s] = "forgotten"

(* A request that waits is served in the end, however often websockets are *)
(* lost and other connectors come and go, unless AcquireSocket gives up or *)
(* there is a time when deregistrations have left no running connector a   *)
(* socket the router knows.                                                *)
Served ==
    \A r \in Requests :
        (request[r] = "waiting")
            ~> (request[r] \in {"answered", "broken", "unserved"} \/ Starved)
=============================================================================
