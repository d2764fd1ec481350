---------------------------- MODULE WebsocketFarm ---------------------------
(***************************************************************************)
(* router/router_socket/websocket_farm.go and router/darklaunch_manager:   *)
(* the router sockets of all routes, in queues kept by route, and their    *)
(* dark twins for services that are being tried out.                       *)
(*                                                                         *)
(* Sockets register, end and are taken by requests concurrently; one       *)
(* administrator calls the dark launch API, and connectors deregister, one *)
(* call at a time each.  A queue is the pool that IterableChan is proved   *)
(* to implement: a set, filled some time after Offer was called.           *)
(***************************************************************************)
EXTENDS Integers, FiniteSets

CONSTANTS
    Sockets,
    Requests,
    Services,       \* routes with a name, all valid names of services
    NoName, Star,   \* the Route headers "" and "*", which are not
    Ips,            \* valid ip addresses
    Address,        \* what socket.Ip() returns, for every socket
    NoQueue,
    MaxCalls,       \* bound: services and ips added
    MaxDeregisters  \* bound: calls of DeregisterSocket

(* Ip() is the remote address, which has a port; isValidIp and             *)
(* isValidService refuse a colon.                                          *)
ASSUME AddressAssumption == Address \notin Ips \cup Services
Unnamed == {NoName, Star}
ASSUME NamesAssumption == Unnamed \cap Services = {} /\ NoName # Star
ASSUME BoundsAssumption == MaxCalls \in Nat /\ MaxDeregisters \in Nat

Modes == {"normal", "dark"}
Catchalls == {"catchall", "darkCatchall"}

\* the queue that a socket's registration creates bears its name
Queues == Catchalls \cup Sockets
ASSUME QueuesAssumption == NoQueue \notin Queues /\ Catchalls \cap Sockets = {}

VARIABLES
    route,          \* route[s]: the Route header socket s registered with
    target,         \* target[r]: the route of request r
    services,       \* currentServices
    ips,            \* currentIps
    gray,           \* the gray testing toggle
    queueOf,        \* queueOf[m][v]: the queue of service v in sockets or darkSockets
    in,             \* in[q]: the sockets in queue q
    offers,         \* <<q, s>>: goroutines of Offer
    stage,          \* stage[s]: where socket s is in its life
    mode,           \* mode[s]: the mode s registered in
    looked,         \* looked[s]: the queue RemoveWebsocket found for s
    asked,          \* asked[r]: where AcquireSocket is
    askedMode,      \* ... the mode it looked in
    askedQueue,     \* ... the queue it polls
    got,            \* ... and the socket it returned
    polled,         \* the queue DeregisterSocket polls
    listener,       \* the listener's work: its phase, what it must visit, has moved
    call,           \* the call of the API it is notified of
    calls,          \* services and ips added
    deregisters,    \* calls of DeregisterSocket
    replaced,       \* history: services whose queue was replaced by another
    changed,        \* history: services that were added or removed
    overtaken,      \* history: sockets removed while they were being offered
    dropped         \* history: sockets that DeregisterSocket polled

vars == <<route, target, services, ips, gray, queueOf, in, offers, stage, mode, looked,
          asked, askedMode, askedQueue, got, polled, listener, call, calls, deregisters,
          replaced, changed, overtaken, dropped>>

darkVars    == <<services, ips, gray, listener, call, calls, changed>>
queueVars   == <<queueOf, in, offers, replaced>>
socketVars  == <<route, stage, mode, looked, overtaken>>
requestVars == <<target, asked, askedMode, askedQueue, got>>
deregVars   == <<polled, deregisters, dropped>>

Idle   == [phase |-> "idle", must |-> {}, moved |-> {}]
Phases == {"idle", "grayOff", "range", "remove"}
NoCall == [kind |-> "none", change |-> "none", value |-> NoName]

DarkTyped ==
    /\ services \subseteq Services /\ ips \subseteq Ips /\ gray \in BOOLEAN
    /\ listener \in [phase : Phases, must : SUBSET (Queues \X Sockets),
                                   moved : SUBSET (Queues \X Sockets)]
    /\ call \in [kind : {"none", "service", "ip"}, change : {"none", "added", "revoked"},
                 value : Services \cup Ips \cup {NoName}]
    /\ calls \in 0..MaxCalls /\ changed \subseteq Services

QueueTyped ==
    /\ queueOf \in [Modes -> [Services -> Sockets \cup {NoQueue}]]
    /\ in \in [Queues -> SUBSET Sockets]
    /\ offers \subseteq Queues \X Sockets
    /\ replaced \subseteq Services

SocketTyped ==
    /\ route \in [Sockets -> Services \cup Unnamed]
    /\ stage \in [Sockets -> {"new", "checked", "missing", "registered", "closing", "gone"}]
    /\ \A s \in Sockets : stage[s] = "missing" => route[s] \in Services
    /\ mode \in [Sockets -> Modes]
    /\ looked \in [Sockets -> Queues \cup {NoQueue}]
    /\ overtaken \subseteq Sockets

RequestTyped ==
    /\ target \in [Requests -> Services \cup {NoName}]
    /\ asked \in [Requests -> {"new", "polling", "served"}]
    /\ askedMode \in [Requests -> Modes]
    /\ askedQueue \in [Requests -> Queues \cup {NoQueue}]
    /\ \A r \in Requests : asked[r] = "polling" => askedQueue[r] \in Queues
    /\ got \in [Requests -> SUBSET Sockets]

DeregTyped ==
    /\ polled \in Queues \cup {NoQueue}
    /\ deregisters \in 0..MaxDeregisters
    /\ dropped \subseteq Sockets

TypeOK == DarkTyped /\ QueueTyped /\ SocketTyped /\ RequestTyped /\ DeregTyped

Init ==
    /\ route = [s \in Sockets |-> NoName]
    /\ target = [r \in Requests |-> NoName]
    /\ services = {} /\ ips = {} /\ gray = FALSE
    /\ queueOf = [m \in Modes |-> [v \in Services |-> NoQueue]]
    /\ in = [q \in Queues |-> {}] /\ offers = {}
    /\ stage = [s \in Sockets |-> "new"]
    /\ mode = [s \in Sockets |-> "normal"]
    /\ looked = [s \in Sockets |-> NoQueue]
    /\ asked = [r \in Requests |-> "new"]
    /\ askedMode = [r \in Requests |-> "normal"]
    /\ askedQueue = [r \in Requests |-> NoQueue]
    /\ got = [r \in Requests |-> {}]
    /\ polled = NoQueue /\ deregisters = 0
    /\ listener = Idle /\ call = NoCall /\ calls = 0
    /\ replaced = {} /\ changed = {} /\ overtaken = {} /\ dropped = {}

-----------------------------------------------------------------------------
(* Finding a queue.                                                        *)

IsDarkModeOn == services # {} \/ ips # {}

\* the test that AddWebsocket and RemoveWebsocket share
ModeFor(rt) ==
    IF IsDarkModeOn /\ (Address \in ips \/ rt \in services) THEN "dark" ELSE "normal"

Catchall(m) == IF m = "dark" THEN "darkCatchall" ELSE "catchall"

\* sync.Map.Load
Load(m, rt) == IF rt \in Services THEN queueOf[m][rt] ELSE NoQueue

LoadOrCatchall(m, rt) == IF Load(m, rt) # NoQueue THEN Load(m, rt) ELSE Catchall(m)

-----------------------------------------------------------------------------
(* AddWebsocket, and the goroutine that Offer starts.                      *)

Advance(s, to) == stage' = [stage EXCEPT ![s] = to]
OfferTo(q, s)  == offers' = offers \cup {<<q, s>>}

\* a websocket registers with a Route header
AddCheck(s, rt) ==
    /\ stage[s] = "new"
    /\ Advance(s, "checked")
    /\ route' = [route EXCEPT ![s] = rt]
    /\ mode' = [mode EXCEPT ![s] = ModeFor(rt)]
    /\ UNCHANGED <<darkVars, queueVars, looked, overtaken, requestVars, deregVars>>

AddFrame == UNCHANGED <<darkVars, in, route, mode, looked, overtaken, requestVars, deregVars>>

\* the queue of the other mode is used
AddLoadOther(s) ==
    /\ stage[s] = "checked"
    /\ LET m == IF mode[s] = "dark" THEN "normal" ELSE "dark" IN
         /\ Advance(s, "registered")
         /\ OfferTo(LoadOrCatchall(m, route[s]), s)
    /\ UNCHANGED <<queueOf, replaced>>
    /\ AddFrame

\* a route without a name goes to the catchall; a new one needs a queue
AddLoad(s) ==
    /\ stage[s] = "checked"
    /\ IF route[s] \in Unnamed \/ Load(mode[s], route[s]) # NoQueue
         THEN Advance(s, "registered") /\ OfferTo(LoadOrCatchall(mode[s], route[s]), s)
         ELSE Advance(s, "missing") /\ UNCHANGED offers
    /\ UNCHANGED <<queueOf, replaced>>
    /\ AddFrame

\* the first socket of a route is put into the catchall
AddStoreInCatchall(s) ==
    /\ stage[s] = "missing"
    /\ Advance(s, "registered")
    /\ OfferTo(Catchall(mode[s]), s)
    /\ UNCHANGED <<queueOf, replaced>>
    /\ AddFrame

\* Store replaces a queue that was stored since the Load
AddStore(s) ==
    /\ stage[s] = "missing"
    /\ Advance(s, "registered")
    /\ queueOf' = [queueOf EXCEPT ![mode[s]][route[s]] = s]
    /\ replaced' = IF Load(mode[s], route[s]) # NoQueue THEN replaced \cup {route[s]}
                                                       ELSE replaced
    /\ OfferTo(s, s)
    /\ AddFrame

OfferStores(q, s) ==
    /\ <<q, s>> \in offers
    /\ offers' = offers \ {<<q, s>>}
    /\ in' = [in EXCEPT ![q] = @ \cup {s}]
    /\ UNCHANGED <<darkVars, queueOf, replaced, socketVars, requestVars, deregVars>>

-----------------------------------------------------------------------------
(* The websocket of s ends: RemoveWebsocket.                               *)

CloseFrame == UNCHANGED <<darkVars, queueOf, offers, replaced, route, mode, requestVars, deregVars>>

\* no socket is treated as one of the catchall
RemoveLoadsByRoute(s) ==
    /\ stage[s] = "registered"
    /\ Advance(s, "closing")
    /\ looked' = [looked EXCEPT ![s] = Load(ModeFor(route[s]), route[s])]
    /\ UNCHANGED <<in, overtaken>>
    /\ CloseFrame

\* IsCatchAll knows the route "" only, not "*"
RemoveLoads(s) ==
    /\ stage[s] = "registered"
    /\ Advance(s, "closing")
    /\ looked' = [looked EXCEPT ![s] = IF route[s] = NoName THEN Catchall(ModeFor(route[s]))
                                       ELSE Load(ModeFor(route[s]), route[s])]
    /\ UNCHANGED <<in, overtaken>>
    /\ CloseFrame

\* Remove does nothing for a socket that has not been stored
Removes(s) ==
    /\ stage[s] = "closing"
    /\ Advance(s, "gone")
    /\ in' = [q \in Queues |-> IF q = looked[s] THEN in[q] \ {s} ELSE in[q]]
    /\ overtaken' = IF \E q \in Queues : <<q, s>> \in offers THEN overtaken \cup {s}
                                                            ELSE overtaken
    /\ looked' = [looked EXCEPT ![s] = NoQueue]
    /\ CloseFrame

-----------------------------------------------------------------------------
(* AcquireSocket.                                                          *)

RequestFrame == UNCHANGED <<darkVars, queueOf, offers, replaced, socketVars, deregVars>>

\* gray testing selects the queues of the services, but not the catchall
LookUpOneCatchall(r, rt) ==
    /\ asked[r] = "new"
    /\ target' = [target EXCEPT ![r] = rt]
    /\ LET m == IF IsDarkModeOn /\ gray THEN "dark" ELSE "normal"
           q == Load(m, rt)
       IN  /\ askedMode' = [askedMode EXCEPT ![r] = m]
           /\ askedQueue' = [askedQueue EXCEPT ![r] = IF q = NoQueue THEN "catchall" ELSE q]
    /\ asked' = [asked EXCEPT ![r] = "polling"]
    /\ UNCHANGED <<got, in>>
    /\ RequestFrame

\* getRouterSocket, up to PollTimeout
LookUp(r, rt) ==
    /\ asked[r] = "new"
    /\ target' = [target EXCEPT ![r] = rt]
    /\ LET m == IF IsDarkModeOn /\ gray THEN "dark" ELSE "normal"
       IN  /\ askedMode' = [askedMode EXCEPT ![r] = m]
           /\ askedQueue' = [askedQueue EXCEPT ![r] = LoadOrCatchall(m, rt)]
    /\ asked' = [asked EXCEPT ![r] = "polling"]
    /\ UNCHANGED <<got, in>>
    /\ RequestFrame

Take(r, s) ==
    /\ asked[r] = "polling" /\ s \in in[askedQueue[r]]
    /\ asked' = [asked EXCEPT ![r] = "served"]
    /\ got' = [got EXCEPT ![r] = {s}]
    /\ askedQueue' = [askedQueue EXCEPT ![r] = NoQueue]
    /\ UNCHANGED <<target, askedMode>>
    /\ RequestFrame

\* the socket stays in the queue
PollKeeps(r, s) ==
    /\ Take(r, s)
    /\ UNCHANGED in

PollTakes(r, s) ==
    /\ Take(r, s)
    /\ in' = [in EXCEPT ![askedQueue[r]] = @ \ {s}]

\* the request is refused; the next one may come in its place
PollTimesOut(r) ==
    /\ asked[r] = "polling"
    /\ asked' = [asked EXCEPT ![r] = "new"]
    /\ askedQueue' = [askedQueue EXCEPT ![r] = NoQueue]
    /\ askedMode' = [askedMode EXCEPT ![r] = "normal"]
    /\ target' = [target EXCEPT ![r] = NoName]
    /\ UNCHANGED <<got, in>>
    /\ RequestFrame

-----------------------------------------------------------------------------
(* DeregisterSocket.  removeWebsockets takes the remote address apart at   *)
(* a "/" it never has, so the first socket polled, whoever it belongs to,  *)
(* makes it panic; net/http recovers.                                      *)

DeregisterFrame == UNCHANGED <<darkVars, queueOf, offers, replaced, socketVars, requestVars>>

DeregisterSocket(rt) ==
    /\ polled = NoQueue /\ deregisters < MaxDeregisters
    /\ deregisters' = deregisters + 1
    /\ polled' = LoadOrCatchall("normal", rt)
    /\ UNCHANGED <<dropped, in>>
    /\ DeregisterFrame

DeregisterPolls(s) ==
    /\ polled # NoQueue /\ s \in in[polled]
    /\ in' = [in EXCEPT ![polled] = @ \ {s}]
    /\ dropped' = dropped \cup {s}
    /\ polled' = NoQueue
    /\ UNCHANGED deregisters
    /\ DeregisterFrame

DeregisterFindsNone ==
    /\ polled # NoQueue /\ in[polled] = {}
    /\ polled' = NoQueue
    /\ UNCHANGED <<deregisters, dropped, in>>
    /\ DeregisterFrame

-----------------------------------------------------------------------------
(* DarkLaunchManager and the listener of the farm.                         *)

ApiFrame  == UNCHANGED <<queueVars, socketVars, requestVars, deregVars>>
Change(k, c, v) == call' = [kind |-> k, change |-> c, value |-> v]

\* what a socket in queue q is compared with: the addition of a service
\* compares the address of all but the sockets of the catchall
Matches(c, q, s) ==
    IF c.kind = "service" /\ (c.change = "revoked" \/ q \in Catchalls)
      THEN route[s] = c.value
      ELSE Address = c.value

\* the queues that are searched
From(c) ==
    LET m == IF c.change = "added" THEN "normal" ELSE "dark"
    IN  {Catchall(m)} \cup ({queueOf[m][v] : v \in Services} \ {NoQueue})

\* the queue a socket is offered to: for a named route always that of
\* darkSockets, which has one for every socket that matches
To(c, q, s) ==
    IF q \in Catchalls THEN (IF q = "catchall" THEN "darkCatchall" ELSE "catchall")
                       ELSE Load("dark", route[s])

Matching(c) == {qs \in From(c) \X Sockets : qs[2] \in in[qs[1]] /\ Matches(c, qs[1], qs[2])}

Notify(k, c, v) ==
    /\ listener.phase = "idle"
    /\ Change(k, c, v)
    /\ listener' = [Idle EXCEPT !.phase = IF c = "added" THEN "range" ELSE "grayOff",
                    !.must = IF c = "added" THEN Matching([kind |-> k, change |-> c, value |-> v])
                                            ELSE {}]
    /\ UNCHANGED gray
    /\ ApiFrame

AddService(v) ==
    /\ calls < MaxCalls /\ calls' = calls + 1
    /\ services' = services \cup {v} /\ changed' = changed \cup {v}
    /\ Notify("service", "added", v)
    /\ UNCHANGED ips

RemoveService(v) ==
    /\ v \in services
    /\ services' = services \ {v} /\ changed' = changed \cup {v}
    /\ Notify("service", "revoked", v)
    /\ UNCHANGED <<ips, calls>>

AddIp(v) ==
    /\ calls < MaxCalls /\ calls' = calls + 1
    /\ ips' = ips \cup {v}
    /\ Notify("ip", "added", v)
    /\ UNCHANGED <<services, changed>>

RemoveIp(v) ==
    /\ v \in ips
    /\ ips' = ips \ {v}
    /\ Notify("ip", "revoked", v)
    /\ UNCHANGED <<services, changed, calls>>

\* PutOn and PutOff are refused unless the dark mode is on
PutGray(on) ==
    /\ IsDarkModeOn
    /\ gray' = on
    /\ UNCHANGED <<services, ips, listener, call, calls, changed>>
    /\ ApiFrame

ListenFrame == UNCHANGED <<services, ips, call, calls, changed, queueOf, replaced,
                           socketVars, requestVars, deregVars>>

TurnGrayTestingOff ==
    /\ listener.phase = "grayOff"
    /\ gray' = FALSE
    /\ listener' = [listener EXCEPT !.phase = "range", !.must = Matching(call)]
    /\ UNCHANGED <<in, offers>>
    /\ ListenFrame

\* Range visits a socket that is stored, once; all that match are in one queue
Visit(q, s) ==
    /\ listener.phase = "range"
    /\ <<q, s>> \in Matching(call) /\ <<q, s>> \notin listener.moved
    /\ OfferTo(To(call, q, s), s)
    /\ listener' = [listener EXCEPT !.moved = @ \cup {<<q, s>>}]
    /\ UNCHANGED <<in, gray>>
    /\ ListenFrame

\* Range may or may not visit a socket stored while it runs
RangeEnds ==
    /\ listener.phase = "range"
    /\ listener.must \cap Matching(call) \subseteq listener.moved
    /\ listener' = IF listener.moved = {} THEN Idle
                   ELSE [listener EXCEPT !.phase = "remove", !.must = {}]
    /\ UNCHANGED <<in, offers, gray>>
    /\ ListenFrame

\* toBeRemoved
RemoveMoved(q, s) ==
    /\ listener.phase = "remove" /\ <<q, s>> \in listener.moved
    /\ in' = [in EXCEPT ![q] = @ \ {s}]
    /\ listener' = IF listener.moved = {<<q, s>>} THEN Idle
                   ELSE [listener EXCEPT !.moved = @ \ {<<q, s>>}]
    /\ UNCHANGED <<offers, gray>>
    /\ ListenFrame

-----------------------------------------------------------------------------
ApiNext ==
    \/ \E v \in Services : AddService(v) \/ RemoveService(v)
    \/ \E v \in Ips : AddIp(v) \/ RemoveIp(v)
    \/ \E on \in BOOLEAN : PutGray(on)

ListenerNext ==
    \/ TurnGrayTestingOff \/ RangeEnds
    \/ \E q \in Queues, s \in Sockets : Visit(q, s) \/ RemoveMoved(q, s)

Next ==
    \/ \E s \in Sockets : \/ \E rt \in Services \cup Unnamed : AddCheck(s, rt)
                          \/ AddLoad(s) \/ AddStore(s)
                          \/ RemoveLoads(s) \/ Removes(s)
                          \/ DeregisterPolls(s)
    \/ \E q \in Queues, s \in Sockets : OfferStores(q, s)
    \/ \E r \in Requests : \/ \E rt \in Services \cup {NoName} : LookUp(r, rt)
                           \/ PollTimesOut(r) \/ \E s \in Sockets : PollTakes(r, s)
    \/ \E rt \in Services \cup {NoName} : DeregisterSocket(rt)
    \/ DeregisterFindsNone
    \/ ApiNext \/ ListenerNext

Spec == Init /\ [][Next]_vars

-----------------------------------------------------------------------------
Taken == UNION {got[r] : r \in Requests}
Home(s) == LoadOrCatchall(ModeFor(route[s]), route[s])

(* Two requests are never given the same websocket, unless its service was *)
(* taken out of the dark launch: then the socket is offered once more to   *)
(* the queue it may just have been taken from.                             *)
AcquiredOnce ==
    \A r1, r2 \in Requests :
        r1 # r2 => \A s \in got[r1] \cap got[r2] : route[s] \in changed

(* A request is given a socket of its own route, or one of the catchall.   *)
RightSocket ==
    \A r \in Requests : \A s \in got[r] : route[s] \in {target[r]} \cup Unnamed

(* However the lists and the toggle change while a request waits: it gets  *)
(* a socket that registered as dark if, and only if, it was itself a gray  *)
(* test when it came.                                                      *)
DarkIsolated ==
    \A r \in Requests : \A s \in got[r] : mode[s] = askedMode[r]

(* A registered socket that is open and idle is, or will be, in the queue  *)
(* where a request for its route looks now.  It is lost only if two first  *)
(* sockets of its route registered at once, if a deregistration polled it, *)
(* or if its service was put into or taken out of the dark launch.         *)
IdleSocketAtHome ==
    \A s \in Sockets :
        stage[s] = "registered" /\ s \notin Taken
            => \/ s \in in[Home(s)] \/ <<Home(s), s>> \in offers
               \/ s \in dropped \/ route[s] \in replaced \cup changed

(* A websocket that has ended is in no queue, so no request can be given   *)
(* it, unless it ended before Offer had stored it, its route is "*", or    *)
(* its queue was replaced or changed mode meanwhile.                       *)
ClosedSocketGone ==
    \A s \in Sockets :
        stage[s] = "gone"
            => \/ \A q \in Queues : s \notin in[q] /\ <<q, s>> \notin offers
               \/ s \in overtaken \/ route[s] = Star \/ route[s] \in replaced \cup changed
=============================================================================
