------------------------- MODULE WebsocketFarmProofs -------------------------
(***************************************************************************)
(* Proofs about WebsocketFarm, for any sockets, requests, services and     *)
(* addresses and any number of calls of the API.                           *)
(***************************************************************************)
EXTENDS WebsocketFarm, TLAPS

-----------------------------------------------------------------------------
(* Typing.                                                                 *)

(* A lookup finds the queue of a socket or nothing; with the catchall to   *)
(* fall back on it finds a queue.                                          *)
LEMMA LookUpType ==
  ASSUME QueueTyped
  PROVE  /\ \A rt : ModeFor(rt) \in Modes
         /\ \A m \in Modes : \A rt : /\ Load(m, rt) \in Sockets \cup {NoQueue}
                                     /\ LoadOrCatchall(m, rt) \in Queues
         /\ \A m \in Modes : Catchall(m) \in Queues
         /\ "normal" \in Modes /\ "dark" \in Modes
<1>1. \A m \in Modes : \A rt : Load(m, rt) \in Sockets \cup {NoQueue}
  BY DEF QueueTyped, Load
<1>2. \A m \in Modes : Catchall(m) \in Queues
  BY DEF Modes, Catchall, Catchalls, Queues
<1>3. QED
  BY <1>1, <1>2 DEF ModeFor, Modes, LoadOrCatchall, Queues

(* What the listener may visit is in queues.                               *)
LEMMA MatchingType ==
  ASSUME QueueTyped, NEW c
  PROVE  Matching(c) \subseteq Queues \X Sockets
<1>1. From(c) \subseteq Queues
  <2>1. \A m \in Modes, v \in Services : queueOf[m][v] \in Queues \cup {NoQueue}
    BY DEF QueueTyped, Queues
  <2>2. QED
    BY <2>1, LookUpType DEF From
<1>2. QED
  BY <1>1 DEF Matching

(* The initial values have their types.                                    *)
LEMMA TypeInit == Init => TypeOK
<1> SUFFICES ASSUME Init PROVE TypeOK
  OBVIOUS
<1>1. DarkTyped
  <2>1. services = {} /\ ips = {} /\ calls = 0 /\ changed = {} /\ gray \in BOOLEAN
    BY DEF Init
  <2>2. listener = Idle /\ call = NoCall
    BY DEF Init
  <2>3. listener \in [phase : Phases, must : SUBSET (Queues \X Sockets),
                                     moved : SUBSET (Queues \X Sockets)]
    BY <2>2 DEF Idle, Phases
  <2>4. call \in [kind : {"none", "service", "ip"}, change : {"none", "added", "revoked"},
                 value : Services \cup Ips \cup {NoName}]
    BY <2>2 DEF NoCall
  <2>5. calls \in 0..MaxCalls
    BY <2>1, BoundsAssumption
  <2>6. QED
    BY <2>1, <2>3, <2>4, <2>5 DEF DarkTyped
<1>2. QueueTyped
  BY DEF Init, QueueTyped, Modes
<1>3. SocketTyped
  BY DEF Init, SocketTyped, Modes, Unnamed
<1>4. RequestTyped
  <2>1. /\ target = [r \in Requests |-> NoName] /\ asked = [r \in Requests |-> "new"]
        /\ askedMode = [r \in Requests |-> "normal"]
        /\ askedQueue = [r \in Requests |-> NoQueue] /\ got = [r \in Requests |-> {}]
    BY DEF Init
  <2>2. QED
    BY <2>1 DEF RequestTyped, Modes
<1>5. DeregTyped
  <2>1. polled = NoQueue /\ deregisters = 0 /\ dropped = {}
    BY DEF Init
  <2>2. QED
    BY <2>1, BoundsAssumption DEF DeregTyped
<1>6. QED
  BY <1>1, <1>2, <1>3, <1>4, <1>5 DEF TypeOK

(* Every step of a socket preserves the types.                             *)
LEMMA TypeSocketStep ==
  ASSUME TypeOK, NEW s \in Sockets,
         \/ \E rt \in Services \cup Unnamed : AddCheck(s, rt)
         \/ AddLoad(s) \/ AddStore(s) \/ RemoveLoads(s) \/ Removes(s) \/ DeregisterPolls(s)
         \/ \E q \in Queues : OfferStores(q, s)
  PROVE  TypeOK'
<1>1. DarkTyped'
  BY DEF TypeOK, DarkTyped, AddCheck, AddLoad, AddStore, RemoveLoads, Removes, DeregisterPolls,
         OfferStores, AddFrame, CloseFrame, DeregisterFrame, darkVars
<1>2. RequestTyped'
  BY DEF TypeOK, RequestTyped, AddCheck, AddLoad, AddStore, RemoveLoads, Removes, DeregisterPolls,
         OfferStores, AddFrame, CloseFrame, DeregisterFrame, requestVars
<1>3. DeregTyped'
  BY DEF TypeOK, DeregTyped, AddCheck, AddLoad, AddStore, RemoveLoads, Removes, DeregisterPolls,
         OfferStores, AddFrame, CloseFrame, DeregisterFrame, deregVars
<1>4. QueueTyped'
  <2> USE LookUpType DEF TypeOK, QueueTyped, OfferTo, queueVars
  <2> mode[s] \in Modes /\ (stage[s] = "missing" => route[s] \in Services)
    BY DEF SocketTyped
  <2>1. CASE AddLoad(s)
    <3>1. UNCHANGED <<queueOf, in, replaced>>
      BY <2>1 DEF AddLoad, AddFrame
    <3>2. offers' = offers \/ offers' = offers \cup {<<LoadOrCatchall(mode[s], route[s]), s>>}
      BY <2>1 DEF AddLoad
    <3>3. LoadOrCatchall(mode[s], route[s]) \in Queues
      OBVIOUS
    <3>4. offers' \subseteq Queues \X Sockets
      BY <3>2, <3>3
    <3>5. QED
      BY <3>1, <3>4
  <2>2. CASE AddStore(s)
    <3>1. /\ queueOf' = [queueOf EXCEPT ![mode[s]][route[s]] = s] /\ UNCHANGED in
          /\ offers' = offers \cup {<<s, s>>} /\ replaced' \subseteq replaced \cup {route[s]}
          /\ route[s] \in Services
      BY <2>2 DEF AddStore, AddFrame
    <3>2. s \in Queues
      BY DEF Queues
    <3>3. offers' \subseteq Queues \X Sockets /\ replaced' \subseteq Services
      BY <3>1, <3>2
    <3>4. queueOf' \in [Modes -> [Services -> Sockets \cup {NoQueue}]]
      BY <3>1
    <3>5. QED
      BY <3>1, <3>3, <3>4
  <2>3. CASE Removes(s)
    BY <2>3 DEF Removes, CloseFrame
  <2>4. CASE DeregisterPolls(s)
    BY <2>4 DEF DeregisterPolls, DeregisterFrame
  <2>5. ASSUME NEW q \in Queues, OfferStores(q, s) PROVE QueueTyped'
    BY <2>5 DEF OfferStores
  <2>6. CASE RemoveLoads(s) \/ \E rt \in Services \cup Unnamed : AddCheck(s, rt)
    BY <2>6 DEF AddCheck, RemoveLoads, CloseFrame
  <2>7. QED
    BY <2>1, <2>2, <2>3, <2>4, <2>5, <2>6
<1>5. SocketTyped'
  <2> USE LookUpType DEF TypeOK, SocketTyped, Advance, socketVars
  <2>1. ASSUME NEW rt \in Services \cup Unnamed, AddCheck(s, rt)
        PROVE  SocketTyped'
    BY <2>1 DEF AddCheck
  <2>2. CASE AddLoad(s)
    BY <2>2 DEF AddLoad, AddFrame
  <2>3. CASE AddStore(s)
    BY <2>3 DEF AddStore, AddFrame
  <2>4. CASE RemoveLoads(s)
    BY <2>4 DEF RemoveLoads, CloseFrame, Queues
  <2>5. CASE Removes(s)
    BY <2>5 DEF Removes, CloseFrame
  <2>6. QED
    BY <2>1, <2>2, <2>3, <2>4, <2>5 DEF DeregisterPolls, DeregisterFrame, OfferStores
<1>6. QED
  BY <1>1, <1>2, <1>3, <1>4, <1>5 DEF TypeOK

(* So does every step of a request and of a deregistration.                *)
LEMMA TypeRequestStep ==
  ASSUME TypeOK,
         \/ \E r \in Requests : \/ \E rt \in Services \cup {NoName} : LookUp(r, rt)
                                \/ PollTimesOut(r) \/ \E s \in Sockets : PollTakes(r, s)
         \/ \E rt \in Services \cup {NoName} : DeregisterSocket(rt)
         \/ DeregisterFindsNone
  PROVE  TypeOK'
<1>1. DarkTyped' /\ SocketTyped'
  BY DEF TypeOK, DarkTyped, SocketTyped, LookUp, PollTimesOut, PollTakes, Take, DeregisterSocket,
         DeregisterFindsNone, RequestFrame, DeregisterFrame, darkVars, socketVars
<1>2. QueueTyped'
  <2>1. UNCHANGED <<queueOf, offers, replaced>>
    BY DEF LookUp, PollTimesOut, PollTakes, Take, DeregisterSocket, DeregisterFindsNone,
           RequestFrame, DeregisterFrame
  <2>2. in' = in \/ \E q \in Queues, s \in Sockets : in' = [in EXCEPT ![q] = @ \ {s}]
    BY DEF LookUp, PollTimesOut, PollTakes, Take, DeregisterSocket, DeregisterFindsNone,
           TypeOK, RequestTyped
  <2>3. QED
    BY <2>1, <2>2 DEF TypeOK, QueueTyped
<1>3. DeregTyped'
  <2>1. ASSUME NEW rt \in Services \cup {NoName}, DeregisterSocket(rt) PROVE DeregTyped'
    <3>1. /\ deregisters < MaxDeregisters /\ deregisters' = deregisters + 1
          /\ polled' = LoadOrCatchall("normal", rt) /\ UNCHANGED dropped
      BY <2>1 DEF DeregisterSocket
    <3>2. deregisters' \in 0..MaxDeregisters
      BY <3>1, BoundsAssumption DEF TypeOK, DeregTyped
    <3>3. polled' \in Queues
      BY <3>1, LookUpType DEF TypeOK
    <3>4. QED
      BY <3>1, <3>2, <3>3 DEF TypeOK, DeregTyped
  <2>2. CASE DeregisterFindsNone
    BY <2>2 DEF TypeOK, DeregTyped, DeregisterFindsNone
  <2>3. ASSUME UNCHANGED deregVars PROVE DeregTyped'
    BY <2>3 DEF TypeOK, DeregTyped, deregVars
  <2>4. QED
    BY <2>1, <2>2, <2>3 DEF LookUp, PollTimesOut, PollTakes, Take, RequestFrame
<1>4. RequestTyped'
  <2> USE LookUpType DEF TypeOK, RequestTyped, requestVars
  <2>1. ASSUME NEW r \in Requests, NEW rt \in Services \cup {NoName}, LookUp(r, rt)
        PROVE  RequestTyped'
    <3>1. PICK m \in Modes : /\ askedMode' = [askedMode EXCEPT ![r] = m]
                             /\ askedQueue' = [askedQueue EXCEPT ![r] = LoadOrCatchall(m, rt)]
      BY <2>1 DEF LookUp
    <3>2. /\ target' = [target EXCEPT ![r] = rt] /\ asked' = [asked EXCEPT ![r] = "polling"]
          /\ UNCHANGED got
      BY <2>1 DEF LookUp
    <3>3. QED
      BY <3>1, <3>2
  <2>2. ASSUME NEW r \in Requests, PollTimesOut(r) PROVE RequestTyped'
    BY <2>2 DEF PollTimesOut
  <2>3. ASSUME NEW r \in Requests, NEW s \in Sockets, PollTakes(r, s) PROVE RequestTyped'
    BY <2>3 DEF PollTakes, Take
  <2>4. QED
    BY <2>1, <2>2, <2>3 DEF DeregisterSocket, DeregisterFindsNone, DeregisterFrame
<1>5. QED
  BY <1>1, <1>2, <1>3, <1>4 DEF TypeOK

(* What the API notifies the listener of has the types.                    *)
LEMMA TypeNotify ==
  ASSUME TypeOK, NEW k \in {"service", "ip"}, NEW c \in {"added", "revoked"},
         NEW v \in Services \cup Ips, Notify(k, c, v)
  PROVE  /\ listener' \in [phase : Phases, must : SUBSET (Queues \X Sockets),
                                          moved : SUBSET (Queues \X Sockets)]
         /\ call' \in [kind : {"none", "service", "ip"}, change : {"none", "added", "revoked"},
                       value : Services \cup Ips \cup {NoName}]
<1>1. Matching([kind |-> k, change |-> c, value |-> v]) \subseteq Queues \X Sockets
  BY MatchingType DEF TypeOK
<1>2. QED
  BY <1>1 DEF Notify, Change, Idle, Phases

(* Every step of the API and of the listener preserves the types.          *)
LEMMA TypeApiStep ==
  ASSUME TypeOK, ApiNext \/ ListenerNext,
         \A q \in Queues, s \in Sockets : Visit(q, s) => To(call, q, s) = q
  PROVE  TypeOK'
<1> USE DEF TypeOK
<1>1. SocketTyped' /\ RequestTyped' /\ DeregTyped'
  BY DEF SocketTyped, RequestTyped, DeregTyped, ApiNext, ListenerNext, AddService, RemoveService,
         AddIp, RemoveIp, PutGray, TurnGrayTestingOff, Visit, RangeEnds, RemoveMoved, Notify,
         ApiFrame, ListenFrame, socketVars, requestVars, deregVars
<1>2. ASSUME NEW v \in Services, AddService(v) \/ RemoveService(v) PROVE TypeOK'
  <2>1. QueueTyped'
    BY <1>2 DEF AddService, RemoveService, Notify, ApiFrame, queueVars, QueueTyped
  <2>2. DarkTyped'
    <3>1. \E c \in {"added", "revoked"} : Notify("service", c, v)
      BY <1>2 DEF AddService, RemoveService
    <3>2. UNCHANGED <<gray, ips>>
      BY <1>2 DEF AddService, RemoveService, Notify
    <3>3. services' \subseteq Services /\ changed' \subseteq Services
      BY <1>2 DEF AddService, RemoveService, DarkTyped
    <3>4. calls' = calls \/ (calls < MaxCalls /\ calls' = calls + 1)
      BY <1>2 DEF AddService, RemoveService
    <3>5. calls' \in 0..MaxCalls
      BY <3>4, BoundsAssumption DEF DarkTyped
    <3>6. QED
      BY <3>1, <3>2, <3>3, <3>5, TypeNotify DEF DarkTyped
  <2>3. QED
    BY <1>1, <2>1, <2>2
<1>3. ASSUME NEW v \in Ips, AddIp(v) \/ RemoveIp(v) PROVE TypeOK'
  <2>1. QueueTyped'
    BY <1>3 DEF AddIp, RemoveIp, Notify, ApiFrame, queueVars, QueueTyped
  <2>2. DarkTyped'
    <3>1. \E c \in {"added", "revoked"} : Notify("ip", c, v)
      BY <1>3 DEF AddIp, RemoveIp
    <3>2. UNCHANGED <<gray, services, changed>>
      BY <1>3 DEF AddIp, RemoveIp, Notify
    <3>3. ips' \subseteq Ips
      BY <1>3 DEF AddIp, RemoveIp, DarkTyped
    <3>4. calls' = calls \/ (calls < MaxCalls /\ calls' = calls + 1)
      BY <1>3 DEF AddIp, RemoveIp
    <3>5. calls' \in 0..MaxCalls
      BY <3>4, BoundsAssumption DEF DarkTyped
    <3>6. QED
      BY <3>1, <3>2, <3>3, <3>5, TypeNotify DEF DarkTyped
  <2>3. QED
    BY <1>1, <2>1, <2>2
<1>4. ASSUME NEW on \in BOOLEAN, PutGray(on) PROVE TypeOK'
  BY <1>1, <1>4 DEF PutGray, ApiFrame, queueVars, QueueTyped, DarkTyped
<1>5. CASE TurnGrayTestingOff
  BY <1>1, <1>5, MatchingType DEF TurnGrayTestingOff, ListenFrame, Phases, QueueTyped, DarkTyped
<1>6. CASE RangeEnds
  BY <1>1, <1>6 DEF RangeEnds, ListenFrame, Phases, Idle, QueueTyped, DarkTyped
<1>7. ASSUME NEW q \in Queues, NEW s \in Sockets, RemoveMoved(q, s) PROVE TypeOK'
  BY <1>1, <1>7 DEF RemoveMoved, ListenFrame, Phases, Idle, QueueTyped, DarkTyped
<1>8. ASSUME NEW q \in Queues, NEW s \in Sockets, Visit(q, s) PROVE TypeOK'
  BY <1>1, <1>8 DEF Visit, OfferTo, ListenFrame, QueueTyped, DarkTyped
<1>9. QED
  BY <1>2, <1>3, <1>4, <1>5, <1>6, <1>7, <1>8 DEF ApiNext, ListenerNext

-----------------------------------------------------------------------------
(* Where sockets are.  A socket of a named route is only ever in a queue   *)
(* that the registration of a socket of this route and mode created, and   *)
(* one of no named route in the catchall of its mode.                      *)

Started(s)   == stage[s] \notin {"new", "checked", "missing"}
Placed(q, s) == s \in in[q] \/ <<q, s>> \in offers

\* q is a queue for the route rt in mode m
QueueFor(q, rt, m) ==
    IF q \in Catchalls THEN rt \in Unnamed /\ q = Catchall(m)
                       ELSE q \in Sockets /\ Started(q) /\ route[q] = rt /\ mode[q] = m

QueueInv == \A m \in Modes, v \in Services : queueOf[m][v] # NoQueue => QueueFor(queueOf[m][v], v, m)
PlaceInv == \A q \in Queues, s \in Sockets :
                Placed(q, s) => Started(s) /\ QueueFor(q, route[s], mode[s])

\* the call the listener works on
CallInv ==
    listener.phase # "idle" =>
        \/ call.kind = "service" /\ call.value \in changed
        \/ call.kind = "ip" /\ call.value \in Ips

\* where a request looks, and what it got
AskedInv == \A r \in Requests : asked[r] = "polling" =>
                \/ askedQueue[r] = Catchall(askedMode[r])
                \/ QueueFor(askedQueue[r], target[r], askedMode[r])
GotInv   == \A r \in Requests : \A s \in got[r] :
                /\ asked[r] = "served" /\ Started(s) /\ mode[s] = askedMode[r]
                /\ route[s] \in {target[r]} \cup Unnamed

FarmInv == QueueInv /\ PlaceInv /\ CallInv /\ AskedInv /\ GotInv

(* The listener never moves a socket: no socket has an address it compares *)
(* with, none in a catchall has the name of a service, and one that is in  *)
(* the queue of a service that was revoked is offered to this very queue.  *)
LEMMA VisitStays ==
  ASSUME TypeOK, FarmInv, NEW q \in Queues, NEW s \in Sockets, Visit(q, s)
  PROVE  To(call, q, s) = q /\ s \in in[q] /\ route[s] \in changed
<1>1. /\ q \in From(call) /\ s \in in[q] /\ Matches(call, q, s)
      /\ \/ call.kind = "service" /\ call.value \in changed
         \/ call.kind = "ip" /\ call.value \in Ips
  <2>1. listener.phase = "range" /\ <<q, s>> \in Matching(call)
    BY DEF Visit
  <2>2. q \in From(call) /\ s \in in[q] /\ Matches(call, q, s)
    BY <2>1 DEF Matching
  <2>3. QED
    BY <2>1, <2>2 DEF FarmInv, CallInv
<1>2. Started(s) /\ QueueFor(q, route[s], mode[s])
  BY <1>1 DEF FarmInv, PlaceInv, Placed
<1>3. changed \subseteq Services
  BY DEF TypeOK, DarkTyped
<1>4. call.kind = "service" /\ call.value \in changed /\ route[s] = call.value
      /\ (call.change = "revoked" \/ q \in Catchalls)
  BY <1>1, <1>3, AddressAssumption DEF Matches
<1>5. q \notin Catchalls /\ call.change = "revoked"
  BY <1>2, <1>3, <1>4, NamesAssumption DEF QueueFor
<1>6. PICK v \in Services : q = queueOf["dark"][v] /\ q # NoQueue
  BY <1>1, <1>5 DEF From, Catchall, Catchalls
<1>7. QueueFor(q, v, "dark")
  BY <1>6 DEF FarmInv, QueueInv, Modes
<1>8. v = route[s]
  BY <1>2, <1>5, <1>7 DEF QueueFor
<1>9. QED
  BY <1>1, <1>3, <1>4, <1>5, <1>6, <1>8 DEF To, Load

(* Every step preserves the types.                                         *)
LEMMA TypeStep ==
  ASSUME TypeOK, FarmInv, [Next]_vars
  PROVE  TypeOK'
<1>1. CASE UNCHANGED vars
  BY <1>1 DEF vars, TypeOK, DarkTyped, QueueTyped, SocketTyped, RequestTyped, DeregTyped
<1>2. CASE ApiNext \/ ListenerNext
  BY <1>2, VisitStays, TypeApiStep
<1>3. QED
  BY <1>1, <1>2, TypeSocketStep, TypeRequestStep DEF Next

(* A socket that has registered keeps its route and its mode.              *)
LEMMA StartedStays ==
  ASSUME TypeOK, [Next]_vars, NEW s \in Sockets, Started(s)
  PROVE  Started(s)' /\ route'[s] = route[s] /\ mode'[s] = mode[s]
<1> USE DEF Started
<1>1. ASSUME UNCHANGED <<route, stage, mode>> PROVE Started(s)' /\ route'[s] = route[s] /\ mode'[s] = mode[s]
  BY <1>1
<1>2. ASSUME NEW x \in Sockets, NEW rt \in Services \cup Unnamed, AddCheck(x, rt)
      PROVE  Started(s)' /\ route'[s] = route[s] /\ mode'[s] = mode[s]
  BY <1>2 DEF AddCheck, Advance, TypeOK, SocketTyped
<1>3. ASSUME NEW x \in Sockets, AddLoad(x) \/ AddStore(x) \/ RemoveLoads(x) \/ Removes(x)
      PROVE  Started(s)' /\ route'[s] = route[s] /\ mode'[s] = mode[s]
  BY <1>3 DEF AddLoad, AddStore, RemoveLoads, Removes, Advance, AddFrame, CloseFrame,
              TypeOK, SocketTyped
<1>4. CASE UNCHANGED vars
  BY <1>1, <1>4 DEF vars
<1>5. CASE ApiNext \/ ListenerNext
  BY <1>1, <1>5 DEF ApiNext, ListenerNext, AddService, RemoveService, AddIp, RemoveIp, PutGray,
     TurnGrayTestingOff, Visit, RangeEnds, RemoveMoved, Notify, ApiFrame, ListenFrame, socketVars
<1>6. QED
  BY <1>1, <1>2, <1>3, <1>4, <1>5 DEF Next, DeregisterPolls, OfferStores, LookUp, PollTimesOut,
     PollTakes, Take, DeregisterSocket, DeregisterFindsNone, RequestFrame, DeregisterFrame, socketVars

(* So a queue that is right for a route and a mode stays right for them.   *)
LEMMA QueueForStays ==
  ASSUME TypeOK, [Next]_vars, NEW q, NEW rt, NEW m, QueueFor(q, rt, m)
  PROVE  QueueFor(q, rt, m)'
  BY StartedStays DEF QueueFor

(* The initial states satisfy the invariant.                               *)
LEMMA FarmInit == Init => FarmInv
<1> SUFFICES ASSUME Init PROVE FarmInv
  OBVIOUS
<1>1. QueueInv
  BY DEF Init, QueueInv
<1>2. PlaceInv
  BY DEF Init, PlaceInv, Placed
<1>3. CallInv
  <2>1. listener = Idle
    BY DEF Init
  <2>2. QED
    BY <2>1 DEF CallInv, Idle
<1>4. AskedInv /\ GotInv
  BY DEF Init, AskedInv, GotInv
<1>5. QED
  BY <1>1, <1>2, <1>3, <1>4 DEF FarmInv

(* What a lookup finds is right.                                           *)
LEMMA LookUpFinds ==
  ASSUME TypeOK, QueueInv, NEW m \in Modes, NEW rt \in Services \cup Unnamed
  PROVE  /\ Load(m, rt) # NoQueue => QueueFor(Load(m, rt), rt, m)
         /\ LoadOrCatchall(m, rt) = Catchall(m) \/ QueueFor(LoadOrCatchall(m, rt), rt, m)
         /\ rt \in Unnamed => Load(m, rt) = NoQueue
  BY NamesAssumption DEF Load, LoadOrCatchall, QueueInv

(* Only AddStore stores a queue.                                           *)
LEMMA QueueStep ==
  ASSUME TypeOK, TypeOK', QueueInv, [Next]_vars
  PROVE  QueueInv'
<1>1. ASSUME UNCHANGED queueOf PROVE QueueInv'
  BY <1>1, QueueForStays DEF QueueInv
<1>2. ASSUME NEW s \in Sockets, AddStore(s) PROVE QueueInv'
  <2>1. /\ queueOf' = [queueOf EXCEPT ![mode[s]][route[s]] = s]
        /\ stage' = [stage EXCEPT ![s] = "registered"] /\ UNCHANGED <<route, mode>>
        /\ mode[s] \in Modes /\ route[s] \in Services
    BY <1>2 DEF AddStore, Advance, AddFrame, TypeOK, SocketTyped
  <2>2. QueueFor(s, route[s], mode[s])'
    BY <2>1, QueuesAssumption DEF QueueFor, Started, TypeOK, SocketTyped
  <2>3. ASSUME NEW m \in Modes, NEW v \in Services, queueOf'[m][v] # NoQueue
        PROVE  QueueFor(queueOf[m][v], v, m)'
    <3>1. queueOf \in [Modes -> [Services -> Sockets \cup {NoQueue}]]
      BY DEF TypeOK, QueueTyped
    <3>2. queueOf'[m][v] = IF m = mode[s] /\ v = route[s] THEN s ELSE queueOf[m][v]
      BY <2>1, <3>1
    <3>3. CASE m = mode[s] /\ v = route[s]
      <4>1. queueOf'[m][v] = s /\ route'[s] = v /\ mode'[s] = m
        BY <2>1, <3>2, <3>3
      <4>2. QED
        BY <2>2, <4>1
    <3>4. CASE ~(m = mode[s] /\ v = route[s])
      <4>1. queueOf'[m][v] = queueOf[m][v]
        BY <3>2, <3>4
      <4>2. PICK q : q = queueOf[m][v]
        OBVIOUS
      <4>3. QueueFor(q, v, m)
        BY <2>3, <4>1, <4>2 DEF QueueInv
      <4>4. QueueFor(q, v, m)'
        BY <4>3, QueueForStays
      <4>5. QED
        BY <4>1, <4>2, <4>4
    <3>5. QED
      BY <3>3, <3>4
  <2>4. QED
    BY <2>3 DEF QueueInv
<1>3. CASE UNCHANGED vars
  BY <1>1, <1>3 DEF vars
<1>4. CASE ApiNext \/ ListenerNext
  BY <1>1, <1>4 DEF ApiNext, ListenerNext, AddService, RemoveService, AddIp, RemoveIp, PutGray,
     TurnGrayTestingOff, Visit, RangeEnds, RemoveMoved, Notify, ApiFrame, ListenFrame, queueVars
<1>5. QED
  BY <1>1, <1>2, <1>3, <1>4 DEF Next, AddCheck, AddLoad, RemoveLoads, Removes, DeregisterPolls,
     OfferStores, LookUp, PollTimesOut, PollTakes, Take, DeregisterSocket, DeregisterFindsNone,
     AddFrame, CloseFrame, RequestFrame, DeregisterFrame, queueVars

(* A step that puts no socket anywhere else leaves all where they belong.  *)
LEMMA PlaceFrame ==
  ASSUME TypeOK, PlaceInv, [Next]_vars,
         \A q \in Queues, s \in Sockets : Placed(q, s)' => Placed(q, s)
  PROVE  PlaceInv'
  BY StartedStays, QueueForStays DEF PlaceInv, TypeOK, SocketTyped

(* A socket that registers is offered to a queue that is right for it.     *)
LEMMA PlaceNew ==
  ASSUME TypeOK, PlaceInv, [Next]_vars, NEW q \in Queues, NEW s \in Sockets,
         Started(s)', QueueFor(q, route[s], mode[s])', UNCHANGED <<in, route, mode>>,
         offers' = offers \cup {<<q, s>>}
  PROVE  PlaceInv'
  BY StartedStays, QueueForStays DEF PlaceInv, Placed, TypeOK, SocketTyped, QueueTyped

(* Every step keeps the sockets where they belong.                         *)
LEMMA PlaceStep ==
  ASSUME TypeOK, FarmInv, [Next]_vars
  PROVE  PlaceInv'
<1> USE DEF FarmInv
<1>1. ASSUME NEW s \in Sockets, AddLoad(s) PROVE PlaceInv'
  <2>1. CASE stage'[s] = "missing"
    BY <1>1, <2>1, PlaceFrame DEF AddLoad, AddFrame, Advance, Placed, TypeOK, SocketTyped
  <2>2. CASE stage'[s] # "missing"
    <3> PICK q, rt, m : q = LoadOrCatchall(m, rt) /\ rt = route[s] /\ m = mode[s]
      OBVIOUS
    <3>1. /\ offers' = offers \cup {<<q, s>>} /\ UNCHANGED <<in, route, mode>> /\ Started(s)'
          /\ route[s] \in Unnamed \/ Load(mode[s], route[s]) # NoQueue
          /\ mode[s] \in Modes /\ route[s] \in Services \cup Unnamed
      BY <1>1, <2>2 DEF AddLoad, AddFrame, Advance, OfferTo, Started, TypeOK, SocketTyped
    <3>2. q \in Queues
      BY <3>1, LookUpType DEF TypeOK
    <3>3. QueueFor(q, rt, m)
      BY <3>1, LookUpFinds DEF LoadOrCatchall, QueueFor, Catchall, Catchalls
    <3>4. QueueFor(q, rt, m)'
      BY <3>3, QueueForStays
    <3>5. route'[s] = rt /\ mode'[s] = m
      BY <3>1
    <3>6. QueueFor(q, route[s], mode[s])'
      BY <3>4, <3>5
    <3>7. QED
      BY <3>1, <3>2, <3>6, PlaceNew
  <2>3. QED
    BY <2>1, <2>2
<1>2. ASSUME NEW s \in Sockets, AddStore(s) PROVE PlaceInv'
  <2>1. /\ offers' = offers \cup {<<s, s>>} /\ UNCHANGED <<in, route, mode>> /\ Started(s)'
    BY <1>2 DEF AddStore, AddFrame, Advance, OfferTo, Started, TypeOK, SocketTyped
  <2>2. QueueFor(s, route[s], mode[s])' /\ s \in Queues
    BY <2>1, QueuesAssumption DEF QueueFor, Queues
  <2>3. QED
    BY <2>1, <2>2, PlaceNew
<1>3. ASSUME NEW q \in Queues, NEW s \in Sockets, Visit(q, s) PROVE PlaceInv'
  BY <1>3, VisitStays, PlaceFrame DEF Visit, OfferTo, ListenFrame, Placed
<1>4. ASSUME NEW q \in Queues, NEW s \in Sockets, OfferStores(q, s) PROVE PlaceInv'
  BY <1>4, PlaceFrame DEF OfferStores, Placed, TypeOK, QueueTyped
<1>5. ASSUME NEW q \in Queues, NEW s \in Sockets, RemoveMoved(q, s) PROVE PlaceInv'
  BY <1>5, PlaceFrame DEF RemoveMoved, ListenFrame, Placed, TypeOK, QueueTyped
<1>6. ASSUME NEW s \in Sockets, Removes(s) \/ DeregisterPolls(s) PROVE PlaceInv'
  BY <1>6, PlaceFrame DEF Removes, DeregisterPolls, CloseFrame, DeregisterFrame, Placed,
     TypeOK, QueueTyped
<1>7. ASSUME NEW r \in Requests, NEW s \in Sockets, PollTakes(r, s) PROVE PlaceInv'
  BY <1>7, PlaceFrame DEF PollTakes, Take, RequestFrame, Placed, TypeOK, QueueTyped, RequestTyped
<1>8. ASSUME UNCHANGED <<in, offers>> PROVE PlaceInv'
  BY <1>8, PlaceFrame DEF Placed
<1>9. CASE UNCHANGED vars
  BY <1>8, <1>9 DEF vars
<1>10. CASE ApiNext \/ TurnGrayTestingOff \/ RangeEnds
  BY <1>8, <1>10 DEF ApiNext, AddService, RemoveService, AddIp, RemoveIp, PutGray,
     TurnGrayTestingOff, RangeEnds, Notify, ApiFrame, ListenFrame, queueVars
<1>11. QED
  BY <1>1, <1>2, <1>3, <1>4, <1>5, <1>6, <1>7, <1>8, <1>9, <1>10
     DEF Next, ListenerNext, AddCheck, RemoveLoads, LookUp, PollTimesOut, DeregisterSocket,
     DeregisterFindsNone, CloseFrame, RequestFrame, DeregisterFrame, queueVars

(* The listener works on the last call of the API, until it is idle.       *)
LEMMA CallStep ==
  ASSUME TypeOK, CallInv, [Next]_vars
  PROVE  CallInv'
<1> USE DEF CallInv
<1>1. ASSUME NEW v \in Services, AddService(v) \/ RemoveService(v) PROVE CallInv'
  BY <1>1 DEF AddService, RemoveService, Notify, Change
<1>2. ASSUME NEW v \in Ips, AddIp(v) \/ RemoveIp(v) PROVE CallInv'
  BY <1>2 DEF AddIp, RemoveIp, Notify, Change
<1>3. ASSUME UNCHANGED <<call, changed>>, listener'.phase # "idle" => listener.phase # "idle"
      PROVE  CallInv'
  BY <1>3
<1>4. CASE TurnGrayTestingOff \/ RangeEnds
  BY <1>4, <1>3 DEF TurnGrayTestingOff, RangeEnds, ListenFrame, Idle
<1>5. ASSUME NEW q \in Queues, NEW s \in Sockets, Visit(q, s) \/ RemoveMoved(q, s)
      PROVE  CallInv'
  BY <1>5, <1>3 DEF Visit, RemoveMoved, ListenFrame, Idle
<1>6. ASSUME UNCHANGED <<call, changed, listener>> PROVE CallInv'
  BY <1>6
<1>7. ASSUME NEW on \in BOOLEAN, PutGray(on) PROVE CallInv'
  BY <1>6, <1>7 DEF PutGray
<1>8. CASE UNCHANGED vars
  BY <1>6, <1>8 DEF vars
<1>9. QED
  BY <1>1, <1>2, <1>4, <1>5, <1>6, <1>7, <1>8
     DEF Next, ApiNext, ListenerNext, AddCheck, AddLoad, AddStore, RemoveLoads, Removes,
         DeregisterPolls, OfferStores, LookUp, PollTimesOut, PollTakes, Take, DeregisterSocket,
         DeregisterFindsNone, AddFrame, CloseFrame, RequestFrame, DeregisterFrame, darkVars

(* The steps that are not of a request leave it alone.                     *)
LEMMA RequestAside ==
  ASSUME [Next]_vars
  PROVE  \/ UNCHANGED requestVars
         \/ \E r \in Requests : \/ \E rt \in Services \cup {NoName} : LookUp(r, rt)
                                \/ PollTimesOut(r) \/ \E s \in Sockets : PollTakes(r, s)
<1>1. CASE ApiNext \/ ListenerNext
  BY <1>1 DEF ApiNext, ListenerNext, AddService, RemoveService, AddIp, RemoveIp, PutGray,
     TurnGrayTestingOff, Visit, RangeEnds, RemoveMoved, Notify, ApiFrame, ListenFrame
<1>2. CASE UNCHANGED vars
  BY <1>2 DEF vars, requestVars
<1>3. QED
  BY <1>1, <1>2 DEF Next, AddCheck, AddLoad, AddStore, RemoveLoads, Removes, DeregisterPolls,
     OfferStores, DeregisterSocket, DeregisterFindsNone, AddFrame, CloseFrame, DeregisterFrame

(* A request polls a queue that is right for it, and gets what is in it.   *)
LEMMA RequestStep ==
  ASSUME TypeOK, FarmInv, [Next]_vars
  PROVE  AskedInv' /\ GotInv'
<1>1. ASSUME NEW x \in Requests, askedQueue'[x] = askedQueue[x], target'[x] = target[x],
             askedMode'[x] = askedMode[x], asked[x] = "polling"
      PROVE  \/ askedQueue'[x] = Catchall(askedMode'[x])
             \/ QueueFor(askedQueue[x], target[x], askedMode[x])'
  <2>1. PICK q, rt, m : q = askedQueue[x] /\ rt = target[x] /\ m = askedMode[x]
    OBVIOUS
  <2>2. q = Catchall(m) \/ QueueFor(q, rt, m)
    BY <1>1, <2>1 DEF FarmInv, AskedInv
  <2>3. q = Catchall(m) \/ QueueFor(q, rt, m)'
    BY <2>2, QueueForStays
  <2>4. QED
    BY <1>1, <2>1, <2>3
<1>2. ASSUME NEW x \in Requests, got'[x] = got[x], target'[x] = target[x], asked'[x] = asked[x],
             askedMode'[x] = askedMode[x], NEW s \in got'[x]
      PROVE  /\ asked'[x] = "served" /\ Started(s)' /\ mode'[s] = askedMode'[x]
             /\ route'[s] \in {target'[x]} \cup Unnamed
  BY <1>2, StartedStays DEF FarmInv, GotInv, TypeOK, RequestTyped
<1>3. CASE UNCHANGED requestVars
  BY <1>1, <1>2, <1>3 DEF requestVars, AskedInv, GotInv
<1>4. ASSUME NEW r \in Requests, NEW rt \in Services \cup {NoName}, LookUp(r, rt)
      PROVE  AskedInv' /\ GotInv'
  <2>1. PICK m \in Modes, q \in Queues :
           /\ q = LoadOrCatchall(m, rt)
           /\ askedMode' = [askedMode EXCEPT ![r] = m]
           /\ askedQueue' = [askedQueue EXCEPT ![r] = q]
    BY <1>4, LookUpType DEF LookUp, TypeOK
  <2>2. /\ asked[r] = "new" /\ asked' = [asked EXCEPT ![r] = "polling"]
        /\ target' = [target EXCEPT ![r] = rt] /\ UNCHANGED got
    BY <1>4 DEF LookUp
  <2>3. q = Catchall(m) \/ QueueFor(q, rt, m)
    BY <2>1, LookUpFinds DEF FarmInv, Unnamed
  <2>4. q = Catchall(m) \/ QueueFor(q, rt, m)'
    BY <2>3, QueueForStays
  <2>5. askedQueue'[r] = q /\ askedMode'[r] = m /\ target'[r] = rt
    BY <2>1, <2>2 DEF TypeOK, RequestTyped
  <2>6. askedQueue'[r] = Catchall(askedMode'[r]) \/ QueueFor(askedQueue[r], target[r], askedMode[r])'
    BY <2>4, <2>5
  <2>7. \A x \in Requests \ {r} :
           /\ askedQueue'[x] = askedQueue[x] /\ target'[x] = target[x] /\ asked'[x] = asked[x]
           /\ askedMode'[x] = askedMode[x] /\ got'[x] = got[x]
    BY <2>1, <2>2 DEF TypeOK, RequestTyped
  <2>8. got'[r] = {}
    BY <2>2 DEF FarmInv, GotInv
  <2>9. AskedInv'
    BY <1>1, <2>6, <2>7 DEF AskedInv
  <2>10. GotInv'
    BY <1>2, <2>7, <2>8 DEF GotInv
  <2>11. QED
    BY <2>9, <2>10
<1>5. ASSUME NEW r \in Requests, PollTimesOut(r)
      PROVE  AskedInv' /\ GotInv'
  <2>1. \A x \in Requests \ {r} :
           /\ askedQueue'[x] = askedQueue[x] /\ target'[x] = target[x] /\ asked'[x] = asked[x]
           /\ askedMode'[x] = askedMode[x] /\ got'[x] = got[x]
    BY <1>5 DEF PollTimesOut, TypeOK, RequestTyped
  <2>2. asked'[r] = "new" /\ got'[r] = {}
    BY <1>5 DEF PollTimesOut, FarmInv, GotInv, TypeOK, RequestTyped
  <2>3. AskedInv'
    BY <1>1, <2>1, <2>2 DEF AskedInv
  <2>4. GotInv'
    BY <1>2, <2>1, <2>2 DEF GotInv
  <2>5. QED
    BY <2>3, <2>4
<1>6. ASSUME NEW r \in Requests, NEW s \in Sockets, PollTakes(r, s)
      PROVE  AskedInv' /\ GotInv'
  <2>1. \A x \in Requests \ {r} :
           /\ askedQueue'[x] = askedQueue[x] /\ target'[x] = target[x] /\ asked'[x] = asked[x]
           /\ askedMode'[x] = askedMode[x] /\ got'[x] = got[x]
    BY <1>6 DEF PollTakes, Take, TypeOK, RequestTyped
  <2>2. /\ asked[r] = "polling" /\ asked'[r] = "served" /\ got'[r] = {s}
        /\ UNCHANGED <<target, askedMode, route, mode, stage>>
    BY <1>6 DEF PollTakes, Take, RequestFrame, socketVars, TypeOK, RequestTyped
  <2>3. PICK q \in Queues : q = askedQueue[r] /\ s \in in[q]
    BY <1>6, <2>2 DEF PollTakes, Take, TypeOK, RequestTyped
  <2>4. Started(s) /\ QueueFor(q, route[s], mode[s])
    BY <2>3 DEF FarmInv, PlaceInv, Placed
  <2>5. q = Catchall(askedMode[r]) \/ QueueFor(q, target[r], askedMode[r])
    BY <2>2, <2>3 DEF FarmInv, AskedInv
  <2>6. mode[s] \in Modes /\ askedMode[r] \in Modes
    BY DEF TypeOK, SocketTyped, RequestTyped
  <2>7. mode[s] = askedMode[r] /\ route[s] \in {target[r]} \cup Unnamed
    BY <2>4, <2>5, <2>6 DEF QueueFor, Catchall, Catchalls, Modes
  <2>8. AskedInv'
    BY <1>1, <2>1, <2>2 DEF AskedInv
  <2>9. GotInv'
    BY <1>2, <2>1, <2>2, <2>4, <2>7 DEF GotInv, Started
  <2>10. QED
    BY <2>8, <2>9
<1>7. QED
  BY <1>3, <1>4, <1>5, <1>6, RequestAside

(* The types and the invariant are inductive together.                     *)
LEMMA FarmStep == TypeOK /\ FarmInv /\ [Next]_vars => (TypeOK /\ FarmInv)'
<1> SUFFICES ASSUME TypeOK, FarmInv, [Next]_vars PROVE (TypeOK /\ FarmInv)'
  OBVIOUS
<1>1. TypeOK'
  BY TypeStep
<1>2. QED
  BY <1>1, QueueStep, PlaceStep, CallStep, RequestStep DEF FarmInv

(* The type invariant of queues, sockets, requests and the dark launch.    *)
THEOREM TypeCorrect == Spec => []TypeOK
  BY TypeInit, FarmInit, FarmStep, PTL DEF Spec

(* Whatever sockets register, end and are moved while a request waits, it  *)
(* is given a socket of its own route or one of a catchall.                *)
THEOREM RightSocketGiven == Spec => []RightSocket
<1>1. FarmInv => RightSocket
  BY DEF FarmInv, GotInv, RightSocket
<1>2. QED
  BY <1>1, TypeInit, FarmInit, FarmStep, PTL DEF Spec

(* Gray tests and other requests never get each other's sockets, however   *)
(* the lists and the toggle change meanwhile.                              *)
THEOREM DarkAndNormalApart == Spec => []DarkIsolated
<1>1. FarmInv => DarkIsolated
  BY DEF FarmInv, GotInv, DarkIsolated
<1>2. QED
  BY <1>1, TypeInit, FarmInit, FarmStep, PTL DEF Spec

-----------------------------------------------------------------------------
(* AcquiredOnce.  A socket is in one place: offered to one queue, in one   *)
(* queue, or taken by one request.                                         *)

InOnePlace(s) ==
    /\ \A q1, q2 \in Queues : Placed(q1, s) /\ Placed(q2, s) => q1 = q2
    /\ \A q \in Queues : ~(s \in in[q] /\ <<q, s>> \in offers)
    /\ \A r \in Requests : s \in got[r] =>
          /\ \A q \in Queues : ~Placed(q, s)
          /\ \A r2 \in Requests : s \in got[r2] => r2 = r

OnceInv == \A s \in Sockets : route[s] \notin changed => InOnePlace(s)

(* The place of a socket is its own business, and it may leave it.         *)
LEMMA OnceFrame ==
  ASSUME TypeOK, FarmInv, OnceInv, [Next]_vars, NEW s \in Sockets,
         \A q \in Queues : /\ s \in in'[q] => s \in in[q]
                           /\ <<q, s>> \in offers' => <<q, s>> \in offers,
         \A r \in Requests : s \in got'[r] => s \in got[r],
         route'[s] \notin changed', changed \subseteq changed'
  PROVE  InOnePlace(s)'
<1>1. CASE Started(s)
  <2>1. InOnePlace(s)
    BY <1>1, StartedStays DEF OnceInv
  <2>2. QED
    BY <2>1 DEF InOnePlace, Placed
<1>2. CASE ~Started(s)
  <2>1. \A q \in Queues : ~Placed(q, s)
    BY <1>2 DEF FarmInv, PlaceInv
  <2>2. \A r \in Requests : s \notin got[r]
    BY <1>2 DEF FarmInv, GotInv
  <2>3. QED
    BY <2>1, <2>2 DEF InOnePlace, Placed
<1>3. QED
  BY <1>1, <1>2

(* A socket that registers is offered to one queue.                        *)
LEMMA OnceNew ==
  ASSUME TypeOK, FarmInv, NEW q \in Queues, NEW s \in Sockets, ~Started(s),
         offers' = offers \cup {<<q, s>>}, UNCHANGED <<in, got>>
  PROVE  InOnePlace(s)'
<1>1. \A x \in Queues : s \notin in[x] /\ <<x, s>> \notin offers
  BY DEF FarmInv, PlaceInv, Placed
<1>2. \A r \in Requests : s \notin got[r]
  BY DEF FarmInv, GotInv
<1>3. \A x \in Queues : s \notin in'[x] /\ (<<x, s>> \in offers' => x = q)
  BY <1>1
<1>4. QED
  BY <1>2, <1>3 DEF InOnePlace, Placed

(* A service that was once added or removed remains known.                 *)
LEMMA ChangedGrows == [Next]_vars => changed \subseteq changed'
<1> SUFFICES ASSUME [Next]_vars PROVE changed \subseteq changed'
  OBVIOUS
<1>1. CASE UNCHANGED vars
  BY <1>1 DEF vars
<1>2. CASE ApiNext \/ ListenerNext
  BY <1>2 DEF ApiNext, ListenerNext, AddService, RemoveService, AddIp, RemoveIp, PutGray,
     TurnGrayTestingOff, Visit, RangeEnds, RemoveMoved, ListenFrame
<1>3. QED
  BY <1>1, <1>2 DEF Next, AddCheck, AddLoad, AddStore, RemoveLoads, Removes, DeregisterPolls,
     OfferStores, LookUp, PollTimesOut, PollTakes, Take, DeregisterSocket, DeregisterFindsNone,
     AddFrame, CloseFrame, RequestFrame, DeregisterFrame, darkVars

(* Every step keeps a socket in one place.                                 *)
LEMMA OnceStep ==
  ASSUME TypeOK, FarmInv, OnceInv, [Next]_vars
  PROVE  OnceInv'
<1>1. ASSUME NEW x \in Sockets, AddLoad(x) PROVE OnceInv'
  <2>1. PICK q \in Queues : q = LoadOrCatchall(mode[x], route[x])
    BY LookUpType DEF TypeOK, SocketTyped
  <2>2. /\ UNCHANGED <<in, got>> /\ ~Started(x)
        /\ offers' = offers \/ offers' = offers \cup {<<q, x>>}
    BY <1>1, <2>1 DEF AddLoad, AddFrame, OfferTo, Started, requestVars
  <2>3. QED
    BY <2>2, OnceFrame, OnceNew, ChangedGrows DEF OnceInv
<1>2. ASSUME NEW x \in Sockets, AddStore(x) PROVE OnceInv'
  <2>1. /\ UNCHANGED <<in, got>> /\ ~Started(x) /\ x \in Queues
        /\ offers' = offers \cup {<<x, x>>}
    BY <1>2 DEF AddStore, AddFrame, OfferTo, Started, requestVars, Queues
  <2>2. QED
    BY <2>1, OnceFrame, OnceNew, ChangedGrows DEF OnceInv
<1>3. ASSUME NEW q \in Queues, NEW x \in Sockets, Visit(q, x) PROVE OnceInv'
  <2>1. /\ offers' = offers \cup {<<q, x>>} /\ UNCHANGED <<in, got, route, changed>>
        /\ route[x] \in changed
    BY <1>3, VisitStays DEF Visit, OfferTo, ListenFrame, requestVars, socketVars
  <2>2. QED
    BY <2>1, OnceFrame DEF OnceInv
<1>4. ASSUME NEW q \in Queues, NEW x \in Sockets, OfferStores(q, x) PROVE OnceInv'
  <2>1. /\ offers' = offers \ {<<q, x>>} /\ <<q, x>> \in offers /\ UNCHANGED <<got, route, changed>>
        /\ in' = [in EXCEPT ![q] = @ \cup {x}] /\ in \in [Queues -> SUBSET Sockets]
    BY <1>4 DEF OfferStores, requestVars, socketVars, darkVars, TypeOK, QueueTyped
  <2>2. ASSUME route[x] \notin changed PROVE InOnePlace(x)'
    <3>1. InOnePlace(x)
      BY <2>2 DEF OnceInv
    <3>2. \A y \in Queues : y # q => x \notin in[y] /\ <<y, x>> \notin offers
      BY <2>1, <3>1 DEF InOnePlace, Placed
    <3>3. \A r \in Requests : x \notin got[r]
      BY <2>1, <3>1 DEF InOnePlace, Placed
    <3>4. \A y \in Queues : <<y, x>> \notin offers' /\ (x \in in'[y] => y = q)
      BY <2>1, <3>2
    <3>5. QED
      BY <2>1, <3>3, <3>4 DEF InOnePlace, Placed
  <2>3. QED
    BY <2>1, <2>2, OnceFrame DEF OnceInv
<1>5. ASSUME NEW r \in Requests, NEW x \in Sockets, PollTakes(r, x) PROVE OnceInv'
  <2>1. PICK q \in Queues : q = askedQueue[r] /\ x \in in[q]
    BY <1>5 DEF PollTakes, Take, TypeOK, RequestTyped
  <2>2. /\ in' = [in EXCEPT ![q] = @ \ {x}] /\ got' = [got EXCEPT ![r] = {x}]
        /\ UNCHANGED <<offers, route, changed>> /\ in \in [Queues -> SUBSET Sockets]
        /\ got \in [Requests -> SUBSET Sockets]
    BY <1>5, <2>1 DEF PollTakes, Take, RequestFrame, socketVars, darkVars, TypeOK, QueueTyped,
                      RequestTyped
  <2>3. ASSUME route[x] \notin changed PROVE InOnePlace(x)'
    <3>1. InOnePlace(x)
      BY <2>3 DEF OnceInv
    <3>2. \A y \in Queues : <<y, x>> \notin offers /\ (x \in in[y] => y = q)
      BY <2>1, <3>1 DEF InOnePlace, Placed
    <3>3. \A y \in Requests : x \notin got[y]
      BY <2>1, <3>1 DEF InOnePlace, Placed
    <3>4. \A y \in Queues : ~(x \in in'[y] \/ <<y, x>> \in offers')
      BY <2>2, <3>2
    <3>5. \A y \in Requests : x \in got'[y] => y = r
      BY <2>2, <3>3
    <3>6. QED
      BY <3>4, <3>5 DEF InOnePlace, Placed
  <2>4. QED
    BY <2>2, <2>3, OnceFrame DEF OnceInv
<1>6. ASSUME NEW q \in Queues, NEW x \in Sockets, RemoveMoved(q, x) PROVE OnceInv'
  BY <1>6, OnceFrame, ChangedGrows
     DEF RemoveMoved, ListenFrame, requestVars, OnceInv, TypeOK, QueueTyped
<1>7. ASSUME NEW x \in Sockets, Removes(x) \/ DeregisterPolls(x) PROVE OnceInv'
  BY <1>7, OnceFrame, ChangedGrows
     DEF Removes, DeregisterPolls, CloseFrame, DeregisterFrame, requestVars, OnceInv,
         TypeOK, QueueTyped
<1>8. ASSUME UNCHANGED <<in, offers, got>> PROVE OnceInv'
  BY <1>8, OnceFrame, ChangedGrows DEF OnceInv
<1>9. CASE UNCHANGED vars
  BY <1>8, <1>9 DEF vars
<1>10. CASE ApiNext \/ TurnGrayTestingOff \/ RangeEnds
  BY <1>8, <1>10 DEF ApiNext, AddService, RemoveService, AddIp, RemoveIp, PutGray,
     TurnGrayTestingOff, RangeEnds, Notify, ApiFrame, ListenFrame, queueVars, requestVars
<1>11. QED
  BY <1>1, <1>2, <1>3, <1>4, <1>5, <1>6, <1>7, <1>8, <1>9, <1>10
     DEF Next, ListenerNext, AddCheck, RemoveLoads, LookUp, PollTimesOut, DeregisterSocket,
     DeregisterFindsNone, CloseFrame, RequestFrame, DeregisterFrame, queueVars, requestVars

(* No two requests are given the same websocket, unless its service was    *)
(* put into or taken out of the dark launch.                               *)
THEOREM AcquiredByOne == Spec => []AcquiredOnce
<1>1. Init => OnceInv
  BY DEF Init, OnceInv, InOnePlace, Placed
<1>2. TypeOK /\ FarmInv /\ OnceInv /\ [Next]_vars => OnceInv'
  BY OnceStep
<1>3. TypeOK /\ OnceInv => AcquiredOnce
  BY DEF TypeOK, RequestTyped, OnceInv, InOnePlace, AcquiredOnce
<1>4. QED
  BY <1>1, <1>2, <1>3, TypeInit, FarmInit, FarmStep, PTL DEF Spec

-----------------------------------------------------------------------------
(* IdleSocketAtHome and ClosedSocketGone.  They speak of the sockets of    *)
(* the routes whose queue was never replaced and that were never launched  *)
(* in the dark: these have one queue, and are nowhere else.                *)

Stable(s) == route[s] \notin replaced \cup changed
Home0(s)  == LoadOrCatchall("normal", route[s])

HomeOf(s) ==
    /\ stage[s] # "new" => mode[s] = "normal"
    /\ Started(s) /\ route[s] \in Services => Load("normal", route[s]) # NoQueue
    /\ \A q \in Queues : Placed(q, s) => q = Home0(s)
    /\ stage[s] = "registered" /\ s \notin Taken => s \in dropped \/ Placed(Home0(s), s)
    /\ stage[s] = "closing" /\ route[s] # Star => looked[s] = Home0(s)
    /\ stage[s] = "gone" /\ s \notin overtaken /\ route[s] # Star => \A q \in Queues : ~Placed(q, s)

HomeInv ==
    /\ services \subseteq changed
    /\ \A qs \in listener.moved : route[qs[2]] \in changed /\ Started(qs[2])
    /\ \A s \in Sockets : Stable(s) => HomeOf(s)

(* A socket of such a route registers, and is looked for, as normal.       *)
LEMMA StableIsNormal ==
  ASSUME TypeOK, HomeInv, NEW rt, rt \notin changed
  PROVE  ModeFor(rt) = "normal"
  BY AddressAssumption DEF ModeFor, HomeInv, TypeOK, DarkTyped

(* The histories only grow.                                                *)
LEMMA ReplacedGrows == [Next]_vars => replaced \subseteq replaced'
<1> SUFFICES ASSUME [Next]_vars PROVE replaced \subseteq replaced'
  OBVIOUS
<1>1. CASE UNCHANGED vars
  BY <1>1 DEF vars
<1>2. CASE ApiNext \/ ListenerNext
  BY <1>2 DEF ApiNext, ListenerNext, AddService, RemoveService, AddIp, RemoveIp, PutGray,
     TurnGrayTestingOff, Visit, RangeEnds, RemoveMoved, Notify, ApiFrame, ListenFrame, queueVars
<1>3. QED
  BY <1>1, <1>2 DEF Next, AddCheck, AddLoad, AddStore, RemoveLoads, Removes, DeregisterPolls,
     OfferStores, LookUp, PollTimesOut, PollTakes, Take, DeregisterSocket, DeregisterFindsNone,
     AddFrame, CloseFrame, RequestFrame, DeregisterFrame, queueVars

(* Only AddStore changes where a route leads.                              *)
LEMMA QueueOfChanges ==
  ASSUME [Next]_vars
  PROVE  UNCHANGED queueOf \/ \E x \in Sockets : AddStore(x)
<1>1. CASE UNCHANGED vars
  BY <1>1 DEF vars
<1>2. CASE ApiNext \/ ListenerNext
  BY <1>2 DEF ApiNext, ListenerNext, AddService, RemoveService, AddIp, RemoveIp, PutGray,
     TurnGrayTestingOff, Visit, RangeEnds, RemoveMoved, Notify, ApiFrame, ListenFrame, queueVars
<1>3. QED
  BY <1>1, <1>2 DEF Next, AddCheck, AddLoad, RemoveLoads, Removes, DeregisterPolls, OfferStores,
     LookUp, PollTimesOut, PollTakes, Take, DeregisterSocket, DeregisterFindsNone, AddFrame,
     CloseFrame, RequestFrame, DeregisterFrame, queueVars

(* The home of a socket that has registered stays where it is: who would   *)
(* replace the queue of its route makes it a route that was replaced.      *)
LEMMA HomeStays ==
  ASSUME TypeOK, FarmInv, HomeInv, [Next]_vars, NEW s \in Sockets, Started(s), Stable(s)'
  PROVE  /\ Stable(s) /\ Home0(s)' = Home0(s)
         /\ route[s] \in Services => Load("normal", route[s])' # NoQueue
<1>1. route'[s] = route[s]
  BY StartedStays
<1>2. Stable(s)
  BY <1>1, ChangedGrows, ReplacedGrows DEF Stable
<1>3. HomeOf(s)
  BY <1>2 DEF HomeInv
<1>4. CASE UNCHANGED queueOf
  BY <1>1, <1>2, <1>3, <1>4 DEF HomeOf, Home0, LoadOrCatchall, Load
<1>5. ASSUME NEW x \in Sockets, AddStore(x)
      PROVE  Home0(s)' = Home0(s) /\ (route[s] \in Services => Load("normal", route[s])' # NoQueue)
  <2>1. /\ stage[x] = "missing" /\ route[x] \in Services /\ mode[x] \in Modes
        /\ queueOf' = [queueOf EXCEPT ![mode[x]][route[x]] = x]
        /\ Load(mode[x], route[x]) # NoQueue => route[x] \in replaced'
        /\ UNCHANGED <<route, changed>>
    BY <1>5 DEF AddStore, AddFrame, TypeOK, SocketTyped, darkVars
  <2>2. queueOf \in [Modes -> [Services -> Sockets \cup {NoQueue}]] /\ "normal" \in Modes
    BY DEF TypeOK, QueueTyped, Modes
  <2>3. CASE route[x] = route[s]
    <3>1. Load("normal", route[s]) # NoQueue
      BY <1>3, <2>1, <2>3 DEF HomeOf
    <3>2. Stable(x) /\ route[x] \notin replaced'
      BY <1>1, <1>2, <2>3 DEF Stable
    <3>3. mode[x] = "normal"
      BY <2>1, <3>2 DEF HomeInv, HomeOf
    <3>4. QED
      BY <2>1, <2>3, <3>1, <3>2, <3>3
  <2>4. CASE route[x] # route[s]
    <3>1. route[s] \in Services => queueOf'["normal"][route[s]] = queueOf["normal"][route[s]]
      BY <2>1, <2>2, <2>4
    <3>2. Load("normal", route[s])' = Load("normal", route[s])
      BY <1>1, <3>1 DEF Load
    <3>3. QED
      BY <1>1, <1>3, <3>2 DEF HomeOf, Home0, LoadOrCatchall
  <2>5. QED
    BY <2>3, <2>4
<1>6. QED
  BY <1>2, <1>4, <1>5, QueueOfChanges

(* A socket that nothing happens to stays at home.                         *)
LEMMA HomeFrame ==
  ASSUME TypeOK, FarmInv, HomeInv, [Next]_vars, NEW s \in Sockets, Stable(s)',
         stage'[s] = stage[s], looked'[s] = looked[s], mode'[s] = mode[s], route'[s] = route[s],
         \A q \in Queues : Placed(q, s)' <=> Placed(q, s),
         s \in Taken => s \in Taken', s \in dropped => s \in dropped',
         s \in overtaken => s \in overtaken'
  PROVE  HomeOf(s)'
<1>1. Stable(s) /\ HomeOf(s)
  BY ChangedGrows, ReplacedGrows DEF Stable, HomeInv
<1>2. CASE Started(s)
  <2>1. /\ Home0(s)' = Home0(s)
        /\ route[s] \in Services => Load("normal", route[s])' # NoQueue
    BY <1>2, HomeStays
  <2>2. Home0(s) \in Queues
    BY LookUpType DEF Home0, TypeOK
  <2>3. \A q \in Queues : Placed(q, s)' => q = Home0(s)'
    BY <1>1, <2>1 DEF HomeOf
  <2>4. PICK h \in Queues : h = Home0(s)
    BY <2>2
  <2>5. Placed(h, s) => Placed(Home0(s), s)'
    BY <2>1, <2>4
  <2>6. QED
    BY <1>1, <2>1, <2>3, <2>4, <2>5 DEF HomeOf, Started
<1>3. CASE ~Started(s)
  <2>1. \A q \in Queues : ~Placed(q, s)'
    BY <1>3 DEF FarmInv, PlaceInv
  <2>2. ~Started(s)'
    BY <1>3 DEF Started
  <2>3. QED
    BY <1>1, <2>1, <2>2 DEF HomeOf, Started
<1>4. QED
  BY <1>2, <1>3

(* The step of a socket that registers.                                    *)
LEMMA HomeAdd ==
  ASSUME TypeOK, FarmInv, HomeInv, [Next]_vars, NEW x \in Sockets,
         \/ \E rt \in Services \cup Unnamed : AddCheck(x, rt)
         \/ AddLoad(x) \/ AddStore(x)
  PROVE  \A s \in Sockets : Stable(s)' => HomeOf(s)'
<1>1. \A q \in Queues : ~Placed(q, x)
  BY DEF FarmInv, PlaceInv, Started, AddCheck, AddLoad, AddStore
<1>2. ASSUME NEW rt \in Services \cup Unnamed, AddCheck(x, rt), Stable(x)' PROVE HomeOf(x)'
  <2>1. /\ stage'[x] = "checked" /\ route'[x] = rt /\ mode'[x] = ModeFor(rt)
        /\ UNCHANGED <<in, offers, changed>>
    BY <1>2 DEF AddCheck, Advance, TypeOK, SocketTyped, queueVars, darkVars
  <2>2. mode'[x] = "normal"
    BY <1>2, <2>1, StableIsNormal DEF Stable
  <2>3. \A q \in Queues : ~Placed(q, x)'
    BY <1>1, <2>1 DEF Placed
  <2>4. QED
    BY <2>1, <2>2, <2>3 DEF HomeOf, Started
<1>3. ASSUME AddLoad(x), Stable(x)' PROVE HomeOf(x)'
  <2>1. /\ UNCHANGED <<route, mode, queueOf, in, changed, replaced>> /\ stage[x] = "checked"
    BY <1>3 DEF AddLoad, AddFrame, darkVars
  <2>2. mode[x] = "normal"
    BY <1>3, <2>1 DEF Stable, HomeInv, HomeOf
  <2>3. CASE stage'[x] = "missing"
    <3>1. UNCHANGED offers
      BY <1>3, <2>3 DEF AddLoad, Advance, TypeOK, SocketTyped
    <3>2. \A q \in Queues : ~Placed(q, x)'
      BY <1>1, <2>1, <3>1 DEF Placed
    <3>3. QED
      BY <2>1, <2>2, <2>3, <3>2 DEF HomeOf, Started
  <2>4. CASE stage'[x] # "missing"
    <3>1. PICK h \in Queues : h = Home0(x)
      BY LookUpType DEF Home0, TypeOK
    <3>2. /\ stage'[x] = "registered" /\ offers' = offers \cup {<<h, x>>}
          /\ route[x] \in Unnamed \/ Load("normal", route[x]) # NoQueue
      BY <1>3, <2>2, <2>4, <3>1 DEF AddLoad, Advance, OfferTo, Home0, TypeOK, SocketTyped
    <3>3. Home0(x)' = h /\ (route'[x] \in Services => Load("normal", route[x])' # NoQueue)
      BY <2>1, <3>1, <3>2, NamesAssumption DEF Home0, LoadOrCatchall, Load
    <3>4. \A q \in Queues : Placed(q, x)' <=> q = h
      BY <1>1, <2>1, <3>2 DEF Placed
    <3>5. Placed(Home0(x), x)'
      BY <3>3, <3>4
    <3>6. QED
      BY <2>1, <2>2, <3>2, <3>3, <3>4, <3>5 DEF HomeOf, Started
  <2>5. QED
    BY <2>3, <2>4
<1>4. ASSUME AddStore(x), Stable(x)' PROVE HomeOf(x)'
  <2>1. /\ UNCHANGED <<route, mode, in, changed>> /\ stage[x] = "missing"
        /\ stage'[x] = "registered" /\ offers' = offers \cup {<<x, x>>}
        /\ queueOf' = [queueOf EXCEPT ![mode[x]][route[x]] = x] /\ route[x] \in Services
    BY <1>4 DEF AddStore, AddFrame, Advance, OfferTo, TypeOK, SocketTyped, darkVars
  <2>2. Stable(x)
    BY <1>4, <2>1, ReplacedGrows DEF Stable
  <2>3. mode[x] = "normal"
    BY <2>1, <2>2 DEF HomeInv, HomeOf
  <2>4. queueOf \in [Modes -> [Services -> Sockets \cup {NoQueue}]] /\ "normal" \in Modes
        /\ x \in Queues /\ x # NoQueue
    BY QueuesAssumption DEF TypeOK, QueueTyped, Modes, Queues
  <2>5. queueOf'["normal"][route[x]] = x
    BY <2>1, <2>3, <2>4
  <2>6. Load("normal", route[x])' = x /\ Home0(x)' = x
    BY <2>1, <2>4, <2>5 DEF Load, Home0, LoadOrCatchall
  <2>7. \A q \in Queues : Placed(q, x)' <=> q = x
    BY <1>1, <2>1, <2>4 DEF Placed
  <2>8. Placed(Home0(x), x)'
    BY <2>4, <2>6, <2>7
  <2>9. QED
    BY <2>1, <2>3, <2>4, <2>6, <2>7, <2>8 DEF HomeOf, Started
<1>5. ASSUME NEW s \in Sockets, s # x, Stable(s)' PROVE HomeOf(s)'
  <2>1. /\ stage'[s] = stage[s] /\ looked'[s] = looked[s] /\ mode'[s] = mode[s] /\ route'[s] = route[s]
        /\ UNCHANGED <<in, got, dropped, overtaken>>
    BY <1>5 DEF AddCheck, AddLoad, AddStore, AddFrame, Advance, TypeOK, SocketTyped, queueVars,
                requestVars, deregVars
  <2>2. \A q \in Queues : <<q, s>> \in offers' <=> <<q, s>> \in offers
    BY <1>5 DEF AddCheck, AddLoad, AddStore, OfferTo, queueVars
  <2>3. QED
    BY <1>5, <2>1, <2>2, HomeFrame DEF Placed, Taken
<1>6. QED
  BY <1>2, <1>3, <1>4, <1>5

(* The step of a socket whose websocket ends, or that is deregistered.     *)
LEMMA HomeEnd ==
  ASSUME TypeOK, FarmInv, HomeInv, [Next]_vars, NEW x \in Sockets,
         RemoveLoads(x) \/ Removes(x) \/ DeregisterPolls(x)
  PROVE  \A s \in Sockets : Stable(s)' => HomeOf(s)'
<1>1. UNCHANGED <<route, mode, queueOf, offers, got, changed, replaced>>
  BY DEF RemoveLoads, Removes, DeregisterPolls, CloseFrame, DeregisterFrame, socketVars,
         requestVars, darkVars
<1>2. ASSUME Stable(x)' PROVE Stable(x) /\ HomeOf(x) /\ Home0(x)' = Home0(x)
                              /\ Load("normal", route[x])' = Load("normal", route[x])
  BY <1>1, <1>2 DEF Stable, HomeInv, Home0, LoadOrCatchall, Load
<1>3. ASSUME Stable(x)', RemoveLoads(x) PROVE HomeOf(x)'
  <2>1. /\ stage[x] = "registered" /\ stage'[x] = "closing" /\ UNCHANGED in
    BY <1>3 DEF RemoveLoads, Advance, TypeOK, SocketTyped
  <2>2. ModeFor(route[x]) = "normal"
    BY <1>2, <1>3, StableIsNormal DEF Stable
  <2>3. route[x] # Star => looked'[x] = Home0(x)
    <3>1. CASE route[x] = NoName
      BY <1>3, <2>2, <3>1, NamesAssumption DEF RemoveLoads, Home0, LoadOrCatchall, Load, Unnamed,
         TypeOK, SocketTyped
    <3>2. CASE route[x] \in Services
      <4>1. Load("normal", route[x]) # NoQueue
        BY <1>2, <1>3, <2>1, <3>2 DEF HomeOf, Started
      <4>2. route[x] # NoName
        BY <3>2, NamesAssumption DEF Unnamed
      <4>3. QED
        BY <1>3, <2>2, <4>1, <4>2 DEF RemoveLoads, Home0, LoadOrCatchall, TypeOK, SocketTyped
    <3>3. QED
      BY <3>1, <3>2 DEF TypeOK, SocketTyped, Unnamed
  <2>4. QED
    BY <1>1, <1>2, <1>3, <2>1, <2>3 DEF HomeOf, Started, Placed
<1>4. ASSUME Stable(x)', Removes(x) PROVE HomeOf(x)'
  <2>1. /\ stage[x] = "closing" /\ stage'[x] = "gone"
        /\ in' = [q \in Queues |-> IF q = looked[x] THEN in[q] \ {x} ELSE in[q]]
        /\ (\E q \in Queues : <<q, x>> \in offers) => x \in overtaken'
    BY <1>4 DEF Removes, Advance, TypeOK, SocketTyped
  <2>2. \A q \in Queues : Placed(q, x)' => Placed(q, x)
    BY <1>1, <2>1 DEF Placed
  <2>3. ASSUME x \notin overtaken', route[x] # Star, NEW q \in Queues PROVE ~Placed(q, x)'
    <3>1. looked[x] = Home0(x) /\ (Placed(q, x) => q = Home0(x)) /\ <<q, x>> \notin offers
      BY <1>2, <1>4, <2>1, <2>3 DEF HomeOf
    <3>2. QED
      BY <1>1, <2>1, <3>1 DEF Placed
  <2>4. QED
    BY <1>1, <1>2, <1>4, <2>1, <2>2, <2>3 DEF HomeOf, Started
<1>5. ASSUME Stable(x)', DeregisterPolls(x) PROVE HomeOf(x)'
  <2>1. /\ UNCHANGED <<stage, looked, overtaken>> /\ x \in dropped'
        /\ \A q \in Queues : Placed(q, x)' => Placed(q, x)
    BY <1>5 DEF DeregisterPolls, DeregisterFrame, socketVars, Placed, TypeOK, QueueTyped
  <2>2. QED
    BY <1>1, <1>2, <1>5, <2>1 DEF HomeOf, Started
<1>6. ASSUME NEW s \in Sockets, s # x, Stable(s)' PROVE HomeOf(s)'
  <2>1. /\ stage'[s] = stage[s] /\ looked'[s] = looked[s]
        /\ dropped \subseteq dropped' /\ overtaken \subseteq overtaken'
    BY <1>6 DEF RemoveLoads, Removes, DeregisterPolls, CloseFrame, DeregisterFrame, Advance,
                TypeOK, SocketTyped, socketVars, deregVars
  <2>2. \A q \in Queues : s \in in'[q] <=> s \in in[q]
    BY <1>6 DEF RemoveLoads, Removes, DeregisterPolls, TypeOK, QueueTyped
  <2>3. QED
    BY <1>1, <1>6, <2>1, <2>2, HomeFrame DEF Placed, Taken
<1>7. QED
  BY <1>3, <1>4, <1>5, <1>6

(* The other steps: of queues, requests, the API and the listener.         *)
LEMMA HomeOther ==
  ASSUME TypeOK, FarmInv, HomeInv, [Next]_vars,
         UNCHANGED <<stage, looked, mode, route, overtaken, dropped>>
  PROVE  \A s \in Sockets : Stable(s)' => HomeOf(s)'
<1>1. ASSUME NEW q \in Queues, NEW x \in Sockets, OfferStores(q, x)
      PROVE  \A s \in Sockets : Stable(s)' => HomeOf(s)'
  <2>1. UNCHANGED got /\ \A y \in Queues, s \in Sockets : Placed(y, s)' <=> Placed(y, s)
    BY <1>1 DEF OfferStores, Placed, requestVars, TypeOK, QueueTyped
  <2>2. QED
    BY <2>1, HomeFrame DEF Taken
<1>2. ASSUME NEW q \in Queues, NEW x \in Sockets, Visit(q, x)
      PROVE  \A s \in Sockets : Stable(s)' => HomeOf(s)'
  <2>1. /\ UNCHANGED <<got, in>> /\ offers' = offers \cup {<<q, x>>} /\ x \in in[q]
    BY <1>2, VisitStays DEF Visit, OfferTo, ListenFrame, requestVars
  <2>2. \A y \in Queues, s \in Sockets : Placed(y, s)' <=> Placed(y, s)
    BY <2>1 DEF Placed
  <2>3. QED
    BY <2>1, <2>2, HomeFrame DEF Taken
<1>3. ASSUME NEW q \in Queues, NEW x \in Sockets, RemoveMoved(q, x)
      PROVE  \A s \in Sockets : Stable(s)' => HomeOf(s)'
  <2>1. /\ <<q, x>> \in listener.moved /\ in' = [in EXCEPT ![q] = @ \ {x}]
        /\ UNCHANGED <<got, offers, changed>>
    BY <1>3 DEF RemoveMoved, ListenFrame, requestVars
  <2>2. ~Stable(x)'
    BY <2>1 DEF HomeInv, Stable
  <2>3. \A y \in Queues, s \in Sockets \ {x} : Placed(y, s)' <=> Placed(y, s)
    BY <2>1 DEF Placed, TypeOK, QueueTyped
  <2>4. QED
    BY <2>1, <2>2, <2>3, HomeFrame DEF Taken
<1>4. ASSUME NEW r \in Requests, NEW x \in Sockets, PollTakes(r, x)
      PROVE  \A s \in Sockets : Stable(s)' => HomeOf(s)'
  <2>1. PICK q \in Queues : q = askedQueue[r]
    BY <1>4 DEF PollTakes, Take, TypeOK, RequestTyped
  <2>2. /\ asked[r] = "polling" /\ in' = [in EXCEPT ![q] = @ \ {x}] /\ got' = [got EXCEPT ![r] = {x}]
        /\ UNCHANGED <<offers, changed, replaced, queueOf>>
        /\ got \in [Requests -> SUBSET Sockets]
    BY <1>4, <2>1 DEF PollTakes, Take, RequestFrame, darkVars, TypeOK, RequestTyped
  <2>3. got[r] = {}
    BY <2>2 DEF FarmInv, GotInv
  <2>4. Taken' = Taken \cup {x}
    BY <2>2, <2>3 DEF Taken
  <2>5. \A y \in Queues, s \in Sockets \ {x} : Placed(y, s)' <=> Placed(y, s)
    BY <2>2 DEF Placed, TypeOK, QueueTyped
  <2>6. ASSUME Stable(x)' PROVE HomeOf(x)'
    <3>1. /\ HomeOf(x) /\ Home0(x)' = Home0(x)
          /\ Load("normal", route[x])' = Load("normal", route[x])
      BY <2>2, <2>6 DEF Stable, HomeInv, Home0, LoadOrCatchall, Load
    <3>2. x \in Taken' /\ \A y \in Queues : Placed(y, x)' => Placed(y, x)
      BY <2>2, <2>4 DEF Placed, TypeOK, QueueTyped
    <3>3. QED
      BY <3>1, <3>2 DEF HomeOf, Started
  <2>7. QED
    BY <2>4, <2>5, <2>6, HomeFrame
<1>5. ASSUME UNCHANGED <<in, offers, got>>
      PROVE  \A s \in Sockets : Stable(s)' => HomeOf(s)'
  BY <1>5, HomeFrame DEF Placed, Taken
<1>6. CASE \/ UNCHANGED vars
           \/ \E r \in Requests : PollTimesOut(r) \/ \E rt \in Services \cup {NoName} : LookUp(r, rt)
           \/ \E rt \in Services \cup {NoName} : DeregisterSocket(rt)
           \/ DeregisterFindsNone
  BY <1>5, <1>6 DEF vars, PollTimesOut, LookUp, DeregisterSocket, DeregisterFindsNone,
     RequestFrame, DeregisterFrame, requestVars
<1>7. CASE ApiNext \/ TurnGrayTestingOff \/ RangeEnds
  BY <1>5, <1>7 DEF ApiNext, AddService, RemoveService, AddIp, RemoveIp, PutGray,
     TurnGrayTestingOff, RangeEnds, Notify, ApiFrame, ListenFrame, queueVars, requestVars
<1>8. CASE \E s \in Sockets : \/ \E rt \in Services \cup Unnamed : AddCheck(s, rt)
                              \/ AddLoad(s) \/ AddStore(s)
  BY <1>8, HomeAdd
<1>9. CASE \E s \in Sockets : RemoveLoads(s) \/ Removes(s) \/ DeregisterPolls(s)
  BY <1>9, HomeEnd
<1>10. QED
  BY <1>1, <1>2, <1>3, <1>4, <1>6, <1>7, <1>8, <1>9 DEF Next, ListenerNext

(* A service in the list was added to it.                                  *)
LEMMA ServicesStep ==
  ASSUME HomeInv, [Next]_vars
  PROVE  services' \subseteq changed'
<1>1. CASE UNCHANGED vars
  BY <1>1 DEF vars, HomeInv
<1>2. CASE ApiNext \/ ListenerNext
  BY <1>2 DEF ApiNext, ListenerNext, AddService, RemoveService, AddIp, RemoveIp, PutGray,
     TurnGrayTestingOff, Visit, RangeEnds, RemoveMoved, ListenFrame, HomeInv
<1>3. QED
  BY <1>1, <1>2 DEF Next, AddCheck, AddLoad, AddStore, RemoveLoads, Removes, DeregisterPolls,
     OfferStores, LookUp, PollTimesOut, PollTakes, Take, DeregisterSocket, DeregisterFindsNone,
     AddFrame, CloseFrame, RequestFrame, DeregisterFrame, darkVars, HomeInv

(* The listener has moved sockets of routes that were changed alone.       *)
LEMMA MovedStep ==
  ASSUME TypeOK, FarmInv, HomeInv, [Next]_vars
  PROVE  \A qs \in listener'.moved : route'[qs[2]] \in changed' /\ Started(qs[2])'
<1> DEFINE Good(s) == s \in Sockets /\ route[s] \in changed /\ Started(s)
<1>1. ASSUME NEW s \in Sockets, route[s] \in changed, Started(s)
      PROVE  route'[s] \in changed' /\ Started(s)'
  BY <1>1, StartedStays, ChangedGrows
<1>2. ASSUME \A qs \in listener'.moved : qs \in listener.moved \/ Good(qs[2])
      PROVE  \A qs \in listener'.moved : route'[qs[2]] \in changed' /\ Started(qs[2])'
  <2>1. \A qs \in listener.moved : Good(qs[2])
    BY DEF HomeInv, TypeOK, DarkTyped
  <2>2. QED
    BY <1>1, <1>2, <2>1
<1> HIDE DEF Good
<1>3. ASSUME NEW q \in Queues, NEW s \in Sockets, Visit(q, s)
      PROVE  \A qs \in listener'.moved : qs \in listener.moved \/ Good(qs[2])
  <2>1. listener' = [listener EXCEPT !.moved = @ \cup {<<q, s>>}]
    BY <1>3 DEF Visit
  <2>2. listener'.moved = listener.moved \cup {<<q, s>>}
    BY <2>1 DEF TypeOK, DarkTyped
  <2>3. Good(s)
    BY <1>3, VisitStays DEF Good, FarmInv, PlaceInv, Placed
  <2>4. QED
    BY <2>2, <2>3
<1>4. CASE TurnGrayTestingOff \/ RangeEnds \/ \E q \in Queues, s \in Sockets : RemoveMoved(q, s)
  <2>1. \/ listener' = Idle
        \/ listener' = [listener EXCEPT !.phase = "range", !.must = Matching(call)]
        \/ listener' = [listener EXCEPT !.phase = "remove", !.must = {}]
        \/ \E q \in Queues, s \in Sockets : listener' = [listener EXCEPT !.moved = @ \ {<<q, s>>}]
    BY <1>4 DEF TurnGrayTestingOff, RangeEnds, RemoveMoved
  <2>2. listener'.moved \subseteq listener.moved
    <3>1. listener = [phase |-> listener.phase, must |-> listener.must, moved |-> listener.moved]
      BY DEF TypeOK, DarkTyped
    <3>2. CASE listener' = Idle
      BY <3>2 DEF Idle
    <3>3. CASE listener' # Idle
      BY <2>1, <3>1, <3>3
    <3>4. QED
      BY <3>2, <3>3
  <2>3. QED
    BY <1>2, <2>2
<1>5. CASE ApiNext
  <2>1. listener'.moved = {} \/ UNCHANGED listener
    BY <1>5 DEF ApiNext, AddService, RemoveService, AddIp, RemoveIp, PutGray, Notify, Idle
  <2>2. QED
    BY <1>2, <2>1
<1>6. ASSUME UNCHANGED listener
      PROVE  \A qs \in listener'.moved : route'[qs[2]] \in changed' /\ Started(qs[2])'
  BY <1>2, <1>6
<1>7. CASE UNCHANGED vars
  BY <1>6, <1>7 DEF vars
<1>8. QED
  BY <1>2, <1>3, <1>4, <1>5, <1>6, <1>7
     DEF Next, ListenerNext, AddCheck, AddLoad, AddStore, RemoveLoads, Removes, DeregisterPolls,
         OfferStores, LookUp, PollTimesOut, PollTakes, Take, DeregisterSocket, DeregisterFindsNone,
         AddFrame, CloseFrame, RequestFrame, DeregisterFrame, darkVars

(* The invariant about homes is inductive on top of the other.             *)
LEMMA HomeStep ==
  ASSUME TypeOK, FarmInv, HomeInv, [Next]_vars
  PROVE  HomeInv'
<1>1. CASE \E s \in Sockets : \/ \E rt \in Services \cup Unnamed : AddCheck(s, rt)
                              \/ AddLoad(s) \/ AddStore(s)
  BY <1>1, HomeAdd, ServicesStep, MovedStep DEF HomeInv
<1>2. CASE \E s \in Sockets : RemoveLoads(s) \/ Removes(s) \/ DeregisterPolls(s)
  BY <1>2, HomeEnd, ServicesStep, MovedStep DEF HomeInv
<1>3. ASSUME UNCHANGED <<stage, looked, mode, route, overtaken, dropped>> PROVE HomeInv'
  BY <1>3, HomeOther, ServicesStep, MovedStep DEF HomeInv
<1>4. CASE UNCHANGED vars
  BY <1>3, <1>4 DEF vars
<1>5. CASE ApiNext \/ ListenerNext
  BY <1>3, <1>5 DEF ApiNext, ListenerNext, AddService, RemoveService, AddIp, RemoveIp, PutGray,
     TurnGrayTestingOff, Visit, RangeEnds, RemoveMoved, Notify, ApiFrame, ListenFrame, socketVars,
     deregVars
<1>6. QED
  BY <1>1, <1>2, <1>3, <1>4, <1>5
     DEF Next, OfferStores, LookUp, PollTimesOut, PollTakes, Take, DeregisterSocket,
         DeregisterFindsNone, RequestFrame, DeregisterFrame, socketVars, deregVars

(* At first nothing is registered.                                         *)
LEMMA HomeInit == Init => HomeInv
<1> SUFFICES ASSUME Init PROVE HomeInv
  OBVIOUS
<1>1. listener.moved = {}
  <2>1. listener = Idle
    BY DEF Init
  <2>2. QED
    BY <2>1 DEF Idle
<1>2. services \subseteq changed
  BY DEF Init
<1>3. ASSUME NEW s \in Sockets PROVE HomeOf(s)
  BY DEF Init, HomeOf, Placed, Started
<1>4. QED
  BY <1>1, <1>2, <1>3 DEF HomeInv

(* An open, idle socket is where requests for its route look, but for the  *)
(* races the property names.                                               *)
THEOREM IdleSocketFound == Spec => []IdleSocketAtHome
<1>1. TypeOK /\ HomeInv => IdleSocketAtHome
  <2> SUFFICES ASSUME TypeOK, HomeInv, NEW s \in Sockets, stage[s] = "registered", s \notin Taken,
                      s \notin dropped, Stable(s)
               PROVE  s \in in[Home(s)] \/ <<Home(s), s>> \in offers
    BY DEF IdleSocketAtHome, Stable
  <2>1. ModeFor(route[s]) = "normal"
    BY StableIsNormal DEF Stable
  <2>2. QED
    BY <2>1 DEF HomeInv, HomeOf, Home, Home0, Placed
<1>2. TypeOK /\ FarmInv /\ HomeInv /\ [Next]_vars => HomeInv'
  BY HomeStep
<1>3. QED
  BY <1>1, <1>2, TypeInit, FarmInit, FarmStep, HomeInit, PTL DEF Spec

(* A closed socket is in no queue, but for the gaps the property names.    *)
THEOREM ClosedSocketRemoved == Spec => []ClosedSocketGone
<1>1. HomeInv => ClosedSocketGone
  BY DEF HomeInv, HomeOf, ClosedSocketGone, Stable, Placed
<1>2. TypeOK /\ FarmInv /\ HomeInv /\ [Next]_vars => HomeInv'
  BY HomeStep
<1>3. QED
  BY <1>1, <1>2, TypeInit, FarmInit, FarmStep, HomeInit, PTL DEF Spec
=============================================================================
