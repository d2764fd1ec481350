---------------------------- MODULE DrainProofs -----------------------------
(***************************************************************************)
(* Proofs about Drain, for any finite set of connectors, any window and    *)
(* any requests.                                                           *)
(***************************************************************************)
EXTENDS Drain, FiniteSetTheorems, TLAPS

-----------------------------------------------------------------------------
(* Typing.                                                                 *)

(* The initial values have their types.                                    *)
LEMMA TypeInit == Init => TypeOK
  BY DEF Init, TypeOK, Processes

(* A socket is a pair whose first component is its connector.              *)
LEMMA SocketConnector == \A s \in Sockets : s[1] \in Connectors
  BY DEF Sockets

(* Every action preserves the types.                                       *)
LEMMA TypeStep == TypeOK /\ [Next]_vars => TypeOK'
<1> SUFFICES ASSUME TypeOK, [Next]_vars PROVE TypeOK'
  OBVIOUS
<1> USE SocketConnector DEF TypeOK, Processes, requestVars
<1>1. ASSUME NEW c \in Connectors, Start(c) PROVE TypeOK'
  BY <1>1 DEF Start
<1>2. ASSUME NEW c \in Connectors, ShutDown(c) PROVE TypeOK'
  BY <1>2 DEF ShutDown
<1>3. ASSUME NEW c \in Connectors, ShutDownReturns(c) PROVE TypeOK'
  BY <1>3 DEF ShutDownReturns, Uncounted
<1>4. ASSUME NEW c \in Connectors, ProcessEnds(c) PROVE TypeOK'
  BY <1>4 DEF ProcessEnds
<1>5. ASSUME NEW c \in Connectors, DeregisterNext(c) PROVE TypeOK'
  BY <1>5 DEF DeregisterNext, DeregisterSocket, DeregisterLost, DeregisterFrame
<1>6. ASSUME NEW s \in Sockets,
             Registers(s) \/ DialGivenUp(s) \/ WebsocketLost(s) \/ RouterNotices(s)
      PROVE  TypeOK'
  BY <1>6 DEF Registers, DialGivenUp, WebsocketLost, RouterNotices, SocketGoes, Replacement
<1>7. ASSUME NEW r \in Requests, RequestComes(r) \/ AcquireTimeout(r) \/ Count(r) \/ OnConnectionEnded(r)
               \/ Answer(r)
      PROVE  TypeOK'
  BY <1>7 DEF RequestComes, AcquireTimeout, Count, OnConnectionEnded, Answer, RequestGoes
<1>8. ASSUME NEW r \in Requests, Acquire(r) PROVE TypeOK'
  BY <1>8 DEF Acquire, RequestGoes, Pooled
<1>9. ASSUME NEW r \in Requests, Arrives(r) \/ Breaks(r) PROVE TypeOK'
  BY <1>9 DEF Arrives, Breaks, RequestGoes, Replacement
<1>10. CASE UNCHANGED vars
  BY <1>10 DEF vars
<1>11. QED
  BY <1>1, <1>2, <1>3, <1>4, <1>5, <1>6, <1>7, <1>8, <1>9, <1>10 DEF Next, RequestNext

(* The type invariant of connectors, sockets and requests.                 *)
THEOREM TypeCorrect == Spec => []TypeOK
  BY TypeInit, TypeStep, PTL DEF Spec

-----------------------------------------------------------------------------
(* OneForgottenEach.                                                       *)

Forgotten(f) == {s \in Sockets : f[s] = "forgotten"}
Deregistered(f) == {c \in Connectors : f[c] = "done"}

(* What is counted is finite.                                              *)
LEMMA CountedFinite ==
  ASSUME NEW f, NEW g
  PROVE  /\ IsFiniteSet(Forgotten(f)) /\ Cardinality(Forgotten(f)) \in Nat
         /\ IsFiniteSet(Deregistered(g)) /\ Cardinality(Deregistered(g)) \in Nat
<1>1. IsFiniteSet(1..Window)
  BY FS_Interval, WindowAssumption
<1>2. IsFiniteSet(Sockets)
  BY <1>1, ConnectorsAssumption, FS_Product DEF Sockets
<1>3. Forgotten(f) \subseteq Sockets /\ Deregistered(g) \subseteq Connectors
  BY DEF Forgotten, Deregistered
<1>4. QED
  BY <1>2, <1>3, ConnectorsAssumption, FS_Subset, FS_CardinalityType

(* The bound, of the sets that the lemmas are about.                       *)
LEMMA BoundOfSets ==
  /\ OneForgottenEach <=> Cardinality(Forgotten(socket)) <= Cardinality(Deregistered(deregister))
  /\ OneForgottenEach' <=> Cardinality(Forgotten(socket')) <= Cardinality(Deregistered(deregister'))
<1>1. /\ {s \in Sockets : socket[s] = "forgotten"} = Forgotten(socket)
      /\ {c \in Connectors : deregister[c] = "done"} = Deregistered(deregister)
      /\ {s \in Sockets : socket'[s] = "forgotten"} = Forgotten(socket')
      /\ {c \in Connectors : deregister'[c] = "done"} = Deregistered(deregister')
  BY Zenon DEF Forgotten, Deregistered
<1>2. QED
  BY <1>1, Zenon DEF OneForgottenEach

(* A step that forgets no socket and undoes no deregistration keeps the    *)
(* bound.                                                                  *)
LEMMA FewerForgotten ==
  ASSUME OneForgottenEach, Forgotten(socket') \subseteq Forgotten(socket),
         Deregistered(deregister) \subseteq Deregistered(deregister')
  PROVE  OneForgottenEach'
<1>1. /\ Cardinality(Forgotten(socket')) <= Cardinality(Forgotten(socket))
      /\ Cardinality(Deregistered(deregister)) <= Cardinality(Deregistered(deregister'))
  BY CountedFinite, FS_Subset
<1>2. QED
  BY <1>1, CountedFinite, BoundOfSets

(* A connector deregisters when it is shut down and not before.            *)
NotYet == \A c \in Connectors : process[c] \in {"off", "RUNNING"} => deregister[c] = "no"

(* It does so once.                                                        *)
LEMMA NotYetStep == TypeOK /\ NotYet /\ [Next]_vars => NotYet'
<1> SUFFICES ASSUME TypeOK, NotYet, [Next]_vars PROVE NotYet'
  OBVIOUS
<1> USE DEF TypeOK, NotYet
<1>1. ASSUME NEW c \in Connectors,
             Start(c) \/ ShutDown(c) \/ ShutDownReturns(c) \/ ProcessEnds(c) \/ DeregisterNext(c)
      PROVE  NotYet'
  BY <1>1 DEF Start, ShutDown, ShutDownReturns, ProcessEnds, DeregisterNext, DeregisterSocket,
              DeregisterLost, DeregisterFrame
<1>2. ASSUME NEW s \in Sockets,
             Registers(s) \/ DialGivenUp(s) \/ WebsocketLost(s) \/ RouterNotices(s)
      PROVE  NotYet'
  BY <1>2 DEF Registers, DialGivenUp, WebsocketLost, RouterNotices, SocketGoes
<1>3. ASSUME NEW r \in Requests, RequestComes(r) \/ AcquireTimeout(r) \/ RequestNext(r)
      PROVE  NotYet'
  BY <1>3 DEF RequestComes, AcquireTimeout, RequestNext, Acquire, Arrives, Count, OnConnectionEnded, Answer,
              Breaks, RequestGoes
<1>4. CASE UNCHANGED vars
  BY <1>4 DEF vars
<1>5. QED
  BY <1>1, <1>2, <1>3, <1>4 DEF Next

(* Every step keeps the bound; the one of DeregisterSocket raises both     *)
(* sides of it by one.                                                     *)
LEMMA ForgottenStep ==
  ASSUME TypeOK, NotYet, OneForgottenEach, [Next]_vars
  PROVE  OneForgottenEach'
<1> USE SocketConnector DEF TypeOK
<1>1. ASSUME NEW c \in Connectors, DeregisterSocket(c), Pooled # {}
      PROVE  OneForgottenEach'
  <2>1. PICK s \in Sockets : socket[s] = "pooled" /\ socket' = [socket EXCEPT ![s] = "forgotten"]
    BY <1>1 DEF DeregisterSocket, Pooled
  <2>2. Forgotten(socket') = Forgotten(socket) \union {s} /\ s \notin Forgotten(socket)
    BY <2>1 DEF Forgotten
  <2>3. Deregistered(deregister') = Deregistered(deregister) \union {c}
          /\ c \notin Deregistered(deregister)
    BY <1>1 DEF DeregisterSocket, Deregistered
  <2>4. /\ Cardinality(Forgotten(socket')) = Cardinality(Forgotten(socket)) + 1
        /\ Cardinality(Deregistered(deregister')) = Cardinality(Deregistered(deregister)) + 1
    BY <2>2, <2>3, CountedFinite, FS_AddElement
  <2>5. QED
    BY <2>4, CountedFinite, BoundOfSets
<1>2. ASSUME NEW c \in Connectors, DeregisterSocket(c), Pooled = {}
      PROVE  OneForgottenEach'
  BY <1>2, FewerForgotten DEF DeregisterSocket, Forgotten, Deregistered
<1>3. ASSUME NEW c \in Connectors, Start(c) PROVE OneForgottenEach'
  BY <1>3, FewerForgotten DEF Start, Forgotten, Deregistered
<1>4. ASSUME NEW c \in Connectors, ShutDown(c) PROVE OneForgottenEach'
  BY <1>4, FewerForgotten DEF NotYet, ShutDown, Forgotten, Deregistered
<1>5. ASSUME NEW c \in Connectors, ShutDownReturns(c) \/ ProcessEnds(c) \/ DeregisterLost(c)
      PROVE  OneForgottenEach'
  BY <1>5, FewerForgotten
     DEF ShutDownReturns, ProcessEnds, DeregisterLost, Forgotten, Deregistered
<1>6. ASSUME NEW s \in Sockets,
             Registers(s) \/ DialGivenUp(s) \/ WebsocketLost(s) \/ RouterNotices(s)
      PROVE  OneForgottenEach'
  BY <1>6, FewerForgotten DEF Registers, DialGivenUp, WebsocketLost, RouterNotices,
                              SocketGoes, Replacement,
                              Forgotten, Deregistered
<1>7. ASSUME NEW r \in Requests,
             RequestComes(r) \/ AcquireTimeout(r) \/ Count(r) \/ OnConnectionEnded(r)
               \/ Answer(r)
      PROVE  OneForgottenEach'
  BY <1>7, FewerForgotten DEF RequestComes, AcquireTimeout, Count, OnConnectionEnded, Answer, RequestGoes,
                              Forgotten, Deregistered
<1>8. ASSUME NEW r \in Requests, Acquire(r) \/ Arrives(r) \/ Breaks(r)
      PROVE  OneForgottenEach'
  BY <1>8, FewerForgotten DEF Acquire, Arrives, Breaks, Replacement, RequestGoes,
                              Forgotten, Deregistered
<1>9. CASE UNCHANGED vars
  BY <1>9, FewerForgotten DEF vars, Forgotten, Deregistered
<1>10. QED
  BY <1>1, <1>2, <1>3, <1>4, <1>5, <1>6, <1>7, <1>8, <1>9
     DEF Next, DeregisterNext, RequestNext

(* No more sockets are lost to the pool than connectors have deregistered. *)
THEOREM OneForgotten == Spec => []OneForgottenEach
<1>1. Init => OneForgottenEach
  <2> SUFFICES ASSUME Init PROVE OneForgottenEach
    OBVIOUS
  <2>1. Forgotten(socket) = {} /\ Deregistered(deregister) = {}
    BY DEF Init, Forgotten, Deregistered
  <2>2. QED
    BY <2>1, FS_EmptySet DEF OneForgottenEach, Forgotten, Deregistered
<1>2. Init => NotYet
  BY DEF Init, NotYet
<1>3. TypeOK /\ NotYet /\ OneForgottenEach /\ [Next]_vars => OneForgottenEach'
  BY ForgottenStep
<1>4. QED
  BY <1>1, <1>2, <1>3, TypeInit, TypeStep, NotYetStep, PTL DEF Spec

-----------------------------------------------------------------------------
(* BrokenOnlyInGaps.  The strengthening follows a request from the time it *)
(* is given a socket: once the shutdown of its connector has returned true *)
(* its websocket is closed or it is in one of the gaps.                    *)

OnItsWay(r) == request[r] \in {"sent", "arrived", "counted", "ended"}

GapInv ==
    /\ \A s \in Sockets : socket[s] = "pooled" => process[s[1]] # "off"
    /\ \A c \in Connectors :
          process[c] \in {"returned", "exited"} => verdict[c] \in {"true", "false"}
    /\ \A r \in Requests :
          /\ OnItsWay(r) \/ request[r] = "broken"
                => by[r] \in Sockets /\ process[by[r][1]] # "off"
          /\ OnItsWay(r) /\ process[by[r][1]] \in {"returned", "exited"}
                => verdict[by[r][1]] = "false" \/ r \in late \union missed
          /\ request[r] = "broken" => process[by[r][1]] \in {"exited", "crashed"}
    /\ BrokenOnlyInGaps

(* Nothing is pooled and nothing runs at first.                            *)
LEMMA GapInit == Init => GapInv
  BY DEF Init, GapInv, BrokenOnlyInGaps, OnItsWay

(* Every step of a connector keeps the requests accounted for.             *)
LEMMA GapConnectorStep ==
  ASSUME TypeOK, GapInv, NEW c \in Connectors,
         Start(c) \/ ShutDown(c) \/ ShutDownReturns(c) \/ ProcessEnds(c) \/ DeregisterNext(c)
  PROVE  GapInv'
<1> USE SocketConnector DEF TypeOK, GapInv, BrokenOnlyInGaps, OnItsWay, requestVars
<1>1. CASE Start(c)
  BY <1>1 DEF Start
<1>2. CASE ShutDown(c)
  BY <1>2 DEF ShutDown
<1>3. CASE ShutDownReturns(c)
  <2>1. /\ process[c] = "ShutDown" /\ process' = [process EXCEPT ![c] = "returned"]
        /\ verdict'[c] \in {"true", "false"}
        /\ \A d \in Connectors : d # c => verdict'[d] = verdict[d]
        /\ missed' = missed \union Uncounted(c)
        /\ UNCHANGED <<socket, request, by, late>>
    BY <1>3 DEF ShutDownReturns
  <2>2. ASSUME NEW r \in Requests, OnItsWay(r), by[r][1] = c
        PROVE  verdict'[c] = "false" \/ r \in missed'
    <3>1. Serves(c, r)
      BY <2>2, NoSocketAssumption DEF Serves
    <3>2. CASE request[r] = "counted"
      BY <1>3, <3>1, <3>2 DEF ShutDownReturns, Counted
    <3>3. CASE request[r] # "counted"
      BY <2>1, <2>2, <3>1, <3>3 DEF Uncounted
    <3>4. QED
      BY <3>2, <3>3
  <2>3. QED
    BY <2>1, <2>2
<1>4. CASE ProcessEnds(c)
  BY <1>4 DEF ProcessEnds, Gone
<1>5. CASE DeregisterNext(c)
  BY <1>5 DEF DeregisterNext, DeregisterSocket, DeregisterLost, DeregisterFrame, Pooled
<1>6. QED
  BY <1>1, <1>2, <1>3, <1>4, <1>5

(* So does every step of a websocket and of a request.                     *)
LEMMA GapRequestStep ==
  ASSUME TypeOK, GapInv, NEW r \in Requests,
         RequestComes(r) \/ AcquireTimeout(r) \/ RequestNext(r)
  PROVE  GapInv'
<1> USE SocketConnector DEF TypeOK, GapInv, BrokenOnlyInGaps, OnItsWay, RequestGoes
<1>1. CASE RequestComes(r) \/ AcquireTimeout(r)
  BY <1>1 DEF RequestComes, AcquireTimeout
<1>2. CASE Acquire(r)
  BY <1>2 DEF Acquire, Pooled
<1>3. CASE Arrives(r)
  BY <1>3 DEF Arrives, Replacement
<1>4. CASE Count(r) \/ OnConnectionEnded(r) \/ Answer(r)
  BY <1>4 DEF Count, OnConnectionEnded, Answer
<1>5. CASE Breaks(r)
  <2>1. process[by[r][1]] \in {"exited", "crashed"} /\ OnItsWay(r)
    BY <1>5 DEF Breaks, Gone
  <2>2. request' = [request EXCEPT ![r] = "broken"]
        /\ UNCHANGED <<process, verdict, by, late, missed>>
    BY <1>5 DEF Breaks
  <2>3. \A s \in Sockets : socket'[s] = "pooled" => socket[s] = "pooled"
    BY <1>5 DEF Breaks
  <2>4. QED
    BY <2>1, <2>2, <2>3
<1>6. QED
  BY <1>1, <1>2, <1>3, <1>4, <1>5 DEF RequestNext

(* Unless its connector crashed or the shutdown ran into its timeout, a    *)
(* request is broken only if it was given a socket after the shutdown had  *)
(* begun, or was not counted, or counted no more, when it returned.        *)
THEOREM BreaksInGapsOnly == Spec => []BrokenOnlyInGaps
<1>1. TypeOK /\ GapInv /\ [Next]_vars => GapInv'
  <2> SUFFICES ASSUME TypeOK, GapInv, [Next]_vars PROVE GapInv'
    OBVIOUS
  <2>1. ASSUME NEW s \in Sockets,
               Registers(s) \/ DialGivenUp(s) \/ WebsocketLost(s) \/ RouterNotices(s)
        PROVE  GapInv'
    BY <2>1, SocketConnector DEF Registers, DialGivenUp, WebsocketLost, RouterNotices, SocketGoes,
       Replacement, Gone, TypeOK, GapInv, BrokenOnlyInGaps, OnItsWay, requestVars
  <2>2. CASE UNCHANGED vars
    BY <2>2 DEF vars, GapInv, BrokenOnlyInGaps, OnItsWay
  <2>3. QED
    BY <2>1, <2>2, GapConnectorStep, GapRequestStep DEF Next
<1>2. GapInv => BrokenOnlyInGaps
  BY DEF GapInv
<1>3. QED
  BY <1>1, <1>2, TypeInit, TypeStep, GapInit, PTL DEF Spec

-----------------------------------------------------------------------------
(* The connectors keep their windows: SlidingWindow.                       *)

SlotsOf == [s \in Sockets |-> SlotOf(s)]
Closing == {s \in Sockets : process[s[1]] \notin {"off", "RUNNING"}}

FilledStep == [Filled!Next]_Filled!vars

\* a websocket with a request on its way belongs to that request alone
TakenInv ==
    /\ \A s \in Sockets : process[s[1]] = "off" => socket[s] = "off"
    /\ \A r \in Requests : request[r] = "sent" => by[r] \in Sockets /\ socket[by[r]] = "taken"
    /\ \A r, q \in Requests : request[r] = "sent" /\ request[q] = "sent" /\ by[r] = by[q] => r = q

(* The invariant is kept by every step.                                    *)
LEMMA TakenStep == TypeOK /\ TakenInv /\ [Next]_vars => TakenInv'
<1> SUFFICES ASSUME TypeOK, TakenInv, [Next]_vars PROVE TakenInv'
  OBVIOUS
<1> USE SocketConnector DEF TypeOK, Processes, TakenInv, requestVars
<1>1. ASSUME NEW c \in Connectors, Start(c) PROVE TakenInv'
  BY <1>1 DEF Start
<1>2. ASSUME NEW c \in Connectors, ShutDown(c) \/ ShutDownReturns(c) \/ ProcessEnds(c)
      PROVE  TakenInv'
  BY <1>2 DEF ShutDown, ShutDownReturns, ProcessEnds, Gone
<1>3. ASSUME NEW c \in Connectors, DeregisterNext(c) PROVE TakenInv'
  BY <1>3 DEF DeregisterNext, DeregisterSocket, DeregisterLost, DeregisterFrame, Pooled
<1>4. ASSUME NEW s \in Sockets,
             Registers(s) \/ DialGivenUp(s) \/ WebsocketLost(s) \/ RouterNotices(s)
      PROVE  TakenInv'
  BY <1>4 DEF Registers, DialGivenUp, WebsocketLost, RouterNotices, SocketGoes, Replacement, Gone
<1>5. ASSUME NEW r \in Requests, RequestComes(r) \/ AcquireTimeout(r) \/ Count(r) \/ OnConnectionEnded(r)
               \/ Answer(r)
      PROVE  TakenInv'
  BY <1>5 DEF RequestComes, AcquireTimeout, Count, OnConnectionEnded, Answer, RequestGoes
<1>6. ASSUME NEW r \in Requests, Acquire(r) PROVE TakenInv'
  BY <1>6 DEF Acquire, RequestGoes, Pooled
<1>7. ASSUME NEW r \in Requests, Arrives(r) PROVE TakenInv'
  BY <1>7 DEF Arrives, RequestGoes, Replacement, Gone
<1>8. ASSUME NEW r \in Requests, Breaks(r) PROVE TakenInv'
  BY <1>8 DEF Breaks, RequestGoes
<1>9. CASE UNCHANGED vars
  BY <1>9 DEF vars
<1>10. QED
  BY <1>1, <1>2, <1>3, <1>4, <1>5, <1>6, <1>7, <1>8, <1>9 DEF Next, RequestNext

(* A step in which each slot stays what it was for its window.             *)
LEMMA FilledStill ==
  ASSUME \A s \in Sockets : SlotOf(s)' = SlotOf(s),
         \A c \in Connectors :
            process[c] \notin {"off", "RUNNING"} <=> process'[c] \notin {"off", "RUNNING"}
  PROVE  FilledStep
<1>1. Closing' = Closing
  BY SocketConnector DEF Closing
<1>2. SlotsOf' = SlotsOf
  BY DEF SlotsOf
<1>3. QED
  BY <1>1, <1>2 DEF FilledStep, Filled!vars, SlotsOf, Closing

(* Each move of one slot, as a step of its window.                         *)
LEMMA SlotFilledStep ==
  ASSUME TypeOK, NEW s \in Sockets, NEW l, socket' = [socket EXCEPT ![s] = l],
         UNCHANGED process, process[s[1]] # "off",
         \/ socket[s] = "dialing" /\ l = "pooled"
         \/ l = "off" /\ process[s[1]] # "RUNNING"
         \/ socket[s] \in {"pooled", "taken", "forgotten"} /\ l = "dialing"
               /\ process[s[1]] = "RUNNING"
  PROVE  FilledStep
<1>1. /\ Closing' = Closing
      /\ s \in Closing <=> process[s[1]] # "RUNNING"
  BY DEF Closing
<1>2. /\ \A t \in Sockets \ {s} : SlotOf(t)' = SlotOf(t)
      /\ l = "pooled" => SlotOf(s)' = "open"
      /\ l = "off" => SlotOf(s)' = "closed"
      /\ l = "dialing" => SlotOf(s)' = "filling"
      /\ socket[s] = "dialing" => SlotOf(s) = "filling"
      /\ socket[s] \in {"pooled", "taken", "forgotten"} => SlotOf(s) = "open"
  BY DEF TypeOK, SlotOf
<1> HIDE DEF SlotOf
<1>3. SlotsOf' = [SlotsOf EXCEPT ![s] = SlotOf(s)'] /\ SlotsOf[s] = SlotOf(s)
  BY <1>2 DEF SlotsOf
<1>4. CASE socket[s] = "dialing" /\ l = "pooled"
  <2>1. Filled!Open(s)
    BY <1>1, <1>2, <1>3, <1>4 DEF Filled!Open, Filled!Goes, SlotsOf, Closing
  <2>2. QED
    BY <2>1 DEF FilledStep, Filled!Next
<1>5. CASE l = "off" /\ process[s[1]] # "RUNNING"
  <2>1. Filled!GiveUp(s)
    BY <1>1, <1>2, <1>3, <1>5 DEF Filled!GiveUp, Filled!Goes, SlotsOf, Closing
  <2>2. QED
    BY <2>1 DEF FilledStep, Filled!Next
<1>6. CASE /\ socket[s] \in {"pooled", "taken", "forgotten"}
           /\ l = "dialing" /\ process[s[1]] = "RUNNING"
  <2>1. Filled!Replace(s)
    BY <1>1, <1>2, <1>3, <1>6 DEF Filled!Replace, Filled!Goes, SlotsOf, Closing
  <2>2. QED
    BY <2>1 DEF FilledStep, Filled!Next
<1>7. QED
  BY <1>4, <1>5, <1>6

(* Each step is one of a window, or none.                                  *)
LEMMA FilledSteps == TypeOK /\ TakenInv /\ [Next]_vars => FilledStep
<1> SUFFICES ASSUME TypeOK, TakenInv, [Next]_vars PROVE FilledStep
  OBVIOUS
<1> USE SocketConnector
<1>1. ASSUME NEW c \in Connectors, Start(c) PROVE FilledStep
  <2> DEFINE S == {s \in Sockets : s[1] = c}
  <2>1. /\ process[c] = "off" /\ process' = [process EXCEPT ![c] = "RUNNING"]
        /\ socket' = [s \in Sockets |-> IF s[1] = c THEN "dialing" ELSE socket[s]]
    BY <1>1 DEF Start
  <2>2. Closing' = Closing /\ \A s \in S : s \notin Closing
    BY <2>1 DEF TypeOK, Closing
  <2>3. /\ \A s \in S : SlotOf(s) = "vacant" /\ SlotOf(s)' = "filling"
        /\ \A s \in Sockets \ S : SlotOf(s)' = SlotOf(s)
    BY <2>1 DEF TypeOK, TakenInv, SlotOf
  <2>4. S \in SUBSET Sockets
    OBVIOUS
  <2> HIDE DEF S, SlotOf
  <2>5. SlotsOf' = [s \in Sockets |-> IF s \in S THEN "filling" ELSE SlotsOf[s]]
    BY <2>3 DEF SlotsOf
  <2>6. Filled!Fill(S)
    BY <2>2, <2>3, <2>4, <2>5 DEF Filled!Fill, SlotsOf, Closing
  <2>7. QED
    BY <2>4, <2>6 DEF FilledStep, Filled!Next
<1>2. ASSUME NEW c \in Connectors, process[c] = "RUNNING", UNCHANGED socket,
             NEW p \in {"ShutDown", "crashed"}, process' = [process EXCEPT ![c] = p]
      PROVE  FilledStep
  <2> DEFINE S == {s \in Sockets : s[1] = c}
  <2>1. Closing' = Closing \union S
    BY <1>2 DEF TypeOK, Closing
  <2>2. SlotsOf' = SlotsOf
    BY <1>2 DEF TypeOK, SlotsOf, SlotOf
  <2>3. S \in SUBSET Sockets /\ Filled!Close(S)
    BY <2>1, <2>2 DEF Filled!Close, SlotsOf, Closing
  <2>4. QED
    BY <2>3 DEF FilledStep, Filled!Next
<1>3. ASSUME NEW c \in Connectors, process[c] \notin {"off", "RUNNING"}, UNCHANGED socket,
             NEW p \in {"returned", "exited", "crashed"}, process' = [process EXCEPT ![c] = p]
      PROVE  FilledStep
  BY <1>3, FilledStill DEF TypeOK, SlotOf
<1>4. ASSUME NEW c \in Connectors, ShutDown(c) \/ ShutDownReturns(c) \/ ProcessEnds(c)
      PROVE  FilledStep
  <2>1. CASE ShutDown(c)
    BY <1>2, <2>1 DEF ShutDown
  <2>2. CASE ShutDownReturns(c)
    BY <1>3, <2>2 DEF ShutDownReturns
  <2>3. CASE ProcessEnds(c)
    <3>1. PICK p \in {"exited", "crashed"} :
             /\ process' = [process EXCEPT ![c] = p]
             /\ process[c] = "RUNNING" => p = "crashed"
      BY <2>3 DEF ProcessEnds, TypeOK
    <3>2. process[c] # "off" /\ UNCHANGED socket
      BY <2>3 DEF ProcessEnds, Gone
    <3>3. QED
      BY <1>2, <1>3, <3>1, <3>2
  <2>4. QED
    BY <1>4, <2>1, <2>2, <2>3
<1>5. ASSUME NEW c \in Connectors, DeregisterNext(c) PROVE FilledStep
  <2>1. /\ UNCHANGED process
        /\ \/ UNCHANGED socket
           \/ \E s \in Pooled : socket' = [socket EXCEPT ![s] = "forgotten"]
    BY <1>5 DEF DeregisterNext, DeregisterSocket, DeregisterLost, DeregisterFrame
  <2>2. \A s \in Sockets : SlotOf(s)' = SlotOf(s)
    BY <2>1 DEF TypeOK, Pooled, SlotOf
  <2>3. QED
    BY <2>1, <2>2, FilledStill
<1>6. ASSUME NEW s \in Sockets,
             Registers(s) \/ DialGivenUp(s) \/ WebsocketLost(s) \/ RouterNotices(s)
      PROVE  FilledStep
  <2>1. UNCHANGED process /\ process[s[1]] # "off"
    BY <1>6 DEF TakenInv, Registers, DialGivenUp, WebsocketLost, RouterNotices, SocketGoes, Gone
  <2>2. CASE Registers(s)
    BY <2>1, <2>2, SlotFilledStep DEF Registers, SocketGoes
  <2>3. CASE DialGivenUp(s)
    BY <2>1, <2>3, SlotFilledStep DEF DialGivenUp, SocketGoes
  <2>4. CASE WebsocketLost(s)
    BY <2>1, <2>4, SlotFilledStep DEF WebsocketLost, SocketGoes, Replacement
  <2>5. CASE RouterNotices(s)
    BY <2>1, <2>5, SlotFilledStep DEF RouterNotices, SocketGoes, Gone
  <2>6. QED
    BY <1>6, <2>2, <2>3, <2>4, <2>5
<1>7. ASSUME NEW r \in Requests, RequestComes(r) \/ AcquireTimeout(r) \/ Count(r) \/ OnConnectionEnded(r)
               \/ Answer(r)
      PROVE  FilledStep
  <2>1. UNCHANGED <<process, socket>>
    BY <1>7 DEF RequestComes, AcquireTimeout, Count, OnConnectionEnded, Answer, RequestGoes
  <2>2. QED
    BY <2>1, FilledStill DEF SlotOf
<1>8. ASSUME NEW r \in Requests, Acquire(r) PROVE FilledStep
  <2>1. UNCHANGED process /\ \E s \in Pooled : socket' = [socket EXCEPT ![s] = "taken"]
    BY <1>8 DEF Acquire, RequestGoes
  <2>2. \A s \in Sockets : SlotOf(s)' = SlotOf(s)
    BY <2>1 DEF TypeOK, Pooled, SlotOf
  <2>3. QED
    BY <2>1, <2>2, FilledStill
<1>9. ASSUME NEW r \in Requests, Arrives(r) PROVE FilledStep
  <2>1. /\ UNCHANGED process /\ ~Gone(by[r][1]) /\ request[r] = "sent"
        /\ socket' = [socket EXCEPT ![by[r]] = Replacement(by[r])]
    BY <1>9 DEF Arrives, RequestGoes
  <2>2. by[r] \in Sockets /\ socket[by[r]] = "taken" /\ process[by[r][1]] # "off"
    BY <2>1 DEF TakenInv, Gone
  <2>3. QED
    BY <2>1, <2>2, SlotFilledStep DEF Replacement
<1>10. ASSUME NEW r \in Requests, Breaks(r) PROVE FilledStep
  <2>1. UNCHANGED process /\ Gone(by[r][1])
    BY <1>10 DEF Breaks, RequestGoes
  <2>2. CASE request[r] = "sent"
    <3>1. socket' = [socket EXCEPT ![by[r]] = "off"]
      BY <1>10, <2>2 DEF Breaks
    <3>2. by[r] \in Sockets /\ socket[by[r]] = "taken" /\ process[by[r][1]] # "off"
      BY <2>2 DEF TakenInv
    <3>3. QED
      BY <2>1, <3>1, <3>2, SlotFilledStep DEF Gone
  <2>3. CASE request[r] # "sent"
    <3>1. UNCHANGED socket
      BY <1>10, <2>3 DEF Breaks
    <3>2. QED
      BY <2>1, <3>1, FilledStill DEF SlotOf
  <2>4. QED
    BY <2>2, <2>3
<1>11. CASE UNCHANGED vars
  <2>1. UNCHANGED <<process, socket>>
    BY <1>11 DEF vars
  <2>2. QED
    BY <2>1, FilledStill DEF SlotOf
<1>12. QED
  BY <1>1, <1>4, <1>5, <1>6, <1>7, <1>8, <1>9, <1>10, <1>11 DEF Next, RequestNext

(* Each connector keeps its window as SlidingWindow promises, whatever     *)
(* requests, other connectors and their deregistrations do to its sockets. *)
THEOREM KeepWindows == Spec => WindowsKept
<1>1. Init => TakenInv /\ Filled!Init
  BY SocketConnector DEF Init, TakenInv, Filled!Init, SlotOf
<1>2. TypeOK /\ TakenInv /\ [Next]_vars => [Filled!Next]_Filled!vars
  BY FilledSteps DEF FilledStep
<1>3. QED
  BY <1>1, <1>2, TypeInit, TypeStep, TakenStep, PTL DEF Spec, WindowsKept, Filled!Spec
=============================================================================
