-------------------------- MODULE ConnectorProofs ---------------------------
(***************************************************************************)
(* Proofs about Connector, for any window and any number of listings.      *)
(***************************************************************************)
EXTENDS Connector, FiniteSetTheorems, TLAPS

-----------------------------------------------------------------------------
(* Typing, of the variables the proofs need.                               *)

Types ==
    /\ state \in States
    /\ started \in 0..NumSlots /\ startAdding \in BOOLEAN
    /\ known \in BOOLEAN /\ idleNum \in Int /\ lost \in Nat
    /\ pending \in Nat /\ pendingReq \in Nat
    /\ life \in [Slots -> Lives]
    /\ lateDials \in [Slots -> Nat]

(* There is a whole number of slots.                                       *)
LEMMA NumSlotsNat == NumSlots \in Nat
  BY WindowAssumption DEF NumSlots

(* Every action of the connector preserves the types.                      *)
LEMMA TypesStep == Types /\ [Next]_vars => Types'
<1> SUFFICES ASSUME Types, [Next]_vars PROVE Types'
  OBVIOUS
<1> USE NumSlotsNat, BoundsAssumption
    DEF Types, States, Lives, Become, farmVars, reqVars, stopVars, startVars
<1>1. CASE StartConnect
  <2>1. startAdding' \in BOOLEAN /\ known' \in BOOLEAN
    BY <1>1 DEF StartConnect
  <2>2. started + 1 \in Slots /\ started' \in 0..NumSlots
    BY <1>1 DEF StartConnect, Slots
  <2>3. life' \in [Slots -> Lives] /\ lateDials' \in [Slots -> Nat]
    BY <1>1, <2>2 DEF StartConnect, connectToRouter
  <2>4. QED
    BY <1>1, <2>1, <2>2, <2>3 DEF StartConnect
<1>2. CASE StartAdd
  <2>1. startAdding' \in BOOLEAN /\ known' \in BOOLEAN
    BY <1>2 DEF StartAdd, addWebsocket
  <2>2. idleNum' \in Int /\ lost' \in Nat
    BY <1>2 DEF StartAdd, addWebsocket
  <2>3. QED
    BY <1>2, <2>1, <2>2 DEF StartAdd
<1>3. CASE StartDone
  BY <1>3 DEF StartDone
<1>4. ASSUME NEW i \in Slots, DialSucceeds(i) PROVE Types'
  BY <1>4 DEF DialSucceeds, SlotFrame
<1>5. ASSUME NEW i \in Slots, OnWebsocketError(i) PROVE Types'
  BY <1>5 DEF OnWebsocketError, SlotFrame, removeWebsocket
<1>6. ASSUME NEW i \in Slots, RequestArrives(i) PROVE Types'
  BY <1>6 DEF RequestArrives, SlotFrame, removeWebsocket
<1>7. ASSUME NEW i \in Slots, OnWebsocketClose(i) PROVE Types'
  BY <1>7 DEF OnWebsocketClose, SlotFrame, removeWebsocket
<1>8. ASSUME NEW i \in Slots, RetryGoroutine(i) PROVE Types'
  BY <1>8 DEF RetryGoroutine, SlotFrame
<1>9. ASSUME NEW i \in Slots, TimerFires(i) PROVE Types'
  BY <1>9 DEF TimerFires, SlotFrame
<1>10. ASSUME NEW i \in Slots, CheckState(i) PROVE Types'
  BY <1>10 DEF CheckState, End, Proceed, RunFrame, CheckFrame
<1>11. ASSUME NEW i \in Slots, CheckSafe(i) PROVE Types'
  BY <1>11 DEF CheckSafe, End, Proceed, RunFrame, CheckFrame
<1>12. ASSUME NEW i \in Slots, Reconnect(i) PROVE Types'
  BY <1>12 DEF Reconnect, connectToRouter, RunFrame
<1>13. CASE AddAfterReconnect
  <2>1. known' \in BOOLEAN
    BY <1>13 DEF AddAfterReconnect, addWebsocket
  <2>2. idleNum' \in Int /\ lost' \in Nat
    BY <1>13 DEF AddAfterReconnect, addWebsocket
  <2>3. pending' \in Nat /\ pendingReq' \in Nat
    BY <1>13 DEF AddAfterReconnect
  <2>4. QED
    BY <1>13, <2>1, <2>2, <2>3 DEF AddAfterReconnect, RunFrame
<1>14. CASE OnConnectionStarted
  BY <1>14 DEF OnConnectionStarted, ReqFrame
<1>15. CASE OnConnectionEnded
  BY <1>15 DEF OnConnectionEnded, ReqFrame
<1>16. CASE ShutDownCalled
  BY <1>16 DEF ShutDownCalled, StopStep
<1>17. CASE ShutDownNext
  BY <1>17 DEF ShutDownNext, ParentCancel, Deregister, MarkShutDown,
               ShutDownReturnsTrue, ShutDownTimesOut, StopStep
<1>18. CASE UNCHANGED vars
  BY <1>18 DEF vars
<1>19. QED
  BY <1>1, <1>2, <1>3, <1>4, <1>5, <1>6, <1>7, <1>8, <1>9, <1>10, <1>11, <1>12,
     <1>13, <1>14, <1>15, <1>16, <1>17, <1>18 DEF Next, DialNext, ActionNext

(* The initial values have their types.                                    *)
LEMMA TypesInit == Init => Types
<1> SUFFICES ASSUME Init PROVE Types
  OBVIOUS
<1>1. startAdding \in BOOLEAN /\ known \in BOOLEAN
  BY DEF Init
<1>2. QED
  BY <1>1, NumSlotsNat DEF Init, Types, States, Lives

-----------------------------------------------------------------------------
(* Counting the slots whose websocket is open or opening.                  *)

CountedLives == {"dialing", "idle", "undialled"}
CountedIn(f) == {i \in Slots : f[i] \in CountedLives}

(* The slots that WindowAccounting counts depend on life alone.            *)
LEMMA CountedIsCountedIn == Counted = CountedIn(life) /\ Counted' = CountedIn(life')
  BY DEF Counted, CountedIn, CountedLives

(* The slots are finitely many, and so are those counted.                  *)
LEMMA CountedFinite ==
  ASSUME NEW f
  PROVE  /\ IsFiniteSet(CountedIn(f))
         /\ Cardinality(CountedIn(f)) \in 0..NumSlots
<1>1. IsFiniteSet(Slots) /\ Cardinality(Slots) = NumSlots
  BY FS_Interval, NumSlotsNat DEF Slots
<1>2. CountedIn(f) \in SUBSET Slots
  BY DEF CountedIn
<1>3. IsFiniteSet(CountedIn(f)) /\ Cardinality(CountedIn(f)) <= NumSlots
  BY <1>1, <1>2, FS_Subset
<1>4. QED
  BY <1>3, FS_CardinalityType, NumSlotsNat

(* A slot that is not counted leaves at most all others.                   *)
LEMMA CountedBelow ==
  ASSUME NEW f, NEW i \in Slots, f[i] \notin CountedLives
  PROVE  Cardinality(CountedIn(f)) < NumSlots
<1>1. IsFiniteSet(Slots) /\ Cardinality(Slots) = NumSlots
  BY FS_Interval, NumSlotsNat DEF Slots
<1>2. CountedIn(f) \in SUBSET Slots /\ CountedIn(f) # Slots
  BY DEF CountedIn
<1>3. Cardinality(CountedIn(f)) <= NumSlots /\ Cardinality(CountedIn(f)) # NumSlots
  BY <1>1, <1>2, FS_Subset
<1>4. QED
  BY <1>3, CountedFinite, NumSlotsNat

(* A slot that becomes counted adds one.                                   *)
LEMMA SlotEnters ==
  ASSUME NEW f \in [Slots -> Lives], NEW i \in Slots, NEW l \in CountedLives,
         f[i] \notin CountedLives
  PROVE  Cardinality(CountedIn([f EXCEPT ![i] = l])) = Cardinality(CountedIn(f)) + 1
<1>1. CountedIn([f EXCEPT ![i] = l]) = CountedIn(f) \cup {i} /\ i \notin CountedIn(f)
  BY DEF CountedIn
<1>2. QED
  BY <1>1, CountedFinite, FS_AddElement

(* A slot that is counted no more takes one away.                          *)
LEMMA SlotLeaves ==
  ASSUME NEW f \in [Slots -> Lives], NEW i \in Slots, NEW l \in Lives \ CountedLives,
         f[i] \in CountedLives
  PROVE  Cardinality(CountedIn([f EXCEPT ![i] = l])) = Cardinality(CountedIn(f)) - 1
<1>1. CountedIn([f EXCEPT ![i] = l]) = CountedIn(f) \ {i} /\ i \in CountedIn(f)
  BY DEF CountedIn
<1>2. QED
  BY <1>1, CountedFinite, FS_RemoveElement

(* Any other change of a slot leaves the count alone.                      *)
LEMMA SlotStays ==
  ASSUME NEW f \in [Slots -> Lives], NEW i \in Slots, NEW l \in Lives,
         f[i] \in CountedLives <=> l \in CountedLives
  PROVE  CountedIn([f EXCEPT ![i] = l]) = CountedIn(f)
  BY DEF CountedIn

-----------------------------------------------------------------------------
(* The websocket counter.                                                  *)

\* the slots that Start has not reached have no websocket
OffUntilStarted == \A i \in Slots : i > started => life[i] = "off"

AccountInv == Types /\ OffUntilStarted /\ WindowAccounting

(* Start dials the slots in order, and only Start dials a slot that is off. *)
LEMMA OffStep == Types /\ OffUntilStarted /\ [Next]_vars => OffUntilStarted'
<1> SUFFICES ASSUME Types, OffUntilStarted, [Next]_vars PROVE OffUntilStarted'
  OBVIOUS
<1> USE NumSlotsNat DEF Types, OffUntilStarted, Become, Slots, startVars
<1>1. CASE StartConnect
  BY <1>1 DEF StartConnect, connectToRouter
<1>2. CASE StartAdd
  BY <1>2 DEF StartAdd
<1>3. CASE StartDone
  BY <1>3 DEF StartDone
<1>4. ASSUME NEW i \in Slots, DialSucceeds(i) PROVE OffUntilStarted'
  BY <1>4 DEF DialSucceeds, SlotFrame
<1>5. ASSUME NEW i \in Slots, OnWebsocketError(i) PROVE OffUntilStarted'
  BY <1>5 DEF OnWebsocketError, SlotFrame
<1>6. ASSUME NEW i \in Slots, RequestArrives(i) PROVE OffUntilStarted'
  BY <1>6 DEF RequestArrives, SlotFrame
<1>7. ASSUME NEW i \in Slots, OnWebsocketClose(i) PROVE OffUntilStarted'
  BY <1>7 DEF OnWebsocketClose, SlotFrame
<1>8. ASSUME NEW i \in Slots, RetryGoroutine(i) \/ TimerFires(i) \/ CheckState(i) \/ CheckSafe(i)
      PROVE  OffUntilStarted'
  BY <1>8 DEF RetryGoroutine, TimerFires, CheckState, CheckSafe, End, Proceed,
              SlotFrame, RunFrame
<1>9. ASSUME NEW i \in Slots, Reconnect(i) PROVE OffUntilStarted'
  BY <1>9 DEF Reconnect, connectToRouter, RunFrame
<1>10. CASE AddAfterReconnect
  BY <1>10 DEF AddAfterReconnect, RunFrame
<1>11. CASE OnConnectionStarted \/ OnConnectionEnded
  BY <1>11 DEF OnConnectionStarted, OnConnectionEnded, ReqFrame
<1>12. CASE ShutDownCalled \/ ShutDownNext
  BY <1>12 DEF ShutDownCalled, ShutDownNext, ParentCancel, Deregister, MarkShutDown,
               ShutDownReturnsTrue, ShutDownTimesOut, StopStep
<1>13. CASE UNCHANGED vars
  BY <1>13 DEF vars
<1>14. QED
  BY <1>1, <1>2, <1>3, <1>4, <1>5, <1>6, <1>7, <1>8, <1>9, <1>10, <1>11, <1>12,
     <1>13 DEF Next, DialNext, ActionNext

(* The counter moves with the websockets: adding one settles a pending     *)
(* add, and losing one is counted or recorded as lost.                     *)
LEMMA AccountStep == AccountInv /\ [Next]_vars => WindowAccounting'
<1> SUFFICES ASSUME Types, OffUntilStarted, WindowAccounting, [Next]_vars
             PROVE  WindowAccounting'
  BY DEF AccountInv
<1> DEFINE N == Cardinality(CountedIn(life))
<1>n. N \in Nat /\ WindowAccounting /\ idleNum + PendingAdds = N + lost
  BY CountedFinite, CountedIsCountedIn, NumSlotsNat DEF WindowAccounting
<1>t. /\ idleNum \in Int /\ lost \in Nat /\ pending \in Nat /\ pendingReq \in Nat
      /\ life \in [Slots -> Lives]
  BY DEF Types
<1>g. WindowAccounting' <=>
        idleNum' + PendingAdds' = Cardinality(CountedIn(life')) + lost'
  BY CountedIsCountedIn DEF WindowAccounting
<1> HIDE DEF N
<1>same. ASSUME CountedIn(life') = CountedIn(life), idleNum' = idleNum, lost' = lost,
                PendingAdds' = PendingAdds
         PROVE  WindowAccounting'
  BY <1>same, <1>n, <1>g DEF N
<1>away. ASSUME NEW i \in Slots, life[i] \in CountedLives,
                NEW l \in Lives \ CountedLives, life' = [life EXCEPT ![i] = l],
                removeWebsocket, PendingAdds' = PendingAdds
         PROVE  WindowAccounting'
  <2>1. Cardinality(CountedIn(life')) = N - 1
    BY <1>away, <1>t, SlotLeaves DEF N
  <2>2. PendingAdds \in Int
    BY <1>t DEF PendingAdds
  <2>3. CASE known
    <3>1. idleNum' = idleNum - 1 /\ lost' = lost
      BY <1>away, <2>3 DEF removeWebsocket
    <3>2. QED
      BY <2>1, <2>2, <3>1, <1>away, <1>n, <1>t, <1>g
  <2>4. CASE ~known
    <3>1. idleNum' = idleNum /\ lost' = lost + 1
      BY <1>away, <2>4 DEF removeWebsocket
    <3>2. QED
      BY <2>1, <2>2, <3>1, <1>away, <1>n, <1>t, <1>g
  <2>5. QED
    BY <2>3, <2>4
<1>dial. ASSUME NEW i \in Slots, life[i] \notin CountedLives, connectToRouter(i),
                idleNum' = idleNum, lost' = lost, PendingAdds' = PendingAdds + 1
         PROVE  WindowAccounting'
  <2>1. PICK l \in CountedLives : life' = [life EXCEPT ![i] = l]
    BY <1>dial DEF connectToRouter, Become, CountedLives
  <2>2. Cardinality(CountedIn(life')) = N + 1
    BY <1>dial, <2>1, <1>t, SlotEnters DEF N
  <2>3. PendingAdds \in Int
    BY <1>t DEF PendingAdds
  <2>4. QED
    BY <2>2, <2>3, <1>dial, <1>n, <1>t, <1>g
<1>add. ASSUME addWebsocket, life' = life, PendingAdds' = PendingAdds - 1
        PROVE  WindowAccounting'
  <2>1. PendingAdds \in Int
    BY <1>t DEF PendingAdds
  <2>2. QED
    BY <2>1, <1>add, <1>n, <1>t, <1>g DEF addWebsocket, N
<1>1. CASE StartConnect
  <2>1. started + 1 \in Slots /\ life[started + 1] = "off"
    BY <1>1, NumSlotsNat DEF StartConnect, Types, OffUntilStarted, Slots
  <2>2. PendingAdds' = PendingAdds + 1
    BY <1>1, <1>t DEF StartConnect, PendingAdds
  <2>3. QED
    BY <1>1, <2>1, <2>2, <1>dial DEF StartConnect, farmVars, CountedLives
<1>2. CASE StartAdd
  <2>1. PendingAdds' = PendingAdds - 1
    BY <1>2, <1>t DEF StartAdd, PendingAdds
  <2>2. QED
    BY <1>2, <2>1, <1>add DEF StartAdd
<1>3. CASE StartDone
  BY <1>3, <1>same DEF StartDone, startVars, farmVars, PendingAdds
<1>4. ASSUME NEW i \in Slots, DialSucceeds(i) PROVE WindowAccounting'
  <2>1. CountedIn(life') = CountedIn(life)
    <3>1. life' = [life EXCEPT ![i] = "idle"] /\ life[i] = "dialing"
      BY <1>4 DEF DialSucceeds, Become
    <3>2. QED
      BY <3>1, <1>t, SlotStays DEF CountedLives, Lives
  <2>2. QED
    BY <1>4, <2>1, <1>same DEF DialSucceeds, SlotFrame, startVars, farmVars, PendingAdds
<1>5. ASSUME NEW i \in Slots, OnWebsocketError(i) PROVE WindowAccounting'
  BY <1>5, <1>away DEF OnWebsocketError, SlotFrame, startVars, PendingAdds, Become,
                       CountedLives, Lives
<1>6. ASSUME NEW i \in Slots, RequestArrives(i) PROVE WindowAccounting'
  BY <1>6, <1>away DEF RequestArrives, SlotFrame, startVars, PendingAdds, Become,
                       CountedLives, Lives
<1>7. ASSUME NEW i \in Slots, OnWebsocketClose(i) PROVE WindowAccounting'
  BY <1>7, <1>away DEF OnWebsocketClose, SlotFrame, startVars, PendingAdds, Become,
                       CountedLives, Lives
<1>8. ASSUME NEW i \in Slots, RetryGoroutine(i) \/ TimerFires(i) \/ CheckState(i) \/ CheckSafe(i)
      PROVE  WindowAccounting'
  <2>1. CountedIn(life') = CountedIn(life)
    <3>1. /\ \E l \in {"stopped", "timer", "consumed", "checked", "safe", "dropped"} :
                life' = [life EXCEPT ![i] = l]
          /\ life[i] \in {"retry", "timer", "consumed", "checked"}
      BY <1>8 DEF RetryGoroutine, TimerFires, CheckState, CheckSafe,
                  End, Proceed, Become
    <3>2. PICK l \in Lives : life' = [life EXCEPT ![i] = l] /\ l \notin CountedLives
      BY <3>1 DEF CountedLives, Lives
    <3>3. life[i] \notin CountedLives
      BY <3>1 DEF CountedLives
    <3>4. QED
      BY <3>2, <3>3, <1>t, SlotStays
  <2>2. PendingAdds' = PendingAdds
    BY <1>8 DEF RetryGoroutine, TimerFires, CheckState, CheckSafe,
                SlotFrame, RunFrame, CheckFrame, startVars, PendingAdds
  <2>3. idleNum' = idleNum /\ lost' = lost
    BY <1>8 DEF RetryGoroutine, TimerFires, CheckState, CheckSafe,
                CheckFrame, farmVars
  <2>4. QED
    BY <2>1, <2>2, <2>3, <1>same
<1>9. ASSUME NEW i \in Slots, Reconnect(i) PROVE WindowAccounting'
  <2>1. life[i] \notin CountedLives /\ connectToRouter(i)
    BY <1>9 DEF Reconnect, CountedLives
  <2>2. PendingAdds' = PendingAdds + 1
    BY <1>9, <1>t DEF Reconnect, RunFrame, startVars, PendingAdds
  <2>3. QED
    BY <1>9, <2>1, <2>2, <1>dial DEF Reconnect, farmVars
<1>10. CASE AddAfterReconnect
  <2>1. PendingAdds' = PendingAdds - 1
    BY <1>10, <1>t DEF AddAfterReconnect, RunFrame, startVars, PendingAdds
  <2>2. QED
    BY <1>10, <2>1, <1>add DEF AddAfterReconnect
<1>11. CASE OnConnectionStarted \/ OnConnectionEnded
  BY <1>11, <1>same DEF OnConnectionStarted, OnConnectionEnded, ReqFrame, startVars,
                        farmVars, PendingAdds
<1>12. CASE ShutDownCalled \/ ShutDownNext
  BY <1>12, <1>same DEF ShutDownCalled, ShutDownNext, ParentCancel, Deregister,
               MarkShutDown, ShutDownReturnsTrue, ShutDownTimesOut, StopStep, startVars,
               farmVars, PendingAdds
<1>13. CASE UNCHANGED vars
  BY <1>13, <1>same DEF vars, PendingAdds
<1>14. QED
  BY <1>1, <1>2, <1>3, <1>4, <1>5, <1>6, <1>7, <1>8, <1>9, <1>10, <1>11, <1>12,
     <1>13 DEF Next, DialNext, ActionNext

(* At first nothing is counted, added or lost.                             *)
LEMMA AccountInit == Init => AccountInv
<1> SUFFICES ASSUME Init PROVE AccountInv
  OBVIOUS
<1>1. CountedIn(life) = {}
  BY DEF Init, CountedIn, CountedLives
<1>2. Cardinality(CountedIn(life)) = 0
  BY <1>1, FS_EmptySet
<1>3. WindowAccounting
  BY <1>2, CountedIsCountedIn DEF Init, WindowAccounting, PendingAdds
<1>4. QED
  BY <1>3, TypesInit DEF AccountInv, OffUntilStarted, Init

(* The websocket counter of a router is the number of open or opening      *)
(* websockets, less the adds to come, plus the removals that came before   *)
(* the first add: for any window and any number of listings.               *)
THEOREM CounterAccounted == Spec => []WindowAccounting
<1>1. AccountInv /\ [Next]_vars => AccountInv'
  BY TypesStep, OffStep, AccountStep DEF AccountInv
<1>2. AccountInv => WindowAccounting
  BY DEF AccountInv
<1>3. QED
  BY AccountInit, <1>1, <1>2, PTL DEF Spec

-----------------------------------------------------------------------------
(* Which slots are given up.                                               *)

DroppedIn(f) == {i \in Slots : f[i] = "dropped"}

(* A slot that asks the farm is neither counted nor given up, so that the  *)
(* others that are make at most one less than all.                         *)
LEMMA DroppedBelow ==
  ASSUME NEW f, NEW i \in Slots, f[i] = "checked"
  PROVE  /\ IsFiniteSet(DroppedIn(f)) /\ Cardinality(DroppedIn(f)) \in Nat
         /\ Cardinality(CountedIn(f)) + Cardinality(DroppedIn(f)) < NumSlots
<1> DEFINE C == CountedIn(f)  D == DroppedIn(f)
<1>1. IsFiniteSet(Slots) /\ Cardinality(Slots) = NumSlots
  BY FS_Interval, NumSlotsNat DEF Slots
<1>2. C \subseteq Slots /\ D \subseteq Slots /\ C \cap D = {} /\ i \notin C \union D
  BY DEF CountedIn, DroppedIn, CountedLives
<1>3. IsFiniteSet(C) /\ IsFiniteSet(D) /\ Cardinality(C) \in Nat /\ Cardinality(D) \in Nat
  BY <1>1, <1>2, FS_Subset, FS_CardinalityType
<1>4. IsFiniteSet(C \union D) /\ Cardinality(C \union D) = Cardinality(C) + Cardinality(D)
  <2>1. Cardinality(C \cap D) = 0
    BY <1>2, FS_EmptySet
  <2> HIDE DEF C, D
  <2>2. /\ IsFiniteSet(C \union D)
        /\ Cardinality(C \union D) = Cardinality(C) + Cardinality(D) - Cardinality(C \cap D)
    BY <1>3, FS_Union
  <2>3. QED
    BY <2>1, <2>2, <1>3
<1>5. /\ Cardinality(C \union D) <= NumSlots
      /\ Cardinality(C \union D) = NumSlots => C \union D = Slots
  BY <1>1, <1>2, FS_Subset
<1>6. C \union D # Slots
  BY <1>2
<1>7. QED
  BY <1>3, <1>4, <1>5, <1>6, NumSlotsNat

(* A farm that refuses counts at least two windows of websockets: those of *)
(* the other slots, less the adds to come, and the removals lost.          *)
LEMMA RefusedWhenDrifted ==
  ASSUME AccountInv, NEW i \in Slots, life[i] = "checked", ~isSafeToAddWebsocket
  PROVE  Cardinality(DroppedIn(life)) + 1 <= lost - (2 - Listings) * Window
<1>1. /\ Cardinality(DroppedIn(life)) \in Nat
      /\ Cardinality(CountedIn(life)) + Cardinality(DroppedIn(life)) < NumSlots
  BY DroppedBelow
<1>2. Cardinality(CountedIn(life)) \in Nat
  BY CountedFinite, NumSlotsNat
<1>3. idleNum + PendingAdds = Cardinality(CountedIn(life)) + lost
  BY CountedIsCountedIn DEF AccountInv, WindowAccounting
<1>4. idleNum \in Int /\ lost \in Nat /\ PendingAdds \in Nat
  BY DEF AccountInv, Types, PendingAdds
<1>5. Window \in Nat /\ Listings \in Nat
  BY WindowAssumption
<1>6. 2 * Window <= idleNum
  BY <1>4, <1>5 DEF isSafeToAddWebsocket
<1>7. (2 - Listings) * Window = 2 * Window - NumSlots
  BY <1>5 DEF NumSlots
<1>8. QED
  BY <1>1, <1>2, <1>3, <1>4, <1>5, <1>6, <1>7, NumSlotsNat

(* A slot is refused only when the farm may refuse.                        *)
LEMMA RefusedOnlyIfMay ==
  ASSUME AccountInv, NEW i \in Slots, life[i] = "checked", ~isSafeToAddWebsocket
  PROVE  MayRefuse
<1>1. Cardinality(DroppedIn(life)) + 1 <= lost - (2 - Listings) * Window
  BY RefusedWhenDrifted
<1>2. Cardinality(DroppedIn(life)) \in Nat
  BY DroppedBelow
<1>3. lost \in Nat /\ (2 - Listings) * Window \in Int
  BY WindowAssumption DEF AccountInv, Types
<1>4. QED
  BY <1>1, <1>2, <1>3 DEF MayRefuse

(* No removal is ever taken back.                                          *)
LEMMA LostStep == Types /\ [Next]_vars => lost' = lost \/ lost' = lost + 1
<1> SUFFICES ASSUME Types, [Next]_vars PROVE lost' = lost \/ lost' = lost + 1
  OBVIOUS
<1> USE DEF farmVars
<1>1. CASE StartConnect \/ StartAdd \/ StartDone \/ AddAfterReconnect
  BY <1>1 DEF StartConnect, StartAdd, StartDone, AddAfterReconnect, addWebsocket
<1>2. ASSUME NEW i \in Slots, DialNext(i) \/ RequestArrives(i) \/ OnWebsocketClose(i)
      PROVE  lost' = lost \/ lost' = lost + 1
  BY <1>2 DEF DialNext, DialSucceeds, OnWebsocketError, RequestArrives, OnWebsocketClose,
              removeWebsocket
<1>3. ASSUME NEW i \in Slots, ActionNext(i) PROVE lost' = lost \/ lost' = lost + 1
  BY <1>3 DEF ActionNext, RetryGoroutine, TimerFires, CheckState, CheckSafe, CheckFrame, Reconnect
<1>4. CASE OnConnectionStarted \/ OnConnectionEnded \/ ShutDownCalled \/ ShutDownNext
  BY <1>4 DEF OnConnectionStarted, OnConnectionEnded, ReqFrame, ShutDownCalled, ShutDownNext,
              ParentCancel, Deregister, MarkShutDown, ShutDownReturnsTrue, ShutDownTimesOut, StopStep
<1>5. CASE UNCHANGED vars
  BY <1>5 DEF vars
<1>6. QED
  BY <1>1, <1>2, <1>3, <1>4, <1>5 DEF Next

(* Only CheckSafe gives a slot up, if the farm refuses it.                 *)
LEMMA DroppedStep ==
  ASSUME AccountInv, [Next]_vars
  PROVE  \/ DroppedIn(life') = DroppedIn(life)
         \/ \E i \in Slots : /\ life[i] = "checked" /\ ~isSafeToAddWebsocket
                             /\ life' = [life EXCEPT ![i] = "dropped"]
                             /\ lost' = lost
<1> DEFINE Same == DroppedIn(life') = DroppedIn(life)
<1>t. life \in [Slots -> Lives]
  BY DEF AccountInv, Types
<1>u. UNCHANGED life => Same
  OBVIOUS
<1>m. ASSUME NEW i \in Slots, NEW l, l # "dropped", life[i] # "dropped",
             life' = [life EXCEPT ![i] = l]
      PROVE  Same
  BY <1>m, <1>t DEF DroppedIn
<1> HIDE DEF Same
<1> USE DEF Become
<1>1. CASE StartConnect
  <2>1. started + 1 \in Slots /\ life[started + 1] = "off"
    BY <1>1, NumSlotsNat DEF StartConnect, AccountInv, Types, OffUntilStarted, Slots
  <2>2. QED
    BY <1>1, <1>m, <2>1 DEF StartConnect, connectToRouter, Same
<1>2. ASSUME NEW i \in Slots, DialNext(i) \/ RequestArrives(i) \/ OnWebsocketClose(i) PROVE Same
  BY <1>2, <1>m DEF DialNext, DialSucceeds, OnWebsocketError, RequestArrives, OnWebsocketClose
<1>3. ASSUME NEW i \in Slots, RetryGoroutine(i) \/ TimerFires(i) \/ CheckState(i) PROVE Same
  BY <1>3, <1>m DEF RetryGoroutine, TimerFires, CheckState, End, Proceed
<1>4. ASSUME NEW i \in Slots, Reconnect(i) PROVE Same
  BY <1>4, <1>m DEF Reconnect, connectToRouter
<1>5. ASSUME NEW i \in Slots, CheckSafe(i), isSafeToAddWebsocket PROVE Same
  BY <1>5, <1>m DEF CheckSafe, Proceed
<1>6. ASSUME NEW i \in Slots, CheckSafe(i), ~isSafeToAddWebsocket
      PROVE  /\ life[i] = "checked" /\ life' = [life EXCEPT ![i] = "dropped"]
             /\ lost' = lost
  BY <1>6 DEF CheckSafe, End, CheckFrame, farmVars
<1>7. CASE StartAdd \/ StartDone \/ AddAfterReconnect \/ OnConnectionStarted \/ OnConnectionEnded
  BY <1>7, <1>u DEF StartAdd, StartDone, AddAfterReconnect, RunFrame, OnConnectionStarted,
                    OnConnectionEnded, ReqFrame
<1>8. CASE ShutDownCalled \/ ShutDownNext \/ UNCHANGED vars
  BY <1>8, <1>u DEF ShutDownCalled, ShutDownNext, ParentCancel, Deregister, MarkShutDown,
                    ShutDownReturnsTrue, ShutDownTimesOut, StopStep, vars
<1>9. QED
  BY <1>1, <1>2, <1>3, <1>4, <1>5, <1>6, <1>7, <1>8 DEF Next, ActionNext, Same

(* The slots given up are those DroppedIn finds in life.                   *)
LEMMA DroppedIsDroppedIn == Dropped = DroppedIn(life) /\ Dropped' = DroppedIn(life')
  BY DEF Dropped, DroppedIn

(* Each slot given up takes one from the room that the drift has left.     *)
LEMMA DropsBoundedStep ==
  ASSUME AccountInv, DropsBounded, [Next]_vars
  PROVE  DropsBounded'
<1>1. lost' \in {lost, lost + 1} /\ lost \in Nat /\ (2 - Listings) * Window \in Int
  BY LostStep, WindowAssumption DEF AccountInv, Types
<1>2. Cardinality(DroppedIn(life)) \in Nat
  <2>1. IsFiniteSet(Slots) /\ DroppedIn(life) \subseteq Slots
    BY FS_Interval, NumSlotsNat DEF Slots, DroppedIn
  <2>2. QED
    BY <2>1, FS_Subset, FS_CardinalityType
<1>3. CASE DroppedIn(life') = DroppedIn(life)
  BY <1>1, <1>2, <1>3, DroppedIsDroppedIn DEF DropsBounded
<1>4. ASSUME NEW i \in Slots, life[i] = "checked", ~isSafeToAddWebsocket,
             life' = [life EXCEPT ![i] = "dropped"], lost' = lost
      PROVE  DropsBounded'
  <2>1. life \in [Slots -> Lives]
    BY DEF AccountInv, Types
  <2>2. DroppedIn(life') = DroppedIn(life) \union {i} /\ i \notin DroppedIn(life)
    BY <1>4, <2>1 DEF DroppedIn
  <2>3. Cardinality(DroppedIn(life')) = Cardinality(DroppedIn(life)) + 1
    BY <1>4, <2>2, DroppedBelow, FS_AddElement
  <2>4. Cardinality(DroppedIn(life)) + 1 <= lost - (2 - Listings) * Window
    BY <1>4, RefusedWhenDrifted
  <2>5. QED
    BY <1>4, <2>3, <2>4, DroppedIsDroppedIn DEF DropsBounded
<1>5. QED
  BY <1>3, <1>4, DroppedStep

(* However often a router is listed, the slots given up for good are no    *)
(* more than the removals lost beyond the room that the slots leave below  *)
(* the limit of the farm: with one listing a whole window of removals must *)
(* be lost before the first slot is, with two listings a single one.       *)
THEOREM SlotsKept == Spec => []DropsBounded
<1>1. Init => AccountInv /\ DropsBounded
  BY AccountInit DEF Init, DropsBounded, Dropped
<1>2. AccountInv /\ DropsBounded /\ [Next]_vars => (AccountInv /\ DropsBounded)'
  BY TypesStep, OffStep, AccountStep, DropsBoundedStep DEF AccountInv
<1>3. QED
  BY <1>1, <1>2, PTL DEF Spec

-----------------------------------------------------------------------------
(* The connector keeps its window: SlidingWindow.                          *)

SlotsOf(f) == [i \in Slots |-> SlotOf(f[i])]
Closing == IF Stopping THEN Slots ELSE {}

FilledStep == [Filled!Next]_Filled!vars

\* the parent context is cancelled by a shutdown only
FilledInv ==
    /\ AccountInv
    /\ state \in {"NotStarted", "RUNNING"} => shutDown = "no" /\ ~cancelled

(* The invariant is kept by every step.                                    *)
LEMMA FilledInvStep == FilledInv /\ [Next]_vars => FilledInv'
<1> SUFFICES ASSUME FilledInv, [Next]_vars PROVE FilledInv'
  OBVIOUS
<1>1. AccountInv'
  BY TypesStep, OffStep, AccountStep DEF FilledInv, AccountInv
<1> USE <1>1 DEF FilledInv, stopVars
<1>2. CASE StartConnect \/ StartAdd \/ StartDone
  BY <1>2 DEF StartConnect, StartAdd, StartDone
<1>3. ASSUME NEW i \in Slots, DialNext(i) \/ RequestArrives(i) \/ OnWebsocketClose(i)
      PROVE  FilledInv'
  BY <1>3 DEF DialNext, DialSucceeds, OnWebsocketError, RequestArrives, OnWebsocketClose, SlotFrame
<1>4. ASSUME NEW i \in Slots, RetryGoroutine(i) \/ TimerFires(i) PROVE FilledInv'
  BY <1>4 DEF RetryGoroutine, TimerFires, SlotFrame
<1>5. ASSUME NEW i \in Slots, CheckState(i) \/ CheckSafe(i) PROVE FilledInv'
  BY <1>5 DEF CheckState, CheckSafe, RunFrame
<1>6. ASSUME NEW i \in Slots, Reconnect(i) PROVE FilledInv'
  BY <1>6 DEF Reconnect, RunFrame
<1>7. CASE AddAfterReconnect \/ OnConnectionStarted \/ OnConnectionEnded
  BY <1>7 DEF AddAfterReconnect, OnConnectionStarted, OnConnectionEnded, ReqFrame, RunFrame
<1>8. CASE ShutDownCalled \/ ShutDownNext
  BY <1>8 DEF ShutDownCalled, ShutDownNext, ParentCancel, Deregister, MarkShutDown,
              ShutDownReturnsTrue, ShutDownTimesOut, StopStep
<1>9. CASE UNCHANGED vars
  BY <1>9 DEF vars
<1>10. QED
  BY <1>2, <1>3, <1>4, <1>5, <1>6, <1>7, <1>8, <1>9 DEF Next, ActionNext

(* A step that touches neither the slots nor the state is a stutter.       *)
LEMMA FilledStill == UNCHANGED <<life, state, lost>> => UNCHANGED Filled!vars
BY DEF Filled!vars, Stopping, MayRefuse

(* The websocket of one slot moves on.                                     *)
LEMMA SlotMoves ==
  ASSUME Types, NEW i \in Slots, NEW l, Become(i, l), UNCHANGED state
  PROVE  /\ SlotsOf(life') = [SlotsOf(life) EXCEPT ![i] = SlotOf(l)]
         /\ SlotsOf(life)[i] = SlotOf(life[i])
         /\ SlotOf(l) = SlotOf(life[i]) => SlotsOf(life') = SlotsOf(life)
         /\ Closing' = Closing
<1>1. life' = [life EXCEPT ![i] = l] /\ life \in [Slots -> Lives]
  BY DEF Become, Types
<1>2. \A j \in Slots : life'[j] = IF j = i THEN l ELSE life[j]
  BY <1>1
<1>3. \A j \in Slots : SlotOf(life'[j]) = IF j = i THEN SlotOf(l) ELSE SlotOf(life[j])
  BY <1>2
<1>4. Closing' = Closing
  BY DEF Closing, Stopping
<1> HIDE DEF SlotOf
<1>5. QED
  BY <1>3, <1>4 DEF SlotsOf

(* Each move of a slot, as a step of the window.                           *)
LEMMA SlotFilledStep ==
  ASSUME Types, NEW i \in Slots, NEW l, Become(i, l), UNCHANGED state,
         \/ SlotOf(l) = SlotOf(life[i]) /\ lost' = lost
         \/ SlotOf(life[i]) = "vacant" /\ SlotOf(l) = "filling" /\ ~Stopping /\ lost' = lost
         \/ SlotOf(life[i]) = "filling" /\ SlotOf(l) = "open" /\ lost' = lost
         \/ /\ SlotOf(life[i]) \in {"filling", "open"} /\ SlotOf(l) = "vacant"
            /\ lost' \in {lost, lost + 1}
         \/ SlotOf(l) = "closed" /\ Stopping /\ lost' = lost
         \/ SlotOf(life[i]) = "filling" /\ SlotOf(l) = "closed" /\ MayRefuse /\ lost' = lost
  PROVE  FilledStep
<1>r. lost' = lost => MayRefuse' = MayRefuse
  BY DEF MayRefuse
<1>l. MayRefuse \in BOOLEAN /\ lost \in Nat /\ (2 - Listings) * Window \in Int
  BY WindowAssumption DEF MayRefuse, Types
<1>1. /\ SlotsOf(life') = [SlotsOf(life) EXCEPT ![i] = SlotOf(l)]
      /\ SlotsOf(life)[i] = SlotOf(life[i])
      /\ SlotOf(l) = SlotOf(life[i]) => SlotsOf(life') = SlotsOf(life)
      /\ Closing' = Closing
  BY SlotMoves
<1> HIDE DEF SlotOf
<1>2. CASE SlotOf(l) = SlotOf(life[i]) /\ lost' = lost
  <2>1. UNCHANGED Filled!vars
    BY <1>1, <1>r, <1>2 DEF Filled!vars, SlotsOf, Closing
  <2>2. QED
    BY <2>1 DEF FilledStep
<1>3. CASE SlotOf(life[i]) = "vacant" /\ SlotOf(l) = "filling" /\ ~Stopping /\ lost' = lost
  <2>1. SlotsOf(life') = [s \in Slots |-> IF s \in {i} THEN "filling" ELSE SlotsOf(life)[s]]
    BY <1>1, <1>3 DEF SlotsOf
  <2>2. Closing = {} /\ Closing' = Closing
    BY <1>1, <1>3 DEF Closing
  <2>3. Filled!Fill({i})
    BY <1>1, <1>r, <1>3, <2>1, <2>2 DEF Filled!Fill, SlotsOf, Closing
  <2>4. {i} \in SUBSET Slots
    OBVIOUS
  <2>5. QED
    BY <2>3, <2>4 DEF FilledStep, Filled!Next
<1>4. CASE SlotOf(life[i]) = "filling" /\ SlotOf(l) = "open" /\ lost' = lost
  <2>1. Filled!Open(i)
    BY <1>1, <1>r, <1>4 DEF Filled!Open, Filled!Goes, SlotsOf, Closing
  <2>2. QED
    BY <2>1 DEF FilledStep, Filled!Next
<1>5. CASE /\ SlotOf(life[i]) \in {"filling", "open"} /\ SlotOf(l) = "vacant"
           /\ lost' \in {lost, lost + 1}
  <2>1. MayRefuse' \in {MayRefuse, TRUE}
    <3>1. MayRefuse => MayRefuse'
      BY <1>l, <1>5 DEF MayRefuse
    <3>2. MayRefuse' \in BOOLEAN
      BY DEF MayRefuse
    <3>3. QED
      BY <1>l, <3>1, <3>2, Zenon
  <2>2. Filled!Vacate(i)
    BY <1>1, <1>5, <2>1 DEF Filled!Vacate, SlotsOf, Closing
  <2>3. QED
    BY <2>2 DEF FilledStep, Filled!Next
<1>6. CASE SlotOf(l) = "closed" /\ Stopping /\ lost' = lost
  <2>1. Filled!GiveUp(i)
    BY <1>1, <1>r, <1>6 DEF Filled!GiveUp, Filled!Goes, SlotsOf, Closing
  <2>2. QED
    BY <2>1 DEF FilledStep, Filled!Next
<1>7. CASE SlotOf(life[i]) = "filling" /\ SlotOf(l) = "closed" /\ MayRefuse /\ lost' = lost
  <2>1. Filled!Refuse(i)
    BY <1>1, <1>r, <1>7 DEF Filled!Refuse, Filled!Goes, SlotsOf, Closing
  <2>2. QED
    BY <2>1 DEF FilledStep, Filled!Next
<1>8. QED
  BY <1>2, <1>3, <1>4, <1>5, <1>6, <1>7

(* Each step of the connector is one of the window, or none.               *)
LEMMA FilledSteps == FilledInv /\ [Next]_vars => FilledStep
<1> SUFFICES ASSUME FilledInv, [Next]_vars PROVE FilledStep
  OBVIOUS
<1>t. Types /\ OffUntilStarted
  BY DEF FilledInv, AccountInv
<1>u. UNCHANGED <<life, state, lost>> => FilledStep
  BY FilledStill DEF FilledStep
<1> HIDE DEF FilledStep
<1>1. CASE StartConnect
  <2> DEFINE i == started + 1
  <2>1. i \in Slots /\ i > started
    BY <1>1, <1>t, NumSlotsNat DEF StartConnect, Types, Slots
  <2>2. life[i] = "off" /\ Become(i, "dialing") /\ ~Stopping /\ UNCHANGED <<state, lost>>
    BY <1>1, <1>t, <2>1 DEF StartConnect, connectToRouter, OffUntilStarted, stopVars, farmVars,
                            Stopping
  <2> HIDE DEF i
  <2>3. QED
    BY <1>t, <2>1, <2>2, SlotFilledStep DEF SlotOf
<1>2. ASSUME NEW i \in Slots, DialSucceeds(i) PROVE FilledStep
  BY <1>2, <1>t, SlotFilledStep DEF DialSucceeds, SlotFrame, stopVars, farmVars,
                                      SlotOf
<1>3. ASSUME NEW i \in Slots, OnWebsocketError(i) PROVE FilledStep
  BY <1>3, <1>t, SlotFilledStep DEF OnWebsocketError, SlotFrame, stopVars, removeWebsocket, Types,
                                    SlotOf
<1>4. ASSUME NEW i \in Slots, RequestArrives(i) \/ OnWebsocketClose(i) PROVE FilledStep
  BY <1>4, <1>t, SlotFilledStep DEF RequestArrives, OnWebsocketClose, SlotFrame, stopVars,
                                    removeWebsocket, Types, SlotOf
<1>5. ASSUME NEW i \in Slots, RetryGoroutine(i) PROVE FilledStep
  <2>1. life[i] = "retry" /\ UNCHANGED <<state, lost>>
    BY <1>5 DEF RetryGoroutine, SlotFrame, stopVars, farmVars
  <2>2. CASE cancelled /\ Become(i, "stopped")
    <3>1. Stopping
      BY <1>t, <2>2 DEF FilledInv, Types, States, Stopping
    <3>2. QED
      BY <1>t, <2>1, <2>2, <3>1, SlotFilledStep DEF SlotOf
  <2>3. CASE Become(i, "timer")
    BY <1>t, <2>1, <2>3, SlotFilledStep DEF SlotOf
  <2>4. QED
    BY <1>5, <2>2, <2>3 DEF RetryGoroutine
<1>6. ASSUME NEW i \in Slots, TimerFires(i) PROVE FilledStep
  BY <1>6, <1>t, SlotFilledStep DEF TimerFires, SlotFrame, stopVars, farmVars, SlotOf
<1>7. ASSUME NEW i \in Slots, CheckState(i) PROVE FilledStep
  <2>1. life[i] = "consumed" /\ UNCHANGED <<state, lost>>
    BY <1>7 DEF CheckState, RunFrame, CheckFrame, stopVars, farmVars
  <2>2. (Stopping /\ Become(i, "stopped")) \/ (~Stopping /\ Become(i, "checked"))
    BY <1>7 DEF CheckState, End, Proceed
  <2>3. QED
    BY <1>t, <2>1, <2>2, SlotFilledStep DEF SlotOf
<1>8. ASSUME NEW i \in Slots, CheckSafe(i) PROVE FilledStep
  <2>1. life[i] = "checked" /\ UNCHANGED <<state, lost>>
    BY <1>8 DEF CheckSafe, RunFrame, CheckFrame, stopVars, farmVars
  <2>2. CASE isSafeToAddWebsocket
    <3>1. Become(i, "safe")
      BY <1>8, <2>2 DEF CheckSafe, Proceed
    <3>2. QED
      BY <1>t, <2>1, <3>1, SlotFilledStep DEF SlotOf
  <2>3. CASE ~isSafeToAddWebsocket
    <3>1. Become(i, "dropped")
      BY <1>8, <2>3 DEF CheckSafe, End
    <3>2. MayRefuse
      BY <2>1, <2>3, RefusedOnlyIfMay DEF FilledInv
    <3>3. QED
      BY <1>t, <2>1, <3>1, <3>2, SlotFilledStep DEF SlotOf
  <2>4. QED
    BY <2>2, <2>3
<1>9. ASSUME NEW i \in Slots, Reconnect(i) PROVE FilledStep
  <2>1. life[i] = "safe" /\ UNCHANGED <<state, lost>>
    BY <1>9 DEF Reconnect, RunFrame, stopVars, farmVars
  <2>2. (state = "ShutDown" /\ Become(i, "undialled")) \/ Become(i, "dialing")
    BY <1>9 DEF Reconnect, connectToRouter
  <2>3. QED
    BY <1>t, <2>1, <2>2, SlotFilledStep DEF SlotOf, Stopping
<1>10. CASE StartAdd \/ AddAfterReconnect \/ OnConnectionStarted \/ OnConnectionEnded \/ UNCHANGED vars
  BY <1>10, <1>u DEF StartAdd, AddAfterReconnect, addWebsocket, RunFrame, OnConnectionStarted,
                     OnConnectionEnded, ReqFrame, stopVars, farmVars, vars
<1>11. CASE StartDone
  <2>1. UNCHANGED <<life, lost>> /\ ~Stopping /\ ~Stopping'
    BY <1>11 DEF StartDone, farmVars, Stopping
  <2>2. UNCHANGED Filled!vars
    BY <2>1 DEF Filled!vars, MayRefuse
  <2>3. QED
    BY <2>2 DEF FilledStep
<1>12. CASE ShutDownCalled
  <2>1. UNCHANGED <<life, lost>> /\ ~Stopping /\ Stopping'
    BY <1>12 DEF ShutDownCalled, StopStep, farmVars, Stopping
  <2>2. Filled!Close(Slots)
    BY <2>1 DEF Filled!Close, MayRefuse
  <2>3. Slots \in SUBSET Slots
    OBVIOUS
  <2>4. QED
    BY <2>2, <2>3 DEF FilledStep, Filled!Next
<1>13. CASE ShutDownNext
  <2>1. /\ UNCHANGED <<life, lost>>
        /\ UNCHANGED state \/ (shutDown = "mark" /\ state' = "ShutDown")
    BY <1>13 DEF farmVars, ShutDownNext, ParentCancel, Deregister, MarkShutDown,
                 ShutDownReturnsTrue, ShutDownTimesOut, StopStep
  <2>2. Stopping' = Stopping
    BY <1>t, <2>1 DEF FilledInv, Types, States, Stopping
  <2>3. UNCHANGED Filled!vars
    BY <2>1, <2>2 DEF Filled!vars, MayRefuse
  <2>4. QED
    BY <2>3 DEF FilledStep
<1>14. QED
  BY <1>1, <1>2, <1>3, <1>4, <1>5, <1>6, <1>7, <1>8, <1>9, <1>10, <1>11, <1>12, <1>13
     DEF Next, DialNext, ActionNext

(* The window of a router is kept as SlidingWindow promises, however often *)
(* it is listed: a slot is filled again until the shutdown, and never      *)
(* filled after it, and is given up before only if the farm may refuse.    *)
THEOREM KeepsWindow == Spec => WindowKept
<1>1. Init => FilledInv
  BY AccountInit DEF Init, FilledInv
<1>2. Init => Filled!Init
  BY DEF Init, Filled!Init, Stopping, SlotOf, MayRefuse
<1>3. FilledInv /\ [Next]_vars => [Filled!Next]_Filled!vars
  BY FilledSteps DEF FilledStep
<1>4. QED
  BY <1>1, <1>2, <1>3, FilledInvStep, PTL DEF Spec, WindowKept, Filled!Spec

-----------------------------------------------------------------------------
(* At most one late dial.                                                  *)

\* a slot that has passed the check of the state has not been dialled late
LateInv ==
    /\ Types
    /\ \A i \in Slots : /\ lateDials[i] <= 1
                        /\ lateDials[i] > 0 => Stopping
                        /\ life[i] \in {"checked", "safe"} => lateDials[i] = 0

(* A slot that passed the check of the state was not dialled late, so its  *)
(* one late dial is the last: the next check stops it.                     *)
LEMMA LateStep == LateInv /\ [Next]_vars => LateInv'
<1> SUFFICES ASSUME LateInv, [Next]_vars PROVE LateInv'
  OBVIOUS
<1>t. Types /\ Types'
  BY TypesStep DEF LateInv
<1> USE <1>t DEF LateInv, Types, Become, Stopping, stopVars
<1>1. CASE StartConnect
  BY <1>1 DEF StartConnect, connectToRouter
<1>2. CASE StartAdd \/ StartDone
  BY <1>2 DEF StartAdd, StartDone
<1>3. ASSUME NEW i \in Slots, DialNext(i) \/ RequestArrives(i) \/ OnWebsocketClose(i)
      PROVE  LateInv'
  BY <1>3 DEF DialNext, DialSucceeds, OnWebsocketError, RequestArrives, OnWebsocketClose,
              SlotFrame
<1>4. ASSUME NEW i \in Slots, RetryGoroutine(i) \/ TimerFires(i) PROVE LateInv'
  BY <1>4 DEF RetryGoroutine, TimerFires, SlotFrame
<1>5. ASSUME NEW i \in Slots, CheckState(i) \/ CheckSafe(i) PROVE LateInv'
  BY <1>5 DEF CheckState, CheckSafe, End, Proceed, RunFrame, CheckFrame
<1>6. ASSUME NEW i \in Slots, Reconnect(i) PROVE LateInv'
  BY <1>6 DEF Reconnect, connectToRouter, RunFrame
<1>7. CASE AddAfterReconnect \/ OnConnectionStarted \/ OnConnectionEnded
  BY <1>7 DEF AddAfterReconnect, OnConnectionStarted, OnConnectionEnded, ReqFrame, RunFrame
<1>8. CASE ShutDownCalled \/ ShutDownNext
  BY <1>8 DEF ShutDownCalled, ShutDownNext, ParentCancel, Deregister, MarkShutDown,
              ShutDownReturnsTrue, ShutDownTimesOut, StopStep
<1>9. CASE UNCHANGED vars
  BY <1>9 DEF vars
<1>10. QED
  BY <1>1, <1>2, <1>3, <1>4, <1>5, <1>6, <1>7, <1>8, <1>9 DEF Next, ActionNext

(* Once the shutdown has begun, a slot is dialled at most once more.       *)
THEOREM LateDialOnce == Spec => []OneLateDial
<1>1. Init => LateInv
  BY TypesInit DEF Init, LateInv
<1>2. LateInv => OneLateDial
  BY DEF LateInv, OneLateDial
<1>3. QED
  BY <1>1, <1>2, LateStep, PTL DEF Spec

-----------------------------------------------------------------------------
(* The other variables.                                                    *)

SlotsTyped ==
    /\ forRequest \in [Slots -> BOOLEAN]
    /\ attempts \in [Slots -> 0..MaxAttempts]
    /\ delay \in [Slots -> Int]

CountsTyped ==
    /\ starting \in Nat /\ requestNum \in Nat /\ arrived \in 0..MaxRequests
    /\ cancelled \in BOOLEAN
    /\ shutDown \in {"no", "cancel", "deregister", "mark", "wait", "true", "false"}

(* However many attempts failed, the delay is a number of milliseconds,    *)
(* and from the first attempt on it is within the two limits.              *)
LEMMA RetryBounded ==
  ASSUME NEW n \in Nat
  PROVE  /\ RetryAfterMillis(n) \in Int
         /\ n > 0 => RetryAfterMillis(n) >= ShortestDelay
         /\ RetryAfterMillis(n) <= LongestDelay
<1> DEFINE power == IF n = 0 THEN 1
                    ELSE IF n \in DOMAIN PowersOfTwo THEN PowersOfTwo[n] ELSE 10000
<1>1. power \in Nat /\ power <= 10000 /\ (n > 0 => power >= 2)
  <2>1. CASE n \in DOMAIN PowersOfTwo
    <3>1. n \in {1, 2, 3, 4, 5, 6, 7, 8, 9, 10, 11, 12, 13}
      BY <2>1, SMT DEF PowersOfTwo
    <3>2. PowersOfTwo[n] \in Nat /\ PowersOfTwo[n] >= 2 /\ PowersOfTwo[n] <= 10000
      BY <3>1, SMT DEF PowersOfTwo
    <3>3. n # 0
      BY <3>1, SMT
    <3>4. QED
      BY <2>1, <3>2, <3>3, SMT
  <2>2. CASE n \notin DOMAIN PowersOfTwo
    BY <2>2, SMT
  <2>3. QED
    BY <2>1, <2>2
<1>2. RetryAfterMillis(n) = 500 * power
  BY SMT DEF RetryAfterMillis
<1> HIDE DEF power
<1>3. /\ 500 * power \in Int
      /\ 500 * power <= 5000000
      /\ n > 0 => 500 * power >= 1000
  BY <1>1, SMT
<1>4. QED
  BY <1>2, <1>3, SMT DEF ShortestDelay, LongestDelay

(* Zero is within the bounds.                                              *)
LEMMA ZeroIsLeast == 0 \in 0..MaxAttempts /\ 0 \in 0..MaxRequests
BY BoundsAssumption

(* At first a slot has no attempt, no request and no delay.                *)
LEMMA SlotsTypedInit == Init => SlotsTyped
<1> SUFFICES ASSUME Init PROVE SlotsTyped
  OBVIOUS
<1>1. /\ attempts = [i \in Slots |-> 0]
      /\ forRequest = [i \in Slots |-> FALSE]
      /\ delay = [i \in Slots |-> 0]
  BY DEF Init
<1>2. attempts \in [Slots -> 0..MaxAttempts]
  BY <1>1, ZeroIsLeast
<1>3. forRequest \in [Slots -> BOOLEAN] /\ delay \in [Slots -> Int]
  BY <1>1
<1>4. QED
  BY <1>2, <1>3 DEF SlotsTyped

(* What a slot keeps beside its websocket.                                 *)
LEMMA SlotsTypedStep == Types /\ SlotsTyped /\ [Next]_vars => SlotsTyped'
<1> SUFFICES ASSUME Types, SlotsTyped, [Next]_vars PROVE SlotsTyped'
  OBVIOUS
<1> USE NumSlotsNat, BoundsAssumption DEF SlotsTyped
<1>1. CASE StartConnect
  <2>1. started + 1 \in Slots /\ UNCHANGED <<forRequest, delay>>
    BY <1>1 DEF StartConnect, Slots, Types
  <2>2. attempts' \in [Slots -> 0..MaxAttempts]
    BY <1>1, <2>1 DEF StartConnect, connectToRouter, Smaller
  <2>3. QED
    BY <2>1, <2>2
<1>2. ASSUME NEW i \in Slots, OnWebsocketError(i) PROVE SlotsTyped'
  <2>1. RetryAfterMillis(attempts[i]) \in Int
    BY RetryBounded
  <2>2. QED
    BY <1>2, <2>1 DEF OnWebsocketError
<1>3. ASSUME NEW i \in Slots, DialSucceeds(i) \/ OnWebsocketClose(i) PROVE SlotsTyped'
  BY <1>3 DEF DialSucceeds, OnWebsocketClose
<1>a. ASSUME NEW i \in Slots, RequestArrives(i) PROVE SlotsTyped'
  <2>1. /\ forRequest' = [forRequest EXCEPT ![i] = TRUE]
        /\ attempts' = [attempts EXCEPT ![i] = 0]
        /\ delay' = delay
    BY <1>a DEF RequestArrives
  <2>2. forRequest' \in [Slots -> BOOLEAN] /\ delay' \in [Slots -> Int]
    BY <2>1
  <2>3. attempts' \in [Slots -> 0..MaxAttempts]
    BY <2>1, ZeroIsLeast
  <2>4. QED
    BY <2>2, <2>3
<1>4. ASSUME NEW i \in Slots, RetryGoroutine(i) \/ TimerFires(i) PROVE SlotsTyped'
  BY <1>4 DEF RetryGoroutine, TimerFires
<1>5. ASSUME NEW i \in Slots, CheckState(i) \/ CheckSafe(i) PROVE SlotsTyped'
  BY <1>5 DEF CheckState, CheckSafe, End, Proceed, RunFrame, CheckFrame
<1>6. ASSUME NEW i \in Slots, Reconnect(i) PROVE SlotsTyped'
  BY <1>6 DEF Reconnect, connectToRouter, RunFrame, Smaller
<1>7. CASE StartAdd \/ StartDone \/ AddAfterReconnect \/ OnConnectionStarted \/ OnConnectionEnded
  BY <1>7 DEF StartAdd, StartDone, AddAfterReconnect, OnConnectionStarted, OnConnectionEnded, ReqFrame,
              RunFrame
<1>8. CASE ShutDownCalled \/ ShutDownNext \/ UNCHANGED vars
  BY <1>8 DEF ShutDownCalled, ShutDownNext, ParentCancel, Deregister, MarkShutDown,
              ShutDownReturnsTrue, ShutDownTimesOut, StopStep, vars
<1>9. QED
  BY <1>1, <1>2, <1>3, <1>a, <1>4, <1>5, <1>6, <1>7, <1>8 DEF Next, DialNext, ActionNext

(* The requests and the shutdown.                                          *)
LEMMA CountsTypedStep == SlotsTyped /\ CountsTyped /\ [Next]_vars => CountsTyped'
<1> SUFFICES ASSUME SlotsTyped, CountsTyped, [Next]_vars PROVE CountsTyped'
  OBVIOUS
<1> USE BoundsAssumption DEF CountsTyped, reqVars, stopVars
<1>1. CASE StartConnect \/ StartAdd \/ StartDone
  BY <1>1 DEF StartConnect, StartAdd, StartDone
<1>2. ASSUME NEW i \in Slots, DialNext(i) \/ RequestArrives(i) \/ OnWebsocketClose(i)
      PROVE  CountsTyped'
  BY <1>2 DEF DialNext, DialSucceeds, OnWebsocketError, RequestArrives, OnWebsocketClose, SlotFrame
<1>3. ASSUME NEW i \in Slots, RetryGoroutine(i) \/ TimerFires(i) PROVE CountsTyped'
  BY <1>3 DEF RetryGoroutine, TimerFires, SlotFrame
<1>4. ASSUME NEW i \in Slots, CheckState(i) \/ CheckSafe(i) PROVE CountsTyped'
  BY <1>4 DEF CheckState, CheckSafe, End, Proceed, RunFrame, CheckFrame
<1>5. ASSUME NEW i \in Slots, Reconnect(i) PROVE CountsTyped'
  BY <1>5 DEF Reconnect, RunFrame
<1>6. CASE AddAfterReconnect
  BY <1>6 DEF AddAfterReconnect, RunFrame
<1>7. CASE OnConnectionStarted \/ OnConnectionEnded
  BY <1>7 DEF OnConnectionStarted, OnConnectionEnded, ReqFrame
<1>8. CASE ShutDownCalled \/ ShutDownNext
  BY <1>8 DEF ShutDownCalled, ShutDownNext, ParentCancel, Deregister, MarkShutDown,
              ShutDownReturnsTrue, ShutDownTimesOut, StopStep
<1>9. CASE UNCHANGED vars
  BY <1>9 DEF vars
<1>10. QED
  BY <1>1, <1>2, <1>3, <1>4, <1>5, <1>6, <1>7, <1>8, <1>9 DEF Next, ActionNext

(* The variables have their types: no count of requests or of pending      *)
(* adds goes below zero.                                                   *)
THEOREM TypeCorrect == Spec => []TypeOK
<1>1. Init => Types /\ SlotsTyped /\ CountsTyped
  <2> SUFFICES ASSUME Init PROVE SlotsTyped /\ CountsTyped
    BY TypesInit
  <2>1. SlotsTyped
    BY SlotsTypedInit
  <2>2. CountsTyped
    <3>0. starting = 0 /\ requestNum = 0 /\ arrived = 0
      BY DEF Init
    <3>1. starting \in Nat /\ requestNum \in Nat /\ arrived \in 0..MaxRequests
      BY <3>0, ZeroIsLeast
    <3>2. cancelled = FALSE /\ shutDown = "no"
      BY DEF Init
    <3>3. QED
      BY <3>1, <3>2 DEF CountsTyped
  <2>3. QED
    BY <2>1, <2>2
<1>2. Types /\ SlotsTyped /\ CountsTyped /\ [Next]_vars => (Types /\ SlotsTyped /\ CountsTyped)'
  BY TypesStep, SlotsTypedStep, CountsTypedStep
<1>3. Types /\ SlotsTyped /\ CountsTyped => TypeOK
  BY DEF Types, SlotsTyped, CountsTyped, TypeOK
<1>4. QED
  BY <1>1, <1>2, <1>3, PTL DEF Spec

-----------------------------------------------------------------------------
(* The delay before a retry.                                               *)

\* a websocket that was dialled has an attempt on record until it is used
Dialled ==
    \A i \in Slots : life[i] \in {"dialing", "idle"} => attempts[i] >= 1

BackOffInv == Types /\ SlotsTyped /\ Dialled /\ RetryBacksOff

(* A dial counts an attempt, and attempts are forgotten only when a request *)
(* uses the websocket: so an error always finds an attempt on record.      *)
LEMMA BackOffStep == BackOffInv /\ [Next]_vars => Dialled' /\ RetryBacksOff'
<1> SUFFICES ASSUME BackOffInv, [Next]_vars PROVE Dialled' /\ RetryBacksOff'
  OBVIOUS
<1>t. /\ life \in [Slots -> Lives]
      /\ attempts \in [Slots -> 0..MaxAttempts]
      /\ delay \in [Slots -> Int]
      /\ MaxAttempts \in Nat \ {0}
  BY BoundsAssumption DEF BackOffInv, Types, SlotsTyped
<1>i. Dialled /\ RetryBacksOff
  BY DEF BackOffInv
<1> USE <1>t, <1>i DEF Dialled, RetryBacksOff, Become
<1>same. ASSUME life' = life, attempts' = attempts, delay' = delay
         PROVE  Dialled' /\ RetryBacksOff'
  BY <1>same
<1>dial. ASSUME NEW i \in Slots, connectToRouter(i), delay' = delay
         PROVE  Dialled' /\ RetryBacksOff'
  BY <1>dial DEF connectToRouter, Smaller
<1>1. CASE StartConnect
  <2>1. started + 1 \in Slots
    BY <1>1, NumSlotsNat DEF StartConnect, Slots, BackOffInv, Types
  <2>2. QED
    BY <1>1, <2>1, <1>dial DEF StartConnect
<1>2. CASE StartAdd \/ StartDone \/ AddAfterReconnect
  BY <1>2, <1>same DEF StartAdd, StartDone, AddAfterReconnect, RunFrame
<1>3. ASSUME NEW i \in Slots, DialSucceeds(i) \/ OnWebsocketClose(i)
      PROVE  Dialled' /\ RetryBacksOff'
  BY <1>3 DEF DialSucceeds, OnWebsocketClose
<1>4. ASSUME NEW i \in Slots, OnWebsocketError(i) PROVE Dialled' /\ RetryBacksOff'
  <2>1. attempts[i] \in Nat /\ attempts[i] >= 1
    BY <1>4 DEF OnWebsocketError
  <2>2. /\ RetryAfterMillis(attempts[i]) >= ShortestDelay
        /\ RetryAfterMillis(attempts[i]) <= LongestDelay
    BY <2>1, RetryBounded
  <2>3. /\ life' = [life EXCEPT ![i] = "retry"]
        /\ delay' = [delay EXCEPT ![i] = RetryAfterMillis(attempts[i])]
        /\ attempts' = attempts
    BY <1>4 DEF OnWebsocketError
  <2>4. QED
    BY <2>2, <2>3
<1>5. ASSUME NEW i \in Slots, RequestArrives(i) PROVE Dialled' /\ RetryBacksOff'
  BY <1>5 DEF RequestArrives
<1>6. ASSUME NEW i \in Slots, RetryGoroutine(i) \/ TimerFires(i)
      PROVE  Dialled' /\ RetryBacksOff'
  BY <1>6 DEF RetryGoroutine, TimerFires
<1>7. ASSUME NEW i \in Slots, CheckState(i) \/ CheckSafe(i)
      PROVE  Dialled' /\ RetryBacksOff'
  BY <1>7 DEF CheckState, CheckSafe, End, Proceed, RunFrame, CheckFrame
<1>8. ASSUME NEW i \in Slots, Reconnect(i) PROVE Dialled' /\ RetryBacksOff'
  BY <1>8, <1>dial DEF Reconnect, RunFrame
<1>9. CASE OnConnectionStarted \/ OnConnectionEnded
  BY <1>9, <1>same DEF OnConnectionStarted, OnConnectionEnded, ReqFrame
<1>10. CASE ShutDownCalled \/ ShutDownNext
  BY <1>10, <1>same DEF ShutDownCalled, ShutDownNext, ParentCancel, Deregister, MarkShutDown,
                        ShutDownReturnsTrue, ShutDownTimesOut, StopStep
<1>11. CASE UNCHANGED vars
  BY <1>11, <1>same DEF vars
<1>12. QED
  BY <1>1, <1>2, <1>3, <1>4, <1>5, <1>6, <1>7, <1>8, <1>9, <1>10, <1>11
     DEF Next, DialNext, ActionNext

(* No websocket is dialled again within a second of an error, whatever the *)
(* interleaving of errors, dials and requests, and the wait is bounded.    *)
THEOREM BacksOff == Spec => []RetryBacksOff
<1>1. Init => BackOffInv
  <2> SUFFICES ASSUME Init PROVE BackOffInv
    OBVIOUS
  <2>1. Types /\ SlotsTyped
    BY TypesInit, SlotsTypedInit
  <2>2. \A i \in Slots : life[i] = "off"
    BY DEF Init
  <2>3. QED
    BY <2>1, <2>2 DEF BackOffInv, Dialled, RetryBacksOff
<1>2. BackOffInv /\ [Next]_vars => BackOffInv'
  BY TypesStep, SlotsTypedStep, BackOffStep DEF BackOffInv
<1>3. BackOffInv => RetryBacksOff
  BY DEF BackOffInv
<1>4. QED
  BY <1>1, <1>2, <1>3, PTL DEF Spec
=============================================================================
