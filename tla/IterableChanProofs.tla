------------------------- MODULE IterableChanProofs -------------------------
(***************************************************************************)
(* Proofs about IterableChan, for any finite sets of sockets and pollers   *)
(* and any positive capacity.                                              *)
(***************************************************************************)
EXTENDS IterableChan, FiniteSetTheorems, TLAPS

-----------------------------------------------------------------------------
(* Typing.                                                                 *)

(* The types of the variables are preserved by every step of Offer, Remove *)
(* and the two polls; the channel never exceeds its capacity.              *)
LEMMA TypeStep == TypeOK /\ [Next]_vars => TypeOK'
<1> SUFFICES ASSUME TypeOK, [Next]_vars PROVE TypeOK'
  OBVIOUS
<1> USE CapacityAssumption, NoSocketAssumption DEF TypeOK, OfferSteps, PollSteps, PollKinds
<1>1. ASSUME NEW s \in Sockets, OfferCall(s) PROVE TypeOK'
  BY <1>1 DEF OfferCall, OfferStep, chanVars
<1>2. ASSUME NEW s \in Sockets, OfferSend(s) PROVE TypeOK'
  BY <1>2 DEF OfferSend, OfferStep
<1>3. ASSUME NEW s \in Sockets, OfferStore(s) PROVE TypeOK'
  BY <1>3 DEF OfferStore, OfferStep
<1>4. ASSUME NEW s \in Sockets, OfferInc(s) PROVE TypeOK'
  BY <1>4 DEF OfferInc, OfferStep
<1>5. ASSUME NEW s \in Sockets, RemoveLoadAndDelete(s) PROVE TypeOK'
  BY <1>5 DEF RemoveLoadAndDelete
<1>6. ASSUME NEW s \in Sockets, RemoveDec(s) PROVE TypeOK'
  BY <1>6 DEF RemoveDec
<1>7. ASSUME NEW p \in Pollers, NEW k \in PollKinds, PollCall(p, k) PROVE TypeOK'
  BY <1>7 DEF PollCall, chanVars
<1>8. ASSUME NEW p \in Pollers, PollReceive(p) PROVE TypeOK'
  BY <1>8 DEF PollReceive
<1>9. ASSUME NEW p \in Pollers, PollEmpty(p) PROVE TypeOK'
  BY <1>9 DEF PollEmpty, ReturnNil, chanVars
<1>10. ASSUME NEW p \in Pollers, PollTimeoutExpires(p) PROVE TypeOK'
  BY <1>10 DEF PollTimeoutExpires, ReturnNil, chanVars
<1>11. ASSUME NEW p \in Pollers, PollLoadAndDelete(p) PROVE TypeOK'
  BY <1>11 DEF PollLoadAndDelete
<1>12. ASSUME NEW p \in Pollers, PollDead(p) PROVE TypeOK'
  BY <1>12 DEF PollDead, chanVars
<1>13. ASSUME NEW p \in Pollers, PollDeadLate(p) PROVE TypeOK'
  BY <1>13 DEF PollDeadLate, ReturnNil, chanVars
<1>14. ASSUME NEW p \in Pollers, PollDec(p) PROVE TypeOK'
  BY <1>14 DEF PollDec
<1>15. CASE UNCHANGED vars
  BY <1>15 DEF vars
<1>16. QED
  BY <1>1, <1>2, <1>3, <1>4, <1>5, <1>6, <1>7, <1>8, <1>9, <1>10, <1>11,
     <1>12, <1>13, <1>14, <1>15 DEF Next, OfferNext, PollNext

(* TypeOK is an invariant of every execution of the queue.                 *)
THEOREM TypeCorrect == Spec => []TypeOK
<1>1. Init => TypeOK
  BY CapacityAssumption DEF Init, TypeOK, OfferSteps, PollSteps, PollKinds
<1>2. QED
  BY <1>1, TypeStep, PTL DEF Spec
-----------------------------------------------------------------------------
(* A socket leaves at most once.                                           *)

Leaving(p, s) == poll[p] = "dec" /\ socket[p] = s

NotLeft(s) ==
    /\ delivered[s] = 0 /\ removed[s] = 0
    /\ remover[s] = "idle"
    /\ \A p \in Pollers : ~Leaving(p, s)

BeforeStore == {"new", "send", "store"}

ExitInvAt(s) ==
    /\ offer[s] \in BeforeStore => s \notin aliveSocketSet /\ NotLeft(s)
    /\ s \in aliveSocketSet => NotLeft(s)
    /\ remover[s] = "dec" => /\ delivered[s] = 0 /\ removed[s] = 0
                             /\ \A p \in Pollers : ~Leaving(p, s)
    /\ \A p \in Pollers : Leaving(p, s) =>
          /\ delivered[s] = 0 /\ removed[s] = 0
          /\ \A q \in Pollers : Leaving(q, s) => q = p
    /\ delivered[s] + removed[s] <= 1

(* LeavesOnce is not inductive: it does not say that a socket still in the *)
(* map, or not yet stored there, has not left, nor that the call about to  *)
(* count an exit is the only one.                                          *)
ExitInv == \A s \in Sockets : ExitInvAt(s)

(* A step that adds no exit of s and does not store s keeps ExitInvAt(s).  *)
LEMMA ExitFrame ==
    ASSUME NEW s \in Sockets, ExitInvAt(s),
           offer'[s] \in BeforeStore => offer[s] \in BeforeStore,
           s \in aliveSocketSet' => s \in aliveSocketSet,
           remover'[s] = remover[s], delivered'[s] = delivered[s], removed'[s] = removed[s],
           \A q \in Pollers : Leaving(q, s)' => Leaving(q, s)
    PROVE  ExitInvAt(s)'
  BY DEF ExitInvAt, NotLeft

(* No step of Offer, Remove or a poll makes a socket leave twice: only the *)
(* atomic LoadAndDelete starts an exit, and it needs the socket in the map.*)
LEMMA ExitStep == TypeOK /\ ExitInv /\ [Next]_vars => ExitInv'
<1> SUFFICES ASSUME TypeOK, ExitInv, [Next]_vars, NEW s \in Sockets PROVE ExitInvAt(s)'
  BY DEF ExitInv
<1>0. ExitInvAt(s) /\ ExitInv
  BY DEF ExitInv
<1> USE DEF BeforeStore
<1>1. ASSUME NEW t \in Sockets, OfferCall(t) PROVE ExitInvAt(s)'
  BY <1>0, <1>1, ExitFrame DEF OfferCall, OfferStep, chanVars, Leaving, TypeOK
<1>2. ASSUME NEW t \in Sockets, OfferSend(t) PROVE ExitInvAt(s)'
  BY <1>0, <1>2, ExitFrame DEF OfferSend, OfferStep, Leaving, TypeOK
<1>3. ASSUME NEW t \in Sockets, OfferStore(t) PROVE ExitInvAt(s)'
  <2>1. UNCHANGED <<remover, delivered, removed>> /\ \A q \in Pollers : Leaving(q, s)' <=> Leaving(q, s)
    BY <1>3 DEF OfferStore, OfferStep, Leaving
  <2>2. CASE t = s
    <3>1. NotLeft(s) /\ offer'[s] = "inc"
      BY <1>0, <1>3, <2>2 DEF OfferStore, OfferStep, ExitInvAt, TypeOK
    <3>2. QED
      BY <2>1, <3>1 DEF ExitInvAt, NotLeft
  <2>3. CASE t # s
    BY <1>0, <1>3, <2>1, <2>3, ExitFrame DEF OfferStore, OfferStep, TypeOK
  <2>4. QED
    BY <2>2, <2>3
<1>4. ASSUME NEW t \in Sockets, OfferInc(t) PROVE ExitInvAt(s)'
  BY <1>0, <1>4, ExitFrame DEF OfferInc, OfferStep, Leaving, TypeOK
<1>5. ASSUME NEW t \in Sockets, RemoveLoadAndDelete(t) PROVE ExitInvAt(s)'
  <2>1. UNCHANGED <<offer, delivered, removed>> /\ \A q \in Pollers : Leaving(q, s)' <=> Leaving(q, s)
    BY <1>5 DEF RemoveLoadAndDelete, Leaving
  <2>2. CASE t = s
    <3>1. NotLeft(s) /\ s \notin aliveSocketSet' /\ offer[s] \notin BeforeStore
      BY <1>0, <1>5, <2>2 DEF RemoveLoadAndDelete, ExitInvAt
    <3>2. QED
      BY <2>1, <3>1 DEF ExitInvAt, NotLeft
  <2>3. CASE t # s
    BY <1>0, <1>5, <2>1, <2>3, ExitFrame DEF RemoveLoadAndDelete, TypeOK
  <2>4. QED
    BY <2>2, <2>3
<1>6. ASSUME NEW t \in Sockets, RemoveDec(t) PROVE ExitInvAt(s)'
  <2>1. UNCHANGED <<offer, delivered, aliveSocketSet>> /\ \A q \in Pollers : Leaving(q, s)' <=> Leaving(q, s)
    BY <1>6 DEF RemoveDec, Leaving
  <2>2. CASE t = s
    <3>1. /\ delivered[s] = 0 /\ removed'[s] = 1 /\ remover'[s] = "idle"
          /\ s \notin aliveSocketSet /\ offer[s] \notin BeforeStore
          /\ \A q \in Pollers : ~Leaving(q, s)
      BY <1>0, <1>6, <2>2 DEF RemoveDec, ExitInvAt, NotLeft, TypeOK
    <3>2. QED
      BY <2>1, <3>1 DEF ExitInvAt
  <2>3. CASE t # s
    BY <1>0, <1>6, <2>1, <2>3, ExitFrame DEF RemoveDec, TypeOK
  <2>4. QED
    BY <2>2, <2>3
<1>7. ASSUME NEW p \in Pollers, NEW k \in PollKinds, PollCall(p, k) PROVE ExitInvAt(s)'
  BY <1>0, <1>7, ExitFrame DEF PollCall, chanVars, Leaving, TypeOK
<1>8. ASSUME NEW p \in Pollers, PollReceive(p) PROVE ExitInvAt(s)'
  BY <1>0, <1>8, ExitFrame DEF PollReceive, Leaving, TypeOK
<1>9. ASSUME NEW p \in Pollers, PollEmpty(p) PROVE ExitInvAt(s)'
  BY <1>0, <1>9, ExitFrame DEF PollEmpty, ReturnNil, chanVars, Leaving, TypeOK
<1>10. ASSUME NEW p \in Pollers, PollTimeoutExpires(p) PROVE ExitInvAt(s)'
  BY <1>0, <1>10, ExitFrame DEF PollTimeoutExpires, ReturnNil, chanVars, Leaving, TypeOK
<1>11. ASSUME NEW p \in Pollers, PollLoadAndDelete(p) PROVE ExitInvAt(s)'
  <2>1. UNCHANGED <<offer, delivered, removed, remover>>
    BY <1>11 DEF PollLoadAndDelete
  <2>2. \A q \in Pollers : Leaving(q, s)' <=> Leaving(q, s) \/ (q = p /\ socket[p] = s)
    BY <1>11 DEF PollLoadAndDelete, Leaving, TypeOK
  <2>3. CASE socket[p] = s
    <3>1. NotLeft(s) /\ s \notin aliveSocketSet' /\ offer[s] \notin BeforeStore
      BY <1>0, <1>11, <2>3 DEF PollLoadAndDelete, ExitInvAt
    <3>2. QED
      BY <2>1, <2>2, <3>1 DEF ExitInvAt, NotLeft
  <2>4. CASE socket[p] # s
    BY <1>0, <1>11, <2>1, <2>2, <2>4, ExitFrame DEF PollLoadAndDelete
  <2>5. QED
    BY <2>3, <2>4
<1>12. ASSUME NEW p \in Pollers, PollDead(p) PROVE ExitInvAt(s)'
  BY <1>0, <1>12, ExitFrame DEF PollDead, chanVars, Leaving, TypeOK
<1>13. ASSUME NEW p \in Pollers, PollDeadLate(p) PROVE ExitInvAt(s)'
  BY <1>0, <1>13, ExitFrame DEF PollDeadLate, ReturnNil, chanVars, Leaving, TypeOK
<1>14. ASSUME NEW p \in Pollers, PollDec(p) PROVE ExitInvAt(s)'
  <2>1. UNCHANGED <<offer, aliveSocketSet, removed, remover>>
    BY <1>14 DEF PollDec
  <2>2. \A q \in Pollers : Leaving(q, s)' <=> Leaving(q, s) /\ q # p
    BY <1>14 DEF PollDec, Leaving, TypeOK
  <2>3. CASE socket[p] = s
    <3>1. Leaving(p, s)
      BY <1>14, <2>3 DEF PollDec, Leaving
    <3>2. delivered'[s] = delivered[s] + 1
      BY <1>14, <2>3 DEF PollDec, TypeOK
    <3>3. /\ delivered[s] = 0 /\ removed[s] = 0 /\ remover[s] # "dec"
          /\ s \notin aliveSocketSet /\ offer[s] \notin BeforeStore
          /\ \A q \in Pollers : Leaving(q, s) => q = p
      BY <1>0, <3>1 DEF ExitInvAt, NotLeft
    <3>4. delivered'[s] = 1 /\ \A q \in Pollers : ~Leaving(q, s)'
      BY <2>2, <3>2, <3>3
    <3>5. QED
      BY <2>1, <3>3, <3>4 DEF ExitInvAt
  <2>4. CASE socket[p] # s
    BY <1>0, <1>14, <2>1, <2>2, <2>4, ExitFrame DEF PollDec, TypeOK
  <2>5. QED
    BY <2>3, <2>4
<1>15. CASE UNCHANGED vars
  BY <1>0, <1>15, ExitFrame DEF vars, Leaving
<1>16. QED
  BY <1>1, <1>2, <1>3, <1>4, <1>5, <1>6, <1>7, <1>8, <1>9, <1>10, <1>11,
     <1>12, <1>13, <1>14, <1>15 DEF Next, OfferNext, PollNext

(* ExitInv is an invariant of every execution of the queue.                *)
LEMMA ExitInvariant == Spec => []ExitInv
<1>1. Init => ExitInv
  BY DEF Init, ExitInv, ExitInvAt, NotLeft, Leaving
<1>2. QED
  BY <1>1, ExitStep, TypeCorrect, PTL DEF Spec

(* ExitInv bounds the count of LeavesOnce.                                 *)
LEMMA ExitsCounted == TypeOK /\ ExitInv => LeavesOnce
<1> SUFFICES ASSUME TypeOK, ExitInv, NEW s \in Sockets
             PROVE  delivered[s] + removed[s] + Cardinality(PollingOut(s))
                      + (IF remover[s] = "dec" THEN 1 ELSE 0) <= 1
  BY DEF LeavesOnce
<1>1. delivered[s] \in Nat /\ removed[s] \in Nat /\ delivered[s] + removed[s] <= 1
  BY DEF TypeOK, ExitInv, ExitInvAt
<1>2. CASE PollingOut(s) = {}
  <2>1. Cardinality(PollingOut(s)) = 0
    BY <1>2, FS_EmptySet
  <2>2. remover[s] = "dec" => delivered[s] = 0 /\ removed[s] = 0
    BY DEF ExitInv, ExitInvAt
  <2>3. QED
    BY <1>1, <2>1, <2>2
<1>3. CASE PollingOut(s) # {}
  <2>1. PICK p \in Pollers : Leaving(p, s)
    BY <1>3 DEF PollingOut, Leaving
  <2>2. PollingOut(s) = {p}
    BY <2>1 DEF ExitInv, ExitInvAt, PollingOut, Leaving
  <2>3. Cardinality(PollingOut(s)) = 1
    BY <2>2, FS_Singleton
  <2>4. delivered[s] = 0 /\ removed[s] = 0 /\ remover[s] # "dec"
    BY <2>1 DEF ExitInv, ExitInvAt
  <2>5. QED
    BY <2>3, <2>4
<1>4. QED
  BY <1>2, <1>3

(* LeavesOnce: no socket is returned by two polls, and none is returned by *)
(* a poll once Remove has returned true for it, for any number of requests *)
(* and sockets.                                                            *)
THEOREM SocketLeavesOnce == Spec => []LeavesOnce
  BY TypeCorrect, ExitInvariant, ExitsCounted, PTL
-----------------------------------------------------------------------------
(* The counter does not drift.                                             *)

PollDecs  == {p \in Pollers : poll[p] = "dec"}
RemDecs   == {s \in Sockets : remover[s] = "dec"}
OfferIncs == {s \in Sockets : offer[s] = "inc"}

(* The four sets that LengthConservation counts are finite.                *)
LEMMA CountedFinite ==
    ASSUME TypeOK
    PROVE  /\ IsFiniteSet(aliveSocketSet) /\ Cardinality(aliveSocketSet) \in Nat
           /\ IsFiniteSet(PollDecs) /\ Cardinality(PollDecs) \in Nat
           /\ IsFiniteSet(RemDecs) /\ Cardinality(RemDecs) \in Nat
           /\ IsFiniteSet(OfferIncs) /\ Cardinality(OfferIncs) \in Nat
<1>1. aliveSocketSet \subseteq Sockets /\ RemDecs \subseteq Sockets /\ OfferIncs \subseteq Sockets
  BY DEF TypeOK, RemDecs, OfferIncs
<1>2. PollDecs \subseteq Pollers
  BY DEF PollDecs
<1>3. /\ IsFiniteSet(aliveSocketSet) /\ IsFiniteSet(PollDecs)
      /\ IsFiniteSet(RemDecs) /\ IsFiniteSet(OfferIncs)
  BY <1>1, <1>2, SocketsAssumption, PollersAssumption, FS_Subset
<1>4. QED
  BY <1>3, FS_CardinalityType

(* Each step moves the counter and the counted sets by the same amount.    *)
LEMMA LengthStep ==
    TypeOK /\ TypeOK' /\ ExitInv /\ LengthConservation /\ [Next]_vars => LengthConservation'
<1> SUFFICES ASSUME TypeOK, TypeOK', ExitInv, LengthConservation, [Next]_vars
             PROVE  LengthConservation'
  OBVIOUS
<1>0. /\ length \in Int
      /\ length = Cardinality(aliveSocketSet) + Cardinality(PollDecs)
                  + Cardinality(RemDecs) - Cardinality(OfferIncs)
  BY DEF TypeOK, LengthConservation, PollDecs, RemDecs, OfferIncs
<1> SUFFICES length' = Cardinality(aliveSocketSet') + Cardinality(PollDecs')
                       + Cardinality(RemDecs') - Cardinality(OfferIncs')
  BY DEF LengthConservation, PollDecs, RemDecs, OfferIncs
<1>f. ASSUME UNCHANGED <<length, aliveSocketSet, PollDecs, RemDecs, OfferIncs>>
      PROVE  length' = Cardinality(aliveSocketSet') + Cardinality(PollDecs')
                       + Cardinality(RemDecs') - Cardinality(OfferIncs')
  BY <1>0, <1>f
<1> DEFINE Goal == length' = Cardinality(aliveSocketSet') + Cardinality(PollDecs')
                             + Cardinality(RemDecs') - Cardinality(OfferIncs')
<1>1. ASSUME NEW s \in Sockets, OfferCall(s) PROVE Goal
  BY <1>f, <1>1 DEF OfferCall, OfferStep, chanVars, PollDecs, RemDecs, OfferIncs, TypeOK
<1>2. ASSUME NEW s \in Sockets, OfferSend(s) PROVE Goal
  BY <1>f, <1>2 DEF OfferSend, OfferStep, PollDecs, RemDecs, OfferIncs, TypeOK
<1>3. ASSUME NEW s \in Sockets, OfferStore(s) PROVE Goal
  <2>1. UNCHANGED <<length, PollDecs, RemDecs>>
    BY <1>3 DEF OfferStore, OfferStep, PollDecs, RemDecs
  <2>2. aliveSocketSet' = aliveSocketSet \cup {s} /\ s \notin aliveSocketSet
    BY <1>3 DEF OfferStore, OfferStep, ExitInv, ExitInvAt, BeforeStore
  <2>3. OfferIncs' = OfferIncs \cup {s} /\ s \notin OfferIncs
    BY <1>3 DEF OfferStore, OfferStep, OfferIncs, TypeOK
  <2>4. /\ Cardinality(aliveSocketSet') = Cardinality(aliveSocketSet) + 1
        /\ Cardinality(OfferIncs') = Cardinality(OfferIncs) + 1
    BY <2>2, <2>3, CountedFinite, FS_AddElement
  <2>5. QED
    BY <1>0, <2>1, <2>4, CountedFinite
<1>4. ASSUME NEW s \in Sockets, OfferInc(s) PROVE Goal
  <2>1. UNCHANGED <<aliveSocketSet, PollDecs, RemDecs>> /\ length' = length + 1
    BY <1>4 DEF OfferInc, OfferStep, PollDecs, RemDecs
  <2>2. OfferIncs' = OfferIncs \ {s} /\ s \in OfferIncs
    BY <1>4 DEF OfferInc, OfferStep, OfferIncs, TypeOK
  <2>3. Cardinality(OfferIncs') = Cardinality(OfferIncs) - 1
    BY <2>2, CountedFinite, FS_RemoveElement
  <2>4. QED
    BY <1>0, <2>1, <2>3, CountedFinite
<1>5. ASSUME NEW s \in Sockets, RemoveLoadAndDelete(s) PROVE Goal
  <2>1. UNCHANGED <<length, PollDecs, OfferIncs>>
    BY <1>5 DEF RemoveLoadAndDelete, PollDecs, OfferIncs
  <2>2. aliveSocketSet' = aliveSocketSet \ {s} /\ s \in aliveSocketSet
    BY <1>5 DEF RemoveLoadAndDelete
  <2>3. RemDecs' = RemDecs \cup {s} /\ s \notin RemDecs
    BY <1>5 DEF RemoveLoadAndDelete, RemDecs, TypeOK
  <2>4. /\ Cardinality(aliveSocketSet') = Cardinality(aliveSocketSet) - 1
        /\ Cardinality(RemDecs') = Cardinality(RemDecs) + 1
    BY <2>2, <2>3, CountedFinite, FS_AddElement, FS_RemoveElement
  <2>5. QED
    BY <1>0, <2>1, <2>4, CountedFinite
<1>6. ASSUME NEW s \in Sockets, RemoveDec(s) PROVE Goal
  <2>1. UNCHANGED <<aliveSocketSet, PollDecs, OfferIncs>> /\ length' = length - 1
    BY <1>6 DEF RemoveDec, PollDecs, OfferIncs
  <2>2. RemDecs' = RemDecs \ {s} /\ s \in RemDecs
    BY <1>6 DEF RemoveDec, RemDecs, TypeOK
  <2>3. Cardinality(RemDecs') = Cardinality(RemDecs) - 1
    BY <2>2, CountedFinite, FS_RemoveElement
  <2>4. QED
    BY <1>0, <2>1, <2>3, CountedFinite
<1>7. ASSUME NEW p \in Pollers, NEW k \in PollKinds, PollCall(p, k) PROVE Goal
  BY <1>f, <1>7 DEF PollCall, chanVars, PollDecs, RemDecs, OfferIncs, TypeOK
<1>8. ASSUME NEW p \in Pollers, PollReceive(p) PROVE Goal
  BY <1>f, <1>8 DEF PollReceive, PollDecs, RemDecs, OfferIncs, TypeOK
<1>9. ASSUME NEW p \in Pollers, PollEmpty(p) PROVE Goal
  BY <1>f, <1>9 DEF PollEmpty, ReturnNil, chanVars, PollDecs, RemDecs, OfferIncs, TypeOK
<1>10. ASSUME NEW p \in Pollers, PollTimeoutExpires(p) PROVE Goal
  BY <1>f, <1>10 DEF PollTimeoutExpires, ReturnNil, chanVars, PollDecs, RemDecs, OfferIncs, TypeOK
<1>11. ASSUME NEW p \in Pollers, PollLoadAndDelete(p) PROVE Goal
  <2>1. UNCHANGED <<length, RemDecs, OfferIncs>>
    BY <1>11 DEF PollLoadAndDelete, RemDecs, OfferIncs
  <2>2. aliveSocketSet' = aliveSocketSet \ {socket[p]} /\ socket[p] \in aliveSocketSet
    BY <1>11 DEF PollLoadAndDelete
  <2>3. PollDecs' = PollDecs \cup {p} /\ p \notin PollDecs
    BY <1>11 DEF PollLoadAndDelete, PollDecs, TypeOK
  <2>4. /\ Cardinality(aliveSocketSet') = Cardinality(aliveSocketSet) - 1
        /\ Cardinality(PollDecs') = Cardinality(PollDecs) + 1
    BY <2>2, <2>3, CountedFinite, FS_AddElement, FS_RemoveElement
  <2>5. QED
    BY <1>0, <2>1, <2>4, CountedFinite
<1>12. ASSUME NEW p \in Pollers, PollDead(p) PROVE Goal
  BY <1>f, <1>12 DEF PollDead, chanVars, PollDecs, RemDecs, OfferIncs, TypeOK
<1>13. ASSUME NEW p \in Pollers, PollDeadLate(p) PROVE Goal
  BY <1>f, <1>13 DEF PollDeadLate, ReturnNil, chanVars, PollDecs, RemDecs, OfferIncs, TypeOK
<1>14. ASSUME NEW p \in Pollers, PollDec(p) PROVE Goal
  <2>1. UNCHANGED <<aliveSocketSet, RemDecs, OfferIncs>> /\ length' = length - 1
    BY <1>14 DEF PollDec, RemDecs, OfferIncs
  <2>2. PollDecs' = PollDecs \ {p} /\ p \in PollDecs
    BY <1>14 DEF PollDec, PollDecs, TypeOK
  <2>3. Cardinality(PollDecs') = Cardinality(PollDecs) - 1
    BY <2>2, CountedFinite, FS_RemoveElement
  <2>4. QED
    BY <1>0, <2>1, <2>3, CountedFinite
<1>15. CASE UNCHANGED vars
  BY <1>f, <1>15 DEF vars, PollDecs, RemDecs, OfferIncs
<1>16. QED
  BY <1>1, <1>2, <1>3, <1>4, <1>5, <1>6, <1>7, <1>8, <1>9, <1>10, <1>11,
     <1>12, <1>13, <1>14, <1>15 DEF Next, OfferNext, PollNext

(* LengthConservation: whatever the interleaving of Offer, Remove and the  *)
(* polls, the counter read by LenAlive is exact up to the calls that are   *)
(* between their access to the map and their access to the counter.        *)
THEOREM LengthConserved == Spec => []LengthConservation
<1>1. Init => LengthConservation
  <2> SUFFICES ASSUME Init PROVE LengthConservation
    OBVIOUS
  <2>1. /\ aliveSocketSet = {} /\ length = 0
        /\ {p \in Pollers : poll[p] = "dec"} = {}
        /\ {s \in Sockets : remover[s] = "dec"} = {}
        /\ {s \in Sockets : offer[s] = "inc"} = {}
    BY DEF Init
  <2>2. QED
    BY <2>1, FS_EmptySet DEF LengthConservation
<1>2. QED
  BY <1>1, LengthStep, TypeCorrect, ExitInvariant, PTL DEF Spec
-----------------------------------------------------------------------------
(* No valid socket is lost once a poll can find it.                        *)

StaysReachable(s) == Reachable(s) => Reachable(s)' \/ s \notin aliveSocketSet'

(* A step that keeps the channel and leaves alone the polls that hold an   *)
(* entry keeps every valid socket within reach.                            *)
LEMMA ReachFrame ==
    ASSUME NEW s \in Sockets, ch' = ch,
           \A q \in Pollers : poll[q] = "load" => poll'[q] = "load" /\ socket'[q] = socket[q]
    PROVE  StaysReachable(s)
  BY DEF StaysReachable, Reachable, Queued, InHand

(* What a receive takes off the channel is in the hands of the receiver.   *)
LEMMA ReachStep == TypeOK /\ [Next]_vars => \A s \in Sockets : StaysReachable(s)
<1> SUFFICES ASSUME TypeOK, [Next]_vars, NEW s \in Sockets PROVE StaysReachable(s)
  OBVIOUS
<1>1. ASSUME NEW t \in Sockets, OfferCall(t) PROVE StaysReachable(s)
  BY <1>1, ReachFrame DEF OfferCall, OfferStep, chanVars
<1>2. ASSUME NEW t \in Sockets, OfferSend(t) PROVE StaysReachable(s)
  <2>1. Len(ch') = Len(ch) + 1 /\ \A i \in 1..Len(ch) : ch'[i] = ch[i]
    BY <1>2 DEF OfferSend, TypeOK
  <2>2. Len(ch) \in Nat
    BY DEF TypeOK
  <2>3. Queued(s) => Queued(s)'
    BY <2>1, <2>2 DEF Queued
  <2>4. InHand(s) => InHand(s)'
    BY <1>2 DEF OfferSend, OfferStep, InHand
  <2>5. QED
    BY <2>3, <2>4 DEF StaysReachable, Reachable
<1>3. ASSUME NEW t \in Sockets, OfferStore(t) PROVE StaysReachable(s)
  BY <1>3, ReachFrame DEF OfferStore, OfferStep
<1>4. ASSUME NEW t \in Sockets, OfferInc(t) PROVE StaysReachable(s)
  BY <1>4, ReachFrame DEF OfferInc, OfferStep
<1>5. ASSUME NEW t \in Sockets, RemoveLoadAndDelete(t) PROVE StaysReachable(s)
  BY <1>5, ReachFrame DEF RemoveLoadAndDelete
<1>6. ASSUME NEW t \in Sockets, RemoveDec(t) PROVE StaysReachable(s)
  BY <1>6, ReachFrame DEF RemoveDec
<1>7. ASSUME NEW p \in Pollers, NEW k \in PollKinds, PollCall(p, k) PROVE StaysReachable(s)
  BY <1>7, ReachFrame DEF PollCall, chanVars, TypeOK
<1>8. ASSUME NEW p \in Pollers, PollReceive(p) PROVE StaysReachable(s)
  <2>1. poll'[p] = "load" /\ socket'[p] = Head(ch)
    BY <1>8 DEF PollReceive, TypeOK
  <2>2. InHand(s) => InHand(s)'
    BY <1>8 DEF PollReceive, InHand, TypeOK
  <2>3. /\ Len(ch) \in Nat /\ Len(ch') = Len(ch) - 1 /\ Head(ch) = ch[1]
        /\ \A i \in 1..Len(ch') : ch'[i] = ch[i + 1]
    BY <1>8 DEF PollReceive, TypeOK
  <2>4. ASSUME NEW i \in 1..Len(ch), ch[i] = s PROVE Queued(s)' \/ InHand(s)'
    <3>1. CASE i = 1
      BY <2>1, <2>3, <2>4, <3>1 DEF InHand
    <3>2. CASE i # 1
      <4>1. i - 1 \in 1..Len(ch') /\ ch'[i - 1] = s
        BY <2>3, <2>4, <3>2
      <4>2. QED
        BY <4>1 DEF Queued
    <3>3. QED
      BY <3>1, <3>2
  <2>5. QED
    BY <2>2, <2>4 DEF StaysReachable, Reachable, Queued
<1>9. ASSUME NEW p \in Pollers, PollEmpty(p) PROVE StaysReachable(s)
  BY <1>9, ReachFrame DEF PollEmpty, ReturnNil, chanVars, TypeOK
<1>10. ASSUME NEW p \in Pollers, PollTimeoutExpires(p) PROVE StaysReachable(s)
  BY <1>10, ReachFrame DEF PollTimeoutExpires, ReturnNil, chanVars, TypeOK
<1>11. ASSUME NEW p \in Pollers, PollLoadAndDelete(p) PROVE StaysReachable(s)
  <2>1. ch' = ch /\ socket' = socket /\ socket[p] \notin aliveSocketSet'
    BY <1>11 DEF PollLoadAndDelete
  <2>2. \A q \in Pollers : poll[q] = "load" /\ q # p => poll'[q] = "load"
    BY <1>11 DEF PollLoadAndDelete, TypeOK
  <2>3. QED
    BY <2>1, <2>2 DEF StaysReachable, Reachable, Queued, InHand
<1>12. ASSUME NEW p \in Pollers, PollDead(p) PROVE StaysReachable(s)
  <2>1. ch' = ch /\ socket[p] \notin aliveSocketSet'
    BY <1>12 DEF PollDead, chanVars
  <2>2. \A q \in Pollers : poll[q] = "load" /\ q # p => poll'[q] = "load" /\ socket'[q] = socket[q]
    BY <1>12 DEF PollDead, TypeOK
  <2>3. QED
    BY <2>1, <2>2 DEF StaysReachable, Reachable, Queued, InHand
<1>13. ASSUME NEW p \in Pollers, PollDeadLate(p) PROVE StaysReachable(s)
  <2>1. ch' = ch /\ socket[p] \notin aliveSocketSet'
    BY <1>13 DEF PollDeadLate, ReturnNil, chanVars
  <2>2. \A q \in Pollers : poll[q] = "load" /\ q # p => poll'[q] = "load" /\ socket'[q] = socket[q]
    BY <1>13 DEF PollDeadLate, ReturnNil, TypeOK
  <2>3. QED
    BY <2>1, <2>2 DEF StaysReachable, Reachable, Queued, InHand
<1>14. ASSUME NEW p \in Pollers, PollDec(p) PROVE StaysReachable(s)
  BY <1>14, ReachFrame DEF PollDec, TypeOK
<1>15. CASE UNCHANGED vars
  BY <1>15, ReachFrame DEF vars
<1>16. QED
  BY <1>1, <1>2, <1>3, <1>4, <1>5, <1>6, <1>7, <1>8, <1>9, <1>10, <1>11,
     <1>12, <1>13, <1>14, <1>15 DEF Next, OfferNext, PollNext

(* ReachableUntilLeft: no step, a timeout included, loses a valid socket   *)
(* that is in the channel or has just been received from it.               *)
THEOREM ReachableKept == Spec => ReachableUntilLeft
<1>1. TypeOK /\ [Next]_vars =>
        [\A s \in Sockets : Reachable(s) => Reachable(s)' \/ s \notin aliveSocketSet']_vars
  BY ReachStep DEF StaysReachable
<1>2. QED
  BY <1>1, TypeCorrect, PTL DEF Spec, ReachableUntilLeft

-----------------------------------------------------------------------------
(* The queue implements SocketPool.                                        *)

(* A step that changes neither the map nor who has left is a stutter.      *)
LEMMA StageFrame ==
    ASSUME aliveSocketSet' = aliveSocketSet,
           \A s \in Sockets : (Taken(s)' <=> Taken(s)) /\ (Gone(s)' <=> Gone(s))
    PROVE  stageOf' = stageOf
  BY DEF stageOf

(* A step after which only the stage of s differs is a move of s.          *)
LEMMA StageMove ==
    ASSUME NEW s \in Sockets, NEW from, NEW to,
           stageOf[s] = from, stageOf'[s] = to,
           \A t \in Sockets : t # s => stageOf'[t] = stageOf[t]
    PROVE  Pool!Move(s, from, to)
<1>1. stageOf' = [t \in Sockets |-> stageOf'[t]] /\ stageOf = [t \in Sockets |-> stageOf[t]]
  BY DEF stageOf
<1>2. stageOf' = [stageOf EXCEPT ![s] = to]
  BY <1>1
<1>3. QED
  BY <1>2 DEF Pool!Move

PoolStep == Pool!Next \/ UNCHANGED stageOf

(* Store is the step that adds to the pool, LoadAndDelete the one that     *)
(* takes or removes; the other steps of the code are stutters.             *)
LEMMA StepImplementsPool == TypeOK /\ ExitInv /\ [Next]_vars => PoolStep
<1> SUFFICES ASSUME TypeOK, ExitInv, [Next]_vars PROVE PoolStep
  OBVIOUS
<1> USE DEF PoolStep
<1>1. ASSUME NEW t \in Sockets, OfferCall(t) PROVE PoolStep
  <2>1. aliveSocketSet' = aliveSocketSet /\ \A s \in Sockets : (Taken(s)' <=> Taken(s)) /\ (Gone(s)' <=> Gone(s))
    BY <1>1 DEF OfferCall, OfferStep, chanVars, Taken, Gone, PollingOut, TypeOK
  <2>2. QED
    BY <2>1, StageFrame
<1>2. ASSUME NEW t \in Sockets, OfferSend(t) PROVE PoolStep
  <2>1. aliveSocketSet' = aliveSocketSet /\ \A s \in Sockets : (Taken(s)' <=> Taken(s)) /\ (Gone(s)' <=> Gone(s))
    BY <1>2 DEF OfferSend, OfferStep, Taken, Gone, PollingOut, TypeOK
  <2>2. QED
    BY <2>1, StageFrame
<1>3. ASSUME NEW t \in Sockets, OfferStore(t) PROVE PoolStep
  <2>1. \A s \in Sockets : (Taken(s)' <=> Taken(s)) /\ (Gone(s)' <=> Gone(s))
    BY <1>3 DEF OfferStore, OfferStep, Taken, Gone, PollingOut
  <2>2. t \notin aliveSocketSet /\ NotLeft(t) /\ aliveSocketSet' = aliveSocketSet \cup {t}
    BY <1>3 DEF OfferStore, OfferStep, ExitInv, ExitInvAt, BeforeStore
  <2>3. ~Taken(t) /\ ~Gone(t)
    BY <2>2 DEF NotLeft, Leaving, Taken, Gone, PollingOut
  <2>4. stageOf[t] = "new" /\ stageOf'[t] = "pooled"
    BY <2>2, <2>3 DEF stageOf
  <2>5. \A s \in Sockets : s # t => stageOf'[s] = stageOf[s]
    BY <2>1, <2>2 DEF stageOf
  <2>6. Pool!Move(t, "new", "pooled")
    BY <2>4, <2>5, StageMove
  <2>7. QED
    BY <2>6 DEF Pool!Next, Pool!Add
<1>4. ASSUME NEW t \in Sockets, OfferInc(t) PROVE PoolStep
  <2>1. aliveSocketSet' = aliveSocketSet /\ \A s \in Sockets : (Taken(s)' <=> Taken(s)) /\ (Gone(s)' <=> Gone(s))
    BY <1>4 DEF OfferInc, OfferStep, Taken, Gone, PollingOut, TypeOK
  <2>2. QED
    BY <2>1, StageFrame
<1>5. ASSUME NEW t \in Sockets, RemoveLoadAndDelete(t) PROVE PoolStep
  <2>1. \A s \in Sockets : (Taken(s)' <=> Taken(s)) /\ (s # t => (Gone(s)' <=> Gone(s)))
    BY <1>5 DEF RemoveLoadAndDelete, Taken, Gone, PollingOut, TypeOK
  <2>2. t \in aliveSocketSet /\ NotLeft(t) /\ aliveSocketSet' = aliveSocketSet \ {t}
    BY <1>5 DEF RemoveLoadAndDelete, ExitInv, ExitInvAt
  <2>3. ~Taken(t)' /\ Gone(t)'
    BY <1>5, <2>1, <2>2 DEF RemoveLoadAndDelete, NotLeft, Leaving, Taken, Gone, PollingOut, TypeOK
  <2>4. stageOf[t] = "pooled" /\ stageOf'[t] = "removed"
    BY <2>2, <2>3 DEF stageOf
  <2>5. \A s \in Sockets : s # t => stageOf'[s] = stageOf[s]
    BY <2>1, <2>2 DEF stageOf
  <2>6. Pool!Move(t, "pooled", "removed")
    BY <2>4, <2>5, StageMove
  <2>7. QED
    BY <2>6 DEF Pool!Next, Pool!Remove
<1>6. ASSUME NEW t \in Sockets, RemoveDec(t) PROVE PoolStep
  <2>1. aliveSocketSet' = aliveSocketSet /\ \A s \in Sockets : (Taken(s)' <=> Taken(s)) /\ (Gone(s)' <=> Gone(s))
    BY <1>6 DEF RemoveDec, Taken, Gone, PollingOut, TypeOK
  <2>2. QED
    BY <2>1, StageFrame
<1>7. ASSUME NEW p \in Pollers, NEW k \in PollKinds, PollCall(p, k) PROVE PoolStep
  <2>1. aliveSocketSet' = aliveSocketSet /\ \A s \in Sockets : (Taken(s)' <=> Taken(s)) /\ (Gone(s)' <=> Gone(s))
    BY <1>7 DEF PollCall, chanVars, Taken, Gone, PollingOut, TypeOK
  <2>2. QED
    BY <2>1, StageFrame
<1>8. ASSUME NEW p \in Pollers, PollReceive(p) PROVE PoolStep
  <2>1. aliveSocketSet' = aliveSocketSet /\ \A s \in Sockets : (Taken(s)' <=> Taken(s)) /\ (Gone(s)' <=> Gone(s))
    BY <1>8 DEF PollReceive, Taken, Gone, PollingOut, TypeOK
  <2>2. QED
    BY <2>1, StageFrame
<1>9. ASSUME NEW p \in Pollers, PollEmpty(p) PROVE PoolStep
  <2>1. aliveSocketSet' = aliveSocketSet /\ \A s \in Sockets : (Taken(s)' <=> Taken(s)) /\ (Gone(s)' <=> Gone(s))
    BY <1>9 DEF PollEmpty, ReturnNil, chanVars, Taken, Gone, PollingOut, TypeOK
  <2>2. QED
    BY <2>1, StageFrame
<1>10. ASSUME NEW p \in Pollers, PollTimeoutExpires(p) PROVE PoolStep
  <2>1. aliveSocketSet' = aliveSocketSet /\ \A s \in Sockets : (Taken(s)' <=> Taken(s)) /\ (Gone(s)' <=> Gone(s))
    BY <1>10 DEF PollTimeoutExpires, ReturnNil, chanVars, Taken, Gone, PollingOut, TypeOK
  <2>2. QED
    BY <2>1, StageFrame
<1>11. ASSUME NEW p \in Pollers, PollLoadAndDelete(p) PROVE PoolStep
  <2>0. PICK t \in Sockets : t = socket[p]
    BY <1>11 DEF PollLoadAndDelete, TypeOK
  <2>1. \A s \in Sockets : (s # t => (Taken(s)' <=> Taken(s))) /\ (Gone(s)' <=> Gone(s))
    BY <1>11, <2>0 DEF PollLoadAndDelete, Taken, Gone, PollingOut, TypeOK
  <2>2. t \in aliveSocketSet /\ aliveSocketSet' = aliveSocketSet \ {t}
    BY <1>11, <2>0 DEF PollLoadAndDelete
  <2>3. Taken(t)'
    BY <1>11, <2>0 DEF PollLoadAndDelete, Taken, PollingOut, TypeOK
  <2>4. stageOf[t] = "pooled" /\ stageOf'[t] = "taken"
    BY <2>1, <2>2, <2>3 DEF stageOf
  <2>5. \A s \in Sockets : s # t => stageOf'[s] = stageOf[s]
    BY <2>1, <2>2 DEF stageOf
  <2>6. Pool!Move(t, "pooled", "taken")
    BY <2>1, <2>4, <2>5, StageMove
  <2>7. QED
    BY <2>1, <2>6 DEF Pool!Next, Pool!Take
<1>12. ASSUME NEW p \in Pollers, PollDead(p) PROVE PoolStep
  <2>1. aliveSocketSet' = aliveSocketSet /\ \A s \in Sockets : (Taken(s)' <=> Taken(s)) /\ (Gone(s)' <=> Gone(s))
    BY <1>12 DEF PollDead, chanVars, Taken, Gone, PollingOut, TypeOK
  <2>2. QED
    BY <2>1, StageFrame
<1>13. ASSUME NEW p \in Pollers, PollDeadLate(p) PROVE PoolStep
  <2>1. aliveSocketSet' = aliveSocketSet /\ \A s \in Sockets : (Taken(s)' <=> Taken(s)) /\ (Gone(s)' <=> Gone(s))
    BY <1>13 DEF PollDeadLate, ReturnNil, chanVars, Taken, Gone, PollingOut, TypeOK
  <2>2. QED
    BY <2>1, StageFrame
<1>14. ASSUME NEW p \in Pollers, PollDec(p) PROVE PoolStep
  <2>1. aliveSocketSet' = aliveSocketSet /\ \A s \in Sockets : Gone(s)' <=> Gone(s)
    BY <1>14 DEF PollDec, Gone
  <2>2. ASSUME NEW s \in Sockets PROVE Taken(s)' <=> Taken(s)
    <3>1. CASE socket[p] = s
      <4>1. p \in PollingOut(s) /\ delivered'[s] = delivered[s] + 1 /\ delivered[s] \in Nat
        BY <1>14, <3>1 DEF PollDec, PollingOut, TypeOK
      <4>2. QED
        BY <4>1 DEF Taken
    <3>2. CASE socket[p] # s
      <4>1. delivered'[s] = delivered[s] /\ PollingOut(s)' = PollingOut(s)
        BY <1>14, <3>2 DEF PollDec, PollingOut, TypeOK
      <4>2. QED
        BY <4>1 DEF Taken
    <3>3. QED
      BY <3>1, <3>2
  <2>3. QED
    BY <2>1, <2>2, StageFrame
<1>15. CASE UNCHANGED vars
  <2>1. aliveSocketSet' = aliveSocketSet /\ \A s \in Sockets : (Taken(s)' <=> Taken(s)) /\ (Gone(s)' <=> Gone(s))
    BY <1>15 DEF vars, Taken, Gone, PollingOut
  <2>2. QED
    BY <2>1, StageFrame
<1>16. QED
  BY <1>1, <1>2, <1>3, <1>4, <1>5, <1>6, <1>7, <1>8, <1>9, <1>10, <1>11,
     <1>12, <1>13, <1>14, <1>15 DEF Next, OfferNext, PollNext

(* PoolSpec: the queue of iterable_chan.go, with its separate channel, map *)
(* and counter, implements the pool in which a socket is added, taken and  *)
(* removed atomically.                                                     *)
THEOREM ImplementsPool == Spec => PoolSpec
<1>1. Init => Pool!Init
  BY DEF Init, Pool!Init, stageOf, Taken, Gone, PollingOut
<1>2. TypeOK /\ ExitInv /\ [Next]_vars => [Pool!Next]_stageOf
  BY StepImplementsPool DEF PoolStep
<1>3. QED
  BY <1>1, <1>2, TypeCorrect, ExitInvariant, PTL DEF Spec, PoolSpec, Pool!Spec
=============================================================================
