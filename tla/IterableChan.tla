---------------------------- MODULE IterableChan ----------------------------
(***************************************************************************)
(* router/router_socket/iterable_chan.go: the queue of idle router sockets *)
(* of one route.  A socket is queued in a bounded Go channel and, when it  *)
(* is valid, is also a key of a concurrent map; an atomic counter repeats  *)
(* the size of the map.  The three are never updated together, so every    *)
(* method is modelled one atomic access at a time.                         *)
(*                                                                         *)
(* Each socket is offered once, when its websocket is registered; requests *)
(* poll, and the goroutine that reads a websocket removes its socket when  *)
(* the websocket goes away.  Moving sockets between two queues (the dark   *)
(* launch) offers a socket again and is outside this module.               *)
(***************************************************************************)
EXTENDS Integers, Sequences, FiniteSets

CONSTANTS
    Sockets,        \* the router sockets registered for the route
    Pollers,        \* the goroutines that poll
    Capacity,       \* capacity of the channel
    NoSocket        \* the nil *RouterSocket

ASSUME SocketsAssumption == IsFiniteSet(Sockets)
ASSUME PollersAssumption == IsFiniteSet(Pollers)
ASSUME CapacityAssumption == Capacity \in Nat \ {0}
ASSUME NoSocketAssumption == NoSocket \notin Sockets

VARIABLES
    ch,             \* the channel, oldest entry first
    aliveSocketSet, \* keys of the concurrent map
    length,         \* the atomic counter read by LenAlive
    offer,          \* offer[s]: progress of the goroutine Offer(s) starts
    remover,        \* remover[s]: progress of Remove(s)
    poll,           \* poll[p]: progress of the Poll or PollTimeout of p
    kind,           \* kind[p]: which of the two p runs
    socket,         \* socket[p]: the entry p received from the channel
    delivered,      \* delivered[s]: how often s was returned by a poll
    removed         \* removed[s]: how often Remove(s) returned true

vars == <<ch, aliveSocketSet, length, offer, remover, poll, kind, socket,
          delivered, removed>>

chanVars  == <<ch, aliveSocketSet, length>>
pollVars  == <<poll, kind, socket>>

OfferSteps == {"new", "send", "store", "inc", "done"}
PollSteps  == {"idle", "select", "load", "dec"}
PollKinds  == {"Poll", "PollTimeout"}

TypeOK ==
    /\ ch \in Seq(Sockets) /\ Len(ch) <= Capacity
    /\ aliveSocketSet \subseteq Sockets
    /\ length \in Int
    /\ offer \in [Sockets -> OfferSteps]
    /\ remover \in [Sockets -> {"idle", "dec"}]
    /\ poll \in [Pollers -> PollSteps]
    /\ kind \in [Pollers -> PollKinds]
    /\ socket \in [Pollers -> Sockets \cup {NoSocket}]
    /\ \A p \in Pollers : poll[p] \in {"load", "dec"} => socket[p] \in Sockets
    /\ delivered \in [Sockets -> Nat]
    /\ removed \in [Sockets -> Nat]

Init ==
    /\ ch = <<>>
    /\ aliveSocketSet = {}
    /\ length = 0
    /\ offer = [s \in Sockets |-> "new"]
    /\ remover = [s \in Sockets |-> "idle"]
    /\ poll = [p \in Pollers |-> "idle"]
    /\ kind = [p \in Pollers |-> "Poll"]
    /\ socket = [p \in Pollers |-> NoSocket]
    /\ delivered = [s \in Sockets |-> 0]
    /\ removed = [s \in Sockets |-> 0]

-----------------------------------------------------------------------------
(* Offer: a goroutine that sends the socket on the channel, stores it in   *)
(* the map, and counts it.  The five minute timer of the select only makes *)
(* the goroutine try the same send again.                                  *)

OfferStep(s, from, to) ==
    /\ offer[s] = from
    /\ offer' = [offer EXCEPT ![s] = to]
    /\ UNCHANGED <<remover, poll, kind, socket, delivered, removed>>

OfferCall(s) ==
    /\ OfferStep(s, "new", "send")
    /\ UNCHANGED chanVars

OfferSend(s) ==
    /\ Len(ch) < Capacity
    /\ OfferStep(s, "send", "store")
    /\ ch' = Append(ch, s)
    /\ UNCHANGED <<aliveSocketSet, length>>

OfferStore(s) ==
    /\ OfferStep(s, "store", "inc")
    /\ aliveSocketSet' = aliveSocketSet \cup {s}
    /\ UNCHANGED <<ch, length>>

\* the return is missing: the loop sends the socket again
OfferIncNoReturn(s) ==
    /\ OfferStep(s, "inc", "send")
    /\ length' = length + 1
    /\ UNCHANGED <<ch, aliveSocketSet>>

OfferInc(s) ==
    /\ OfferStep(s, "inc", "done")
    /\ length' = length + 1
    /\ UNCHANGED <<ch, aliveSocketSet>>

-----------------------------------------------------------------------------
(* Remove: called by the goroutine that reads the websocket, which starts  *)
(* once the socket has been offered.  A call that does not find the socket *)
(* in the map returns false and changes nothing.                           *)

\* the counter is decremented whether or not the socket was in the map
RemoveWithoutLoadedCheck(s) ==
    /\ offer[s] # "new" /\ remover[s] = "idle"
    /\ aliveSocketSet' = aliveSocketSet \ {s}
    /\ remover' = [remover EXCEPT ![s] = "dec"]
    /\ UNCHANGED <<ch, length, offer, poll, kind, socket, delivered, removed>>

RemoveLoadAndDelete(s) ==
    /\ offer[s] # "new" /\ remover[s] = "idle"
    /\ s \in aliveSocketSet
    /\ aliveSocketSet' = aliveSocketSet \ {s}
    /\ remover' = [remover EXCEPT ![s] = "dec"]
    /\ UNCHANGED <<ch, length, offer, poll, kind, socket, delivered, removed>>

RemoveDec(s) ==
    /\ remover[s] = "dec"
    /\ remover' = [remover EXCEPT ![s] = "idle"]
    /\ length' = length - 1
    /\ removed' = [removed EXCEPT ![s] = @ + 1]
    /\ UNCHANGED <<ch, aliveSocketSet, offer, poll, kind, socket, delivered>>

-----------------------------------------------------------------------------
(* Poll and PollTimeout share the loop: receive an entry, and return it if *)
(* LoadAndDelete finds it in the map.  An entry that is not there is dead  *)
(* and is dropped.                                                         *)

PollCall(p, k) ==
    /\ poll[p] = "idle"
    /\ poll' = [poll EXCEPT ![p] = "select"]
    /\ kind' = [kind EXCEPT ![p] = k]
    /\ UNCHANGED <<chanVars, offer, remover, socket, delivered, removed>>

\* a dead entry is left at the head of the channel
PollReceiveOnlyAlive(p) ==
    /\ poll[p] = "select" /\ ch # <<>>
    /\ Head(ch) \in aliveSocketSet
    /\ poll' = [poll EXCEPT ![p] = "load"]
    /\ socket' = [socket EXCEPT ![p] = Head(ch)]
    /\ ch' = Tail(ch)
    /\ UNCHANGED <<aliveSocketSet, length, offer, remover, kind, delivered, removed>>

PollReceive(p) ==
    /\ poll[p] = "select" /\ ch # <<>>
    /\ poll' = [poll EXCEPT ![p] = "load"]
    /\ socket' = [socket EXCEPT ![p] = Head(ch)]
    /\ ch' = Tail(ch)
    /\ UNCHANGED <<aliveSocketSet, length, offer, remover, kind, delivered, removed>>

ReturnNil(p) ==
    /\ poll' = [poll EXCEPT ![p] = "idle"]
    /\ socket' = [socket EXCEPT ![p] = NoSocket]
    /\ UNCHANGED <<chanVars, offer, remover, kind, delivered, removed>>

\* the default branch of the select of Poll
PollEmpty(p) ==
    /\ poll[p] = "select" /\ kind[p] = "Poll"
    /\ ch = <<>>
    /\ ReturnNil(p)

\* the timer also ends a poll that has just received an entry
PollTimeoutDropsEntry(p) ==
    /\ poll[p] \in {"select", "load"} /\ kind[p] = "PollTimeout"
    /\ ReturnNil(p)

\* the timer branch of the select of PollTimeout
PollTimeoutExpires(p) ==
    /\ poll[p] = "select" /\ kind[p] = "PollTimeout"
    /\ ReturnNil(p)

\* the entry is looked up but stays in the map
PollLoadWithoutDelete(p) ==
    /\ poll[p] = "load"
    /\ socket[p] \in aliveSocketSet
    /\ poll' = [poll EXCEPT ![p] = "dec"]
    /\ UNCHANGED <<chanVars, offer, remover, kind, socket, delivered, removed>>

PollLoadAndDelete(p) ==
    /\ poll[p] = "load"
    /\ socket[p] \in aliveSocketSet
    /\ aliveSocketSet' = aliveSocketSet \ {socket[p]}
    /\ poll' = [poll EXCEPT ![p] = "dec"]
    /\ UNCHANGED <<ch, length, offer, remover, kind, socket, delivered, removed>>

\* a dead entry: poll again
PollDead(p) ==
    /\ poll[p] = "load"
    /\ socket[p] \notin aliveSocketSet
    /\ poll' = [poll EXCEPT ![p] = "select"]
    /\ socket' = [socket EXCEPT ![p] = NoSocket]
    /\ UNCHANGED <<chanVars, offer, remover, kind, delivered, removed>>

\* a dead entry, and the time of PollTimeout is up
PollDeadLate(p) ==
    /\ poll[p] = "load" /\ kind[p] = "PollTimeout"
    /\ socket[p] \notin aliveSocketSet
    /\ ReturnNil(p)

PollDec(p) ==
    /\ poll[p] = "dec"
    /\ length' = length - 1
    /\ poll' = [poll EXCEPT ![p] = "idle"]
    /\ socket' = [socket EXCEPT ![p] = NoSocket]
    /\ delivered' = [delivered EXCEPT ![socket[p]] = @ + 1]
    /\ UNCHANGED <<ch, aliveSocketSet, offer, remover, kind, removed>>

-----------------------------------------------------------------------------
OfferNext(s) == OfferSend(s) \/ OfferStore(s) \/ OfferInc(s)

PollNext(p) ==
    \/ PollReceive(p) \/ PollEmpty(p) \/ PollTimeoutExpires(p)
    \/ PollLoadAndDelete(p) \/ PollDead(p) \/ PollDeadLate(p) \/ PollDec(p)

Next ==
    \/ \E s \in Sockets :
          OfferCall(s) \/ OfferNext(s) \/ RemoveLoadAndDelete(s) \/ RemoveDec(s)
    \/ \E p \in Pollers : (\E k \in PollKinds : PollCall(p, k)) \/ PollNext(p)

Spec == Init /\ [][Next]_vars

(* Every goroutine that can run does run.  Receiving is strongly fair: a   *)
(* select entered while the channel has an entry takes it, since its timer *)
(* has only just been started.                                             *)
Fairness ==
    /\ \A s \in Sockets : WF_vars(OfferNext(s)) /\ WF_vars(RemoveDec(s))
    /\ \A p \in Pollers : WF_vars(PollNext(p)) /\ SF_vars(PollReceive(p))

FairSpec == Spec /\ Fairness

-----------------------------------------------------------------------------
(* Exits(s): how often s has left the map, by a poll or by Remove, the     *)
(* calls that have not yet returned included.                              *)
PollingOut(s) == {p \in Pollers : poll[p] = "dec" /\ socket[p] = s}

(* LoadAndDelete makes Poll and Remove agree: a socket leaves the queue at *)
(* most once, so it is never given to two requests and never given to a    *)
(* request after Remove has returned true for it.                          *)
LeavesOnce ==
    \A s \in Sockets :
        delivered[s] + removed[s] + Cardinality(PollingOut(s))
            + (IF remover[s] = "dec" THEN 1 ELSE 0) <= 1

(* The counter differs from the size of the map by exactly the calls that  *)
(* are between their access to the map and their access to the counter, so *)
(* the counter never drifts, whatever the interleaving.                    *)
LengthConservation ==
    length = Cardinality(aliveSocketSet)
             + Cardinality({p \in Pollers : poll[p] = "dec"})
             + Cardinality({s \in Sockets : remover[s] = "dec"})
             - Cardinality({s \in Sockets : offer[s] = "inc"})

Queued(s) == \E i \in 1..Len(ch) : ch[i] = s
InHand(s) == \E p \in Pollers : poll[p] = "load" /\ socket[p] = s

(* A poll can still find s: s is valid, and is in the channel or has just  *)
(* been received by a poll that has yet to look it up in the map.          *)
Reachable(s) == s \in aliveSocketSet /\ (Queued(s) \/ InHand(s))

(* No step loses a socket that a poll can find, other than a poll that     *)
(* takes it or a Remove: in particular no timeout drops a valid entry.     *)
ReachableUntilLeft ==
    [][\A s \in Sockets : Reachable(s) => Reachable(s)' \/ s \notin aliveSocketSet']_vars

(* The pool of idle sockets that the farm relies on.                       *)
Taken(s) == delivered[s] > 0 \/ PollingOut(s) # {}
Gone(s)  == removed[s] > 0 \/ remover[s] = "dec"

stageOf == [s \in Sockets |->
    IF s \in aliveSocketSet THEN "pooled"
    ELSE IF Taken(s) THEN "taken"
    ELSE IF Gone(s) THEN "removed"
    ELSE "new"]

Pool == INSTANCE SocketPool WITH stage <- stageOf

(* The queue implements the pool: seen from outside, Offer, Poll and       *)
(* Remove are single steps although the code takes several.                *)
PoolSpec == Pool!Spec

(* If requests keep polling, an Offer blocked on a full channel gets its   *)
(* entry in, also when the channel was filled by sockets that died.        *)
PollsKeepComing == []<>(\E p \in Pollers : poll[p] # "idle")

OfferCompletes ==
    PollsKeepComing => \A s \in Sockets : (offer[s] = "send") ~> (offer[s] = "done")

(* Poll does not block: it returns however many dead entries it meets.     *)
PollReturns ==
    \A p \in Pollers : (poll[p] = "select" /\ kind[p] = "Poll") ~> (poll[p] = "idle")

Quiet ==
    /\ \A s \in Sockets : offer[s] \in {"new", "done"} /\ remover[s] = "idle"
    /\ \A p \in Pollers : poll[p] = "idle"

(* "LenAlive return the len of the current LinkedBlockingQueue" and "Poll  *)
(* ... return the first VALID item": when no call is in progress, LenAlive *)
(* is the number of sockets that Poll can return.                          *)
LenAliveIsPollable ==
    Quiet => length = Cardinality({s \in Sockets : Reachable(s)})
=============================================================================
