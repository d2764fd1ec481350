----------------------------- MODULE Connector ------------------------------
(***************************************************************************)
(* connector/connector.go with ws_cli_farm_conn_info.go, and the methods   *)
(* of connector_socket.go that replace a websocket by another: how a       *)
(* connector keeps a window of idle websockets open to one router, and how *)
(* it stops.                                                               *)
(*                                                                         *)
(* Start opens one websocket per slot.  Each websocket, when it is used,   *)
(* closed or lost, runs its whenConsumedAction once, which opens the next  *)
(* one of the slot.  Only the current websocket of a slot is modelled: an  *)
(* older one, serving its request, no longer touches the window.           *)
(*                                                                         *)
(* All websockets of a router share one counter, kept by the               *)
(* WebsocketClientFarm under the register URL.  A router listed twice, as  *)
(* the end-to-end test does, has twice as many slots on the same counter.  *)
(***************************************************************************)
EXTENDS Integers, FiniteSets

CONSTANTS
    Window,         \* slidingWindowSize
    Listings,       \* how often the router is listed in routerURIs
    MaxPending,     \* bound: no websocket ends while that many dials wait for their add
    MaxRequests,    \* bound: requests that arrive
    MaxAttempts     \* bound: curConnAttempts saturates here

ASSUME WindowAssumption == Window \in Nat \ {0} /\ Listings \in Nat \ {0}
ASSUME BoundsAssumption ==
    MaxPending \in Nat \ {0} /\ MaxRequests \in Nat /\ MaxAttempts \in Nat \ {0}

NumSlots == Listings * Window
Slots == 1..NumSlots

VARIABLES
    state,          \* Connector.state
    started,        \* slots whose first websocket Start has begun to open
    startAdding,    \* Start is about to call addWebsocket for the last of them
    known,          \* the register URL is a key of connectorSockets
    idleNum,        \* the counter stored there
    pending,        \* whenConsumedActions that dialled and have yet to addWebsocket
    pendingReq,     \* ... those run for a request that has arrived
    life,           \* life[i]: the current websocket of slot i
    forRequest,     \* forRequest[i]: the whenConsumedAction of slot i runs for a request
    attempts,       \* curConnAttempts of the ConnectionInfo of slot i
    delay,          \* delay[i]: milliseconds until slot i is dialled again
    starting,       \* requests that have yet to call OnConnectionStarted
    requestNum,     \* ConnectionMonitor.requestNum
    arrived,        \* history: requests that arrived
    cancelled,      \* ParentCancel was called
    shutDown,       \* progress of ShutDownAfterTimeout
    lost,           \* history: removeWebsocket calls that found no counter
    lateDials       \* history: lateDials[i]: dials of slot i since the shutdown began

vars == <<state, started, startAdding, known, idleNum, pending, pendingReq, life,
          forRequest, attempts, delay, starting, requestNum, arrived, cancelled,
          shutDown, lost, lateDials>>

farmVars  == <<known, idleNum, lost>>
reqVars   == <<starting, requestNum, arrived>>
stopVars  == <<state, cancelled, shutDown>>
startVars == <<started, startAdding>>

States == {"NotStarted", "RUNNING", "ShuttingDown", "ShutDown"}
Lives  == {"off", "dialing", "idle", "retry", "timer", "consumed", "checked", "safe",
           "stopped", "undialled", "dropped"}

Smaller(a, b) == IF a < b THEN a ELSE b

\* 2^n, for n up to the last power below 10000
PowersOfTwo == <<2, 4, 8, 16, 32, 64, 128, 256, 512, 1024, 2048, 4096, 8192>>

\* 500 * Min(10000, 2^n)
RetryAfterMillis(n) ==
    500 * (IF n = 0 THEN 1 ELSE IF n \in DOMAIN PowersOfTwo THEN PowersOfTwo[n] ELSE 10000)

TypeOK ==
    /\ state \in States
    /\ started \in 0..NumSlots /\ startAdding \in BOOLEAN
    /\ known \in BOOLEAN /\ idleNum \in Int /\ lost \in Nat
    /\ pending \in Nat /\ pendingReq \in Nat
    /\ life \in [Slots -> Lives]
    /\ forRequest \in [Slots -> BOOLEAN]
    /\ attempts \in [Slots -> 0..MaxAttempts]
    /\ delay \in [Slots -> Int]
    /\ starting \in Nat /\ requestNum \in Nat /\ arrived \in 0..MaxRequests
    /\ cancelled \in BOOLEAN
    /\ shutDown \in {"no", "cancel", "deregister", "mark", "wait", "true", "false"}
    /\ lateDials \in [Slots -> Nat]

Init ==
    /\ state = "NotStarted"
    /\ started = 0 /\ startAdding = FALSE
    /\ known = FALSE /\ idleNum = 0
    /\ pending = 0 /\ pendingReq = 0
    /\ life = [i \in Slots |-> "off"]
    /\ forRequest = [i \in Slots |-> FALSE]
    /\ attempts = [i \in Slots |-> 0]
    /\ delay = [i \in Slots |-> 0]
    /\ starting = 0 /\ requestNum = 0 /\ arrived = 0
    /\ cancelled = FALSE /\ shutDown = "no"
    /\ lost = 0
    /\ lateDials = [i \in Slots |-> 0]

Stopping == state \in {"ShuttingDown", "ShutDown"}
Become(i, l) == life' = [life EXCEPT ![i] = l]

\* dials whose addWebsocket is yet to come
PendingAdds == pending + pendingReq + (IF startAdding THEN 1 ELSE 0)

-----------------------------------------------------------------------------
(* WebsocketClientFarm.                                                    *)

\* the key is created with the first websocket
addWebsocket ==
    /\ known' = TRUE
    /\ idleNum' = idleNum + 1
    /\ UNCHANGED lost

\* the websocket that was just used is not taken off the counter
removeNothing == UNCHANGED farmVars

\* nothing happens when the key does not exist yet
removeWebsocket ==
    /\ idleNum' = IF known THEN idleNum - 1 ELSE idleNum
    /\ lost' = IF known THEN lost ELSE lost + 1
    /\ UNCHANGED known

\* the farm is given the window itself as its limit
isSafeWithinWindow == Window > idleNum

isSafeToAddWebsocket == 2 * Window > idleNum

-----------------------------------------------------------------------------
(* connectToRouter: unless the connector is shut down, count the attempt   *)
(* and dial in a goroutine.                                                *)

connectToRouter(i) ==
    IF state = "ShutDown"
      THEN Become(i, "undialled") /\ UNCHANGED <<attempts, lateDials>>
      ELSE /\ Become(i, "dialing")
           /\ attempts' = [attempts EXCEPT ![i] = Smaller(@ + 1, MaxAttempts)]
           /\ lateDials' = [lateDials EXCEPT ![i] = IF Stopping THEN @ + 1 ELSE @]

-----------------------------------------------------------------------------
(* Start: for each slot, dial and then addWebsocket.                       *)

StartConnect ==
    /\ state = "NotStarted" /\ ~startAdding /\ started < NumSlots
    /\ started' = started + 1
    /\ startAdding' = TRUE
    /\ connectToRouter(started + 1)
    /\ UNCHANGED <<farmVars, pending, pendingReq, forRequest, delay, reqVars, stopVars>>

StartAdd ==
    /\ startAdding
    /\ startAdding' = FALSE
    /\ addWebsocket
    /\ UNCHANGED <<started, pending, pendingReq, life, forRequest, attempts, delay,
                   reqVars, stopVars, lateDials>>

StartDone ==
    /\ state = "NotStarted" /\ ~startAdding /\ started = NumSlots
    /\ state' = "RUNNING"
    /\ UNCHANGED <<startVars, farmVars, pending, pendingReq, life, forRequest, attempts,
                   delay, reqVars, cancelled, shutDown, lateDials>>

-----------------------------------------------------------------------------
(* The websocket of a slot.                                                *)

SlotFrame == UNCHANGED <<startVars, pending, pendingReq, stopVars, lateDials>>

\* the bound on the ends of websockets, never on what the connector does then
Allowed == PendingAdds < MaxPending

\* the attempts are reset as soon as the websocket is open
DialSucceedsResets(i) ==
    /\ life[i] = "dialing"
    /\ Become(i, "idle")
    /\ attempts' = [attempts EXCEPT ![i] = 0]
    /\ SlotFrame
    /\ UNCHANGED <<farmVars, forRequest, delay, reqVars>>

DialSucceeds(i) ==
    /\ life[i] = "dialing"
    /\ Become(i, "idle")
    /\ SlotFrame
    /\ UNCHANGED <<farmVars, forRequest, attempts, delay, reqVars>>

\* OnWebsocketText, the first time: onRequestReceived
RequestArrives(i) ==
    /\ life[i] = "idle" /\ arrived < MaxRequests /\ Allowed
    /\ arrived' = arrived + 1
    /\ removeWebsocket
    /\ attempts' = [attempts EXCEPT ![i] = 0]
    /\ Become(i, "consumed")
    /\ forRequest' = [forRequest EXCEPT ![i] = TRUE]
    /\ SlotFrame
    /\ UNCHANGED <<delay, starting, requestNum>>

\* OnWebsocketClose of a websocket that was never used: replaced at once
OnWebsocketClose(i) ==
    /\ life[i] = "idle" /\ Allowed
    /\ removeWebsocket
    /\ Become(i, "consumed")
    /\ SlotFrame
    /\ UNCHANGED <<forRequest, attempts, delay, reqVars>>

\* OnWebsocketError, of a dial or of an idle websocket: replaced after a delay
OnWebsocketError(i) ==
    /\ life[i] \in {"dialing", "idle"} /\ Allowed
    /\ removeWebsocket
    /\ delay' = [delay EXCEPT ![i] = RetryAfterMillis(attempts[i])]
    /\ Become(i, "retry")
    /\ SlotFrame
    /\ UNCHANGED <<forRequest, attempts, reqVars>>

\* its goroutine waits on a context that has just been cancelled
RetryGoroutineCancelled(i) ==
    /\ life[i] = "retry"
    /\ Become(i, "stopped")
    /\ delay' = [delay EXCEPT ![i] = 0]
    /\ SlotFrame
    /\ UNCHANGED <<farmVars, forRequest, attempts, reqVars>>

\* its goroutine gives up if ParentCancel was called, or sets a timer
RetryGoroutine(i) ==
    /\ life[i] = "retry"
    /\ \/ /\ cancelled
          /\ Become(i, "stopped")
          /\ delay' = [delay EXCEPT ![i] = 0]
       \/ /\ ~cancelled
          /\ Become(i, "timer")
          /\ UNCHANGED delay
    /\ SlotFrame
    /\ UNCHANGED <<farmVars, forRequest, attempts, reqVars>>

TimerFires(i) ==
    /\ life[i] = "timer"
    /\ Become(i, "consumed")
    /\ delay' = [delay EXCEPT ![i] = 0]
    /\ SlotFrame
    /\ UNCHANGED <<farmVars, forRequest, attempts, reqVars>>

-----------------------------------------------------------------------------
(* whenConsumedAction, run by the goroutine of the websocket that is being *)
(* replaced.  When it ends, a request that has arrived goes on to start.   *)

RunFrame == UNCHANGED <<startVars, stopVars, delay>>
CheckFrame == UNCHANGED <<farmVars, pending, pendingReq, attempts, requestNum, arrived, lateDials>>

Proceed(i, to) == Become(i, to) /\ UNCHANGED <<starting, forRequest>>

\* the action ends here, and a request goes on to the target
End(i, to) ==
    /\ Become(i, to)
    /\ starting' = IF forRequest[i] THEN starting + 1 ELSE starting
    /\ forRequest' = [forRequest EXCEPT ![i] = FALSE]

\* only the last state of a shutdown stops the replacement
CheckOnlyShutDown(i) ==
    /\ life[i] = "consumed"
    /\ IF state = "ShutDown" THEN End(i, "stopped") ELSE Proceed(i, "checked")
    /\ RunFrame /\ CheckFrame

CheckState(i) ==
    /\ life[i] = "consumed"
    /\ IF Stopping THEN End(i, "stopped") ELSE Proceed(i, "checked")
    /\ RunFrame /\ CheckFrame

CheckSafe(i) ==
    /\ life[i] = "checked"
    /\ IF isSafeToAddWebsocket THEN Proceed(i, "safe") ELSE End(i, "dropped")
    /\ RunFrame /\ CheckFrame

Reconnect(i) ==
    /\ life[i] = "safe"
    /\ connectToRouter(i)
    /\ IF forRequest[i] THEN pendingReq' = pendingReq + 1 /\ UNCHANGED pending
                        ELSE pending' = pending + 1 /\ UNCHANGED pendingReq
    /\ forRequest' = [forRequest EXCEPT ![i] = FALSE]
    /\ RunFrame
    /\ UNCHANGED <<farmVars, reqVars>>

\* the websocket is added, and the action ends
AddAfterReconnect ==
    /\ \/ /\ pending > 0 /\ pending' = pending - 1
          /\ UNCHANGED <<pendingReq, starting>>
       \/ /\ pendingReq > 0 /\ pendingReq' = pendingReq - 1
          /\ starting' = starting + 1
          /\ UNCHANGED pending
    /\ addWebsocket
    /\ RunFrame
    /\ UNCHANGED <<life, forRequest, attempts, requestNum, arrived, lateDials>>

-----------------------------------------------------------------------------
(* Requests, from OnConnectionStarted to the callback of the target.       *)

ReqFrame == UNCHANGED <<startVars, farmVars, pending, pendingReq, life, forRequest,
                        attempts, delay, arrived, stopVars, lateDials>>

OnConnectionStarted ==
    /\ starting > 0
    /\ starting' = starting - 1
    /\ requestNum' = requestNum + 1
    /\ ReqFrame

OnConnectionEnded ==
    /\ requestNum > 0
    /\ requestNum' = requestNum - 1
    /\ UNCHANGED starting
    /\ ReqFrame

-----------------------------------------------------------------------------
(* ShutDownAfterTimeout and callShutDown.  The websocket that deregisters  *)
(* is not of a slot: it is never replaced and has no counter.              *)

StopStep(from, to) ==
    /\ shutDown = from
    /\ shutDown' = to
    /\ UNCHANGED <<startVars, farmVars, pending, pendingReq, life, forRequest, attempts,
                   delay, reqVars, lateDials>>

ShutDownCalled ==
    /\ state = "RUNNING"
    /\ StopStep("no", "cancel")
    /\ state' = "ShuttingDown"
    /\ UNCHANGED cancelled

ParentCancel ==
    /\ StopStep("cancel", "deregister")
    /\ cancelled' = TRUE
    /\ UNCHANGED state

Deregister == StopStep("deregister", "mark") /\ UNCHANGED <<state, cancelled>>

MarkShutDown ==
    /\ StopStep("mark", "wait")
    /\ state' = "ShutDown"
    /\ UNCHANGED cancelled

ShutDownReturnsTrue ==
    /\ requestNum = 0
    /\ StopStep("wait", "true")
    /\ UNCHANGED <<state, cancelled>>

ShutDownTimesOut ==
    /\ requestNum > 0
    /\ StopStep("wait", "false")
    /\ UNCHANGED <<state, cancelled>>

ShutDownNext ==
    \/ ParentCancel \/ Deregister \/ MarkShutDown
    \/ ShutDownReturnsTrue \/ ShutDownTimesOut

-----------------------------------------------------------------------------
DialNext(i)   == DialSucceeds(i) \/ OnWebsocketError(i)
ActionNext(i) ==
    RetryGoroutine(i) \/ TimerFires(i) \/ CheckState(i) \/ CheckSafe(i) \/ Reconnect(i)

Next ==
    \/ StartConnect \/ StartAdd \/ StartDone
    \/ \E i \in Slots : DialNext(i) \/ RequestArrives(i) \/ OnWebsocketClose(i)
                          \/ ActionNext(i)
    \/ AddAfterReconnect
    \/ OnConnectionStarted \/ OnConnectionEnded
    \/ ShutDownCalled \/ ShutDownNext

Spec == Init /\ [][Next]_vars

(* Goroutines run, timers fire, and a dial ends one way or the other: the  *)
(* dialer has a handshake timeout.  Requests and shutdown need not come.   *)
Fairness ==
    /\ WF_vars(StartConnect \/ StartAdd \/ StartDone)
    /\ WF_vars(AddAfterReconnect) /\ WF_vars(OnConnectionStarted) /\ WF_vars(ShutDownNext)
    /\ \A i \in Slots : /\ WF_vars(ActionNext(i))
                        /\ WF_vars(life[i] = "dialing" /\ DialNext(i))

FairSpec == Spec /\ Fairness

-----------------------------------------------------------------------------
Counted == {i \in Slots : life[i] \in {"dialing", "idle", "undialled"}}

(* The counter is the number of open or opening websockets, less the ones  *)
(* not yet added, plus one for each removal that came before the very      *)
(* first addWebsocket: the only way for it to drift.                       *)
WindowAccounting ==
    idleNum + PendingAdds = Cardinality(Counted) + lost

Dropped == {i \in Slots : life[i] = "dropped"}

(* The farm refuses at 2 * Window, whatever the number of slots: it can    *)
(* only do so if the counter drifted upwards by more than the room that    *)
(* the slots leave.  One listing leaves a whole window, two leave none.    *)
MayRefuse == lost > (2 - Listings) * Window

(* The slots given up for good, by the branch "unexpected error happened", *)
(* are no more than the drift of the counter beyond that room.             *)
DropsBounded ==
    Dropped = {} \/ Cardinality(Dropped) <= lost - (2 - Listings) * Window

(* What the code expects: that branch is never taken.                      *)
SlotNeverDropped == Dropped = {}

\* in milliseconds
ShortestDelay == 1000
LongestDelay == 5000000

(* A failed dial or a lost websocket is never retried within a second, and *)
(* never waits longer than the 5000 seconds at which the delay is capped.  *)
RetryBacksOff ==
    \A i \in Slots : life[i] \in {"retry", "timer"} =>
        delay[i] >= ShortestDelay /\ delay[i] <= LongestDelay

(* Although the state is read without a lock, a slot is dialled at most    *)
(* once after the shutdown began, by an action that had passed the check.  *)
OneLateDial == \A i \in Slots : lateDials[i] <= 1

\* what the window knows of a slot
SlotOf(l) ==
    IF l \in {"off", "retry", "timer", "consumed"} THEN "vacant"
    ELSE IF l \in {"checked", "safe", "dialing"} THEN "filling"
    ELSE IF l = "idle" THEN "open" ELSE "closed"

Filled == INSTANCE SlidingWindow WITH
    closing <- IF Stopping THEN Slots ELSE {}, slot <- [i \in Slots |-> SlotOf(life[i])],
    mayRefuse <- MayRefuse

(* Although states and counters are read and written without a lock, the   *)
(* window is kept as promised: a slot is filled again, and by nothing but  *)
(* its own websocket's end, until the shutdown begins, unless the counter  *)
(* has drifted so far that the farm may refuse it; once the shutdown has   *)
(* begun, a slot whose websocket ends is left empty, and only an action    *)
(* that had passed the check still dials.                                  *)
WindowKept == Filled!Spec

(* Until the shutdown begins, a websocket that was used, closed or lost is *)
(* replaced by a new dial, unless the counter has drifted so far that the  *)
(* farm may refuse it.                                                     *)
SlotRefilled ==
    \A i \in Slots :
        (life[i] \in {"retry", "timer", "consumed", "checked", "safe"})
            ~> (life[i] = "dialing" \/ Stopping \/ MayRefuse)
=============================================================================
