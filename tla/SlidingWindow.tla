---------------------------- MODULE SlidingWindow ---------------------------
(***************************************************************************)
(* What a connector promises of its window, with no mention of counters,   *)
(* retries or goroutines: each slot holds at most one websocket that waits *)
(* for a request.  Until the slot's connector closes, an empty slot is     *)
(* filled again, and given up only while it is to be filled and only if    *)
(* the account of the websockets has drifted so far that a new one may be  *)
(* refused.  Once it closes, an empty slot is filled no more, and a slot   *)
(* that was given up stays so.                                             *)
(***************************************************************************)
CONSTANT Slots

VARIABLES
    closing,    \* the slots whose connector is shutting down or has ended
    slot,       \* vacant, filling (a websocket is being opened), open or closed
    mayRefuse   \* the account of the websockets may refuse one

vars == <<closing, slot, mayRefuse>>

Init == closing = {} /\ slot = [s \in Slots |-> "vacant"] /\ mayRefuse \in BOOLEAN

Goes(s, to) == slot' = [slot EXCEPT ![s] = to] /\ UNCHANGED <<closing, mayRefuse>>

\* a connector starts with all its slots, and replaces them one by one
Fill(S) ==
    /\ \A s \in S : slot[s] = "vacant" /\ s \notin closing
    /\ slot' = [s \in Slots |-> IF s \in S THEN "filling" ELSE slot[s]]
    /\ UNCHANGED <<closing, mayRefuse>>

Open(s) == slot[s] = "filling" /\ Goes(s, "open")

\* the websocket failed, was used or was lost, and may not have been accounted for
Vacate(s) ==
    /\ slot[s] \in {"filling", "open"}
    /\ slot' = [slot EXCEPT ![s] = "vacant"]
    /\ mayRefuse' \in {mayRefuse, TRUE}
    /\ UNCHANGED closing

\* the same, and the next one is being opened
Replace(s) == slot[s] = "open" /\ s \notin closing /\ Goes(s, "filling")

GiveUp(s) == s \in closing /\ Goes(s, "closed")

Refuse(s) == mayRefuse /\ slot[s] = "filling" /\ Goes(s, "closed")

Close(S) == closing' = closing \union S /\ UNCHANGED <<slot, mayRefuse>>

Next ==
    \/ \E S \in SUBSET Slots : Fill(S) \/ Close(S)
    \/ \E s \in Slots : Open(s) \/ Vacate(s) \/ Replace(s) \/ GiveUp(s) \/ Refuse(s)

Spec == Init /\ [][Next]_vars
===============================================================================
