---------------------------- MODULE RouterProofs ----------------------------
(***************************************************************************)
(* Proofs about Router, for any requests, calls, websockets and names, and *)
(* with or without a connector in the process.                             *)
(***************************************************************************)
EXTENDS Router, TLAPS

-----------------------------------------------------------------------------
(* Typing.  The WaitGroup counts the goroutines of Shutdown that have      *)
(* added to it and are not done; with two of them, started once, it stays  *)
(* within 0..2.                                                            *)

Added(s) == IF stopper[s] \in {"closing", "draining"} THEN 1 ELSE 0
WgCounts == wg = Added("http") + Added("registration")

NotStopping ==
    exiter["router"] \in {"busy", "ready", "hooks"} => \A s \in Servers : stopper[s] = "none"

Typed == TypeOK /\ WgCounts /\ NotStopping

(* The placeholder of a call that is not in progress is a call.            *)
LEMMA NoCallType ==
  ASSUME NEW at \in {"none", "answered"}
  PROVE  NoCall(at) \in [op : Operations, name : Names,
                         at : {"none", "look", "write", "writing", "notify", "answered"}]
  BY NamesAssumption DEF NoCall, Operations

(* The initial values have their types.                                    *)
LEMMA TypedInit == Init => Typed
<1> SUFFICES ASSUME Init PROVE Typed
  OBVIOUS
<1>1. call \in [Calls -> [op : Operations, name : Names,
                   at : {"none", "look", "write", "writing", "notify", "answered"}]]
  BY NoCallType DEF Init
<1>2. hook \in BOOLEAN
  BY DEF Init
<1>3. QED
  BY <1>1, <1>2 DEF Init, Typed, TypeOK, WgCounts, NotStopping, Added, Servers

(* Each action of a call keeps its record a call.                          *)
LEMMA CallTypes ==
  ASSUME Typed, NEW c \in Calls, CallNext(c)
  PROVE  Typed'
<1> USE DEF CallFrame, procVars, stopVars, listVars
<1>1. UNCHANGED <<listener, hook, exiter, stopper, wg, counted, overdue, request, websocket,
                  ended>>
  BY DEF CallNext, CallArrives, CallRefused, LookUpCall, BeginWrite, EndWrite, Notify
<1>2. call' \in [Calls -> [op : Operations, name : Names,
                   at : {"none", "look", "write", "writing", "notify", "answered"}]]
  <2>1. ASSUME NEW op \in Operations, NEW name \in Names, CallArrives(c, op, name)
        PROVE  call' \in [Calls -> [op : Operations, name : Names,
                   at : {"none", "look", "write", "writing", "notify", "answered"}]]
    BY <2>1 DEF CallArrives, Typed, TypeOK
  <2>2. ASSUME NEW from, NEW to \in {"write", "writing", "notify", "answered"},
               CallGoes(c, from, to)
        PROVE  call' \in [Calls -> [op : Operations, name : Names,
                   at : {"none", "look", "write", "writing", "notify", "answered"}]]
    <3>1. NoCall("answered") \in [op : Operations, name : Names,
                   at : {"none", "look", "write", "writing", "notify", "answered"}]
      BY NoCallType
    <3>2. QED
      BY <2>2, <3>1 DEF CallGoes, Typed, TypeOK
  <2>3. CallNext(c) => \/ \E op \in Operations, name \in Names : CallArrives(c, op, name)
                       \/ \E from \in {"look", "write", "writing", "notify"},
                             to \in {"write", "writing", "notify", "answered"} :
                                CallGoes(c, from, to)
    BY DEF CallNext, CallRefused, LookUpCall, BeginWrite, EndWrite, Notify
  <2>4. QED
    BY <2>1, <2>2, <2>3
<1>3. currentServices' \subseteq Names /\ moved' \subseteq Names /\ raced' \subseteq Names
  BY DEF CallNext, CallArrives, CallRefused, LookUpCall, BeginWrite, EndWrite, Notify,
         Typed, TypeOK
<1>4. hook' \in BOOLEAN
  BY <1>1 DEF Typed, TypeOK
<1>5. WgCounts' /\ NotStopping'
  BY <1>1 DEF Typed, WgCounts, Added, NotStopping
<1>6. QED
  BY <1>1, <1>2, <1>3, <1>4, <1>5 DEF Typed, TypeOK

(* What goes on outside the shutdown leaves its variables alone.           *)
Aside ==
    \/ ListenFails \/ AddHook \/ Throw \/ Exit \/ UNCHANGED vars
    \/ \E s \in Servers : Listen(s)
    \/ \E r \in Requests : RequestNext(r)
    \/ \E c \in Calls : CallNext(c)
    \/ \E w \in Websockets : WebsocketNext(w)

LEMMA AsideFrame == Aside => UNCHANGED <<exiter, stopper, wg, counted, overdue>>
<1> USE DEF stopVars
<1>1. ListenFails \/ AddHook \/ Throw \/ Exit \/ UNCHANGED vars
        => UNCHANGED <<exiter, stopper, wg, counted, overdue>>
  BY DEF ListenFails, AddHook, Throw, Exit, End, vars
<1>2. ASSUME NEW s \in Servers, Listen(s)
      PROVE  UNCHANGED <<exiter, stopper, wg, counted, overdue>>
  BY <1>2 DEF Listen
<1>3. ASSUME NEW r \in Requests, RequestNext(r)
      PROVE  UNCHANGED <<exiter, stopper, wg, counted, overdue>>
  BY <1>3 DEF RequestNext, ServeRequest, RequestAnswered, RequestGoes
<1>4. ASSUME NEW c \in Calls, CallNext(c)
      PROVE  UNCHANGED <<exiter, stopper, wg, counted, overdue>>
  BY <1>4 DEF CallNext, CallArrives, CallRefused, LookUpCall, BeginWrite, EndWrite, Notify,
              CallFrame
<1>5. ASSUME NEW w \in Websockets, WebsocketNext(w)
      PROVE  UNCHANGED <<exiter, stopper, wg, counted, overdue>>
  BY <1>5 DEF WebsocketNext, Register, AddWebsocket, RemoveWebsocket, WebsocketGoes
<1>6. QED
  BY <1>1, <1>2, <1>3, <1>4, <1>5 DEF Aside

(* The actions of the shutdown, one by one.                                *)
ShutdownActions ==
    \/ Signal \/ Shutdown \/ Wait \/ WaitWakes \/ ConnectorHooks
    \/ \E p \in Packages : AwaitSignal(p)
    \/ \E s \in Servers : StopperAdds(s) \/ CloseListener(s) \/ StopperDone(s)

LEMMA NextSplit == [Next]_vars => Aside \/ ShutdownActions
  BY DEF Next, ServerNext, ExitNext, StopperNext, Aside, ShutdownActions

(* Only Shutdown starts the goroutines that stop the servers.              *)
LEMMA NotStoppingStep ==
  ASSUME TypeOK, NotStopping, [Next]_vars
  PROVE  NotStopping'
<1> USE PackagesAssumption DEF NotStopping, Goes, Stops
<1>0. exiter \in [Packages -> {"busy", "ready", "hooks", "wait", "blocked", "woken", "exit"}]
      /\ stopper \in [Servers -> {"none", "started", "closing", "draining", "done"}]
      /\ "router" \in Packages /\ "router" # "connector"
  BY DEF TypeOK
<1>1. CASE Aside
  BY <1>1, AsideFrame
<1>2. CASE Signal
  BY <1>0, <1>2 DEF Signal, stopVars
<1>3. CASE Shutdown
  BY <1>0, <1>3 DEF Shutdown
<1>4. CASE Wait \/ WaitWakes \/ ConnectorHooks
  <2>1. exiter'["router"] = exiter["router"] \/ exiter'["router"] \in {"blocked", "exit"}
    BY <1>0, <1>4 DEF Wait, WaitWakes, ConnectorHooks
  <2>2. UNCHANGED stopper
    BY <1>4 DEF Wait, WaitWakes, ConnectorHooks, stopVars
  <2>3. QED
    BY <2>1, <2>2
<1>5. ASSUME NEW p \in Packages, AwaitSignal(p) PROVE NotStopping'
  BY <1>0, <1>5 DEF AwaitSignal, stopVars
<1>6. ASSUME NEW s \in Servers, StopperAdds(s) \/ CloseListener(s) PROVE NotStopping'
  BY <1>0, <1>6 DEF StopperAdds, CloseListener
<1>7. ASSUME NEW s \in Servers, StopperDone(s) PROVE NotStopping'
  <2>1. exiter'["router"] = exiter["router"] \/ exiter'["router"] = "woken"
    BY <1>0, <1>7 DEF StopperDone
  <2>2. QED
    BY <1>0, <1>7, <2>1 DEF StopperDone
<1>8. QED
  BY <1>1, <1>2, <1>3, <1>4, <1>5, <1>6, <1>7, NextSplit DEF ShutdownActions

(* Every action of the router preserves the types.                         *)
LEMMA TypedStep == Typed /\ [Next]_vars => Typed'
<1> SUFFICES ASSUME Typed, [Next]_vars PROVE Typed'
  OBVIOUS
<1>0. NotStopping'
  BY NotStoppingStep DEF Typed
<1> SUFFICES TypeOK' /\ WgCounts'
  BY <1>0 DEF Typed
<1> USE DEF Typed, TypeOK, WgCounts, Added, Servers, procVars, stopVars, listVars
<1>1. ASSUME NEW s \in Servers, Listen(s) PROVE TypeOK' /\ WgCounts'
  BY <1>1 DEF Listen
<1>2. CASE ListenFails \/ Throw \/ Exit
  BY <1>2 DEF ListenFails, Throw, Exit, End
<1>3. CASE AddHook
  BY <1>3 DEF AddHook
<1>4. CASE Signal
  BY <1>4 DEF Signal, ExitFrame
<1>5. ASSUME NEW p \in Packages, AwaitSignal(p) PROVE TypeOK' /\ WgCounts'
  BY <1>5 DEF AwaitSignal, ExitFrame, Goes
<1>6. CASE Shutdown
  <2>1. UNCHANGED <<wg, counted, overdue, ended, procVars, request, call, websocket, listVars>>
    BY <1>6 DEF Shutdown, ExitFrame
  <2>2. CASE hook
    <3>1. exiter' = [exiter EXCEPT !["router"] = "wait"]
      BY <1>6, <2>2 DEF Shutdown, Goes
    <3>2. stopper' = [s \in Servers |-> "started"] /\ wg = 0
      BY <1>6, <2>2 DEF Shutdown, Goes, NotStopping
    <3>3. WgCounts'
      BY <2>1, <3>2
    <3>4. /\ exiter' \in [Packages -> {"busy", "ready", "hooks", "wait", "blocked", "woken",
                                       "exit"}]
          /\ stopper' \in [Servers -> {"none", "started", "closing", "draining", "done"}]
      BY <3>1, <3>2
    <3>5. hook' \in BOOLEAN
      BY <2>1
    <3>6. QED
      BY <2>1, <3>3, <3>4, <3>5
  <2>3. CASE ~hook
    <3>1. exiter' = [exiter EXCEPT !["router"] = "exit"] /\ UNCHANGED stopper
      BY <1>6, <2>3 DEF Shutdown, Goes
    <3>2. QED
      BY <2>1, <3>1
  <2>4. QED
    BY <2>2, <2>3
<1>7. CASE Wait
  BY <1>7 DEF Wait, ExitFrame, Goes
<1>8. CASE WaitWakes
  BY <1>8 DEF WaitWakes, ExitFrame, Goes
<1>9. CASE ConnectorHooks
  BY <1>9 DEF ConnectorHooks, ExitFrame, Goes
<1>10. ASSUME NEW s \in Servers, StopperAdds(s) PROVE TypeOK' /\ WgCounts'
  BY <1>10 DEF StopperAdds, StopFrame, Stops
<1>11. ASSUME NEW s \in Servers, CloseListener(s) PROVE TypeOK' /\ WgCounts'
  BY <1>11 DEF CloseListener, StopFrame, Stops
<1>12. ASSUME NEW s \in Servers, StopperDone(s) PROVE TypeOK' /\ WgCounts'
  <2>1. wg' \in 0..2 /\ WgCounts'
    BY <1>12 DEF StopperDone, Stops
  <2>2. overdue' \subseteq Servers /\ stopper' \in [Servers -> {"none", "started", "closing", "draining", "done"}]
    BY <1>12 DEF StopperDone, Stops
  <2>3. exiter' \in [Packages -> {"busy", "ready", "hooks", "wait", "blocked", "woken", "exit"}]
    BY <1>12 DEF StopperDone
  <2>4. QED
    BY <1>12, <2>1, <2>2, <2>3 DEF StopperDone, StopFrame
<1>13. ASSUME NEW r \in Requests, RequestNext(r) PROVE TypeOK' /\ WgCounts'
  BY <1>13 DEF RequestNext, ServeRequest, RequestAnswered, RequestGoes
<1>14. ASSUME NEW c \in Calls, CallNext(c) PROVE TypeOK' /\ WgCounts'
  BY <1>14, CallTypes DEF Typed
<1>15. ASSUME NEW w \in Websockets, WebsocketNext(w) PROVE TypeOK' /\ WgCounts'
  BY <1>15 DEF WebsocketNext, Register, AddWebsocket, RemoveWebsocket, WebsocketGoes
<1>16. CASE UNCHANGED vars
  BY <1>16 DEF vars
<1>17. QED
  BY <1>1, <1>2, <1>3, <1>4, <1>5, <1>6, <1>7, <1>8, <1>9, <1>10, <1>11, <1>12, <1>13,
     <1>14, <1>15, <1>16 DEF Next, ServerNext, ExitNext, StopperNext

(* The type invariant: what the variables of router.go, util/shutdown.go   *)
(* and the lists hold, and that the WaitGroup never counts below zero.     *)
THEOREM TypeCorrect == Spec => []TypeOK
<1>1. Typed => TypeOK
  BY DEF Typed
<1>2. QED
  BY <1>1, TypedInit, TypedStep, PTL DEF Spec

-----------------------------------------------------------------------------
(* WaitCoversCounted.  The strengthening says where the goroutines that    *)
(* Wait counted are: past their Add as soon as Wait has begun, and done    *)
(* when it has been released, which the counter at zero shows.             *)

StopInv ==
    /\ exiter["router"] \in {"busy", "ready", "hooks"} => counted = {}
    /\ exiter["router"] = "wait" => \A s \in Servers : stopper[s] # "none"
    /\ \A s \in counted : stopper[s] \notin {"none", "started"}
    /\ exiter["router"] \in {"woken", "exit"} => \A s \in counted : stopper[s] = "done"
    /\ ended = "panic" => counted # Servers

(* Nothing is counted when the router starts.                              *)
LEMMA StopInit == Init => StopInv
  BY PackagesAssumption DEF Init, StopInv, Servers

(* Only WaitWakes ends the process with a panic.                           *)
LEMMA AsideEnded == Aside => (ended' = "panic" => ended = "panic")
<1>1. ListenFails \/ AddHook \/ Throw \/ Exit \/ UNCHANGED vars
        => (ended' = "panic" => ended = "panic")
  BY DEF ListenFails, AddHook, Throw, Exit, End, vars
<1>2. ASSUME NEW s \in Servers, Listen(s)
      PROVE  UNCHANGED ended
  BY <1>2 DEF Listen
<1>3. ASSUME NEW r \in Requests, RequestNext(r)
      PROVE  UNCHANGED ended
  BY <1>3 DEF RequestNext, ServeRequest, RequestAnswered, RequestGoes
<1>4. ASSUME NEW c \in Calls, CallNext(c)
      PROVE  UNCHANGED ended
  BY <1>4 DEF CallNext, CallArrives, CallRefused, LookUpCall, BeginWrite, EndWrite, Notify,
              CallFrame
<1>5. ASSUME NEW w \in Websockets, WebsocketNext(w)
      PROVE  UNCHANGED ended
  BY <1>5 DEF WebsocketNext, Register, AddWebsocket, RemoveWebsocket, WebsocketGoes
<1>6. QED
  BY <1>1, <1>2, <1>3, <1>4, <1>5 DEF Aside

(* Every action keeps the goroutines that Wait counted accounted for.      *)
LEMMA StopStep ==
  ASSUME Typed, StopInv, [Next]_vars
  PROVE  StopInv'
<1>0. /\ exiter \in [Packages -> {"busy", "ready", "hooks", "wait", "blocked", "woken", "exit"}]
      /\ stopper \in [Servers -> {"none", "started", "closing", "draining", "done"}]
      /\ wg \in 0..2 /\ counted \subseteq Servers
      /\ "router" \in Packages /\ "router" # "connector"
  BY PackagesAssumption DEF Typed, TypeOK
<1> USE DEF StopInv, Goes, Stops
<1>1. CASE Aside
  BY <1>1, AsideFrame, AsideEnded
<1>2. CASE Signal
  BY <1>0, <1>2 DEF Signal, stopVars
<1>3. CASE Shutdown
  <2>1. exiter["router"] = "hooks" /\ counted = {}
    BY <1>3 DEF Shutdown
  <2>2. UNCHANGED <<counted, ended>>
    BY <1>3 DEF Shutdown
  <2>3. CASE hook
    <3>1. exiter'["router"] = "wait"
      BY <1>0, <1>3, <2>3 DEF Shutdown
    <3>2. stopper' = [s \in Servers |-> "started"]
      BY <1>3, <2>3 DEF Shutdown
    <3>3. QED
      BY <2>1, <2>2, <3>1, <3>2
  <2>4. CASE ~hook
    <3>1. exiter'["router"] = "exit"
      BY <1>0, <1>3, <2>4 DEF Shutdown
    <3>2. QED
      BY <2>1, <2>2, <3>1
  <2>5. QED
    BY <2>3, <2>4
<1>4. CASE Wait
  <2>1. /\ exiter["router"] = "wait" /\ counted' = {s \in Servers : stopper[s] # "started"}
        /\ UNCHANGED <<stopper, wg>> /\ ended = "no" /\ UNCHANGED ended
    BY <1>4 DEF Wait, Runs
  <2>2. \A s \in counted' : stopper'[s] \notin {"none", "started"}
    BY <1>0, <2>1
  <2>3. CASE wg = 0
    <3>1. exiter'["router"] = "exit"
      BY <1>0, <1>4, <2>3 DEF Wait
    <3>2. \A s \in Servers : stopper[s] \notin {"closing", "draining"}
      BY <2>3 DEF Typed, WgCounts, Added, Servers
    <3>3. QED
      BY <1>0, <2>1, <2>2, <3>1, <3>2
  <2>4. CASE wg # 0
    <3>1. exiter'["router"] = "blocked"
      BY <1>0, <1>4, <2>4 DEF Wait
    <3>2. QED
      BY <2>1, <2>2, <3>1
  <2>5. QED
    BY <2>3, <2>4
<1>5. CASE WaitWakes
  <2>1. exiter["router"] = "woken" /\ exiter'["router"] = "exit" /\ UNCHANGED <<stopper, counted>>
    BY <1>0, <1>5 DEF WaitWakes, stopVars
  <2>2. ended' = "panic" => wg # 0
    BY <1>5 DEF WaitWakes
  <2>3. wg # 0 => \E s \in Servers : stopper[s] \in {"closing", "draining"}
    BY DEF Typed, WgCounts, Added, Servers
  <2>4. QED
    BY <1>0, <2>1, <2>2, <2>3
<1>6. CASE ConnectorHooks
  <2>1. UNCHANGED <<exiter["router"], stopper, counted, ended>>
    BY <1>0, <1>6 DEF ConnectorHooks, stopVars
  <2>2. QED
    BY <2>1
<1>7. ASSUME NEW p \in Packages, AwaitSignal(p) PROVE StopInv'
  BY <1>0, <1>7 DEF AwaitSignal, stopVars
<1>8. ASSUME NEW s \in Servers, StopperAdds(s) PROVE StopInv'
  BY <1>0, <1>8 DEF StopperAdds, StopFrame
<1>9. ASSUME NEW s \in Servers, CloseListener(s) PROVE StopInv'
  BY <1>0, <1>9 DEF CloseListener, StopFrame
<1>10. ASSUME NEW s \in Servers, StopperDone(s) PROVE StopInv'
  <2>1. /\ stopper[s] = "draining" /\ stopper' = [stopper EXCEPT ![s] = "done"]
        /\ UNCHANGED <<counted, ended>>
    BY <1>10 DEF StopperDone, StopFrame
  <2>2. CASE wg = 1 /\ exiter["router"] = "blocked"
    <3>1. \A t \in Servers : t # s => stopper[t] \notin {"closing", "draining"}
      BY <1>0, <2>1, <2>2 DEF Typed, WgCounts, Added, Servers
    <3>2. exiter'["router"] = "woken"
      BY <1>0, <1>10, <2>2 DEF StopperDone
    <3>3. QED
      BY <1>0, <2>1, <3>1, <3>2
  <2>3. CASE ~(wg = 1 /\ exiter["router"] = "blocked")
    <3>1. UNCHANGED exiter
      BY <1>10, <2>3 DEF StopperDone
    <3>2. QED
      BY <1>0, <2>1, <3>1
  <2>4. QED
    BY <2>2, <2>3
<1>11. QED
  BY <1>1, <1>2, <1>3, <1>4, <1>5, <1>6, <1>7, <1>8, <1>9, <1>10, NextSplit
     DEF ShutdownActions

(* Shutdown gives up waiting, or panics, only for a server whose goroutine *)
(* had not added to the WaitGroup when Wait began.                         *)
THEOREM CountedAreWaitedFor == Spec => []WaitCoversCounted
<1>1. StopInv => WaitCoversCounted
  BY DEF StopInv, WaitCoversCounted
<1>2. QED
  BY <1>1, TypedInit, TypedStep, StopInit, StopStep, PTL DEF Spec

-----------------------------------------------------------------------------
(* GracefulExit.  A server that is being stopped takes no new request, so  *)
(* that what it had in hand when its goroutine was done is all there is.   *)

HandlingInv ==
    /\ \A s \in Servers : stopper[s] \in {"draining", "done"} => listener[s] = "closed"
    /\ stopper["http"] = "done" /\ "http" \notin overdue
          => \A r \in Requests : request[r] # "handling"
    /\ ended = "exit" => \E p \in Packages : exiter[p] = "exit"
    /\ ended = "panic" => exiter["router"] = "exit"
    /\ ended = "throw" => \E c \in Calls : call[c].at = "writing"

(* No server is stopped when the router starts.                            *)
LEMMA HandlingInit == Init => HandlingInv
  BY PackagesAssumption DEF Init, HandlingInv, Servers

(* A process that has ended takes no further step.                         *)
LEMMA EndedStays == ended # "no" /\ [Next]_vars => UNCHANGED vars
<1> SUFFICES ASSUME ended # "no", Next PROVE FALSE
  OBVIOUS
<1> USE DEF Runs
<1>1. ~ServerNext
  BY DEF ServerNext, ListenFails, AddHook, Throw, Listen
<1>2. ~Signal /\ ~ExitNext
  BY DEF Signal, ExitNext, Shutdown, Wait, WaitWakes, ConnectorHooks, Exit, AwaitSignal, Goes
<1>3. ASSUME NEW s \in Servers PROVE ~StopperNext(s)
  BY DEF StopperNext, StopperAdds, CloseListener, StopperDone, Stops
<1>4. ASSUME NEW r \in Requests PROVE ~RequestNext(r)
  BY DEF RequestNext, ServeRequest, RequestAnswered, RequestGoes
<1>5. ASSUME NEW c \in Calls PROVE ~CallNext(c)
  BY DEF CallNext, CallArrives, CallRefused, LookUpCall, BeginWrite, EndWrite, Notify, CallGoes
<1>6. ASSUME NEW w \in Websockets PROVE ~WebsocketNext(w)
  BY DEF WebsocketNext, Register, AddWebsocket, RemoveWebsocket, WebsocketGoes
<1>7. QED
  BY <1>1, <1>2, <1>3, <1>4, <1>5, <1>6 DEF Next

(* Every action keeps track of what cuts a request off.                    *)
LEMMA HandlingStep ==
  ASSUME Typed, HandlingInv, [Next]_vars
  PROVE  HandlingInv'
<1>0. /\ exiter \in [Packages -> {"busy", "ready", "hooks", "wait", "blocked", "woken", "exit"}]
      /\ stopper \in [Servers -> {"none", "started", "closing", "draining", "done"}]
      /\ listener \in [Servers -> {"new", "open", "closed"}]
      /\ request \in [Requests -> {"none", "handling", "answered"}]
      /\ "router" \in Packages /\ "router" # "connector" /\ "http" \in Servers
  BY PackagesAssumption DEF Typed, TypeOK, Servers
<1> USE DEF HandlingInv
<1>a. CASE ended # "no"
  BY <1>a, EndedStays
     DEF vars, procVars, stopVars
<1>b. SUFFICES ASSUME ended = "no", Next PROVE HandlingInv'
  BY <1>a DEF vars, procVars, stopVars
<1>1. CASE ListenFails
  BY <1>1 DEF ListenFails, End, procVars, stopVars
<1>2. CASE Exit
  BY <1>2 DEF Exit, End, procVars, stopVars
<1>3. CASE Throw
  BY <1>3 DEF Throw, End, procVars, stopVars
<1>4. CASE AddHook
  BY <1>4, <1>b DEF AddHook, stopVars
<1>5. ASSUME NEW s \in Servers, Listen(s) PROVE HandlingInv'
  BY <1>0, <1>5, <1>b DEF Listen, stopVars
<1>6. CASE Signal
  BY <1>0, <1>6, <1>b DEF Signal, ExitFrame, procVars, stopVars
<1>7. ASSUME NEW p \in Packages, AwaitSignal(p) PROVE HandlingInv'
  BY <1>0, <1>7, <1>b DEF AwaitSignal, ExitFrame, procVars, stopVars
<1>8. CASE Shutdown
  <2>1. UNCHANGED <<listener, overdue, ended, request>> /\ ended = "no"
    BY <1>8, <1>b DEF Shutdown, ExitFrame, procVars
  <2>2. stopper' = stopper \/ stopper' = [s \in Servers |-> "started"]
    BY <1>8 DEF Shutdown
  <2>3. QED
    BY <1>0, <2>1, <2>2
<1>9. CASE Wait
  BY <1>0, <1>9, <1>b DEF Wait, ExitFrame, procVars
<1>10. CASE WaitWakes
  <2>1. exiter'["router"] = "exit" /\ ended' \in {"no", "panic"}
    BY <1>0, <1>10 DEF WaitWakes, Goes
  <2>2. UNCHANGED <<listener, stopper, overdue, request>>
    BY <1>10 DEF WaitWakes, ExitFrame, procVars, stopVars
  <2>3. QED
    BY <2>1, <2>2
<1>11. CASE ConnectorHooks
  BY <1>0, <1>11, <1>b DEF ConnectorHooks, ExitFrame, procVars, stopVars
<1>12. ASSUME NEW s \in Servers, StopperAdds(s) PROVE HandlingInv'
  BY <1>0, <1>12, <1>b DEF StopperAdds, StopFrame, Stops
<1>13. ASSUME NEW s \in Servers, CloseListener(s) PROVE HandlingInv'
  BY <1>0, <1>13, <1>b DEF CloseListener, StopFrame, Stops
<1>14. ASSUME NEW s \in Servers, StopperDone(s) PROVE HandlingInv'
  <2>1. /\ stopper[s] = "draining" /\ stopper' = [stopper EXCEPT ![s] = "done"]
        /\ UNCHANGED <<listener, request, ended>>
        /\ overdue' = IF Busy(s) THEN overdue \union {s} ELSE overdue
    BY <1>14 DEF StopperDone, StopFrame, Stops
  <2>2. s = "http" /\ "http" \notin overdue' => \A r \in Requests : request[r] # "handling"
    BY <2>1 DEF Busy
  <2>3. QED
    BY <1>0, <1>b, <2>1, <2>2
<1>15. ASSUME NEW r \in Requests, RequestNext(r) PROVE HandlingInv'
  <2>1. UNCHANGED <<listener, stopper, overdue, exiter, ended, call>>
    BY <1>15 DEF RequestNext, ServeRequest, RequestAnswered, RequestGoes, procVars, stopVars
  <2>2. CASE ServeRequest(r)
    BY <1>0, <1>b, <2>1, <2>2 DEF ServeRequest
  <2>3. CASE RequestAnswered(r)
    BY <1>0, <1>b, <2>1, <2>3 DEF RequestAnswered, RequestGoes
  <2>4. QED
    BY <1>15, <2>2, <2>3 DEF RequestNext
<1>16. ASSUME NEW c \in Calls, CallNext(c) PROVE HandlingInv'
  <2>1. UNCHANGED <<listener, stopper, overdue, exiter, ended, request>>
    BY <1>16 DEF CallNext, CallArrives, CallRefused, LookUpCall, BeginWrite, EndWrite, Notify,
                 CallFrame, procVars, stopVars
  <2>2. QED
    BY <1>b, <2>1
<1>17. ASSUME NEW w \in Websockets, WebsocketNext(w) PROVE HandlingInv'
  BY <1>17, <1>b DEF WebsocketNext, Register, AddWebsocket, RemoveWebsocket, WebsocketGoes,
                     procVars, stopVars
<1>18. QED
  BY <1>b, <1>1, <1>2, <1>3, <1>4, <1>5, <1>6, <1>7, <1>8, <1>9, <1>10, <1>11, <1>12, <1>13,
     <1>14, <1>15, <1>16, <1>17 DEF Next, ServerNext, ExitNext, StopperNext

(* A request that the end of the process cuts off had overrun the time the *)
(* shutdown gives it, or one of the gaps that GracefulExit lists was hit.  *)
THEOREM ExitIsGraceful == Spec => []GracefulExit
<1>1. Typed /\ StopInv /\ HandlingInv => GracefulExit
  <2> SUFFICES ASSUME Typed, StopInv, HandlingInv, ended # "no",
                      NEW r \in Requests, request[r] = "handling"
               PROVE  GracefulExit
    BY DEF GracefulExit
  <2>1. ended \in {"exit", "panic", "throw", "listen"}
    BY DEF Typed, TypeOK
  <2>2. exiter["router"] = "exit" => "http" \in overdue \/ "http" \notin counted
    BY DEF StopInv, HandlingInv
  <2>3. CASE ended = "exit"
    BY <2>2, <2>3, PackagesAssumption DEF HandlingInv, GracefulExit
  <2>4. CASE ended = "panic"
    BY <2>2, <2>4 DEF HandlingInv, GracefulExit
  <2>5. QED
    BY <2>1, <2>3, <2>4 DEF HandlingInv, GracefulExit
<1>2. QED
  BY <1>1, TypedInit, TypedStep, StopInit, StopStep, HandlingInit, HandlingStep, PTL DEF Spec

-----------------------------------------------------------------------------
(* MovesFollowList.  Of a name that no two calls were about at a time, the *)
(* one call in progress, if there is one, tells how the list and what the  *)
(* farm was last told differ.                                              *)

Changing(c) == call[c].at \in {"writing", "notify"}
About(c, n) == InProgress(c) /\ call[c].name = n

CallInv ==
    \A n \in Names \ raced :
        /\ \A c, d \in Calls : About(c, n) /\ About(d, n) => c = d
        /\ \A c \in Calls :
              About(c, n) /\ Changing(c) => (n \in currentServices <=> call[c].op = "put")
        /\ (\A c \in Calls : ~(About(c, n) /\ Changing(c)))
              => (n \in moved <=> n \in currentServices)

(* No call is in progress when the router starts.                          *)
LEMMA CallInit == Init => CallInv
  BY DEF Init, CallInv, About, InProgress, NoCall

(* What is no call leaves the calls and the lists alone.                   *)
LEMMA CallFrameOfOthers ==
  ASSUME [Next]_vars, \A c \in Calls : ~CallNext(c)
  PROVE  UNCHANGED <<call, currentServices, moved, raced>>
<1> USE DEF listVars, ExitFrame, StopFrame, End
<1>1. ServerNext \/ Signal \/ UNCHANGED vars => UNCHANGED <<call, currentServices, moved, raced>>
  BY DEF ServerNext, ListenFails, AddHook, Throw, Listen, Signal, vars
<1>2. ExitNext => UNCHANGED <<call, currentServices, moved, raced>>
  BY DEF ExitNext, Shutdown, Wait, WaitWakes, ConnectorHooks, Exit, AwaitSignal
<1>3. ASSUME NEW s \in Servers, StopperNext(s)
      PROVE  UNCHANGED <<call, currentServices, moved, raced>>
  BY <1>3 DEF StopperNext, StopperAdds, CloseListener, StopperDone
<1>4. ASSUME NEW r \in Requests, RequestNext(r)
      PROVE  UNCHANGED <<call, currentServices, moved, raced>>
  BY <1>4 DEF RequestNext, ServeRequest, RequestAnswered, RequestGoes
<1>5. ASSUME NEW w \in Websockets, WebsocketNext(w)
      PROVE  UNCHANGED <<call, currentServices, moved, raced>>
  BY <1>5 DEF WebsocketNext, Register, AddWebsocket, RemoveWebsocket, WebsocketGoes
<1>6. QED
  BY <1>1, <1>2, <1>3, <1>4, <1>5 DEF Next

(* Each step of a call keeps the difference accounted for.                 *)
LEMMA CallStep ==
  ASSUME Typed, CallInv, [Next]_vars
  PROVE  CallInv'
<1>0. call \in [Calls -> [op : Operations, name : Names,
                  at : {"none", "look", "write", "writing", "notify", "answered"}]]
  BY DEF Typed, TypeOK
<1>1. CASE \A c \in Calls : ~CallNext(c)
  BY <1>1, CallFrameOfOthers DEF CallInv, About, InProgress, Changing
<1>2. ASSUME NEW c \in Calls, NEW op \in Operations, NEW name \in Names,
             CallArrives(c, op, name)
      PROVE  CallInv'
  <2>1. /\ ~InProgress(c) /\ InProgress(c)' /\ ~Changing(c)'
        /\ call'[c].name = name
        /\ \A d \in Calls : d # c => call'[d] = call[d]
        /\ UNCHANGED <<currentServices, moved>>
    BY <1>0, <1>2 DEF CallArrives, InProgress, Changing
  <2>2. raced \subseteq raced' /\ (name \notin raced' => \A d \in Calls : ~About(d, name))
    BY <1>2 DEF CallArrives, About
  <2>3. QED
    BY <2>1, <2>2 DEF CallInv, About, InProgress, Changing
<1>3. ASSUME NEW c \in Calls, NEW from, NEW to, CallGoes(c, from, to),
             from \in {"look", "write", "notify"}, to = "answered",
             UNCHANGED <<currentServices, raced>>,
             from # "notify" => UNCHANGED moved,
             from = "notify" => moved' = IF call[c].op = "put" THEN moved \union {call[c].name}
                                                               ELSE moved \ {call[c].name}
      PROVE  CallInv'
  <2>1. /\ InProgress(c) /\ ~InProgress(c)' /\ (Changing(c) <=> from = "notify")
        /\ \A d \in Calls : d # c => call'[d] = call[d]
    BY <1>0, <1>3 DEF CallGoes, InProgress, Changing, NoCall
  <2>2. \A n \in Names : n # call[c].name => (n \in moved' <=> n \in moved)
    BY <1>3
  <2>3. from = "notify" => (call[c].name \in moved' <=> call[c].op = "put")
    BY <1>3
  <2>4. QED
    BY <1>3, <2>1, <2>2, <2>3 DEF CallInv, About, InProgress, Changing
<1>4. ASSUME NEW c \in Calls, NEW from \in {"look", "write", "writing"},
             NEW to \in {"write", "writing", "notify"}, CallGoes(c, from, to),
             <<from, to>> \in {<<"look", "write">>, <<"write", "writing">>,
                               <<"writing", "notify">>},
             UNCHANGED <<moved, raced>>,
             from # "write" => UNCHANGED currentServices,
             from = "write" => currentServices' =
                 IF call[c].op = "put" THEN currentServices \union {call[c].name}
                                       ELSE currentServices \ {call[c].name}
      PROVE  CallInv'
  <2>1. /\ InProgress(c) /\ InProgress(c)' /\ call'[c].name = call[c].name
        /\ call'[c].op = call[c].op
        /\ (Changing(c) <=> from = "writing") /\ (Changing(c)' <=> from # "look")
        /\ \A d \in Calls : d # c => call'[d] = call[d]
    BY <1>0, <1>4 DEF CallGoes, InProgress, Changing
  <2>2. \A n \in Names : n # call[c].name => (n \in currentServices' <=> n \in currentServices)
    BY <1>4
  <2>3. from = "write" => (call[c].name \in currentServices' <=> call[c].op = "put")
    BY <1>4
  <2>4. QED
    BY <1>4, <2>1, <2>2, <2>3 DEF CallInv, About, InProgress, Changing
<1>5. ASSUME NEW c \in Calls, CallNext(c) PROVE CallInv'
  <2> USE <1>5 DEF listVars
  <2>1. CASE \E op \in Operations, name \in Names : CallArrives(c, op, name)
    BY <2>1, <1>2
  <2>2. CASE CallRefused(c)
    BY <2>2, <1>3 DEF CallRefused
  <2>3. CASE LookUpCall(c)
    BY <2>3, <1>3, <1>4 DEF LookUpCall
  <2>4. CASE BeginWrite(c)
    BY <2>4, <1>4 DEF BeginWrite
  <2>5. CASE EndWrite(c)
    BY <2>5, <1>4 DEF EndWrite
  <2>6. CASE Notify(c)
    BY <2>6, <1>3 DEF Notify
  <2>7. QED
    BY <2>1, <2>2, <2>3, <2>4, <2>5, <2>6 DEF CallNext
<1>6. QED
  BY <1>1, <1>5

(* Of calls about a name that never overlap, the last leaves the farm told *)
(* what the list says.                                                     *)
THEOREM FarmFollowsList == Spec => []MovesFollowList
<1>1. CallInv => MovesFollowList
  BY DEF CallInv, MovesFollowList, About
<1>2. QED
  BY <1>1, TypedInit, TypedStep, CallInit, CallStep, PTL DEF Spec
=============================================================================
