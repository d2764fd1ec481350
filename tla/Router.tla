------------------------------- MODULE Router -------------------------------
(***************************************************************************)
(* router/router.go with util/shutdown.go, router/router_config.go,        *)
(* router/api, router/handler and the lists of router/darklaunch_manager:  *)
(* the process of a router, from its start to its exit.                    *)
(*                                                                         *)
(* Goroutines: the two servers with a goroutine per request (of a client,  *)
(* of an administrator who changes the dark launch, of a connector that    *)
(* registers), the reader of each registered websocket, the goroutine of   *)
(* each util.ExitProgram, and the two that Shutdown starts.  All end with  *)
(* the process.                                                            *)
(***************************************************************************)
EXTENDS Integers, FiniteSets

CONSTANTS
    Requests,       \* clients' requests
    Calls,          \* calls of the API
    Websockets,     \* websockets that connectors register
    Names,          \* what may be put on the list of dark services
    Packages        \* the packages of the program whose init calls ExitProgram

ASSUME PackagesAssumption ==
    "router" \in Packages /\ Packages \subseteq {"router", "connector"}
ASSUME NamesAssumption == Names # {}

Servers == {"http", "registration"}

VARIABLES
    listener,       \* of each server: new, open or closed
    hook,           \* the Shutdown of the router is among the shutdown hooks
    exiter,         \* the goroutine of each ExitProgram
    stopper,        \* the goroutine that stops each server
    wg,             \* the counter of Shutdown's WaitGroup
    counted,        \* the servers whose goroutine had added to it when Wait began
    overdue,        \* the servers that were not idle after 15 seconds
    request,        \* where each request is
    call,           \* what each call of the API does, and where it is
    websocket,      \* where each registered websocket is
    currentServices, \* the list of the DarkLaunchManager
    moved,          \* the names whose sockets the farm's listener last took for dark
    raced,          \* the names that two calls were about at a time
    ended           \* whether and how the process ended

procVars == <<listener, hook>>
stopVars == <<stopper, wg, counted, overdue>>
listVars == <<currentServices, moved, raced>>
vars == <<procVars, exiter, stopVars, request, call, websocket, listVars, ended>>

Operations == {"put", "delete"}
NoCall(at) == [op |-> "put", name |-> CHOOSE n \in Names : TRUE, at |-> at]

TypeOK ==
    /\ listener \in [Servers -> {"new", "open", "closed"}]
    /\ hook \in BOOLEAN
    /\ exiter \in [Packages -> {"busy", "ready", "hooks", "wait", "blocked", "woken",
                                "exit"}]
    /\ stopper \in [Servers -> {"none", "started", "closing", "draining", "done"}]
    /\ wg \in 0..2 /\ counted \subseteq Servers /\ overdue \subseteq Servers
    /\ request \in [Requests -> {"none", "handling", "answered"}]
    /\ call \in [Calls -> [op : Operations, name : Names,
                           at : {"none", "look", "write", "writing", "notify", "answered"}]]
    /\ websocket \in [Websockets -> {"none", "adding", "pooled", "ended"}]
    /\ currentServices \subseteq Names /\ moved \subseteq Names /\ raced \subseteq Names
    /\ ended \in {"no", "exit", "panic", "throw", "listen"}

(* NewRouter; the list is not read back from the path it is given.         *)
Init ==
    /\ listener = [s \in Servers |-> "new"] /\ hook = FALSE
    /\ exiter = [p \in Packages |-> "busy"]
    /\ stopper = [s \in Servers |-> "none"] /\ wg = 0 /\ counted = {} /\ overdue = {}
    /\ request = [r \in Requests |-> "none"]
    /\ call = [c \in Calls |-> NoCall("none")]
    /\ websocket = [w \in Websockets |-> "none"]
    /\ currentServices = {} /\ moved = {} /\ raced = {}
    /\ ended = "no"

Runs == ended = "no"
End(how) == ended' = how /\ UNCHANGED <<procVars, exiter, stopVars, request, call, websocket,
                                        listVars>>

-----------------------------------------------------------------------------
(* Start and CreateAndStartRouter.                                         *)

Listen(s) ==
    /\ Runs /\ listener[s] = "new"
    /\ listener' = [listener EXCEPT ![s] = "open"]
    /\ UNCHANGED <<hook, exiter, stopVars, request, call, websocket, listVars, ended>>

\* a goroutine of Start panics, and nothing recovers it
ListenFails == Runs /\ (\E s \in Servers : listener[s] = "new") /\ End("listen")

\* if isShutDownHookAdded is set, once Start has started the goroutines that listen
AddHook ==
    /\ Runs /\ ~hook /\ hook' = TRUE
    /\ UNCHANGED <<listener, exiter, stopVars, request, call, websocket, listVars, ended>>

-----------------------------------------------------------------------------
(* ExitProgram.  Its channel has no buffer, and signal.Notify drops a      *)
(* signal that no goroutine waits for.                                     *)

ExitFrame == UNCHANGED <<procVars, request, call, websocket, listVars>>
Goes(p, from, to) == Runs /\ exiter[p] = from /\ exiter' = [exiter EXCEPT ![p] = to]

Signal ==
    /\ Runs
    /\ \E to \in {"hooks", "busy"} :
          exiter' = [p \in Packages |-> IF exiter[p] = "ready" THEN to ELSE exiter[p]]
    /\ UNCHANGED <<stopVars, ended>> /\ ExitFrame

\* the range over the channel begins, or goes on after a SIGUSR1 or SIGUSR2
AwaitSignal(p) ==
    /\ Goes(p, "busy", "ready")
    /\ UNCHANGED <<stopVars, ended>> /\ ExitFrame

\* exitFunc calls Shutdown, if that was added
Shutdown ==
    /\ Goes("router", "hooks", IF hook THEN "wait" ELSE "exit")
    /\ stopper' = IF hook THEN [s \in Servers |-> "started"] ELSE stopper
    /\ UNCHANGED <<wg, counted, overdue, ended>> /\ ExitFrame

(* the Wait of Shutdown, which returns at once if nothing was added yet    *)
Wait ==
    /\ Goes("router", "wait", IF wg = 0 THEN "exit" ELSE "blocked")
    /\ counted' = {s \in Servers : stopper[s] # "started"}
    /\ UNCHANGED <<stopper, wg, overdue, ended>> /\ ExitFrame

(* Wait wakes; it panics if the counter was added to since it was released *)
WaitWakes ==
    /\ Goes("router", "woken", "exit")
    /\ ended' = IF wg = 0 THEN "no" ELSE "panic"
    /\ UNCHANGED stopVars /\ ExitFrame

\* the connector's hooks, in Drain
ConnectorHooks ==
    /\ "connector" \in Packages /\ Goes("connector", "hooks", "exit")
    /\ UNCHANGED <<stopVars, ended>> /\ ExitFrame

Exit == Runs /\ (\E p \in Packages : exiter[p] = "exit") /\ End("exit")

-----------------------------------------------------------------------------
(* The goroutines of Shutdown.                                             *)

StopFrame == UNCHANGED <<hook, counted, request, call, websocket, listVars, ended>>
Stops(s, from, to) == Runs /\ stopper[s] = from /\ stopper' = [stopper EXCEPT ![s] = to]

StopperAdds(s) ==
    /\ Stops(s, "started", "closing")
    /\ wg' = wg + 1
    /\ UNCHANGED <<listener, exiter, overdue>> /\ StopFrame

\* http.Server.Shutdown: a server that has not begun to listen never will
CloseListener(s) ==
    /\ Stops(s, "closing", "draining")
    /\ listener' = [listener EXCEPT ![s] = "closed"]
    /\ UNCHANGED <<exiter, wg, overdue>> /\ StopFrame

(* A websocket that was upgraded is not a request of the server any more.  *)
InProgress(c) == call[c].at \notin {"none", "answered"}

Busy(s) == IF s = "http" THEN \E r \in Requests : request[r] = "handling"
                         ELSE \E c \in Calls : InProgress(c)

\* http.Server.Close in the place of Shutdown: requests are not waited for
StopperCloses(s) ==
    /\ Stops(s, "draining", "done")
    /\ wg' = wg - 1
    /\ exiter' = IF wg = 1 /\ exiter["router"] = "blocked"
                 THEN [exiter EXCEPT !["router"] = "woken"] ELSE exiter
    /\ UNCHANGED <<listener, overdue>> /\ StopFrame

\* the first goroutine to finish releases Shutdown
StopperDoneReleases(s) ==
    /\ Stops(s, "draining", "done")
    /\ overdue' = IF Busy(s) THEN overdue \union {s} ELSE overdue
    /\ wg' = wg - 1
    /\ exiter' = IF exiter["router"] = "blocked" THEN [exiter EXCEPT !["router"] = "woken"]
                                                 ELSE exiter
    /\ UNCHANGED listener /\ StopFrame

\* without a deadline
StopperDoneWhenIdle(s) ==
    /\ Stops(s, "draining", "done") /\ ~Busy(s)
    /\ wg' = wg - 1
    /\ exiter' = IF wg = 1 /\ exiter["router"] = "blocked"
                 THEN [exiter EXCEPT !["router"] = "woken"] ELSE exiter
    /\ UNCHANGED <<listener, overdue>> /\ StopFrame

(* The server's last request has ended, or 15 seconds have passed; Done    *)
(* releases Wait when the counter gets to zero.                            *)
StopperDone(s) ==
    /\ Stops(s, "draining", "done")
    /\ overdue' = IF Busy(s) THEN overdue \union {s} ELSE overdue
    /\ wg' = wg - 1
    /\ exiter' = IF wg = 1 /\ exiter["router"] = "blocked"
                 THEN [exiter EXCEPT !["router"] = "woken"] ELSE exiter
    /\ UNCHANGED listener /\ StopFrame

-----------------------------------------------------------------------------
(* A request: XHTTPHandler.ServeXHTTP with the filters of                  *)
(* CreateHttpHandler, one of which may answer it, and ReverseProxy.Handle. *)

RequestGoes(r, from, to) ==
    /\ Runs /\ request[r] = from
    /\ request' = [request EXCEPT ![r] = to]
    /\ UNCHANGED <<procVars, exiter, stopVars, call, websocket, listVars, ended>>

ServeRequest(r)    == listener["http"] = "open" /\ RequestGoes(r, "none", "handling")
RequestAnswered(r) == RequestGoes(r, "handling", "answered")

-----------------------------------------------------------------------------
(* A call that changes the list of services; that of ips is like it.       *)

CallFrame == UNCHANGED <<procVars, exiter, stopVars, request, websocket, ended>>
CallGoes(c, from, to) ==
    /\ Runs /\ call[c].at = from
    /\ call' = [call EXCEPT ![c] = IF to = "answered" THEN NoCall(to) ELSE [@ EXCEPT !.at = to]]

\* DELETE looks the list up before it writes
CallArrives(c, op, name) ==
    /\ Runs /\ listener["registration"] = "open" /\ call[c].at = "none"
    /\ call' = [call EXCEPT ![c] = [op |-> op, name |-> name,
                                    at |-> IF op = "put" THEN "write" ELSE "look"]]
    /\ raced' = IF \E d \in Calls : InProgress(d) /\ call[d].name = name
                THEN raced \union {name} ELSE raced
    /\ UNCHANGED <<currentServices, moved>> /\ CallFrame

\* isValidService refuses the name
CallRefused(c) ==
    /\ call[c].op = "put" /\ CallGoes(c, "write", "answered")
    /\ UNCHANGED listVars /\ CallFrame

LookUpCall(c) ==
    /\ CallGoes(c, "look", IF call[c].name \in currentServices THEN "write" ELSE "answered")
    /\ UNCHANGED listVars /\ CallFrame

\* the entry is in, or out of, the map before the write of the map has ended
BeginWrite(c) ==
    /\ CallGoes(c, "write", "writing")
    /\ currentServices' = IF call[c].op = "put" THEN currentServices \union {call[c].name}
                                                ELSE currentServices \ {call[c].name}
    /\ UNCHANGED <<moved, raced>> /\ CallFrame

EndWrite(c) ==
    /\ CallGoes(c, "writing", "notify")
    /\ UNCHANGED listVars /\ CallFrame

\* the listener is only told of an addition
NotifyOfAddition(c) ==
    /\ CallGoes(c, "notify", "answered")
    /\ moved' = IF call[c].op = "put" THEN moved \union {call[c].name} ELSE moved
    /\ UNCHANGED <<currentServices, raced>> /\ CallFrame

\* AfterDarkServiceAdded, AfterDarkServiceRevoked: see WebsocketFarm for the moves
Notify(c) ==
    /\ CallGoes(c, "notify", "answered")
    /\ moved' = IF call[c].op = "put" THEN moved \union {call[c].name}
                                      ELSE moved \ {call[c].name}
    /\ UNCHANGED <<currentServices, raced>> /\ CallFrame

-----------------------------------------------------------------------------
(* A connector registers a websocket, and leaves.                          *)

WebsocketGoes(w, from, to) ==
    /\ Runs /\ websocket[w] = from
    /\ websocket' = [websocket EXCEPT ![w] = to]
    /\ UNCHANGED <<procVars, exiter, stopVars, request, call, listVars, ended>>

(* ValidateReq checks the address and the version of the protocol; the     *)
(* handler upgrades the connection and leaves it to OnWebsocketConnect.    *)
Register(w) ==
    /\ listener["registration"] = "open"
    /\ WebsocketGoes(w, "none", "adding") \/ WebsocketGoes(w, "none", "ended")

\* both read the lists
AddWebsocket(w)    == WebsocketGoes(w, "adding", "pooled")
RemoveWebsocket(w) == WebsocketGoes(w, "pooled", "ended")

(* Go ends a program that reads or writes a map while it is written, if it *)
(* notices.  A websocket reads the list only if it is not empty; a request *)
(* only asks for its length.                                               *)
ReadsList ==
    \/ \E c \in Calls : call[c].at \in {"look", "write"}
    \/ currentServices # {} /\ \E w \in Websockets : websocket[w] \in {"adding", "pooled"}

Throw ==
    /\ Runs
    /\ \E c \in Calls :
          /\ call[c].at = "writing"
          /\ ReadsList
    /\ End("throw")

-----------------------------------------------------------------------------
ServerNext == ListenFails \/ AddHook \/ Throw \/ \E s \in Servers : Listen(s)

ExitNext ==
    \/ Shutdown \/ Wait \/ WaitWakes \/ ConnectorHooks \/ Exit
    \/ \E p \in Packages : AwaitSignal(p)

StopperNext(s) == StopperAdds(s) \/ CloseListener(s) \/ StopperDone(s)

RequestNext(r) == ServeRequest(r) \/ RequestAnswered(r)

CallNext(c) ==
    \/ \E op \in Operations, name \in Names : CallArrives(c, op, name)
    \/ CallRefused(c) \/ LookUpCall(c) \/ BeginWrite(c) \/ EndWrite(c) \/ Notify(c)

WebsocketNext(w) ==
    Register(w) \/ AddWebsocket(w) \/ RemoveWebsocket(w)

Next ==
    \/ ServerNext \/ Signal \/ ExitNext
    \/ \E s \in Servers : StopperNext(s)
    \/ \E r \in Requests : RequestNext(r)
    \/ \E c \in Calls : CallNext(c)
    \/ \E w \in Websockets : WebsocketNext(w)

Spec == Init /\ [][Next]_vars

(* Goroutines run; Server.Shutdown ends after 15 seconds at the latest,    *)
(* and so does the connector's after its timeout.                          *)
Fairness ==
    /\ \A p \in Packages : WF_vars(AwaitSignal(p))
    /\ WF_vars(Shutdown) /\ WF_vars(Wait) /\ WF_vars(WaitWakes) /\ WF_vars(Exit)
    /\ WF_vars(ConnectorHooks)
    /\ \A s \in Servers : WF_vars(StopperNext(s))

FairSpec == Spec /\ Fairness

-----------------------------------------------------------------------------
(* A client's request is cut off by the end of the process only if a       *)
(* server could not listen, if two accesses to a list met, if the request  *)
(* took longer than the shutdown waits, if the goroutine that waits for it *)
(* came too late for Wait, if the hook was not added, or if a connector in *)
(* the same process exits on its own.                                      *)
GracefulExit ==
    (ended # "no" /\ \E r \in Requests : request[r] = "handling") =>
        \/ ended = "listen"
        \/ ended = "throw" /\ \E c \in Calls : call[c].at = "writing"
        \/ ended \in {"exit", "panic"} /\ exiter["router"] = "exit"
              /\ (hook => "http" \in overdue \/ "http" \notin counted)
        \/ ended = "exit" /\ "connector" \in Packages /\ exiter["connector"] = "exit"

(* Shutdown panics, or lets the process exit before a server has stopped,  *)
(* only if that server's goroutine had not added to the WaitGroup yet when *)
(* Wait began.                                                             *)
WaitCoversCounted ==
    exiter["router"] = "exit" =>
        /\ \A s \in counted : stopper[s] = "done"
        /\ ended = "panic" => counted # Servers

(* When no call of the API is under way, the farm has last moved the       *)
(* sockets of a name as the list says, unless two calls about that name    *)
(* overlapped: a call notifies the farm after it has let go of the list.   *)
MovesFollowList ==
    (\A c \in Calls : ~InProgress(c)) =>
        \A n \in Names \ raced : n \in moved <=> n \in currentServices

(* A signal to exit that a goroutine of ExitProgram was waiting for ends   *)
(* the process, whatever its servers are doing.                            *)
Exits == (\E p \in Packages : exiter[p] \notin {"busy", "ready"}) ~> ended # "no"
=============================================================================
