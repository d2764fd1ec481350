---------------------------- MODULE RouterSocket ----------------------------
(***************************************************************************)
(* router/router_socket/router_socket.go and the Handle of                 *)
(* router/reverse_proxy.go: one router socket, from its registration to    *)
(* the end of its websocket, and the one request it may serve.             *)
(*                                                                         *)
(* Two goroutines share the fields of the socket without a lock: the proxy *)
(* goroutine, which serves the client, and the reader goroutine, which     *)
(* runs runForever on the websocket.  Reads and writes of the shared       *)
(* fields are separate steps, interleaved one at a time.  The far ends are *)
(* the environment: the client may leave, the connector answers, and the   *)
(* websocket may break at any time.                                        *)
(***************************************************************************)
EXTENDS Integers

CONSTANTS
    MaxChunks,      \* chunks of request body read from the client
    MaxFrames       \* binary frames of the response

ASSUME MaxChunksAssumption == MaxChunks \in Nat
ASSUME MaxFramesAssumption == MaxFrames \in Nat

Goroutines == {"proxy", "reader"}

VARIABLES
    pc,             \* pc[g]: the step goroutine g is about to take
    op,             \* op[g]: the socket method g executes, while steps are shared
    farm,           \* "offering", "in" or "out": the socket in its farm queue
    session,        \* session # nil
    respWriter,     \* respWriter # nil
    handleDone,     \* handleDone # nil
    wg,             \* counter of the WaitGroup that handleDone points to
    isRemoved,      \* isRemoved
    requestNum,     \* ConnectionMonitor.requestNum, for this socket
    sent,           \* what the connector was sent: "nothing", "head" or "all"
    chunks,         \* chunks of body left to read, -1 for a request without body
    status,         \* the status line the client gets, "none" until one is written
    gotHead,        \* the response head has arrived
    frames,         \* binary frames that have arrived
    closeCode,      \* how the websocket ended: a close code, "error", or "open"
    clientGone,     \* the client has left
    proxyFailed,    \* history: onProxyingError was called
    lateWrite       \* history: respWriter was used after Handle returned

vars == <<pc, op, farm, session, respWriter, handleDone, wg, isRemoved, requestNum,
          sent, chunks, status, gotHead, frames, closeCode, clientGone,
          proxyFailed, lateWrite>>

farmVars == <<farm, isRemoved>>
doneVars == <<handleDone, wg>>
respVars == <<status, lateWrite>>
sendVars == <<sent, chunks, proxyFailed>>
readVars == <<gotHead, frames, closeCode>>

SharedSteps == {"badCheck", "shutCheck", "shutUse", "badRemove", "errStatus",
                "doneCheck", "doneCall", "doneNil"}
ProxySteps  == SharedSteps \cup
               {"acquire", "setWriter", "setDone", "sendHead", "body", "sendEnd",
                "wait", "returned", "aborted"}
ReaderSteps == SharedSteps \cup
               {"reading", "closeStatus", "closeRemove", "ended", "crashed"}

Codes == {"1000", "1006", "1008", "1011"}

TypeOK ==
    /\ pc \in [Goroutines -> ProxySteps \cup ReaderSteps]
    /\ pc["proxy"] \in ProxySteps /\ pc["reader"] \in ReaderSteps
    /\ op \in [Goroutines -> {"none", "close", "binary", "error"}]
    /\ farm \in {"offering", "in", "out"}
    /\ session \in BOOLEAN /\ respWriter \in BOOLEAN /\ handleDone \in BOOLEAN
    /\ isRemoved \in BOOLEAN /\ gotHead \in BOOLEAN /\ clientGone \in BOOLEAN
    /\ proxyFailed \in BOOLEAN /\ lateWrite \in BOOLEAN
    /\ wg \in -1..1
    /\ requestNum \in 0..1
    /\ sent \in {"nothing", "head", "all"}
    /\ chunks \in -1..MaxChunks
    /\ status \in {"none", "resp", "502", "503", "504", "400"}
    /\ frames \in 0..MaxFrames
    /\ closeCode \in Codes \cup {"open", "error"}

Init ==
    /\ pc = [g \in Goroutines |-> IF g = "proxy" THEN "acquire" ELSE "reading"]
    /\ op = [g \in Goroutines |-> "none"]
    /\ farm = "offering"
    /\ session = TRUE
    /\ respWriter = FALSE /\ handleDone = FALSE /\ wg = 1
    /\ isRemoved = FALSE
    /\ requestNum = 0
    /\ sent = "nothing" /\ chunks \in -1..MaxChunks
    /\ status = "none"
    /\ gotHead = FALSE /\ frames = 0 /\ closeCode = "open"
    /\ clientGone = FALSE
    /\ proxyFailed = FALSE /\ lateWrite = FALSE

\* a panic of the reader ends the router process
Running == pc["reader"] # "crashed"

HandleOver == pc["proxy"] \in {"returned", "aborted"}

Goto(g, label)      == pc' = [pc EXCEPT ![g] = label] /\ UNCHANGED op
Begin(g, m, label)  == pc' = [pc EXCEPT ![g] = label] /\ op' = [op EXCEPT ![g] = m]

\* a panic in Handle is recovered by net/http; nothing recovers one in runForever
Panic(g) == Goto(g, IF g = "proxy" THEN "aborted" ELSE "crashed")

\* http.ResponseWriter.WriteHeader: only the first status counts
WriteHeader(st) ==
    /\ status' = IF status = "none" THEN st ELSE status
    /\ lateWrite' = (lateWrite \/ HandleOver)

-----------------------------------------------------------------------------
(* The environment, and the goroutine that Offer starts.                   *)

OfferStores ==
    /\ Running /\ farm = "offering"
    /\ farm' = "in"
    /\ UNCHANGED <<pc, op, isRemoved, session, respWriter, doneVars, requestNum,
                   sendVars, respVars, readVars, clientGone>>

ClientLeaves ==
    /\ Running /\ ~clientGone /\ ~HandleOver
    /\ clientGone' = TRUE
    /\ UNCHANGED <<pc, op, farmVars, session, respWriter, doneVars, requestNum,
                   sendVars, respVars, readVars>>

-----------------------------------------------------------------------------
(* Steps that both goroutines take.                                        *)

\* WebsocketFarm.RemoveWebsocket: it only finds a socket that has been stored
RemoveWebsocket == farm' = IF farm = "in" THEN "out" ELSE farm

\* removeBadWebsocket reads isRemoved
BadCheck(g) ==
    /\ pc[g] = "badCheck"
    /\ Goto(g, IF isRemoved THEN "errStatus" ELSE "shutCheck")
    /\ UNCHANGED <<farmVars, session, respWriter, doneVars, requestNum, sendVars,
                   respVars, readVars, clientGone>>

AfterShut(g) == IF op[g] = "binary" THEN "reading" ELSE "badRemove"

\* CloseSocketSession reads session
ShutCheck(g) ==
    /\ pc[g] = "shutCheck"
    /\ Goto(g, IF session THEN "shutUse" ELSE AfterShut(g))
    /\ UNCHANGED <<farmVars, session, respWriter, doneVars, requestNum, sendVars,
                   respVars, readVars, clientGone>>

\* CloseSocketSession: WriteControl refuses CloseGoingAway as a message type,
\* so the connection stays open and only the field is cleared
ShutUse(g) ==
    /\ pc[g] = "shutUse"
    /\ IF session THEN Goto(g, AfterShut(g)) ELSE Panic(g)
    /\ session' = FALSE
    /\ UNCHANGED <<farmVars, respWriter, doneVars, requestNum, sendVars,
                   respVars, readVars, clientGone>>

BadRemove(g) ==
    /\ pc[g] = "badRemove"
    /\ RemoveWebsocket
    /\ isRemoved' = TRUE
    /\ Goto(g, "errStatus")
    /\ UNCHANGED <<session, respWriter, doneVars, requestNum, sendVars,
                   respVars, readVars, clientGone>>

\* Done is called before the error is written
ErrStatusAfterDone(g) ==
    /\ pc[g] = "errStatus"
    /\ wg' = IF handleDone THEN wg - 1 ELSE wg
    /\ handleDone' = FALSE
    /\ op' = op
    /\ pc' = [pc EXCEPT ![g] = IF g = "proxy" THEN "wait" ELSE "ended"]
    /\ UNCHANGED <<farmVars, session, respWriter, requestNum, sendVars, respVars,
                   readVars, clientGone>>

\* OnSendOrReceiveDataError writes 504 when the error is a timeout, or 502
ErrStatus(g) ==
    /\ pc[g] = "errStatus"
    /\ IF respWriter THEN \E st \in {"502", "504"} : WriteHeader(st)
                     ELSE UNCHANGED respVars
    /\ Goto(g, "doneCheck")
    /\ UNCHANGED <<farmVars, session, respWriter, doneVars, requestNum, sendVars,
                   readVars, clientGone>>

AfterDone(g) ==
    CASE op[g] = "close"  -> "closeRemove"
      [] op[g] = "binary" -> "shutCheck"
      [] OTHER            -> IF g = "proxy" THEN "wait" ELSE "ended"

DoneCheck(g) ==
    /\ pc[g] = "doneCheck"
    /\ Goto(g, IF handleDone THEN "doneCall" ELSE AfterDone(g))
    /\ UNCHANGED <<farmVars, session, respWriter, doneVars, requestNum, sendVars,
                   respVars, readVars, clientGone>>

\* handleDone.Done() panics on a nil pointer and below zero
DoneCall(g) ==
    /\ pc[g] = "doneCall"
    /\ wg' = IF handleDone THEN wg - 1 ELSE wg
    /\ IF handleDone /\ wg > 0 THEN Goto(g, "doneNil") ELSE Panic(g)
    /\ UNCHANGED <<farmVars, session, respWriter, handleDone, requestNum, sendVars,
                   respVars, readVars, clientGone>>

\* handleDone is not cleared
DoneKept(g) ==
    /\ pc[g] = "doneNil"
    /\ Goto(g, AfterDone(g))
    /\ UNCHANGED <<farmVars, session, respWriter, doneVars, requestNum, sendVars,
                   respVars, readVars, clientGone>>

DoneNil(g) ==
    /\ pc[g] = "doneNil"
    /\ handleDone' = FALSE
    /\ Goto(g, AfterDone(g))
    /\ UNCHANGED <<farmVars, session, respWriter, wg, requestNum, sendVars,
                   respVars, readVars, clientGone>>

Shared(g) ==
    \/ BadCheck(g) \/ ShutCheck(g) \/ ShutUse(g) \/ BadRemove(g)
    \/ ErrStatus(g) \/ DoneCheck(g) \/ DoneCall(g) \/ DoneNil(g)

-----------------------------------------------------------------------------
(* The proxy goroutine: Handle and sendRequestOverWebsocket.               *)

ProxyFrame == UNCHANGED <<isRemoved, session, readVars, clientGone>>

\* AcquireSocket polls the queue of the route
Acquire ==
    /\ Running /\ pc["proxy"] = "acquire" /\ farm = "in"
    /\ farm' = "out"
    /\ Goto("proxy", "setWriter")
    /\ UNCHANGED <<respWriter, doneVars, requestNum, sendVars, respVars>>
    /\ ProxyFrame

\* AcquireSocket gives up: 503, and Handle returns
AcquireTimeout ==
    /\ Running /\ pc["proxy"] = "acquire"
    /\ WriteHeader("503")
    /\ Goto("proxy", "returned")
    /\ UNCHANGED <<farm, respWriter, doneVars, requestNum, sendVars>>
    /\ ProxyFrame

\* SetResponse, up to respWriter
SetWriter ==
    /\ pc["proxy"] = "setWriter"
    /\ requestNum' = requestNum + 1
    /\ respWriter' = TRUE
    /\ Goto("proxy", "setDone")
    /\ UNCHANGED <<farm, doneVars, sendVars, respVars>>
    /\ ProxyFrame

SetDone ==
    /\ pc["proxy"] = "setDone"
    /\ handleDone' = TRUE
    /\ Goto("proxy", "sendHead")
    /\ UNCHANGED <<farm, respWriter, wg, requestNum, sendVars, respVars>>
    /\ ProxyFrame

\* the websocket has ended, though the reader may not know it yet
SendMayFail == closeCode # "open" \/ ~session

\* the deferred recover calls onProxyingError, so OnSendOrReceiveDataError
ProxyError ==
    /\ proxyFailed' = TRUE
    /\ Begin("proxy", "error", "badCheck")

\* SendText of the head, with or without the announcement of a body
SendHead ==
    /\ pc["proxy"] = "sendHead" /\ session
    /\ sent' = IF chunks = -1 THEN "all" ELSE "head"
    /\ Goto("proxy", IF chunks = -1 THEN "wait" ELSE "body")
    /\ UNCHANGED <<farm, respWriter, doneVars, requestNum, chunks, proxyFailed, respVars>>
    /\ ProxyFrame

\* a chunk is read from the client and sent; the last may come with io.EOF
SendChunk ==
    /\ pc["proxy"] = "body" /\ chunks > 0 /\ session
    /\ chunks' = chunks - 1
    /\ pc' \in {pc, [pc EXCEPT !["proxy"] = IF chunks = 1 THEN "sendEnd" ELSE "body"]}
    /\ UNCHANGED <<op, farm, respWriter, doneVars, requestNum, sent, proxyFailed, respVars>>
    /\ ProxyFrame

BodyEnds ==
    /\ pc["proxy"] = "body" /\ chunks = 0
    /\ Goto("proxy", "sendEnd")
    /\ UNCHANGED <<farm, respWriter, doneVars, requestNum, sendVars, respVars>>
    /\ ProxyFrame

SendEnd ==
    /\ pc["proxy"] = "sendEnd" /\ session
    /\ sent' = "all"
    /\ Goto("proxy", "wait")
    /\ UNCHANGED <<farm, respWriter, doneVars, requestNum, chunks, proxyFailed, respVars>>
    /\ ProxyFrame

\* a send on a nil session panics, a send on a broken websocket returns an error,
\* and so does reading the body of a client that has left
SendFails ==
    /\ \/ pc["proxy"] \in {"sendHead", "sendEnd"} /\ SendMayFail
       \/ pc["proxy"] = "body" /\ (clientGone \/ (chunks > 0 /\ SendMayFail))
    /\ ProxyError
    /\ UNCHANGED <<farm, respWriter, doneVars, requestNum, sent, chunks, respVars>>
    /\ ProxyFrame

\* SendData fails after a Read without error: the panic carries the nil error of
\* the Read, recover returns nil, and Handle goes on to wait
SendChunkFailsSilently ==
    /\ pc["proxy"] = "body" /\ chunks > 0
    /\ session /\ SendMayFail
    /\ Goto("proxy", "wait")
    /\ UNCHANGED <<farm, respWriter, doneVars, requestNum, sendVars, respVars>>
    /\ ProxyFrame

\* handleDone.Wait()
Return ==
    /\ pc["proxy"] = "wait" /\ wg <= 0
    /\ Goto("proxy", "returned")
    /\ UNCHANGED <<farm, respWriter, doneVars, requestNum, sendVars, respVars>>
    /\ ProxyFrame

ProxyNext ==
    /\ Running
    /\ \/ Shared("proxy") \/ SetWriter \/ SetDone \/ SendHead \/ SendChunk \/ BodyEnds
       \/ SendEnd \/ SendFails \/ SendChunkFailsSilently \/ Return

-----------------------------------------------------------------------------
(* The reader goroutine: runForever and the handlers it calls.  A response *)
(* follows the request head: first its head, then its body.  Frames that   *)
(* arrived before the websocket ended may still be read after it ended.    *)

ReaderFrame == UNCHANGED <<sendVars, clientGone>>

OnWebsocketText ==
    /\ Running /\ pc["reader"] = "reading"
    /\ sent # "nothing" /\ ~gotHead
    /\ gotHead' = TRUE
    /\ IF respWriter THEN WriteHeader("resp") ELSE UNCHANGED respVars
    /\ UNCHANGED <<pc, op, farmVars, session, respWriter, doneVars, requestNum,
                   frames, closeCode>>
    /\ ReaderFrame

BinaryArrives ==
    /\ Running /\ pc["reader"] = "reading"
    /\ gotHead /\ frames < MaxFrames
    /\ frames' = frames + 1
    /\ lateWrite' = (lateWrite \/ HandleOver)
    /\ UNCHANGED <<farmVars, session, respWriter, doneVars, requestNum,
                   status, gotHead, closeCode>>
    /\ ReaderFrame

OnWebsocketBinary ==
    /\ BinaryArrives
    /\ UNCHANGED <<pc, op>>

\* the client is not there to be written to
OnWebsocketBinaryFails ==
    /\ clientGone \/ HandleOver
    /\ BinaryArrives
    /\ Begin("reader", "binary", "doneCheck")

\* the connector sends a close frame, in answer to a request, or the connection
\* is lost; the reader will find out when it reads
WebsocketEnds(c) ==
    /\ Running /\ closeCode = "open"
    /\ c \in {"1006", "error"} \/ sent # "nothing"
    /\ closeCode' = c
    /\ UNCHANGED <<pc, op, farmVars, session, respWriter, doneVars, requestNum,
                   sendVars, respVars, gotHead, frames, clientGone>>

\* OnWebsocketError, on a read error that is not a CloseError
OnWebsocketError ==
    /\ pc["reader"] = "reading" /\ closeCode = "error"
    /\ Begin("reader", "error", "badCheck")
    /\ UNCHANGED <<farmVars, session, respWriter, doneVars, requestNum, respVars, readVars>>
    /\ ReaderFrame

\* the session of a closed websocket is kept
OnWebsocketCloseKeepsSession ==
    /\ pc["reader"] = "reading" /\ closeCode \in Codes
    /\ closeCode = "1000" => gotHead
    /\ Begin("reader", "close", "closeStatus")
    /\ UNCHANGED <<farmVars, session, respWriter, doneVars, requestNum, respVars, readVars>>
    /\ ReaderFrame

\* OnWebsocketClose clears the session; 1000 follows a whole response
OnWebsocketClose ==
    /\ pc["reader"] = "reading" /\ closeCode \in Codes
    /\ closeCode = "1000" => gotHead
    /\ Begin("reader", "close", "closeStatus")
    /\ session' = FALSE
    /\ UNCHANGED <<farmVars, respWriter, doneVars, requestNum, respVars, readVars>>
    /\ ReaderFrame

\* Done is called before the status is written
CloseStatusAfterDone ==
    /\ pc["reader"] = "closeStatus"
    /\ \/ /\ handleDone /\ wg' = 0 /\ handleDone' = FALSE
          /\ UNCHANGED <<pc, op, status, lateWrite, requestNum>>
       \/ /\ ~handleDone /\ UNCHANGED doneVars
          /\ IF respWriter THEN WriteHeader("502") ELSE UNCHANGED respVars
          /\ Goto("reader", "closeRemove")
          /\ UNCHANGED requestNum
    /\ UNCHANGED <<farmVars, session, respWriter, readVars>>
    /\ ReaderFrame

\* the request is counted as ended only when the connector reports an error
CloseStatusCountsErrors ==
    /\ pc["reader"] = "closeStatus"
    /\ requestNum' = IF respWriter /\ closeCode = "1011" THEN requestNum - 1 ELSE requestNum
    /\ IF respWriter /\ closeCode = "1011" THEN WriteHeader("502") ELSE UNCHANGED respVars
    /\ Goto("reader", "doneCheck")
    /\ UNCHANGED <<farmVars, session, respWriter, doneVars, readVars>>
    /\ ReaderFrame

CloseStatus ==
    /\ pc["reader"] = "closeStatus"
    /\ requestNum' = IF respWriter THEN requestNum - 1 ELSE requestNum
    /\ IF respWriter /\ closeCode \in {"1011", "1008"}
         THEN WriteHeader(IF closeCode = "1011" THEN "502" ELSE "400")
         ELSE UNCHANGED respVars
    /\ Goto("reader", "doneCheck")
    /\ UNCHANGED <<farmVars, session, respWriter, doneVars, readVars>>
    /\ ReaderFrame

CloseRemove ==
    /\ pc["reader"] = "closeRemove"
    /\ IF isRemoved THEN UNCHANGED farmVars
                    ELSE RemoveWebsocket /\ isRemoved' = TRUE
    /\ Goto("reader", "ended")
    /\ UNCHANGED <<session, respWriter, doneVars, requestNum, respVars, readVars>>
    /\ ReaderFrame

\* Once Handle has returned, net/http has taken the response back: a write to it
\* may be dropped, may reach another response, or panics, when the buffer it
\* was given back with has no connection or the response is one of HTTP/2.
\* The reader has no recover, so the process ends.
LateUsePanics ==
    /\ Running /\ HandleOver /\ respWriter
    /\ \/ pc["reader"] = "reading" /\ sent # "nothing" /\ ~gotHead
       \/ pc["reader"] = "reading" /\ gotHead /\ frames < MaxFrames
       \/ pc["reader"] = "errStatus"
       \/ pc["reader"] = "closeStatus" /\ closeCode \in {"1011", "1008"}
    /\ requestNum' = IF pc["reader"] = "closeStatus" THEN requestNum - 1 ELSE requestNum
    /\ lateWrite' = TRUE
    /\ Goto("reader", "crashed")
    /\ UNCHANGED <<farmVars, session, respWriter, doneVars, status, readVars>>
    /\ ReaderFrame

ReaderNext ==
    \/ Shared("reader") \/ OnWebsocketError \/ OnWebsocketClose
    \/ CloseStatus \/ CloseRemove

Next ==
    \/ OfferStores \/ ClientLeaves
    \/ Acquire \/ AcquireTimeout \/ ProxyNext
    \/ OnWebsocketText \/ OnWebsocketBinary \/ OnWebsocketBinaryFails \/ LateUsePanics
    \/ \E c \in Codes \cup {"error"} : WebsocketEnds(c)
    \/ ReaderNext

Spec == Init /\ [][Next]_vars

(* Both goroutines run, and every websocket ends at last: the connector    *)
(* closes it after the response, and a lost connection is reported by the  *)
(* network.  Nothing makes a request arrive, and no deadline ends a read.  *)
Fairness ==
    /\ WF_vars(ProxyNext) /\ WF_vars(ReaderNext)
    /\ WF_vars(closeCode = "1000" /\ OnWebsocketText)
    /\ WF_vars(\E c \in Codes \cup {"error"} : WebsocketEnds(c))

FairSpec == Spec /\ Fairness

-----------------------------------------------------------------------------
(* A client whose request was given a socket is answered with a status     *)
(* line, even when the websocket fails, before Handle is released; the one *)
(* exception is an abnormal closure, which Handle turns into an empty 200. *)
StatusBeforeReturn ==
    pc["proxy"] = "returned" /\ status = "none" => closeCode = "1006"

(* No way for the websocket to end makes the reader panic and take the     *)
(* router down, and none makes it call Done once too often, as long as the *)
(* proxy goroutine meets no error that it handles at the same time.  One   *)
(* panic is left: the client has left, Handle has returned for it, and the *)
(* reader uses the response all the same.                                  *)
CrashNeedsFailure ==
    /\ wg < 0 => proxyFailed
    /\ pc["reader"] = "crashed" => proxyFailed \/ (lateWrite /\ clientGone)

(* With a client that stays and no error on the sending side, the reader   *)
(* never touches the ResponseWriter of a Handle that has returned.         *)
LateWriteNeedsFailure ==
    lateWrite => clientGone \/ proxyFailed

(* The count of active requests is back down once Handle has returned and  *)
(* the websocket has ended, unless reading it met an error, or the proxy   *)
(* an error that it handled.                                               *)
CountLeaksOnlyOnError ==
    HandleOver /\ pc["reader"] = "ended" /\ requestNum > 0
        => closeCode = "error" \/ proxyFailed

(* No wake-up is lost between SetResponse and the handlers of the reader:  *)
(* a request that was given a socket returns, or the router has crashed.   *)
HandlerReturns ==
    (pc["proxy"] = "setWriter") ~> (HandleOver \/ pc["reader"] = "crashed")
=============================================================================
