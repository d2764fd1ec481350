--------------------------- MODULE ConnectorSocket ---------------------------
(***************************************************************************)
(* connector/connector_socket.go and connector/intermediate_request.go:    *)
(* one websocket of a connector, from its connection to its end, and the   *)
(* one request it may bring.                                               *)
(*                                                                         *)
(* Three goroutines share the fields of the socket without a lock: the     *)
(* reader, which runs runForever; the one that fires the request at the    *)
(* target and runs its callback; and the ping task.  A field that is       *)
(* tested and then used is read twice, in two steps.  The router and the   *)
(* target are the environment: the router sends some of the frames of a    *)
(* request, the websocket may end at any time, and the target answers,     *)
(* fails, or breaks off its answer.                                        *)
(***************************************************************************)
EXTENDS Integers, Sequences

CONSTANTS
    MaxChunks,      \* bound: chunks of a request body
    MaxReplies      \* bound: chunks of a response body

ASSUME BoundsAssumption == MaxChunks \in Nat /\ MaxReplies \in Nat

Goroutines == {"reader", "fire", "ping"}

VARIABLES
    pc,             \* pc[g]: the step goroutine g is about to take
    incoming,       \* frames from the router still to be read
    closeCode,      \* how the websocket ended: a close code, "error", or "open"
    session,        \* session # nil
    connOpen,       \* the underlying connection has not been closed by clean
    writeErr,       \* a write to the websocket has failed: so do all after it
    cancelPing,     \* cancelPing # nil
    cancelled,      \* cancelPing was called
    parentDone,     \* the connector's context was cancelled
    newSocketAdded, \* newSocketAdded
    replaced,       \* history: calls of whenConsumedAction
    retry,          \* progress of the goroutine that OnWebsocketError starts
    requestNum,     \* ConnectionMonitor.requestNum, for this socket
    pipe,           \* the pipe that feeds the target the body
    failure,        \* result.failure: "none", "cancel" for a CancelErr, or "other"
    succeeded,      \* result.isSucceeded
    requestComplete, \* requestComplete
    answer,         \* the response of the target, as far as it has not been read
    headSent,       \* the head of the response was written to the router
    sentClose       \* the code of the close frame written, or "none"

vars == <<pc, incoming, closeCode, session, connOpen, writeErr, cancelPing, cancelled,
          parentDone, newSocketAdded, replaced, retry, requestNum, pipe, failure,
          succeeded, requestComplete, answer, headSent, sentClose>>

connVars    == <<session, connOpen>>
pingVars    == <<cancelPing, cancelled>>
replaceVars == <<newSocketAdded, replaced, retry>>
resultVars  == <<failure, succeeded, requestComplete>>
replyVars   == <<answer, headSent, writeErr, sentClose>>
worldVars   == <<closeCode, parentDone>>

ReaderSteps == {"reading", "writing", "clean", "closeCancel", "closeReplace", "closeAbort",
                "errorCancel", "errorReplace", "errorClean", "ended", "crashed"}
FireSteps   == {"off", "calling", "answered", "begin", "copy", "callback", "useCancel",
                "useResult", "testSession", "useSession", "ended", "crashed"}
PingSteps   == {"test", "select", "write", "ended", "crashed"}

NoAnswer == [chunks |-> 0, broken |-> FALSE]

TypeOK ==
    /\ pc \in [Goroutines -> ReaderSteps \cup FireSteps \cup PingSteps]
    /\ pc["reader"] \in ReaderSteps /\ pc["fire"] \in FireSteps /\ pc["ping"] \in PingSteps
    /\ incoming \in Seq({"head", "headOnly", "chunk", "end"})
    /\ closeCode \in {"open", "error", "1000", "1006", "1011"} /\ parentDone \in BOOLEAN
    /\ session \in BOOLEAN /\ connOpen \in BOOLEAN /\ writeErr \in BOOLEAN
    /\ cancelPing \in BOOLEAN /\ cancelled \in BOOLEAN
    /\ newSocketAdded \in BOOLEAN /\ replaced \in 0..1
    /\ retry \in {"no", "started", "timer", "done"}
    /\ requestNum \in 0..1
    /\ pipe \in {"none", "open", "ended", "closed"}
    /\ failure \in {"none", "cancel", "other"}
    /\ succeeded \in BOOLEAN /\ requestComplete \in BOOLEAN /\ headSent \in BOOLEAN
    /\ answer \in [chunks : 0..MaxReplies, broken : BOOLEAN]
    /\ sentClose \in {"none", "1000", "1011"}

(* What the router may send: nothing, a request without a body, or the     *)
(* head of one with a body, some of its chunks, and perhaps its end.  A    *)
(* frame that is late is one the reader has not come to.                   *)
WithBody(n, e) == <<"head">> \o [i \in 1..n |-> "chunk"] \o e
Frames ==
    {<<>>, <<"headOnly">>} \cup {WithBody(n, e) : n \in 0..MaxChunks, e \in {<<>>, <<"end">>}}

Init ==
    /\ pc = [g \in Goroutines |-> CASE g = "reader" -> "reading"
                                    [] g = "fire"   -> "off"
                                    [] OTHER        -> "test"]
    /\ incoming \in Frames
    /\ closeCode = "open"
    /\ session = TRUE /\ connOpen = TRUE /\ writeErr = FALSE
    /\ cancelPing = TRUE /\ cancelled = FALSE /\ parentDone = FALSE
    /\ newSocketAdded = FALSE /\ replaced = 0 /\ retry = "no"
    /\ requestNum = 0 /\ pipe = "none"
    /\ failure = "none" /\ succeeded = FALSE /\ requestComplete = FALSE
    /\ answer = NoAnswer /\ headSent = FALSE /\ sentClose = "none"

Goto(g, label) == pc' = [pc EXCEPT ![g] = label]

\* nothing recovers a panic of the ping task, of the callback, or of the reader
Crashed == \E g \in Goroutines : pc[g] = "crashed"
At(g, label) == pc[g] = label /\ ~Crashed

-----------------------------------------------------------------------------
(* The reader: runForever, and what it calls on a frame.                   *)

ReadFrame(f) ==
    /\ At("reader", "reading") /\ incoming # <<>> /\ Head(incoming) = f
    /\ incoming' = Tail(incoming)

(* OnWebsocketText with the description of a request: the websocket is     *)
(* replaced, and a goroutine is started that fires the request.            *)
ReceiveHead(f) ==
    /\ f \in {"head", "headOnly"} /\ ReadFrame(f)
    /\ newSocketAdded' = TRUE /\ replaced' = replaced + 1
    /\ pipe' = IF f = "head" THEN "open" ELSE "none"
    /\ requestNum' = requestNum + 1
    /\ Goto("fire", "calling")
    /\ UNCHANGED <<connVars, pingVars, retry, resultVars, replyVars, worldVars>>

(* newRequestToTarget drops the error of url.Parse, and resolving the nil  *)
(* URL panics: an escape that the router decoded to a lone "%" is enough.  *)
(* The websocket has been replaced by then, and no request is counted.     *)
ReceiveBadDest ==
    /\ \E f \in {"head", "headOnly"} : ReadFrame(f)
    /\ newSocketAdded' = TRUE /\ replaced' = replaced + 1
    /\ Goto("reader", "crashed")
    /\ UNCHANGED <<connVars, pingVars, retry, requestNum, pipe, resultVars, replyVars, worldVars>>

\* OnWebsocketText with the end of the body: the writer of the pipe is closed
ReceiveEnd ==
    /\ ReadFrame("end")
    /\ pipe' = IF pipe = "open" THEN "ended" ELSE pipe
    /\ UNCHANGED <<pc, connVars, pingVars, replaceVars, requestNum, resultVars,
                   replyVars, worldVars>>

\* OnWebsocketBinary: Write blocks until the chunk is read or the pipe closed
ReceiveChunk ==
    /\ ReadFrame("chunk")
    /\ Goto("reader", "writing")
    /\ UNCHANGED <<pipe, connVars, pingVars, replaceVars, requestNum, resultVars,
                   replyVars, worldVars>>

ReaderFrame == UNCHANGED <<incoming, requestNum, pipe, succeeded, requestComplete,
                           replyVars, worldVars>>

\* the chunk is offered again until it is taken
PipeRetries ==
    /\ At("reader", "writing") /\ pipe = "closed"
    /\ UNCHANGED <<pc, connVars, pingVars, replaceVars, failure>>
    /\ ReaderFrame

\* Write returns an error, which is logged
PipeRefuses ==
    /\ At("reader", "writing") /\ pipe = "closed"
    /\ Goto("reader", "reading")
    /\ UNCHANGED <<connVars, pingVars, replaceVars, failure>>
    /\ ReaderFrame

\* the websocket has ended, and what came before has been read
ReadEnd ==
    /\ At("reader", "reading") /\ incoming = <<>> /\ closeCode # "open"
    /\ Goto("reader", IF closeCode = "error" THEN "errorCancel" ELSE "clean")
    /\ UNCHANGED <<connVars, pingVars, replaceVars, failure>>
    /\ ReaderFrame

\* the field is cleared, and the connection left open
cleanKeepsConn == session' = FALSE /\ UNCHANGED connOpen

\* the connection is closed without a word, and the field cleared
clean == session' = FALSE /\ connOpen' = FALSE

\* only the reader clears cancelPing
Cancel ==
    /\ At("reader", "closeCancel") \/ At("reader", "errorCancel")
    /\ Goto("reader", IF pc["reader"] = "closeCancel" THEN "closeReplace" ELSE "errorReplace")
    /\ cancelled' = TRUE /\ cancelPing' = FALSE
    /\ UNCHANGED <<connVars, replaceVars, failure>>
    /\ ReaderFrame

(* OnWebsocketClose: clean, cancelPing, replace, Abort.                    *)

CloseClean ==
    /\ At("reader", "clean")
    /\ clean
    /\ Goto("reader", "closeCancel")
    /\ UNCHANGED <<pingVars, replaceVars, failure>>
    /\ ReaderFrame

\* a websocket is replaced whenever it closes
CloseReplaceAlways ==
    /\ At("reader", "closeReplace")
    /\ newSocketAdded' = TRUE /\ replaced' = replaced + 1
    /\ Goto("reader", "closeAbort")
    /\ UNCHANGED <<connVars, pingVars, retry, failure>>
    /\ ReaderFrame

CloseReplace ==
    /\ At("reader", "closeReplace")
    /\ newSocketAdded' = TRUE
    /\ replaced' = IF newSocketAdded THEN replaced ELSE replaced + 1
    /\ Goto("reader", "closeAbort")
    /\ UNCHANGED <<connVars, pingVars, retry, failure>>
    /\ ReaderFrame

\* Abort stores the error where the goroutine that fires may find it
CloseAbort ==
    /\ At("reader", "closeAbort")
    /\ failure' = IF ~requestComplete /\ pc["fire"] # "off" /\ closeCode # "1011"
                    THEN "cancel" ELSE failure
    /\ Goto("reader", "ended")
    /\ UNCHANGED <<connVars, pingVars, replaceVars>>
    /\ ReaderFrame

(* OnWebsocketError: cancelPing; for a websocket that brought no request,  *)
(* start the retry, and clean.                                             *)

ErrorReplace ==
    /\ At("reader", "errorReplace")
    /\ Goto("reader", IF newSocketAdded THEN "ended" ELSE "errorClean")
    /\ retry' = IF newSocketAdded THEN retry ELSE "started"
    /\ UNCHANGED <<connVars, pingVars, newSocketAdded, replaced, failure>>
    /\ ReaderFrame

ErrorClean ==
    /\ At("reader", "errorClean")
    /\ clean
    /\ Goto("reader", "ended")
    /\ UNCHANGED <<pingVars, replaceVars, failure>>
    /\ ReaderFrame

ReaderNext ==
    \/ \E f \in {"head", "headOnly"} : ReceiveHead(f)
    \/ ReceiveBadDest
    \/ ReceiveEnd \/ ReceiveChunk \/ PipeRefuses \/ ReadEnd
    \/ CloseClean \/ Cancel \/ CloseReplace \/ CloseAbort \/ ErrorReplace \/ ErrorClean

RetryFrame == UNCHANGED <<pc, incoming, connVars, pingVars, requestNum, pipe, resultVars,
                          replyVars, worldVars>>

\* the goroutine of OnWebsocketError, and the timer it sets
RetryStarts ==
    /\ retry = "started" /\ ~Crashed
    /\ retry' = IF parentDone THEN "done" ELSE "timer"
    /\ UNCHANGED <<newSocketAdded, replaced>>
    /\ RetryFrame

RetryFires ==
    /\ retry = "timer" /\ ~Crashed
    /\ retry' = "done"
    /\ newSocketAdded' = TRUE /\ replaced' = replaced + 1
    /\ RetryFrame

-----------------------------------------------------------------------------
(* FireRequestFromConnectorToTargetService.  A panic in it is recovered,   *)
(* and the callback is run with the result as it is.                       *)

FireFrame == UNCHANGED <<incoming, connVars, cancelPing, replaceVars, worldVars>>

\* client.Do gives an answer, which may break off; the body need not be sent whole
TargetAnswers ==
    /\ At("fire", "calling")
    /\ \E n \in 0..MaxReplies, b \in BOOLEAN : answer' = [chunks |-> n, broken |-> b]
    /\ Goto("fire", "answered")
    /\ UNCHANGED <<cancelled, requestNum, pipe, resultVars, headSent, writeErr, sentClose>>
    /\ FireFrame

\* the error of client.Do is not kept in the result
TargetFailsSilently ==
    /\ At("fire", "calling")
    /\ pipe' = IF pipe = "open" THEN "closed" ELSE pipe
    /\ Goto("fire", "callback")
    /\ UNCHANGED <<cancelled, requestNum, resultVars, replyVars>>
    /\ FireFrame

\* client.Do fails, and closes the reader of the pipe
TargetFails ==
    /\ At("fire", "calling")
    /\ failure' = "other"
    /\ pipe' = IF pipe = "open" THEN "closed" ELSE pipe
    /\ Goto("fire", "callback")
    /\ UNCHANGED <<cancelled, requestNum, succeeded, requestComplete, replyVars>>
    /\ FireFrame

\* was the request aborted?
CheckAborted ==
    /\ At("fire", "answered")
    /\ Goto("fire", IF failure # "none" THEN "callback" ELSE "begin")
    /\ UNCHANGED <<cancelled, requestNum, pipe, resultVars, replyVars>>
    /\ FireFrame

\* a write to the websocket: all fail after one has, or after clean, and one may
\* fail when the websocket has ended
WriteOk  == connOpen /\ ~writeErr /\ UNCHANGED writeErr
WriteBad == (~connOpen \/ writeErr \/ closeCode # "open") /\ writeErr' = TRUE

\* onResponseBegin: an error is logged, and a nil session panics
BeginResponse ==
    /\ At("fire", "begin")
    /\ \/ /\ ~session
          /\ Goto("fire", "callback")
          /\ UNCHANGED <<headSent, writeErr>>
       \/ /\ session
          /\ \/ WriteOk /\ headSent' = TRUE
             \/ WriteBad /\ UNCHANGED headSent
          /\ Goto("fire", "copy")
    /\ UNCHANGED <<cancelled, requestNum, pipe, resultVars, answer, sentClose>>
    /\ FireFrame

(* A chunk is read and written.  An error that comes with it is            *)
(* overwritten by that of the write, and is met again by the next read.    *)
CopyChunk ==
    /\ At("fire", "copy") /\ answer.chunks > 0
    /\ WriteOk
    /\ answer' = [answer EXCEPT !.chunks = @ - 1]
    /\ UNCHANGED <<pc, cancelled, requestNum, pipe, resultVars, headSent, sentClose>>
    /\ FireFrame

CopyFails ==
    /\ At("fire", "copy") /\ answer.chunks > 0
    /\ WriteBad
    /\ failure' = "other"
    /\ Goto("fire", "callback")
    /\ UNCHANGED <<cancelled, requestNum, pipe, succeeded, requestComplete, answer, headSent,
                   sentClose>>
    /\ FireFrame

\* any end of the answer counts as its end
CopyEndsAnyhow ==
    /\ At("fire", "copy") /\ answer.chunks = 0
    /\ succeeded' = TRUE
    /\ Goto("fire", "callback")
    /\ UNCHANGED <<cancelled, requestNum, pipe, failure, requestComplete, replyVars>>
    /\ FireFrame

\* io.EOF, or another error
CopyEnds ==
    /\ At("fire", "copy") /\ answer.chunks = 0
    /\ IF answer.broken THEN failure' = "other" /\ UNCHANGED succeeded
                        ELSE succeeded' = TRUE /\ UNCHANGED failure
    /\ Goto("fire", "callback")
    /\ UNCHANGED <<cancelled, requestNum, pipe, requestComplete, replyVars>>
    /\ FireFrame

(* The callback.                                                           *)

CallbackFrame == UNCHANGED <<incoming, connVars, cancelPing, replaceVars, pipe, failure,
                             succeeded, answer, headSent, worldVars>>

\* a request that failed is not counted as ended
CallbackOfSuccess ==
    /\ At("fire", "callback")
    /\ requestNum' = IF succeeded THEN requestNum - 1 ELSE requestNum
    /\ Goto("fire", IF cancelPing THEN "useCancel" ELSE "useResult")
    /\ UNCHANGED <<cancelled, requestComplete, writeErr, sentClose>>
    /\ CallbackFrame

\* OnConnectionEnded, and the test of cancelPing
Callback ==
    /\ At("fire", "callback")
    /\ requestNum' = requestNum - 1
    /\ Goto("fire", IF cancelPing THEN "useCancel" ELSE "useResult")
    /\ UNCHANGED <<cancelled, requestComplete, writeErr, sentClose>>
    /\ CallbackFrame

\* a nil function panics
UseCancelPing ==
    /\ At("fire", "useCancel")
    /\ cancelled' = (cancelled \/ cancelPing)
    /\ Goto("fire", IF cancelPing THEN "useResult" ELSE "crashed")
    /\ UNCHANGED <<requestNum, requestComplete, writeErr, sentClose>>
    /\ CallbackFrame

\* a request that did not succeed must have a failure, or its Error() panics
UseResult ==
    /\ At("fire", "useResult")
    /\ requestComplete' = succeeded
    /\ Goto("fire", IF ~succeeded /\ failure = "none" THEN "crashed" ELSE "testSession")
    /\ UNCHANGED <<requestNum, cancelled, writeErr, sentClose>>
    /\ CallbackFrame

TestSession ==
    /\ At("fire", "testSession")
    /\ Goto("fire", IF session THEN "useSession" ELSE "ended")
    /\ UNCHANGED <<requestNum, cancelled, requestComplete, writeErr, sentClose>>
    /\ CallbackFrame

\* the close frame; WriteControl panics on a nil session
UseSession ==
    /\ At("fire", "useSession")
    /\ \/ /\ ~session
          /\ Goto("fire", "crashed")
          /\ UNCHANGED <<writeErr, sentClose>>
       \/ /\ session
          /\ \/ WriteOk /\ sentClose' = IF succeeded THEN "1000" ELSE "1011"
             \/ WriteBad /\ UNCHANGED sentClose
          /\ Goto("fire", "ended")
    /\ UNCHANGED <<requestNum, cancelled, requestComplete>>
    /\ CallbackFrame

FireNext ==
    \/ CheckAborted \/ BeginResponse \/ CopyChunk \/ CopyFails \/ CopyEnds
    \/ Callback \/ UseCancelPing \/ UseResult \/ TestSession \/ UseSession

-----------------------------------------------------------------------------
(* The ping task.                                                          *)

PingFrame == UNCHANGED <<incoming, connVars, pingVars, replaceVars, requestNum, pipe,
                         resultVars, replyVars, worldVars>>

PingTest ==
    /\ At("ping", "test")
    /\ Goto("ping", IF session THEN "select" ELSE "ended")
    /\ PingFrame

PingStops ==
    /\ At("ping", "select") /\ (cancelled \/ parentDone)
    /\ Goto("ping", "ended")
    /\ PingFrame

\* five seconds have passed
PingTimer ==
    /\ At("ping", "select")
    /\ Goto("ping", "write")
    /\ PingFrame

\* the address of a nil session panics; an error of the write is ignored
Ping ==
    /\ At("ping", "write")
    /\ Goto("ping", IF session THEN "test" ELSE "crashed")
    /\ PingFrame

-----------------------------------------------------------------------------
(* The router, the network, the target and the connector.                  *)

EnvFrame == UNCHANGED <<incoming, connVars, pingVars, replaceVars, requestNum, resultVars,
                        replyVars>>

\* the router answers a close frame with the same code; the connection may be lost
WebsocketEnds(c) ==
    /\ closeCode = "open" /\ ~Crashed
    /\ c \in {"1006", "error"} \/ (c = sentClose /\ c # "none")
    /\ closeCode' = c
    /\ UNCHANGED <<pc, pipe, parentDone>>
    /\ EnvFrame

ParentCancel ==
    /\ ~parentDone /\ ~Crashed
    /\ parentDone' = TRUE
    /\ UNCHANGED <<pc, pipe, closeCode>>
    /\ EnvFrame

TargetReads ==
    /\ At("reader", "writing") /\ pipe = "open"
    /\ Goto("reader", "reading")
    /\ UNCHANGED <<pipe, worldVars>>
    /\ EnvFrame

\* once there is an answer, the transport gives up the rest of the body
TransportCloses ==
    /\ pipe = "open" /\ ~Crashed
    /\ pc["fire"] \notin {"off", "calling"}
    /\ pipe' = "closed"
    /\ UNCHANGED <<pc, worldVars>>
    /\ EnvFrame

Codes == {"error", "1000", "1006", "1011"}

Next ==
    \/ ReaderNext
    \/ RetryStarts \/ RetryFires
    \/ TargetAnswers \/ TargetFails \/ FireNext
    \/ PingTest \/ PingStops \/ PingTimer \/ Ping
    \/ \E c \in Codes : WebsocketEnds(c)
    \/ ParentCancel \/ TargetReads \/ TransportCloses

Spec == Init /\ [][Next]_vars

(* Goroutines run and timers fire.  A target reads the body it is sent or  *)
(* answers, and answers a request it has read whole.  Nothing makes it     *)
(* answer before, and nothing makes the router or the network do anything. *)
Fairness ==
    /\ WF_vars(ReaderNext) /\ WF_vars(FireNext)
    /\ WF_vars(RetryStarts) /\ WF_vars(RetryFires)
    /\ WF_vars(TargetReads \/ TransportCloses)
    /\ WF_vars(pipe # "open" /\ (TargetAnswers \/ TargetFails))

FairSpec == Spec /\ Fairness

-----------------------------------------------------------------------------
(* A process with many websockets is not ended by a target that fails or   *)
(* breaks off, nor by a write that fails: the callback and the ping task   *)
(* lose a field only to a reader that handles the end of the websocket.    *)
(* The reader itself panics on a destination that does not parse, before   *)
(* anything is fired, and never later.                                     *)
CrashNeedsEndOrBadDest ==
    /\ pc["fire"] = "crashed" \/ pc["ping"] = "crashed"
         => pc["reader"] \notin {"reading", "writing", "clean", "errorCancel", "crashed"}
    /\ pc["reader"] = "crashed" => pc["fire"] = "off"

(* The router takes a close with code 1000 as the end of a good response,  *)
(* so it is sent only after the head and the whole body, however writes    *)
(* fail and the target breaks off.                                         *)
NormalCloseIsWhole ==
    sentClose = "1000" => headSent /\ answer = NoAnswer

(* Each websocket is replaced once, although a request, a close, an error  *)
(* and the timer of a retry each may do it.                                *)
ReplacedOnce ==
    /\ replaced <= 1
    /\ pc["reader"] = "ended" /\ replaced = 0 => closeCode = "error"

(* When the reader has ended, the connection is closed.  The exception is  *)
(* an error on a websocket that brought a request: no one closes that one. *)
ConnectionReleased ==
    pc["reader"] = "ended" /\ connOpen => closeCode = "error" /\ pc["fire"] # "off"

(* The end of a websocket is noticed, even while its reader is held up by  *)
(* a target that is slow to read the body.                                 *)
EndNoticed == (closeCode # "open") ~> (pc["reader"] = "ended" \/ Crashed)

(* A request that was begun is counted as ended at last, so that the       *)
(* shutdown need not wait for it in vain, unless the rest of its body      *)
(* never comes.                                                            *)
RequestEnds ==
    (requestNum = 1) ~> (requestNum = 0 \/ Crashed \/ (pipe = "open" /\ incoming = <<>>))

(* "Abort abort sending request to target service": an aborted request     *)
(* ends.                                                                   *)
AbortEndsRequest == (failure = "cancel") ~> (requestNum = 0 \/ Crashed)
=============================================================================
