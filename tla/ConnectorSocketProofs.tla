------------------------ MODULE ConnectorSocketProofs ------------------------
(***************************************************************************)
(* Proofs about ConnectorSocket, for request and response bodies of any    *)
(* length.                                                                 *)
(***************************************************************************)
EXTENDS ConnectorSocket, SequenceTheorems, TLAPS

-----------------------------------------------------------------------------
(* Where the reader is, and what the others may rely on.                   *)

Open      == {"reading", "writing", "clean", "errorCancel"}
Unclosed  == {"reading", "writing"}
Cleaned   == {"closeCancel", "closeReplace", "closeAbort", "ended"}
PastPing  == {"closeReplace", "closeAbort", "errorReplace", "errorClean", "ended"}
Rest      == Seq({"chunk", "end"})

PcTyped ==
    /\ pc \in [Goroutines -> ReaderSteps \cup FireSteps \cup PingSteps]
    /\ pc["reader"] \in ReaderSteps /\ pc["fire"] \in FireSteps /\ pc["ping"] \in PingSteps

\* one head comes first, and starts the goroutine that fires, or ends the process
FramesInv ==
    IF pc["fire"] = "off" /\ pc["reader"] # "crashed"
      THEN \/ incoming = <<>>
           \/ /\ incoming \in Seq({"head", "headOnly", "chunk", "end"})
              /\ Head(incoming) \in {"head", "headOnly"} /\ Tail(incoming) \in Rest
      ELSE incoming \in Rest

\* a goroutine's step does not take another goroutine to a step of its own
LEMMA GotoTyped ==
  ASSUME PcTyped
  PROVE  /\ \A l \in ReaderSteps : Goto("reader", l) =>
               PcTyped' /\ pc'["reader"] = l /\ pc'["fire"] = pc["fire"] /\ pc'["ping"] = pc["ping"]
         /\ \A l \in FireSteps : Goto("fire", l) =>
               PcTyped' /\ pc'["fire"] = l /\ pc'["reader"] = pc["reader"] /\ pc'["ping"] = pc["ping"]
         /\ \A l \in PingSteps : Goto("ping", l) =>
               PcTyped' /\ pc'["ping"] = l /\ pc'["reader"] = pc["reader"] /\ pc'["fire"] = pc["fire"]
  BY DEF PcTyped, Goto, Goroutines

\* what is taken from a sequence of the rest leaves such a sequence
LEMMA TailOfRest == \A q \in Rest : q # <<>> => Tail(q) \in Rest /\ Head(q) \in {"chunk", "end"}
  BY HeadTailProperties DEF Rest

\* what the router sends has one head, at its start
LEMMA FramesRest ==
  ASSUME NEW f \in Frames
  PROVE  \/ f = <<>>
         \/ /\ f \in Seq({"head", "headOnly", "chunk", "end"})
            /\ Head(f) \in {"head", "headOnly"} /\ Tail(f) \in Rest
<1> DEFINE T == {"head", "headOnly", "chunk", "end"}
<1>1. CASE f = <<>>
  BY <1>1
<1>2. CASE f = <<"headOnly">>
  BY <1>2 DEF Rest
<1>3. ASSUME NEW n \in 0..MaxChunks, NEW e \in {<<>>, <<"end">>}, f = WithBody(n, e)
      PROVE  /\ f \in Seq(T) /\ Head(f) \in {"head", "headOnly"} /\ Tail(f) \in Rest
  <2> DEFINE c == [i \in 1..n |-> "chunk"]
  <2>1. n \in Nat /\ c \in [1..n -> {"chunk", "end"}]
    BY BoundsAssumption
  <2> HIDE DEF c
  <2>2. c \in Seq({"chunk", "end"}) /\ e \in Seq({"chunk", "end"})
    <3>1. Seq({"chunk", "end"}) = UNION {[1..m -> {"chunk", "end"}] : m \in Nat}
      BY SeqDef
    <3>2. c \in Seq({"chunk", "end"})
      BY <2>1, <3>1
    <3>3. <<>> \in Seq({"chunk", "end"}) /\ <<"end">> \in Seq({"chunk", "end"})
      OBVIOUS
    <3>4. e = <<>> \/ e = <<"end">>
      OBVIOUS
    <3>5. e \in Seq({"chunk", "end"})
      BY <3>3, <3>4, Zenon
    <3>6. QED
      BY <3>2, <3>5, Zenon
  <2>3. c \o e \in Seq({"chunk", "end"})
    BY <2>2, ConcatProperties
  <2>4. PICK t \in Rest : t = c \o e
    BY <2>3 DEF Rest
  <2>5. t \in Seq(T) /\ <<"head">> \in Seq(T) /\ c \in Seq(T) /\ e \in Seq(T)
    BY <2>2, SeqMonotonic DEF Rest
  <2>6. f = <<"head">> \o t
    BY <1>3, <2>4, <2>5, ConcatAssociative DEF WithBody, c
  <2>7. /\ f \in Seq(T) /\ Len(f) = 1 + Len(t) /\ f[1] = "head"
        /\ \A i \in 1..Len(t) : f[i + 1] = t[i]
    BY <2>5, <2>6, ConcatProperties, LenProperties
  <2>8. f # <<>> /\ Head(f) = "head"
    BY <2>5, <2>7, LenProperties
  <2>9. /\ Tail(f) \in Seq(T) /\ Len(Tail(f)) = Len(t)
        /\ \A i \in 1..Len(Tail(f)) : Tail(f)[i] = t[i]
    BY <2>5, <2>7, <2>8, HeadTailProperties, LenProperties
  <2>10. Tail(f) = t
    BY <2>5, <2>9, SeqEqual
  <2>11. QED
    BY <2>7, <2>8, <2>10
<1>4. QED
  BY <1>1, <1>2, <1>3 DEF Frames

-----------------------------------------------------------------------------
(* The invariants, by what they are about.                                 *)

\* a request is counted from its head to the callback
CountInv == requestNum = IF pc["fire"] \in {"calling", "answered", "begin", "copy", "callback"} THEN 1 ELSE 0

\* who has replaced the websocket, and who has closed it
ReplaceInv ==
    /\ (newSocketAdded => replaced = 1) /\ (~newSocketAdded => replaced = 0)
    /\ retry # "no" => pc["reader"] \in {"errorClean", "ended"}
    /\ retry \in {"started", "timer"} => ~newSocketAdded
    /\ pc["fire"] # "off" => newSocketAdded
    /\ newSocketAdded /\ pc["reader"] \notin {"closeAbort", "errorClean", "ended", "crashed"}
          => pc["fire"] # "off"
    /\ pc["reader"] \in {"errorCancel", "errorReplace", "errorClean"} => closeCode = "error"
    /\ pc["reader"] \in {"clean", "closeCancel", "closeReplace", "closeAbort"}
          => closeCode \notin {"open", "error"}
    /\ pc["reader"] = "closeAbort" => newSocketAdded
    /\ pc["reader"] = "ended" => closeCode # "open" /\ (closeCode = "error" \/ newSocketAdded)
    /\ connOpen => /\ pc["reader"] \notin {"closeCancel", "closeReplace", "closeAbort"}
                   /\ pc["reader"] = "ended" => closeCode = "error" /\ pc["fire"] # "off"

\* an answer ends without a success or a failure only when the session was cleared
CauseInv ==
    pc["fire"] \in {"callback", "useCancel", "useResult"} /\ ~succeeded /\ failure = "none"
        => ~session

\* what a field that was cleared says of the reader
CrashInv ==
    /\ ~cancelPing => pc["reader"] \in PastPing
    /\ ~session => pc["reader"] \in Cleaned
    /\ CauseInv
    /\ CrashNeedsEndOrBadDest

\* a request that succeeded was answered whole, as far as writes went well
ResultInv ==
    /\ succeeded => /\ pc["fire"] \in {"callback", "useCancel", "useResult", "testSession",
                                       "useSession", "ended", "crashed"}
                    /\ answer = NoAnswer /\ (headSent \/ writeErr)
    /\ pc["fire"] = "copy" => headSent \/ writeErr
    /\ answer \in [chunks : 0..MaxReplies, broken : BOOLEAN]
    /\ sentClose = "1000" => succeeded /\ headSent

SocketInv == PcTyped /\ FramesInv /\ CountInv /\ ReplaceInv /\ CrashInv /\ ResultInv

(* A head comes while nothing is fired.                                    *)
LEMMA HeadFirst ==
  ASSUME FramesInv, NEW f \in {"head", "headOnly"}, ReadFrame(f)
  PROVE  pc["fire"] = "off" /\ Tail(incoming) \in Rest
  BY TailOfRest DEF FramesInv, ReadFrame, At

(* A destination that does not parse ends the reader, and nothing else.    *)
LEMMA BadDest ==
  ASSUME PcTyped, FramesInv, ReceiveBadDest
  PROVE  /\ PcTyped' /\ ~Crashed /\ pc["fire"] = "off" /\ incoming' \in Rest
         /\ pc["reader"] = "reading" /\ pc'["reader"] = "crashed"
         /\ pc'["fire"] = pc["fire"] /\ pc'["ping"] = pc["ping"]
         /\ newSocketAdded' /\ replaced' = replaced + 1
         /\ UNCHANGED <<session, connOpen, cancelPing, cancelled, retry, requestNum, pipe, failure, succeeded,
                        requestComplete, answer, headSent, writeErr, sentClose, closeCode, parentDone>>
<1>1. PICK f \in {"head", "headOnly"} : ReadFrame(f)
  BY DEF ReceiveBadDest
<1>2. pc["fire"] = "off" /\ incoming' \in Rest /\ ~Crashed /\ pc["reader"] = "reading"
  BY <1>1, HeadFirst DEF ReadFrame, At
<1>3. Goto("reader", "crashed") /\ "crashed" \in ReaderSteps
  BY DEF ReceiveBadDest, ReaderSteps
<1>4. /\ PcTyped' /\ pc'["reader"] = "crashed"
      /\ pc'["fire"] = pc["fire"] /\ pc'["ping"] = pc["ping"]
  BY <1>3, GotoTyped
<1>5. QED
  BY <1>2, <1>4 DEF ReceiveBadDest, connVars, pingVars, resultVars, replyVars, worldVars

(* Another frame comes while something is.                                 *)
LEMMA OtherAfter ==
  ASSUME FramesInv, NEW f \in {"chunk", "end"}, ReadFrame(f)
  PROVE  pc["fire"] # "off" /\ incoming' \in Rest
  BY TailOfRest DEF FramesInv, ReadFrame, At

(* The program counters, and the frames still to be read.                  *)
LEMMA FlowStep ==
  ASSUME SocketInv, [Next]_vars
  PROVE  PcTyped' /\ FramesInv' /\ CountInv'
<1> USE GotoTyped DEF SocketInv, ReaderSteps, FireSteps, PingSteps, At
<1>1. ASSUME UNCHANGED <<incoming, requestNum>>, PcTyped', pc'["fire"] = pc["fire"],
             pc'["reader"] = "crashed" <=> pc["reader"] = "crashed"
      PROVE  PcTyped' /\ FramesInv' /\ CountInv'
  BY <1>1 DEF FramesInv, CountInv
<1>2. ASSUME UNCHANGED <<incoming, requestNum>>, PcTyped', pc["fire"] # "off", pc'["fire"] # "off",
             (pc["fire"] \in {"calling", "answered", "begin", "copy", "callback"}
                <=> pc'["fire"] \in {"calling", "answered", "begin", "copy", "callback"})
      PROVE  PcTyped' /\ FramesInv' /\ CountInv'
  BY <1>2 DEF FramesInv, CountInv
<1>3. ASSUME NEW f \in {"head", "headOnly"}, ReceiveHead(f)
      PROVE  PcTyped' /\ FramesInv' /\ CountInv'
  <2>1. pc["fire"] = "off" /\ incoming' \in Rest /\ requestNum' = requestNum + 1
        /\ PcTyped' /\ pc'["fire"] = "calling"
    BY <1>3, HeadFirst DEF ReceiveHead, ReadFrame
  <2>2. QED
    BY <2>1 DEF FramesInv, CountInv
<1>4. CASE ReceiveEnd \/ ReceiveChunk
  <2>1. pc["fire"] # "off" /\ incoming' \in Rest
    BY <1>4, OtherAfter DEF ReceiveEnd, ReceiveChunk
  <2>2. UNCHANGED requestNum /\ PcTyped' /\ pc'["fire"] = pc["fire"]
    BY <1>4 DEF ReceiveEnd, ReceiveChunk, PcTyped
  <2>3. QED
    BY <2>1, <2>2 DEF FramesInv, CountInv
<1>5. CASE PipeRefuses \/ ReadEnd \/ CloseClean \/ Cancel \/ CloseReplace \/ CloseAbort
           \/ ErrorReplace \/ ErrorClean
  <2>1. UNCHANGED <<incoming, requestNum>> /\ PcTyped' /\ pc'["fire"] = pc["fire"]
        /\ pc["reader"] # "crashed" /\ pc'["reader"] # "crashed"
    BY <1>5 DEF PipeRefuses, ReadEnd, CloseClean, Cancel, CloseReplace, CloseAbort, ErrorReplace,
                ErrorClean, ReaderFrame
  <2>2. QED
    BY <1>1, <2>1
<1>6. CASE RetryStarts \/ RetryFires \/ ParentCancel \/ TransportCloses \/ CopyChunk
           \/ \E c \in Codes : WebsocketEnds(c)
  <2>1. UNCHANGED <<incoming, requestNum, pc>>
    BY <1>6 DEF RetryStarts, RetryFires, ParentCancel, TransportCloses, CopyChunk, WebsocketEnds,
                RetryFrame, EnvFrame, FireFrame
  <2>2. QED
    BY <1>1, <2>1 DEF PcTyped
<1>7. CASE TargetAnswers \/ TargetFails \/ CheckAborted \/ BeginResponse \/ CopyFails \/ CopyEnds
  <2>1. /\ UNCHANGED <<incoming, requestNum>> /\ PcTyped'
        /\ pc["fire"] \in {"calling", "answered", "begin", "copy"}
        /\ pc'["fire"] \in {"answered", "begin", "copy", "callback"}
    BY <1>7 DEF TargetAnswers, TargetFails, CheckAborted, BeginResponse, CopyFails, CopyEnds, FireFrame
  <2>2. QED
    BY <1>2, <2>1
<1>8. CASE Callback
  <2>1. /\ UNCHANGED incoming /\ requestNum' = requestNum - 1 /\ PcTyped'
        /\ pc["fire"] = "callback" /\ pc'["fire"] \in {"useCancel", "useResult"}
    BY <1>8 DEF Callback, CallbackFrame
  <2>2. QED
    BY <2>1 DEF FramesInv, CountInv
<1>9. CASE UseCancelPing \/ UseResult \/ TestSession \/ UseSession
  <2>1. /\ UNCHANGED <<incoming, requestNum>> /\ PcTyped'
        /\ pc["fire"] \in {"useCancel", "useResult", "testSession", "useSession"}
        /\ pc'["fire"] \in {"useResult", "testSession", "useSession", "ended", "crashed"}
    BY <1>9 DEF UseCancelPing, UseResult, TestSession, UseSession, CallbackFrame
  <2>2. QED
    BY <1>2, <2>1
<1>10. CASE PingTest \/ PingStops \/ PingTimer \/ Ping \/ TargetReads
  <2>1. UNCHANGED <<incoming, requestNum>> /\ PcTyped' /\ pc'["fire"] = pc["fire"]
        /\ (pc'["reader"] = "crashed" <=> pc["reader"] = "crashed")
    BY <1>10 DEF PingTest, PingStops, PingTimer, Ping, TargetReads, PingFrame, EnvFrame
  <2>2. QED
    BY <1>1, <2>1
<1>11. CASE UNCHANGED vars
  BY <1>1, <1>11 DEF vars, PcTyped
<1>12. CASE ReceiveBadDest
  BY <1>12, BadDest DEF FramesInv, CountInv
<1>13. QED
  BY <1>3, <1>4, <1>5, <1>6, <1>7, <1>8, <1>9, <1>10, <1>11, <1>12 DEF Next, ReaderNext, FireNext

(* The steps that leave the reader, its fields and the end of the websocket alone. *)
LEMMA ReplaceAside ==
  ASSUME ReplaceInv,
         UNCHANGED <<newSocketAdded, replaced, retry, closeCode, connOpen>>,
         pc'["reader"] = pc["reader"], pc["fire"] = "off" <=> pc'["fire"] = "off"
  PROVE  ReplaceInv'
  BY DEF ReplaceInv

(* Who has replaced the websocket, and who has closed it.                  *)
LEMMA ReplaceStep ==
  ASSUME SocketInv, [Next]_vars
  PROVE  ReplaceInv'
<1> USE GotoTyped DEF SocketInv, ReaderSteps, FireSteps, PingSteps, At, connVars, replaceVars, worldVars
<1>1. ASSUME NEW f \in {"head", "headOnly"}, ReceiveHead(f)
      PROVE  ReplaceInv'
  <2>1. /\ pc["fire"] = "off" /\ pc'["fire"] = "calling"
        /\ pc["reader"] = "reading" /\ pc'["reader"] = "reading"
    BY <1>1, HeadFirst DEF ReceiveHead, ReadFrame
  <2>2. UNCHANGED <<retry, closeCode, connOpen>> /\ newSocketAdded' /\ replaced' = replaced + 1
    BY <1>1 DEF ReceiveHead
  <2>3. ~newSocketAdded /\ replaced = 0 /\ retry = "no"
    BY <2>1 DEF ReplaceInv
  <2>4. replaced' = 1
    BY <2>2, <2>3
  <2>5. QED
    BY <2>1, <2>2, <2>3, <2>4 DEF ReplaceInv
<1>2. CASE ReceiveEnd
  BY <1>2, ReplaceAside DEF ReceiveEnd, ReadFrame
<1>3. CASE ReceiveChunk
  <2>1. /\ UNCHANGED <<newSocketAdded, replaced, retry, closeCode, connOpen>>
        /\ pc["reader"] = "reading" /\ pc'["reader"] = "writing" /\ pc'["fire"] = pc["fire"]
    BY <1>3 DEF ReceiveChunk, ReadFrame
  <2>2. QED
    BY <2>1 DEF ReplaceInv
<1>4. CASE PipeRefuses \/ TargetReads
  <2>1. /\ UNCHANGED <<newSocketAdded, replaced, retry, closeCode, connOpen>>
        /\ pc["reader"] = "writing" /\ pc'["reader"] = "reading" /\ pc'["fire"] = pc["fire"]
    BY <1>4 DEF PipeRefuses, TargetReads, ReaderFrame, EnvFrame
  <2>2. QED
    BY <2>1 DEF ReplaceInv
<1>5. CASE ReadEnd
  <2>1. /\ UNCHANGED <<newSocketAdded, replaced, retry, closeCode, connOpen>>
        /\ closeCode # "open" /\ pc["reader"] = "reading" /\ pc'["fire"] = pc["fire"]
    BY <1>5 DEF ReadEnd, ReaderFrame
  <2>2. \/ closeCode = "error" /\ pc'["reader"] = "errorCancel"
        \/ closeCode # "error" /\ pc'["reader"] = "clean"
    BY <1>5 DEF ReadEnd
  <2>3. QED
    BY <2>1, <2>2 DEF ReplaceInv
<1>6. CASE CloseClean
  <2>1. /\ UNCHANGED <<newSocketAdded, replaced, retry, closeCode>> /\ ~connOpen'
        /\ pc["reader"] = "clean" /\ pc'["reader"] = "closeCancel" /\ pc'["fire"] = pc["fire"]
    BY <1>6 DEF CloseClean, clean, ReaderFrame
  <2>2. QED
    BY <2>1 DEF ReplaceInv
<1>7. CASE Cancel
  <2>1. /\ UNCHANGED <<newSocketAdded, replaced, retry, closeCode, connOpen>>
        /\ pc'["fire"] = pc["fire"]
        /\ \/ pc["reader"] = "closeCancel" /\ pc'["reader"] = "closeReplace"
           \/ pc["reader"] = "errorCancel" /\ pc'["reader"] = "errorReplace"
    BY <1>7 DEF Cancel, ReaderFrame
  <2>2. QED
    BY <2>1 DEF ReplaceInv
<1>8. CASE CloseReplace
  <2>1. /\ UNCHANGED <<retry, closeCode, connOpen>> /\ newSocketAdded'
        /\ pc["reader"] = "closeReplace" /\ pc'["reader"] = "closeAbort" /\ pc'["fire"] = pc["fire"]
    BY <1>8 DEF CloseReplace, ReaderFrame
  <2>2. replaced' = 1
    BY <1>8 DEF CloseReplace, ReplaceInv
  <2>3. QED
    BY <2>1, <2>2 DEF ReplaceInv
<1>9. CASE CloseAbort
  <2>1. /\ UNCHANGED <<newSocketAdded, replaced, retry, closeCode, connOpen>>
        /\ pc["reader"] = "closeAbort" /\ pc'["reader"] = "ended" /\ pc'["fire"] = pc["fire"]
    BY <1>9 DEF CloseAbort, ReaderFrame
  <2>2. QED
    BY <2>1 DEF ReplaceInv
<1>10. CASE ErrorReplace
  <2>1. /\ UNCHANGED <<newSocketAdded, replaced, closeCode, connOpen>>
        /\ pc["reader"] = "errorReplace" /\ pc'["fire"] = pc["fire"]
    BY <1>10 DEF ErrorReplace, ReaderFrame
  <2>2. \/ newSocketAdded /\ pc'["reader"] = "ended" /\ retry' = retry
        \/ ~newSocketAdded /\ pc'["reader"] = "errorClean" /\ retry' = "started"
    BY <1>10 DEF ErrorReplace
  <2>3. QED
    BY <2>1, <2>2 DEF ReplaceInv
<1>11. CASE ErrorClean
  <2>1. /\ UNCHANGED <<newSocketAdded, replaced, retry, closeCode>> /\ ~connOpen'
        /\ pc["reader"] = "errorClean" /\ pc'["reader"] = "ended" /\ pc'["fire"] = pc["fire"]
    BY <1>11 DEF ErrorClean, clean, ReaderFrame
  <2>2. QED
    BY <2>1 DEF ReplaceInv
<1>12. CASE RetryStarts
  <2>1. /\ UNCHANGED <<pc, newSocketAdded, replaced, closeCode, connOpen>>
        /\ retry = "started" /\ retry' \in {"timer", "done"}
    BY <1>12 DEF RetryStarts, RetryFrame
  <2>2. QED
    BY <2>1 DEF ReplaceInv
<1>13. CASE RetryFires
  <2>1. /\ UNCHANGED <<pc, closeCode, connOpen>>
        /\ retry = "timer" /\ retry' = "done" /\ newSocketAdded' /\ replaced' = replaced + 1
    BY <1>13 DEF RetryFires, RetryFrame
  <2>2. ~newSocketAdded /\ replaced = 0
    BY <2>1 DEF ReplaceInv
  <2>3. replaced' = 1
    BY <2>1, <2>2
  <2>4. QED
    BY <2>1, <2>3 DEF ReplaceInv
<1>14. ASSUME NEW c \in Codes, WebsocketEnds(c)
       PROVE  ReplaceInv'
  <2>1. /\ UNCHANGED <<pc, newSocketAdded, replaced, retry, connOpen>>
        /\ closeCode = "open" /\ closeCode' # "open"
    BY <1>14 DEF WebsocketEnds, EnvFrame, Codes
  <2>2. QED
    BY <2>1 DEF ReplaceInv, PcTyped
<1>15. CASE TargetAnswers \/ TargetFails \/ CheckAborted \/ BeginResponse \/ CopyFails \/ CopyEnds
            \/ Callback \/ UseCancelPing \/ UseResult \/ TestSession \/ UseSession
  <2>1. UNCHANGED <<newSocketAdded, replaced, retry, closeCode, connOpen>>
    BY <1>15 DEF TargetAnswers, TargetFails, CheckAborted, BeginResponse, CopyFails, CopyEnds, Callback,
                 UseCancelPing, UseResult, TestSession, UseSession, FireFrame, CallbackFrame
  <2>2. pc'["reader"] = pc["reader"] /\ pc["fire"] # "off" /\ pc'["fire"] # "off"
    BY <1>15 DEF TargetAnswers, TargetFails, CheckAborted, BeginResponse, CopyFails, CopyEnds, Callback,
                 UseCancelPing, UseResult, TestSession, UseSession
  <2>3. QED
    BY <2>1, <2>2, ReplaceAside
<1>16. CASE PingTest \/ PingStops \/ PingTimer \/ Ping
  <2>1. UNCHANGED <<newSocketAdded, replaced, retry, closeCode, connOpen>>
        /\ pc'["reader"] = pc["reader"] /\ pc'["fire"] = pc["fire"]
    BY <1>16 DEF PingTest, PingStops, PingTimer, Ping, PingFrame
  <2>2. QED
    BY <2>1, ReplaceAside
<1>17. CASE ParentCancel \/ TransportCloses \/ CopyChunk \/ UNCHANGED vars
  <2>1. UNCHANGED <<pc, newSocketAdded, replaced, retry, closeCode, connOpen>>
    BY <1>17 DEF ParentCancel, TransportCloses, CopyChunk, EnvFrame, FireFrame, vars
  <2>2. QED
    BY <2>1, ReplaceAside
<1>18. CASE ReceiveBadDest
  <2>1. ~newSocketAdded /\ replaced = 0 /\ retry = "no"
    BY <1>18, BadDest DEF ReplaceInv
  <2>2. replaced' = 1
    BY <1>18, <2>1, BadDest
  <2>3. QED
    BY <1>18, <2>1, <2>2, BadDest DEF ReplaceInv
<1>19. QED
  BY <1>1, <1>2, <1>3, <1>4, <1>5, <1>6, <1>7, <1>8, <1>9, <1>10, <1>11, <1>12, <1>13, <1>14, <1>15,
     <1>16, <1>17, <1>18 DEF Next, ReaderNext, FireNext

(* A process crashes only by a step to a crash.                            *)
LEMMA NoCrash ==
  ASSUME CrashNeedsEndOrBadDest, PcTyped',
         pc'["reader"] = pc["reader"],
         pc["reader"] = "crashed" => pc'["fire"] = pc["fire"],
         pc'["fire"] = "crashed" => pc["fire"] = "crashed",
         pc'["ping"] = "crashed" => pc["ping"] = "crashed"
  PROVE  CrashNeedsEndOrBadDest'
  BY DEF CrashNeedsEndOrBadDest, Crashed, Goroutines, PcTyped, ReaderSteps

(* A step of the reader that is no panic is taken before any crash.        *)
LEMMA ReaderAlive ==
  ASSUME PcTyped, PcTyped', ~Crashed, pc'["fire"] = pc["fire"], pc'["ping"] = pc["ping"],
         pc'["reader"] # "crashed"
  PROVE  CrashNeedsEndOrBadDest'
  BY DEF CrashNeedsEndOrBadDest, Crashed, Goroutines, PcTyped, ReaderSteps

(* A crash is met when a cleared field is used.                            *)
LEMMA ClearedUsed ==
  ASSUME CrashInv, ~session \/ ~cancelPing, pc'["reader"] = pc["reader"]
  PROVE  CrashNeedsEndOrBadDest'
  BY DEF CrashInv, CrashNeedsEndOrBadDest, Cleaned, PastPing

(* What a field that was cleared says of the reader.                       *)
LEMMA CrashStep ==
  ASSUME SocketInv, [Next]_vars
  PROVE  CrashInv'
<1> USE GotoTyped DEF SocketInv, ReaderSteps, FireSteps, PingSteps, At
<1>0. PcTyped' /\ (~Crashed => pc["reader"] # "crashed")
  BY FlowStep DEF Crashed, Goroutines
<1>1. (~cancelPing => pc["reader"] \in PastPing) /\ (~session => pc["reader"] \in Cleaned)
      /\ CauseInv /\ CrashNeedsEndOrBadDest
  BY DEF CrashInv, CauseInv
<1>2. ASSUME UNCHANGED <<session, cancelPing, succeeded, failure>>, pc'["reader"] = pc["reader"],
             pc'["fire"] \in {"callback", "useCancel", "useResult"} =>
                 pc["fire"] \in {"callback", "useCancel", "useResult"},
             pc["reader"] = "crashed" => pc'["fire"] = pc["fire"],
             pc'["fire"] = "crashed" => pc["fire"] = "crashed",
             pc'["ping"] = "crashed" => pc["ping"] = "crashed"
      PROVE  CrashInv'
  <2>1. CrashNeedsEndOrBadDest'
    BY <1>0, <1>1, <1>2, NoCrash
  <2>2. QED
    BY <1>1, <1>2, <2>1 DEF CrashInv, CauseInv
<1>3. ASSUME NEW f \in {"head", "headOnly"}, ReceiveHead(f)
      PROVE  CrashInv'
  <2>1. UNCHANGED <<session, cancelPing, succeeded, failure>>
    BY <1>3 DEF ReceiveHead, connVars, pingVars, resultVars
  <2>2. pc'["reader"] = pc["reader"] /\ pc'["fire"] = "calling" /\ pc'["ping"] = pc["ping"]
    BY <1>3 DEF ReceiveHead
  <2>3. pc["reader"] # "crashed"
    BY <1>0, <1>3 DEF ReceiveHead, ReadFrame
  <2>4. QED
    BY <1>0, <1>2, <2>1, <2>2, <2>3
<1>4. CASE ReceiveEnd \/ RetryStarts \/ RetryFires \/ ParentCancel \/ TransportCloses \/ CopyChunk
           \/ (\E c \in Codes : WebsocketEnds(c)) \/ UNCHANGED vars
  <2>1. UNCHANGED <<pc, session, cancelPing, succeeded, failure>>
    BY <1>4 DEF ReceiveEnd, RetryStarts, RetryFires, ParentCancel, TransportCloses, CopyChunk,
                WebsocketEnds, RetryFrame, EnvFrame, FireFrame, vars, connVars, pingVars, resultVars
  <2>2. QED
    BY <1>2, <2>1
<1>5. CASE ReceiveChunk \/ PipeRefuses \/ TargetReads \/ ReadEnd
  <2>1. UNCHANGED <<session, cancelPing, succeeded, failure>>
    BY <1>5 DEF ReceiveChunk, PipeRefuses, TargetReads, ReadEnd, ReaderFrame, EnvFrame, connVars, pingVars,
                resultVars
  <2>2. /\ ~Crashed /\ pc'["fire"] = pc["fire"] /\ pc'["ping"] = pc["ping"]
        /\ pc["reader"] \in {"reading", "writing"} /\ pc'["reader"] # "crashed"
    BY <1>5 DEF ReceiveChunk, PipeRefuses, TargetReads, ReadEnd, ReadFrame
  <2>3. CrashNeedsEndOrBadDest'
    BY <1>0, <2>2, ReaderAlive
  <2>4. session /\ cancelPing
    BY <1>1, <2>2 DEF Cleaned, PastPing
  <2>5. QED
    BY <1>1, <2>1, <2>2, <2>3, <2>4 DEF CrashInv, CauseInv
<1>6. CASE CloseClean \/ ErrorClean
  <2>1. UNCHANGED <<cancelPing, succeeded, failure>> /\ session' = FALSE
    BY <1>6 DEF CloseClean, ErrorClean, clean, ReaderFrame, pingVars
  <2>2. /\ ~Crashed /\ pc'["fire"] = pc["fire"] /\ pc'["ping"] = pc["ping"]
        /\ \/ pc["reader"] = "clean" /\ pc'["reader"] = "closeCancel"
           \/ pc["reader"] = "errorClean" /\ pc'["reader"] = "ended"
    BY <1>6 DEF CloseClean, ErrorClean
  <2>3. CrashNeedsEndOrBadDest'
    BY <1>0, <2>2, ReaderAlive
  <2>4. QED
    BY <1>1, <2>1, <2>2, <2>3 DEF CrashInv, CauseInv, Cleaned, PastPing
<1>7. CASE Cancel
  <2>1. UNCHANGED <<session, succeeded, failure>>
    BY <1>7 DEF Cancel, ReaderFrame, connVars
  <2>2. /\ ~Crashed /\ pc'["fire"] = pc["fire"] /\ pc'["ping"] = pc["ping"]
        /\ \/ pc["reader"] = "closeCancel" /\ pc'["reader"] = "closeReplace"
           \/ pc["reader"] = "errorCancel" /\ pc'["reader"] = "errorReplace"
    BY <1>7 DEF Cancel
  <2>3. CrashNeedsEndOrBadDest'
    BY <1>0, <2>2, ReaderAlive
  <2>4. QED
    BY <1>1, <2>1, <2>2, <2>3 DEF CrashInv, CauseInv, Cleaned, PastPing
<1>8. CASE CloseReplace \/ CloseAbort \/ ErrorReplace
  <2>1. UNCHANGED <<session, cancelPing, succeeded>> /\ (failure' = "none" => failure = "none")
    BY <1>8 DEF CloseReplace, CloseAbort, ErrorReplace, ReaderFrame, connVars, pingVars
  <2>2. /\ ~Crashed /\ pc'["fire"] = pc["fire"] /\ pc'["ping"] = pc["ping"]
        /\ \/ pc["reader"] = "closeReplace" /\ pc'["reader"] = "closeAbort"
           \/ pc["reader"] = "closeAbort" /\ pc'["reader"] = "ended"
           \/ pc["reader"] = "errorReplace" /\ pc'["reader"] \in {"ended", "errorClean"}
    BY <1>8 DEF CloseReplace, CloseAbort, ErrorReplace
  <2>3. CrashNeedsEndOrBadDest'
    BY <1>0, <2>2, ReaderAlive
  <2>4. QED
    BY <1>1, <2>1, <2>2, <2>3 DEF CrashInv, CauseInv, Cleaned, PastPing
<1>9. CASE TargetAnswers \/ TestSession \/ PingTest \/ PingStops \/ PingTimer
  <2>1. UNCHANGED <<session, cancelPing, succeeded, failure>>
    BY <1>9 DEF TargetAnswers, TestSession, PingTest, PingStops, PingTimer, FireFrame, CallbackFrame, PingFrame,
                connVars, pingVars, resultVars
  <2>2. /\ ~Crashed /\ pc'["reader"] = pc["reader"] /\ (pc'["fire"] = pc["fire"] \/ pc'["fire"] \in {"answered", "useSession", "ended"})
        /\ (pc'["ping"] = pc["ping"] \/ pc'["ping"] \in {"select", "write", "ended"})
    BY <1>9 DEF TargetAnswers, TestSession, PingTest, PingStops, PingTimer
  <2>3. QED
    BY <1>0, <1>2, <2>1, <2>2
<1>10. CASE TargetFails \/ CheckAborted \/ CopyFails \/ CopyEnds
  <2>1. UNCHANGED <<session, cancelPing>>
    BY <1>10 DEF TargetFails, CheckAborted, CopyFails, CopyEnds, FireFrame, connVars
  <2>2. /\ ~Crashed /\ pc'["reader"] = pc["reader"] /\ pc'["ping"] = pc["ping"] /\ pc'["fire"] \in {"callback", "begin"}
        /\ pc'["fire"] = "callback" => failure' # "none" \/ succeeded'
    BY <1>10 DEF TargetFails, CheckAborted, CopyFails, CopyEnds, resultVars
  <2>3. CrashNeedsEndOrBadDest'
    BY <1>0, <1>1, <2>2, NoCrash
  <2>4. QED
    BY <1>1, <2>1, <2>2, <2>3 DEF CrashInv, CauseInv
<1>11. CASE BeginResponse
  <2>1. UNCHANGED <<session, cancelPing, succeeded, failure>>
    BY <1>11 DEF BeginResponse, FireFrame, connVars, resultVars
  <2>2. /\ ~Crashed /\ pc'["reader"] = pc["reader"] /\ pc'["ping"] = pc["ping"] /\ pc'["fire"] \in {"callback", "copy"}
        /\ pc'["fire"] = "callback" => ~session
    BY <1>11 DEF BeginResponse
  <2>3. CrashNeedsEndOrBadDest'
    BY <1>0, <1>1, <2>2, NoCrash
  <2>4. QED
    BY <1>1, <2>1, <2>2, <2>3 DEF CrashInv, CauseInv
<1>12. CASE Callback
  <2>1. UNCHANGED <<session, cancelPing, succeeded, failure>>
    BY <1>12 DEF Callback, CallbackFrame, connVars
  <2>2. /\ ~Crashed /\ pc'["reader"] = pc["reader"] /\ pc'["ping"] = pc["ping"]
        /\ pc["fire"] = "callback" /\ pc'["fire"] \in {"useCancel", "useResult"}
    BY <1>12 DEF Callback
  <2>3. QED
    BY <1>0, <1>2, <2>1, <2>2
<1>13. CASE UseCancelPing
  <2>1. UNCHANGED <<session, cancelPing, succeeded, failure>>
    BY <1>13 DEF UseCancelPing, CallbackFrame, connVars
  <2>2. /\ ~Crashed /\ pc'["reader"] = pc["reader"] /\ pc'["ping"] = pc["ping"] /\ pc["fire"] = "useCancel"
        /\ (pc'["fire"] = "useResult" \/ (pc'["fire"] = "crashed" /\ ~cancelPing))
    BY <1>13 DEF UseCancelPing
  <2>3. CASE pc'["fire"] = "useResult"
    BY <1>0, <1>2, <2>1, <2>2, <2>3
  <2>4. CASE pc'["fire"] = "crashed" /\ ~cancelPing
    <3>1. CrashNeedsEndOrBadDest'
      BY <2>2, <2>4, ClearedUsed
    <3>2. QED
      BY <1>1, <2>1, <2>2, <2>4, <3>1 DEF CrashInv, CauseInv
  <2>5. QED
    BY <2>2, <2>3, <2>4
<1>14. CASE UseResult
  <2>1. UNCHANGED <<session, cancelPing, succeeded, failure>>
    BY <1>14 DEF UseResult, CallbackFrame, connVars
  <2>2. /\ ~Crashed /\ pc'["reader"] = pc["reader"] /\ pc'["ping"] = pc["ping"] /\ pc["fire"] = "useResult"
        /\ (pc'["fire"] = "testSession" \/ (pc'["fire"] = "crashed" /\ ~succeeded /\ failure = "none"))
    BY <1>14 DEF UseResult
  <2>3. CASE pc'["fire"] = "testSession"
    BY <1>0, <1>2, <2>1, <2>2, <2>3
  <2>4. CASE pc'["fire"] = "crashed" /\ ~succeeded /\ failure = "none"
    <3>1. ~session
      BY <1>1, <2>2, <2>4 DEF CauseInv
    <3>2. CrashNeedsEndOrBadDest'
      BY <2>2, <3>1, ClearedUsed
    <3>3. QED
      BY <1>1, <2>1, <2>2, <2>4, <3>2 DEF CrashInv, CauseInv
  <2>5. QED
    BY <2>2, <2>3, <2>4
<1>15. CASE UseSession \/ Ping
  <2>1. UNCHANGED <<session, cancelPing, succeeded, failure>>
    BY <1>15 DEF UseSession, Ping, CallbackFrame, PingFrame, connVars, pingVars, resultVars
  <2>2. /\ ~Crashed /\ pc'["reader"] = pc["reader"]
        /\ (pc'["fire"] = pc["fire"] \/ pc'["fire"] \in {"crashed", "ended"})
        /\ (pc'["fire"] = "crashed" => pc["fire"] = "crashed" \/ ~session)
        /\ (pc'["ping"] = "crashed" => pc["ping"] = "crashed" \/ ~session)
    BY <1>15 DEF UseSession, Ping
  <2>3. CASE session
    BY <1>0, <1>2, <2>1, <2>2, <2>3
  <2>4. CASE ~session
    <3>1. CrashNeedsEndOrBadDest'
      BY <2>2, <2>4, ClearedUsed
    <3>2. QED
      BY <1>1, <2>1, <2>2, <2>4, <3>1 DEF CrashInv, CauseInv
  <2>5. QED
    BY <2>3, <2>4
<1>16. CASE ReceiveBadDest
  <2>1. CrashNeedsEndOrBadDest'
    BY <1>16, BadDest DEF CrashNeedsEndOrBadDest, Crashed, Goroutines
  <2>2. session /\ cancelPing
    BY <1>1, <1>16, BadDest DEF Cleaned, PastPing
  <2>3. QED
    BY <1>1, <1>16, <2>1, <2>2, BadDest DEF CrashInv, CauseInv
<1>17. QED
  BY <1>3, <1>4, <1>5, <1>6, <1>7, <1>8, <1>9, <1>10, <1>11, <1>12, <1>13, <1>14, <1>15, <1>16
     DEF Next, ReaderNext, FireNext

(* A step that leaves the result and what was written alone.               *)
LEMMA ResultAside ==
  ASSUME ResultInv, UNCHANGED <<succeeded, answer, headSent, writeErr, sentClose>>,
         pc'["fire"] = pc["fire"]
  PROVE  ResultInv'
  BY DEF ResultInv

(* A request that succeeded was answered whole, as far as writes went well. *)
LEMMA ResultStep ==
  ASSUME SocketInv, [Next]_vars
  PROVE  ResultInv'
<1> USE GotoTyped DEF SocketInv, ReaderSteps, FireSteps, PingSteps, At
<1>1. ASSUME NEW f \in {"head", "headOnly"}, ReceiveHead(f)
      PROVE  ResultInv'
  <2>1. UNCHANGED <<succeeded, answer, headSent, writeErr, sentClose>>
    BY <1>1 DEF ReceiveHead, resultVars, replyVars
  <2>2. pc["fire"] = "off" /\ pc'["fire"] = "calling"
    BY <1>1, HeadFirst DEF ReceiveHead
  <2>3. QED
    BY <2>1, <2>2 DEF ResultInv
<1>2. CASE ReceiveEnd \/ ReceiveChunk \/ PipeRefuses \/ ReadEnd \/ CloseClean \/ Cancel \/ CloseReplace
           \/ CloseAbort \/ ErrorReplace \/ ErrorClean \/ RetryStarts \/ RetryFires \/ PingTest
           \/ PingStops \/ PingTimer \/ Ping \/ (\E c \in Codes : WebsocketEnds(c)) \/ ParentCancel
           \/ TargetReads \/ TransportCloses \/ UNCHANGED vars
  <2>1. UNCHANGED <<succeeded, answer, headSent, writeErr, sentClose>>
    BY <1>2 DEF ReceiveEnd, ReceiveChunk, PipeRefuses, ReadEnd, CloseClean, Cancel, CloseReplace,
                CloseAbort, ErrorReplace, ErrorClean, RetryStarts, RetryFires, PingTest, PingStops,
                PingTimer, Ping, WebsocketEnds, ParentCancel, TargetReads, TransportCloses,
                ReaderFrame, RetryFrame, PingFrame, EnvFrame, vars, resultVars, replyVars
  <2>2. pc'["fire"] = pc["fire"]
    BY <1>2 DEF ReceiveEnd, ReceiveChunk, PipeRefuses, ReadEnd, CloseClean, Cancel, CloseReplace,
                CloseAbort, ErrorReplace, ErrorClean, RetryStarts, RetryFires, PingTest, PingStops,
                PingTimer, Ping, WebsocketEnds, ParentCancel, TargetReads, TransportCloses,
                RetryFrame, vars
  <2>3. QED
    BY <2>1, <2>2, ResultAside
<1>3. CASE TargetAnswers
  <2>1. UNCHANGED <<succeeded, headSent, writeErr, sentClose>>
    BY <1>3 DEF TargetAnswers, resultVars
  <2>2. pc["fire"] = "calling" /\ pc'["fire"] = "answered"
    BY <1>3 DEF TargetAnswers
  <2>3. answer' \in [chunks : 0..MaxReplies, broken : BOOLEAN]
    BY <1>3 DEF TargetAnswers
  <2>4. QED
    BY <2>1, <2>2, <2>3 DEF ResultInv
<1>4. CASE TargetFails \/ CheckAborted
  <2>1. UNCHANGED <<succeeded, answer, headSent, writeErr, sentClose>>
    BY <1>4 DEF TargetFails, CheckAborted, resultVars, replyVars
  <2>2. pc["fire"] \in {"calling", "answered"} /\ pc'["fire"] \in {"begin", "callback"}
    BY <1>4 DEF TargetFails, CheckAborted
  <2>3. QED
    BY <2>1, <2>2 DEF ResultInv
<1>5. CASE BeginResponse
  <2>1. UNCHANGED <<succeeded, answer, sentClose>>
    BY <1>5 DEF BeginResponse, resultVars
  <2>2. pc["fire"] = "begin" /\ pc'["fire"] \in {"copy", "callback"}
    BY <1>5 DEF BeginResponse
  <2>3. /\ pc'["fire"] = "copy" => headSent' \/ writeErr'
        /\ headSent => headSent'
    BY <1>5 DEF BeginResponse, WriteOk, WriteBad
  <2>4. QED
    BY <2>1, <2>2, <2>3 DEF ResultInv
<1>6. CASE CopyChunk
  <2>1. UNCHANGED <<pc, succeeded, headSent, writeErr, sentClose>>
    BY <1>6 DEF CopyChunk, WriteOk, resultVars
  <2>2. pc["fire"] = "copy" /\ answer.chunks > 0 /\ answer' = [answer EXCEPT !.chunks = @ - 1]
    BY <1>6 DEF CopyChunk
  <2>3. answer' \in [chunks : 0..MaxReplies, broken : BOOLEAN]
    BY <2>2, BoundsAssumption DEF ResultInv
  <2>4. QED
    BY <2>1, <2>2, <2>3 DEF ResultInv
<1>7. CASE CopyFails
  <2>1. UNCHANGED <<succeeded, answer, headSent, sentClose>>
    BY <1>7 DEF CopyFails
  <2>2. pc["fire"] = "copy" /\ pc'["fire"] = "callback"
    BY <1>7 DEF CopyFails
  <2>3. QED
    BY <2>1, <2>2 DEF ResultInv
<1>8. CASE CopyEnds
  <2>1. UNCHANGED <<answer, headSent, writeErr, sentClose>>
    BY <1>8 DEF CopyEnds, replyVars
  <2>2. pc["fire"] = "copy" /\ pc'["fire"] = "callback"
    BY <1>8 DEF CopyEnds
  <2>3. succeeded' => answer.chunks = 0 /\ ~answer.broken
    BY <1>8, <2>2 DEF CopyEnds, ResultInv
  <2>4. succeeded' => answer = NoAnswer
    BY <2>3 DEF ResultInv, NoAnswer
  <2>5. ~succeeded
    BY <2>2 DEF ResultInv
  <2>6. QED
    BY <2>1, <2>2, <2>4, <2>5 DEF ResultInv
<1>9. CASE Callback \/ UseCancelPing \/ UseResult \/ TestSession
  <2>1. UNCHANGED <<succeeded, answer, headSent, writeErr, sentClose>>
    BY <1>9 DEF Callback, UseCancelPing, UseResult, TestSession, CallbackFrame
  <2>2. /\ pc["fire"] \in {"callback", "useCancel", "useResult", "testSession"}
        /\ pc'["fire"] \in {"useCancel", "useResult", "testSession", "useSession", "ended", "crashed"}
    BY <1>9 DEF Callback, UseCancelPing, UseResult, TestSession
  <2>3. QED
    BY <2>1, <2>2 DEF ResultInv
<1>10. CASE UseSession
  <2>1. UNCHANGED <<succeeded, answer, headSent>>
    BY <1>10 DEF UseSession, CallbackFrame
  <2>2. pc["fire"] = "useSession" /\ pc'["fire"] \in {"ended", "crashed"}
    BY <1>10 DEF UseSession
  <2>3. /\ writeErr => writeErr'
        /\ sentClose' = "1000" /\ sentClose # "1000" => succeeded /\ ~writeErr
    BY <1>10 DEF UseSession, WriteOk, WriteBad
  <2>4. QED
    BY <2>1, <2>2, <2>3 DEF ResultInv
<1>11. CASE ReceiveBadDest
  BY <1>11, BadDest, ResultAside
<1>12. QED
  BY <1>1, <1>2, <1>3, <1>4, <1>5, <1>6, <1>7, <1>8, <1>9, <1>10, <1>11 DEF Next, ReaderNext, FireNext

-----------------------------------------------------------------------------
(* The other fields have the type TypeOK gives them.                       *)

FlagsTyped ==
    /\ session \in BOOLEAN /\ connOpen \in BOOLEAN /\ writeErr \in BOOLEAN
    /\ cancelPing \in BOOLEAN /\ cancelled \in BOOLEAN /\ parentDone \in BOOLEAN
    /\ newSocketAdded \in BOOLEAN
    /\ succeeded \in BOOLEAN /\ requestComplete \in BOOLEAN /\ headSent \in BOOLEAN

WordsTyped ==
    /\ closeCode \in {"open", "error", "1000", "1006", "1011"}
    /\ retry \in {"no", "started", "timer", "done"}
    /\ pipe \in {"none", "open", "ended", "closed"}
    /\ failure \in {"none", "cancel", "other"}
    /\ sentClose \in {"none", "1000", "1011"}

(* A step keeps the flags Boolean.                                         *)
LEMMA FlagsStep ==
  ASSUME FlagsTyped, [Next]_vars
  PROVE  FlagsTyped'
<1> USE DEF connVars, pingVars, replaceVars, resultVars, replyVars, worldVars
<1>1. CASE \E f \in {"head", "headOnly"} : ReceiveHead(f)
  BY <1>1 DEF FlagsTyped, ReceiveHead, ReadFrame
<1>2. CASE ReceiveEnd \/ ReceiveChunk
  BY <1>2 DEF FlagsTyped, ReceiveEnd, ReceiveChunk, ReadFrame
<1>3. CASE PipeRefuses \/ ReadEnd
  BY <1>3 DEF FlagsTyped, PipeRefuses, ReadEnd, ReaderFrame
<1>4. CASE CloseClean \/ ErrorClean
  BY <1>4 DEF FlagsTyped, CloseClean, ErrorClean, clean, ReaderFrame
<1>5. CASE Cancel \/ CloseReplace
  BY <1>5 DEF FlagsTyped, Cancel, CloseReplace, ReaderFrame
<1>6. CASE CloseAbort \/ ErrorReplace
  BY <1>6 DEF FlagsTyped, CloseAbort, ErrorReplace, ReaderFrame
<1>7. CASE RetryStarts \/ RetryFires
  <2>1. newSocketAdded' = newSocketAdded \/ newSocketAdded' = TRUE
    BY <1>7 DEF RetryStarts, RetryFires
  <2>2. UNCHANGED <<session, connOpen, writeErr, cancelPing, cancelled, parentDone,
                    succeeded, requestComplete, headSent>>
    BY <1>7 DEF RetryStarts, RetryFires, RetryFrame
  <2>3. QED
    BY <2>1, <2>2 DEF FlagsTyped
<1>8. CASE TargetAnswers \/ TargetFails \/ CheckAborted
  BY <1>8 DEF FlagsTyped, TargetAnswers, TargetFails, CheckAborted, FireFrame
<1>9. CASE BeginResponse
  BY <1>9 DEF FlagsTyped, BeginResponse, WriteOk, WriteBad, FireFrame
<1>10. CASE CopyChunk \/ CopyFails
  BY <1>10 DEF FlagsTyped, CopyChunk, CopyFails, WriteOk, WriteBad, FireFrame
<1>11. CASE CopyEnds
  BY <1>11 DEF FlagsTyped, CopyEnds, FireFrame
<1>12. CASE Callback \/ TestSession
  BY <1>12 DEF FlagsTyped, Callback, TestSession, CallbackFrame
<1>13. CASE UseCancelPing
  BY <1>13 DEF FlagsTyped, UseCancelPing, CallbackFrame
<1>14. CASE UseResult
  BY <1>14 DEF FlagsTyped, UseResult, CallbackFrame
<1>15. CASE UseSession
  BY <1>15 DEF FlagsTyped, UseSession, WriteOk, WriteBad, CallbackFrame
<1>16. CASE PingTest \/ PingStops \/ PingTimer \/ Ping
  BY <1>16 DEF FlagsTyped, PingTest, PingStops, PingTimer, Ping, PingFrame
<1>17. CASE (\E c \in Codes : WebsocketEnds(c)) \/ ParentCancel
  <2>1. ASSUME NEW c \in Codes, WebsocketEnds(c)
        PROVE  FlagsTyped'
    BY <2>1 DEF FlagsTyped, WebsocketEnds, EnvFrame
  <2>2. CASE ParentCancel
    BY <2>2 DEF FlagsTyped, ParentCancel, EnvFrame
  <2>3. QED
    BY <1>17, <2>1, <2>2
<1>18. CASE TargetReads \/ TransportCloses
  BY <1>18 DEF FlagsTyped, TargetReads, TransportCloses, EnvFrame
<1>19. CASE UNCHANGED vars
  BY <1>19 DEF FlagsTyped, vars
<1>20. CASE ReceiveBadDest
  BY <1>20 DEF FlagsTyped, ReceiveBadDest
<1>21. QED
  BY <1>1, <1>2, <1>3, <1>4, <1>5, <1>6, <1>7, <1>8, <1>9, <1>10, <1>11, <1>12, <1>13, <1>14, <1>15, <1>16,
     <1>17, <1>18, <1>19, <1>20
     DEF Next, ReaderNext, FireNext

(* A step keeps the other fields among their values.                       *)
LEMMA WordsStep ==
  ASSUME WordsTyped, [Next]_vars
  PROVE  WordsTyped'
<1> USE DEF connVars, pingVars, replaceVars, resultVars, replyVars, worldVars
<1>1. CASE ReaderNext
  BY <1>1 DEF WordsTyped, ReaderNext, ReceiveHead, ReceiveBadDest, ReceiveEnd, ReceiveChunk, PipeRefuses, ReadEnd,
              CloseClean, Cancel, CloseReplace, CloseAbort, ErrorReplace, ErrorClean, ReaderFrame
<1>2. CASE FireNext \/ TargetAnswers \/ TargetFails
  BY <1>2 DEF WordsTyped, FireNext, TargetAnswers, TargetFails, CheckAborted, BeginResponse, CopyChunk,
              CopyFails, CopyEnds, Callback, UseCancelPing, UseResult, TestSession, UseSession,
              FireFrame, CallbackFrame
<1>3. CASE RetryStarts \/ RetryFires \/ PingTest \/ PingStops \/ PingTimer \/ Ping
           \/ (\E c \in Codes : WebsocketEnds(c)) \/ ParentCancel \/ TargetReads \/ TransportCloses
  BY <1>3 DEF WordsTyped, RetryStarts, RetryFires, PingTest, PingStops, PingTimer, Ping, WebsocketEnds,
              ParentCancel, TargetReads, TransportCloses, RetryFrame, PingFrame, EnvFrame, Codes
<1>4. CASE UNCHANGED vars
  BY <1>4 DEF WordsTyped, vars
<1>5. QED
  BY <1>1, <1>2, <1>3, <1>4 DEF Next

-----------------------------------------------------------------------------
(* The theorems.                                                           *)

(* The invariants hold at first.                                           *)
LEMMA SocketInit ==
  ASSUME Init
  PROVE  SocketInv /\ FlagsTyped /\ WordsTyped
<1>1. PcTyped /\ pc["reader"] = "reading" /\ pc["fire"] = "off" /\ pc["ping"] = "test"
  BY DEF Init, PcTyped, Goroutines, ReaderSteps, FireSteps, PingSteps
<1>2. FramesInv
  BY <1>1, FramesRest DEF Init, FramesInv
<1>3. CountInv /\ ReplaceInv
  BY <1>1 DEF Init, CountInv, ReplaceInv
<1>4. CrashInv
  BY <1>1 DEF Init, CrashInv, CauseInv, CrashNeedsEndOrBadDest, Crashed, Goroutines
<1>5. ResultInv
  BY <1>1, BoundsAssumption DEF Init, ResultInv, NoAnswer
<1>6. FlagsTyped /\ WordsTyped
  BY DEF Init, FlagsTyped, WordsTyped
<1>7. QED
  BY <1>1, <1>2, <1>3, <1>4, <1>5, <1>6 DEF SocketInv

(* They hold always.                                                       *)
THEOREM SocketInvariant == Spec => [](SocketInv /\ FlagsTyped /\ WordsTyped)
<1>1. Init => SocketInv /\ FlagsTyped /\ WordsTyped
  BY SocketInit
<1>2. SocketInv /\ FlagsTyped /\ WordsTyped /\ [Next]_vars
        => (SocketInv /\ FlagsTyped /\ WordsTyped)'
  BY FlowStep, ReplaceStep, CrashStep, ResultStep, FlagsStep, WordsStep DEF SocketInv
<1>3. QED
  BY <1>1, <1>2, PTL DEF Spec

(* The program counters, the flags, the frames and the answer have the     *)
(* types the code gives them: a request is counted at most once, and a     *)
(* websocket replaced at most once.                                        *)
THEOREM TypeCorrect == Spec => []TypeOK
<1>1. FramesInv => incoming \in Seq({"head", "headOnly", "chunk", "end"})
  <2>1. <<>> \in Seq({"head", "headOnly", "chunk", "end"})
    OBVIOUS
  <2>2. Seq({"chunk", "end"}) \subseteq Seq({"head", "headOnly", "chunk", "end"})
    BY SeqMonotonic
  <2>3. QED
    BY <2>1, <2>2 DEF FramesInv, Rest
<1>2. SocketInv /\ FlagsTyped => replaced \in 0..1 /\ requestNum \in 0..1
  BY DEF SocketInv, FlagsTyped, ReplaceInv, CountInv
<1>3. SocketInv /\ FlagsTyped /\ WordsTyped => TypeOK
  BY <1>1, <1>2 DEF TypeOK, SocketInv, PcTyped, FlagsTyped, WordsTyped, ResultInv
<1>4. QED
  BY <1>3, SocketInvariant, PTL

(* The callback and the ping task lose a field only to a reader that       *)
(* handles the end of the websocket: no failure of the target, and no      *)
(* write that fails, ends the process.  The reader's own panic is over a   *)
(* destination that does not parse, before anything is fired.              *)
THEOREM CrashOnlyAtEndOrBadDest == Spec => []CrashNeedsEndOrBadDest
<1>1. SocketInv => CrashNeedsEndOrBadDest
  BY DEF SocketInv, CrashInv
<1>2. QED
  BY <1>1, SocketInvariant, PTL

(* The code 1000 is written after the head and the whole body, for answers *)
(* of any length.                                                          *)
THEOREM NormalCloseWhole == Spec => []NormalCloseIsWhole
<1>1. SocketInv => NormalCloseIsWhole
  BY DEF SocketInv, ResultInv, NormalCloseIsWhole
<1>2. QED
  BY <1>1, SocketInvariant, PTL

(* The request, the close and the retry replace the websocket once between *)
(* them.                                                                   *)
THEOREM ReplacedOnlyOnce == Spec => []ReplacedOnce
<1>1. SocketInv /\ FlagsTyped => ReplacedOnce
  BY DEF SocketInv, FlagsTyped, ReplaceInv, ReplacedOnce
<1>2. QED
  BY <1>1, SocketInvariant, PTL

(* The reader leaves no connection open, but that of an error on a         *)
(* websocket that brought a request.                                       *)
THEOREM ConnectionIsReleased == Spec => []ConnectionReleased
<1>1. SocketInv => ConnectionReleased
  BY DEF SocketInv, ReplaceInv, ConnectionReleased
<1>2. QED
  BY <1>1, SocketInvariant, PTL
=============================================================================
