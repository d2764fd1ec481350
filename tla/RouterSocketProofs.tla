-------------------------- MODULE RouterSocketProofs --------------------------
(***************************************************************************)
(* Proofs about RouterSocket, for request and response bodies of any       *)
(* length: the steps of the two goroutines interleaved at every shared     *)
(* field.                                                                  *)
(***************************************************************************)
EXTENDS RouterSocket, TLAPS

-----------------------------------------------------------------------------
(* The invariants, by what they are about.                                 *)

Early   == {"acquire", "setWriter", "setDone"}
Unsent  == Early \cup {"sendHead"}
Doing   == {"doneCheck", "doneCall", "doneNil"}
InReply == {"1000", "1008", "1011"}

PcTyped ==
    /\ pc \in [Goroutines -> ProxySteps \cup ReaderSteps]
    /\ pc["proxy"] \in ProxySteps /\ pc["reader"] \in ReaderSteps
    /\ op \in [Goroutines -> {"none", "close", "binary", "error"}]

\* which handler a goroutine is in
OpInv ==
    /\ pc["proxy"] \in SharedSteps => op["proxy"] = "error"
    /\ pc["proxy"] \in SharedSteps \cup {"aborted"} => proxyFailed
    /\ pc["proxy"] \in Unsent \cup {"body", "sendEnd"} => ~proxyFailed
    /\ pc["reader"] \in Doing => op["reader"] # "none"
    /\ pc["reader"] \in {"closeStatus", "closeRemove"} => op["reader"] = "close"
    /\ pc["reader"] = "reading" => op["reader"] \in {"none", "binary"}
    /\ pc["reader"] = "ended" => op["reader"] \in {"close", "error"}
    /\ pc["reader"] \in {"badCheck", "badRemove", "errStatus"} => op["reader"] = "error"
    /\ pc["reader"] \in {"shutCheck", "shutUse"} => op["reader"] \in {"binary", "error"}
    /\ op["reader"] = "error" => closeCode = "error"
    /\ op["reader"] = "close" => closeCode \in Codes

\* how often Done has been called
DoneInv ==
    /\ pc["proxy"] \in Early => wg = 1 /\ ~handleDone
    /\ \/ wg = 1
       \/ wg = 0 /\ (~handleDone \/ pc["proxy"] = "doneNil" \/ pc["reader"] = "doneNil")
       \/ wg = -1 /\ pc["reader"] = "crashed"
       \/ wg = -1 /\ pc["proxy"] = "aborted" /\ (~handleDone \/ pc["reader"] = "doneNil")

\* what has been sent, and what may have come back
FlowInv ==
    /\ pc["proxy"] \in {"acquire", "setWriter"} => ~respWriter
    /\ pc["proxy"] \notin {"acquire", "setWriter", "returned"} => respWriter
    /\ pc["proxy"] = "returned" => IF respWriter THEN wg <= 0 ELSE status # "none"
    /\ pc["proxy"] \in Unsent => sent = "nothing"
    /\ sent # "nothing" => respWriter
    /\ gotHead => sent # "nothing" /\ status # "none"
    /\ closeCode \in InReply => sent # "nothing"
    /\ op["reader"] = "binary" => gotHead
    /\ pc["reader"] = "closeStatus" /\ closeCode = "1000" => gotHead
    /\ op["reader"] = "close" => ~session

\* while the proxy has met no error, only the reader clears the fields
QuietInv ==
    ~proxyFailed =>
        /\ wg # -1
        /\ pc["reader"] = "crashed" => lateWrite
        /\ pc["reader"] = "shutUse" => session
        /\ pc["reader"] = "doneCall" => handleDone /\ wg = 1
        /\ handleDone /\ pc["reader"] # "doneNil" => wg = 1
        /\ pc["reader"] \in {"badRemove", "errStatus"} => ~session
        /\ isRemoved => \/ pc["reader"] \in {"ended", "errStatus", "crashed"}
                        \/ pc["reader"] \in Doing /\ op["reader"] = "error"

\* a status has been written, or the proxy is going to meet an error
Answered == status # "none" \/ closeCode = "1006" \/ (~session /\ pc["proxy"] \in Unsent)

AnswerInv ==
    /\ pc["proxy"] \in Doing => status # "none"
    /\ proxyFailed /\ pc["proxy"] \in {"wait", "returned"} => status # "none"
    /\ ~proxyFailed /\ (pc["reader"] \in {"doneCheck", "doneCall"} \/ wg <= 0) => Answered
    /\ StatusBeforeReturn

\* the reader has counted the request as ended
Closed == op["reader"] = "close" /\ pc["reader"] # "closeStatus"

CountInv ==
    /\ requestNum \in 0..1
    /\ respWriter /\ ~Closed => requestNum = 1
    /\ ~respWriter => requestNum = 0
    /\ ~proxyFailed /\ Closed => requestNum = 0 \/ (~session /\ pc["proxy"] \in {"setDone", "sendHead"})

\* a Handle that is released has nothing more coming
LateInv ==
    ~clientGone /\ ~proxyFailed =>
        /\ ~lateWrite
        /\ op["reader"] # "binary"
        /\ wg = 0 => pc["reader"] \in {"doneNil", "closeRemove", "ended"}

SocketInv == PcTyped /\ OpInv /\ DoneInv /\ FlowInv /\ QuietInv /\ AnswerInv /\ CountInv /\ LateInv

-----------------------------------------------------------------------------
(* Where a goroutine goes, and that the other stays where it is.           *)

LEMMA GotoTyped ==
  ASSUME PcTyped
  PROVE  /\ \A l \in ReaderSteps : Goto("reader", l) =>
               PcTyped' /\ pc'["reader"] = l /\ pc'["proxy"] = pc["proxy"] /\ op' = op
         /\ \A l \in ProxySteps : Goto("proxy", l) =>
               PcTyped' /\ pc'["proxy"] = l /\ pc'["reader"] = pc["reader"] /\ op' = op
  BY DEF PcTyped, Goto, Goroutines

LEMMA BeginTyped ==
  ASSUME PcTyped, NEW m \in {"none", "close", "binary", "error"}
  PROVE  /\ \A l \in ReaderSteps : Begin("reader", m, l) =>
               /\ PcTyped' /\ pc'["reader"] = l /\ pc'["proxy"] = pc["proxy"]
               /\ op'["reader"] = m /\ op'["proxy"] = op["proxy"]
         /\ \A l \in ProxySteps : Begin("proxy", m, l) =>
               /\ PcTyped' /\ pc'["proxy"] = l /\ pc'["reader"] = pc["reader"]
               /\ op'["proxy"] = m /\ op'["reader"] = op["reader"]
  BY DEF PcTyped, Begin, Goroutines

(* The steps of a goroutine that leave the program counters alone.         *)
LEMMA StillSteps ==
  ASSUME OfferStores \/ ClientLeaves \/ OnWebsocketText \/ OnWebsocketBinary \/ UNCHANGED vars
         \/ \E c \in Codes \cup {"error"} : WebsocketEnds(c)
  PROVE  UNCHANGED <<pc, op, handleDone, wg, respWriter, session, isRemoved, requestNum,
                     sent, chunks, proxyFailed>>
  BY DEF OfferStores, ClientLeaves, OnWebsocketText, OnWebsocketBinary, BinaryArrives, WebsocketEnds,
         vars, ReaderFrame, doneVars, farmVars, sendVars, readVars, respVars

(* Where the steps of the proxy go.                                        *)
LEMMA ProxyMoves ==
  ASSUME PcTyped
  PROVE  /\ Acquire => PcTyped' /\ pc["proxy"] = "acquire" /\ pc'["proxy"] = "setWriter"
                        /\ pc'["reader"] = pc["reader"] /\ op' = op
         /\ AcquireTimeout => PcTyped' /\ pc["proxy"] = "acquire" /\ pc'["proxy"] = "returned"
                        /\ pc'["reader"] = pc["reader"] /\ op' = op
         /\ SetWriter => PcTyped' /\ pc["proxy"] = "setWriter" /\ pc'["proxy"] = "setDone"
                        /\ pc'["reader"] = pc["reader"] /\ op' = op
         /\ SetDone => PcTyped' /\ pc["proxy"] = "setDone" /\ pc'["proxy"] = "sendHead"
                        /\ pc'["reader"] = pc["reader"] /\ op' = op
         /\ SendHead => PcTyped' /\ pc["proxy"] = "sendHead" /\ pc'["proxy"] \in {"wait", "body"}
                        /\ pc'["reader"] = pc["reader"] /\ op' = op
         /\ SendChunk \/ BodyEnds =>
                PcTyped' /\ pc["proxy"] = "body" /\ pc'["proxy"] \in {"body", "sendEnd"}
                        /\ pc'["reader"] = pc["reader"] /\ op' = op
         /\ SendEnd \/ SendChunkFailsSilently =>
                PcTyped' /\ pc["proxy"] \in {"body", "sendEnd"} /\ pc'["proxy"] = "wait"
                        /\ pc'["reader"] = pc["reader"] /\ op' = op
         /\ SendFails => PcTyped' /\ pc["proxy"] \in {"sendHead", "body", "sendEnd"}
                        /\ pc'["proxy"] = "badCheck" /\ pc'["reader"] = pc["reader"]
                        /\ op'["proxy"] = "error" /\ op'["reader"] = op["reader"]
         /\ Return => PcTyped' /\ pc["proxy"] = "wait" /\ pc'["proxy"] = "returned"
                        /\ pc'["reader"] = pc["reader"] /\ op' = op
<1> USE DEF ProxySteps, SharedSteps
<1>1. /\ Acquire => Goto("proxy", "setWriter") /\ pc["proxy"] = "acquire"
      /\ AcquireTimeout => Goto("proxy", "returned") /\ pc["proxy"] = "acquire"
      /\ SetWriter => Goto("proxy", "setDone") /\ pc["proxy"] = "setWriter"
      /\ SetDone => Goto("proxy", "sendHead") /\ pc["proxy"] = "setDone"
      /\ SendHead => (Goto("proxy", "wait") \/ Goto("proxy", "body")) /\ pc["proxy"] = "sendHead"
      /\ BodyEnds => Goto("proxy", "sendEnd") /\ pc["proxy"] = "body"
      /\ SendChunk => /\ pc["proxy"] = "body"
                      /\ UNCHANGED <<pc, op>> \/ Goto("proxy", "body") \/ Goto("proxy", "sendEnd")
      /\ SendEnd \/ SendChunkFailsSilently => Goto("proxy", "wait") /\ pc["proxy"] \in {"body", "sendEnd"}
      /\ SendFails => Begin("proxy", "error", "badCheck") /\ pc["proxy"] \in {"sendHead", "body", "sendEnd"}
      /\ Return => Goto("proxy", "returned") /\ pc["proxy"] = "wait"
  BY DEF Acquire, AcquireTimeout, SetWriter, SetDone, SendHead, BodyEnds, SendChunk, SendEnd,
         SendChunkFailsSilently, SendFails, ProxyError, Return, Goto
<1>2. UNCHANGED <<pc, op>> => PcTyped'
  BY DEF PcTyped
<1>3. QED
  BY <1>1, <1>2, GotoTyped, BeginTyped

(* Where the steps that are the reader's own go.                           *)
LEMMA ReaderMoves ==
  ASSUME PcTyped
  PROVE  /\ OnWebsocketBinaryFails => PcTyped' /\ pc["reader"] = "reading" /\ pc'["reader"] = "doneCheck"
                        /\ op'["reader"] = "binary" /\ pc'["proxy"] = pc["proxy"] /\ op'["proxy"] = op["proxy"]
         /\ OnWebsocketError => PcTyped' /\ pc["reader"] = "reading" /\ pc'["reader"] = "badCheck"
                        /\ op'["reader"] = "error" /\ pc'["proxy"] = pc["proxy"] /\ op'["proxy"] = op["proxy"]
         /\ OnWebsocketClose => PcTyped' /\ pc["reader"] = "reading" /\ pc'["reader"] = "closeStatus"
                        /\ op'["reader"] = "close" /\ pc'["proxy"] = pc["proxy"] /\ op'["proxy"] = op["proxy"]
         /\ CloseStatus => PcTyped' /\ pc["reader"] = "closeStatus" /\ pc'["reader"] = "doneCheck"
                        /\ pc'["proxy"] = pc["proxy"] /\ op' = op
         /\ CloseRemove => PcTyped' /\ pc["reader"] = "closeRemove" /\ pc'["reader"] = "ended"
                        /\ pc'["proxy"] = pc["proxy"] /\ op' = op
<1> USE DEF ReaderSteps, SharedSteps
<1>1. /\ OnWebsocketBinaryFails => Begin("reader", "binary", "doneCheck") /\ pc["reader"] = "reading"
      /\ OnWebsocketError => Begin("reader", "error", "badCheck") /\ pc["reader"] = "reading"
      /\ OnWebsocketClose => Begin("reader", "close", "closeStatus") /\ pc["reader"] = "reading"
      /\ CloseStatus => Goto("reader", "doneCheck") /\ pc["reader"] = "closeStatus"
      /\ CloseRemove => Goto("reader", "ended") /\ pc["reader"] = "closeRemove"
  BY DEF OnWebsocketBinaryFails, BinaryArrives, OnWebsocketError, OnWebsocketClose, CloseStatus, CloseRemove
<1>2. QED
  BY <1>1, GotoTyped, BeginTyped

(* Where the steps of both go, when the reader takes them.                 *)
LEMMA SharedReaderMoves ==
  ASSUME PcTyped, OpInv, Shared("reader")
  PROVE  /\ PcTyped' /\ pc'["proxy"] = pc["proxy"] /\ op' = op
         /\ \/ /\ BadCheck("reader") /\ pc["reader"] = "badCheck"
               /\ \/ isRemoved /\ pc'["reader"] = "errStatus"
                  \/ ~isRemoved /\ pc'["reader"] = "shutCheck"
            \/ /\ ShutCheck("reader") /\ pc["reader"] = "shutCheck"
               /\ \/ session /\ pc'["reader"] = "shutUse"
                  \/ ~session /\ op["reader"] = "binary" /\ pc'["reader"] = "reading"
                  \/ ~session /\ op["reader"] = "error" /\ pc'["reader"] = "badRemove"
            \/ /\ ShutUse("reader") /\ pc["reader"] = "shutUse"
               /\ \/ session /\ op["reader"] = "binary" /\ pc'["reader"] = "reading"
                  \/ session /\ op["reader"] = "error" /\ pc'["reader"] = "badRemove"
                  \/ ~session /\ pc'["reader"] = "crashed"
            \/ BadRemove("reader") /\ pc["reader"] = "badRemove" /\ pc'["reader"] = "errStatus"
            \/ ErrStatus("reader") /\ pc["reader"] = "errStatus" /\ pc'["reader"] = "doneCheck"
            \/ /\ DoneCheck("reader") /\ pc["reader"] = "doneCheck"
               /\ \/ handleDone /\ pc'["reader"] = "doneCall"
                  \/ /\ ~handleDone
                     /\ \/ op["reader"] = "close" /\ pc'["reader"] = "closeRemove"
                        \/ op["reader"] = "binary" /\ pc'["reader"] = "shutCheck"
                        \/ op["reader"] = "error" /\ pc'["reader"] = "ended"
            \/ /\ DoneCall("reader") /\ pc["reader"] = "doneCall"
               /\ \/ handleDone /\ wg > 0 /\ pc'["reader"] = "doneNil"
                  \/ ~(handleDone /\ wg > 0) /\ pc'["reader"] = "crashed"
            \/ /\ DoneNil("reader") /\ pc["reader"] = "doneNil"
               /\ \/ op["reader"] = "close" /\ pc'["reader"] = "closeRemove"
                  \/ op["reader"] = "binary" /\ pc'["reader"] = "shutCheck"
                  \/ op["reader"] = "error" /\ pc'["reader"] = "ended"
<1> USE GotoTyped DEF ReaderSteps, SharedSteps, Doing
<1>0. op["reader"] \in {"none", "close", "binary", "error"}
  BY DEF PcTyped, Goroutines
<1>1. CASE BadCheck("reader")
  <2>1. /\ pc["reader"] = "badCheck"
        /\ \/ isRemoved /\ Goto("reader", "errStatus")
           \/ ~isRemoved /\ Goto("reader", "shutCheck")
    BY <1>1 DEF BadCheck
  <2>2. QED
    BY <1>1, <2>1
<1>2. CASE ShutCheck("reader")
  <2>1. /\ pc["reader"] = "shutCheck"
        /\ \/ session /\ Goto("reader", "shutUse")
           \/ ~session /\ op["reader"] = "binary" /\ Goto("reader", "reading")
           \/ ~session /\ op["reader"] # "binary" /\ Goto("reader", "badRemove")
    BY <1>2 DEF ShutCheck, AfterShut
  <2>2. QED
    BY <1>2, <2>1 DEF OpInv
<1>3. CASE ShutUse("reader")
  <2>1. /\ pc["reader"] = "shutUse"
        /\ \/ session /\ op["reader"] = "binary" /\ Goto("reader", "reading")
           \/ session /\ op["reader"] # "binary" /\ Goto("reader", "badRemove")
           \/ ~session /\ Goto("reader", "crashed")
    BY <1>3 DEF ShutUse, AfterShut, Panic
  <2>2. QED
    BY <1>3, <2>1 DEF OpInv
<1>4. CASE BadRemove("reader") \/ ErrStatus("reader")
  <2>1. \/ BadRemove("reader") /\ pc["reader"] = "badRemove" /\ Goto("reader", "errStatus")
        \/ ErrStatus("reader") /\ pc["reader"] = "errStatus" /\ Goto("reader", "doneCheck")
    BY <1>4 DEF BadRemove, ErrStatus
  <2>2. QED
    BY <2>1
<1>5. CASE DoneCheck("reader")
  <2>1. /\ pc["reader"] = "doneCheck"
        /\ \/ handleDone /\ Goto("reader", "doneCall")
           \/ ~handleDone /\ Goto("reader", AfterDone("reader"))
    BY <1>5 DEF DoneCheck
  <2>2. \/ op["reader"] = "close" /\ AfterDone("reader") = "closeRemove"
        \/ op["reader"] = "binary" /\ AfterDone("reader") = "shutCheck"
        \/ op["reader"] = "error" /\ AfterDone("reader") = "ended"
    BY <1>0, <2>1 DEF AfterDone, OpInv
  <2>3. QED
    BY <1>5, <2>1, <2>2
<1>6. CASE DoneCall("reader")
  <2>1. /\ pc["reader"] = "doneCall"
        /\ \/ handleDone /\ wg > 0 /\ Goto("reader", "doneNil")
           \/ ~(handleDone /\ wg > 0) /\ Goto("reader", "crashed")
    BY <1>6 DEF DoneCall, Panic
  <2>2. QED
    BY <1>6, <2>1
<1>7. CASE DoneNil("reader")
  <2>1. pc["reader"] = "doneNil" /\ Goto("reader", AfterDone("reader"))
    BY <1>7 DEF DoneNil
  <2>2. \/ op["reader"] = "close" /\ AfterDone("reader") = "closeRemove"
        \/ op["reader"] = "binary" /\ AfterDone("reader") = "shutCheck"
        \/ op["reader"] = "error" /\ AfterDone("reader") = "ended"
    BY <1>0, <2>1 DEF AfterDone, OpInv
  <2>3. QED
    BY <1>7, <2>1, <2>2
<1>8. QED
  BY <1>1, <1>2, <1>3, <1>4, <1>5, <1>6, <1>7 DEF Shared

(* Where they go when the proxy takes them, to report an error.            *)
LEMMA SharedProxyMoves ==
  ASSUME PcTyped, OpInv, Shared("proxy")
  PROVE  /\ PcTyped' /\ pc'["reader"] = pc["reader"] /\ op' = op /\ proxyFailed
         /\ \/ /\ BadCheck("proxy") /\ pc["proxy"] = "badCheck"
               /\ pc'["proxy"] \in {"errStatus", "shutCheck"}
            \/ /\ ShutCheck("proxy") /\ pc["proxy"] = "shutCheck"
               /\ pc'["proxy"] \in {"shutUse", "badRemove"}
            \/ /\ ShutUse("proxy") /\ pc["proxy"] = "shutUse"
               /\ pc'["proxy"] \in {"badRemove", "aborted"}
            \/ BadRemove("proxy") /\ pc["proxy"] = "badRemove" /\ pc'["proxy"] = "errStatus"
            \/ ErrStatus("proxy") /\ pc["proxy"] = "errStatus" /\ pc'["proxy"] = "doneCheck"
            \/ /\ DoneCheck("proxy") /\ pc["proxy"] = "doneCheck"
               /\ pc'["proxy"] \in {"doneCall", "wait"}
            \/ /\ DoneCall("proxy") /\ pc["proxy"] = "doneCall"
               /\ \/ handleDone /\ wg > 0 /\ pc'["proxy"] = "doneNil"
                  \/ ~(handleDone /\ wg > 0) /\ pc'["proxy"] = "aborted"
            \/ DoneNil("proxy") /\ pc["proxy"] = "doneNil" /\ pc'["proxy"] = "wait"
<1> USE GotoTyped DEF ProxySteps, SharedSteps
<1>0. pc["proxy"] \in SharedSteps
  BY DEF Shared, BadCheck, ShutCheck, ShutUse, BadRemove, ErrStatus, DoneCheck, DoneCall, DoneNil
<1>1. op["proxy"] = "error" /\ proxyFailed
  BY <1>0 DEF OpInv
<1>2. AfterDone("proxy") = "wait" /\ AfterShut("proxy") = "badRemove"
  BY <1>1 DEF AfterDone, AfterShut
<1>3. CASE BadCheck("proxy") \/ ShutCheck("proxy") \/ ShutUse("proxy")
  <2>1. \/ BadCheck("proxy") /\ pc["proxy"] = "badCheck"
           /\ (Goto("proxy", "errStatus") \/ Goto("proxy", "shutCheck"))
        \/ ShutCheck("proxy") /\ pc["proxy"] = "shutCheck"
           /\ (Goto("proxy", "shutUse") \/ Goto("proxy", "badRemove"))
        \/ ShutUse("proxy") /\ pc["proxy"] = "shutUse"
           /\ (Goto("proxy", "badRemove") \/ Goto("proxy", "aborted"))
    BY <1>2, <1>3 DEF BadCheck, ShutCheck, ShutUse, Panic
  <2>2. QED
    BY <1>1, <2>1
<1>4. CASE BadRemove("proxy") \/ ErrStatus("proxy") \/ DoneCheck("proxy") \/ DoneNil("proxy")
  <2>1. \/ BadRemove("proxy") /\ pc["proxy"] = "badRemove" /\ Goto("proxy", "errStatus")
        \/ ErrStatus("proxy") /\ pc["proxy"] = "errStatus" /\ Goto("proxy", "doneCheck")
        \/ DoneCheck("proxy") /\ pc["proxy"] = "doneCheck"
           /\ (Goto("proxy", "doneCall") \/ Goto("proxy", "wait"))
        \/ DoneNil("proxy") /\ pc["proxy"] = "doneNil" /\ Goto("proxy", "wait")
    BY <1>2, <1>4 DEF BadRemove, ErrStatus, DoneCheck, DoneNil
  <2>2. QED
    BY <1>1, <2>1
<1>5. CASE DoneCall("proxy")
  <2>1. /\ pc["proxy"] = "doneCall"
        /\ \/ handleDone /\ wg > 0 /\ Goto("proxy", "doneNil")
           \/ ~(handleDone /\ wg > 0) /\ Goto("proxy", "aborted")
    BY <1>5 DEF DoneCall, Panic
  <2>2. QED
    BY <1>1, <1>5, <2>1
<1>6. QED
  BY <1>3, <1>4, <1>5 DEF Shared

\* the steps of the proxy outside the handling of an error
ProxyOwn ==
    \/ Acquire \/ AcquireTimeout \/ SetWriter \/ SetDone \/ SendHead \/ SendChunk \/ BodyEnds
    \/ SendEnd \/ SendFails \/ SendChunkFailsSilently \/ Return

ReaderOwn ==
    OnWebsocketBinaryFails \/ OnWebsocketError \/ OnWebsocketClose \/ CloseStatus \/ CloseRemove

Still ==
    \/ OfferStores \/ ClientLeaves \/ OnWebsocketText \/ OnWebsocketBinary \/ UNCHANGED vars
    \/ \E c \in Codes \cup {"error"} : WebsocketEnds(c)

(* Every step is of one of six kinds.                                      *)
LEMMA Kinds ==
  ASSUME [Next]_vars
  PROVE  \/ Still \/ ProxyOwn \/ ReaderOwn \/ LateUsePanics
         \/ Shared("proxy") /\ Running
         \/ Shared("reader")
  BY DEF Next, ProxyNext, ReaderNext, Still, ProxyOwn, ReaderOwn

(* What the proxy's own steps leave alone.                                 *)
LEMMA ProxyOwnFrame ==
  ASSUME ProxyOwn
  PROVE  /\ UNCHANGED <<isRemoved, session, gotHead, frames, closeCode, clientGone, wg>>
         /\ proxyFailed => proxyFailed'
         /\ ~SendFails => UNCHANGED proxyFailed
         /\ ~SetDone => UNCHANGED handleDone
         /\ ~SetWriter => UNCHANGED <<respWriter, requestNum>>
         /\ ~AcquireTimeout => UNCHANGED <<status, lateWrite>>
         /\ ~SendHead /\ ~SendEnd => UNCHANGED sent
  BY DEF ProxyOwn, Acquire, AcquireTimeout, SetWriter, SetDone, SendHead, SendChunk, BodyEnds, SendEnd,
         SendFails, SendChunkFailsSilently, Return, ProxyFrame, ProxyError, readVars, doneVars, sendVars,
         respVars

(* What the reader's own steps leave alone.                                *)
LEMMA ReaderOwnFrame ==
  ASSUME ReaderOwn
  PROVE  /\ UNCHANGED <<respWriter, handleDone, wg, sent, chunks, proxyFailed, clientGone, gotHead, closeCode>>
         /\ ~OnWebsocketClose => UNCHANGED session
         /\ ~CloseRemove => UNCHANGED isRemoved
         /\ ~CloseStatus => UNCHANGED <<status, requestNum>>
         /\ ~CloseStatus /\ ~OnWebsocketBinaryFails => UNCHANGED lateWrite
  BY DEF ReaderOwn, OnWebsocketBinaryFails, BinaryArrives, OnWebsocketError, OnWebsocketClose, CloseStatus,
         CloseRemove, ReaderFrame, readVars, doneVars, sendVars, respVars, farmVars

(* A panic on a response that was taken back ends the reader, and nothing  *)
(* else; it takes a client that has left or an error of the proxy.         *)
LEMMA PanicFrame ==
  ASSUME PcTyped, LateUsePanics
  PROVE  /\ PcTyped' /\ pc'["reader"] = "crashed" /\ pc'["proxy"] = pc["proxy"] /\ op' = op
         /\ UNCHANGED <<respWriter, handleDone, wg, sent, chunks, proxyFailed, clientGone, gotHead,
                        frames, closeCode, session, isRemoved, status, farm>>
         /\ IF pc["reader"] = "closeStatus" THEN requestNum' = requestNum - 1
                                            ELSE UNCHANGED requestNum
         /\ lateWrite' /\ HandleOver /\ respWriter
         /\ pc["reader"] \in {"reading", "errStatus", "closeStatus"}
<1>1. Goto("reader", "crashed") /\ "crashed" \in ReaderSteps
  BY DEF LateUsePanics, ReaderSteps
<1>2. PcTyped' /\ pc'["reader"] = "crashed" /\ pc'["proxy"] = pc["proxy"] /\ op' = op
  BY <1>1, GotoTyped
<1>3. QED
  BY <1>2 DEF LateUsePanics, ReaderFrame, readVars, doneVars, sendVars, farmVars

(* What the shared steps leave alone.                                      *)
LEMMA SharedFrame ==
  ASSUME NEW g \in Goroutines, Shared(g)
  PROVE  /\ UNCHANGED <<respWriter, requestNum, sent, chunks, proxyFailed, clientGone, gotHead, frames,
                        closeCode>>
         /\ session' => session
         /\ ~ShutUse(g) => UNCHANGED session
         /\ ~BadRemove(g) => UNCHANGED isRemoved
         /\ ~ErrStatus(g) => UNCHANGED <<status, lateWrite>>
         /\ ~DoneNil(g) => UNCHANGED handleDone
         /\ ~DoneCall(g) => UNCHANGED wg
  BY DEF Shared, BadCheck, ShutCheck, ShutUse, BadRemove, ErrStatus, DoneCheck, DoneCall, DoneNil,
         readVars, doneVars, sendVars, respVars, farmVars

(* A status line is never taken back.                                      *)
LEMMA StatusStays ==
  ASSUME [Next]_vars, status # "none"
  PROVE  status' = status
  BY DEF Next, ProxyNext, ReaderNext, Shared, BadCheck, ShutCheck, ShutUse, BadRemove, ErrStatus,
         DoneCheck, DoneCall, DoneNil, Acquire, AcquireTimeout, SetWriter, SetDone, SendHead, SendChunk,
         BodyEnds, SendEnd, SendFails, SendChunkFailsSilently, Return, OfferStores, ClientLeaves,
         OnWebsocketText, OnWebsocketBinary, OnWebsocketBinaryFails, BinaryArrives, LateUsePanics,
         WebsocketEnds, OnWebsocketError, OnWebsocketClose, CloseStatus, CloseRemove, WriteHeader, respVars,
         vars

(* The history of the late uses is never taken back.                       *)
LEMMA LateStays ==
  ASSUME [Next]_vars, lateWrite
  PROVE  lateWrite'
  BY DEF Next, ProxyNext, ReaderNext, Shared, BadCheck, ShutCheck, ShutUse, BadRemove, ErrStatus,
         DoneCheck, DoneCall, DoneNil, Acquire, AcquireTimeout, SetWriter, SetDone, SendHead, SendChunk,
         BodyEnds, SendEnd, SendFails, SendChunkFailsSilently, Return, OfferStores, ClientLeaves,
         OnWebsocketText, OnWebsocketBinary, OnWebsocketBinaryFails, BinaryArrives, LateUsePanics,
         WebsocketEnds, OnWebsocketError, OnWebsocketClose, CloseStatus, CloseRemove, WriteHeader, respVars,
         vars

(* What may come to a websocket whose reader goes on reading.              *)
LEMMA StillFrame ==
  ASSUME Still
  PROVE  /\ UNCHANGED <<pc, op, handleDone, wg, respWriter, session, isRemoved, requestNum, sent, chunks,
                        proxyFailed>>
         /\ closeCode' # closeCode => closeCode = "open" /\ closeCode' \in Codes \cup {"error"}
                                       /\ (closeCode' \in InReply => sent # "nothing")
         /\ clientGone => clientGone'
  <1>1. UNCHANGED <<pc, op, handleDone, wg, respWriter, session, isRemoved, requestNum, sent, chunks,
                        proxyFailed>>
    BY StillSteps DEF Still
  <1>2. ASSUME NEW c \in Codes \cup {"error"}, WebsocketEnds(c)
        PROVE  /\ closeCode = "open" /\ closeCode' \in Codes \cup {"error"}
               /\ closeCode' \in InReply => sent # "nothing"
               /\ clientGone' = clientGone
    BY <1>2 DEF WebsocketEnds, InReply
  <1>3. ASSUME OfferStores \/ ClientLeaves \/ OnWebsocketText \/ OnWebsocketBinary \/ UNCHANGED vars
        PROVE  UNCHANGED closeCode /\ (clientGone => clientGone')
    BY <1>3 DEF OfferStores, ClientLeaves, OnWebsocketText, OnWebsocketBinary, BinaryArrives,
                ReaderFrame, readVars, vars
  <1>4. QED
    BY <1>1, <1>2, <1>3 DEF Still

-----------------------------------------------------------------------------
(* Each invariant is kept by each kind of step.                            *)

(* The program counters, and which handler a goroutine is in.              *)
LEMMA OpStep ==
  ASSUME SocketInv, [Next]_vars
  PROVE  PcTyped' /\ OpInv'
<1> USE DEF SocketInv, SharedSteps, Doing, Codes, Early, Unsent
<1>1. CASE Still
  BY <1>1, StillFrame DEF OpInv, PcTyped
<1>2. CASE ProxyOwn
  <2>1. /\ PcTyped' /\ pc'["reader"] = pc["reader"] /\ op'["reader"] = op["reader"]
        /\ \/ /\ pc'["proxy"] \notin SharedSteps \cup {"aborted"} /\ ~SendFails
              /\ pc'["proxy"] \in Unsent \cup {"body", "sendEnd"} => pc["proxy"] \in Unsent \cup {"body", "sendEnd"}
           \/ SendFails /\ pc'["proxy"] = "badCheck" /\ op'["proxy"] = "error"
    BY <1>2, ProxyMoves DEF ProxyOwn
  <2>2. UNCHANGED closeCode /\ (proxyFailed => proxyFailed') /\ (~SendFails => UNCHANGED proxyFailed)
    BY <1>2, ProxyOwnFrame
  <2>3. SendFails => proxyFailed'
    BY DEF SendFails, ProxyError
  <2>4. QED
    BY <2>1, <2>2, <2>3 DEF OpInv
<1>3. CASE ReaderOwn
  <2>1. UNCHANGED <<proxyFailed, closeCode>>
    BY <1>3, ReaderOwnFrame
  <2>2. /\ OnWebsocketError => closeCode = "error"
        /\ OnWebsocketClose => closeCode \in Codes
    BY DEF OnWebsocketError, OnWebsocketClose
  <2>3. QED
    BY <1>3, <2>1, <2>2, ReaderMoves DEF ReaderOwn, OpInv
<1>4. CASE Shared("proxy")
  <2>1. UNCHANGED <<proxyFailed, closeCode>>
    BY <1>4, SharedFrame DEF Goroutines
  <2>2. PcTyped' /\ pc'["reader"] = pc["reader"] /\ op' = op /\ proxyFailed /\ pc["proxy"] \in SharedSteps
        /\ pc'["proxy"] \in SharedSteps \cup {"wait", "aborted"}
    BY <1>4, SharedProxyMoves
  <2>3. QED
    BY <2>1, <2>2 DEF OpInv
<1>5. CASE Shared("reader")
  <2>1. UNCHANGED <<proxyFailed, closeCode>>
    BY <1>5, SharedFrame DEF Goroutines
  <2>2. QED
    BY <1>5, <2>1, SharedReaderMoves DEF OpInv
<1>6. CASE LateUsePanics
  BY <1>6, PanicFrame DEF OpInv
<1>7. QED
  BY <1>1, <1>2, <1>3, <1>4, <1>5, <1>6, Kinds

(* How often Done has been called.                                         *)
LEMMA DoneStep ==
  ASSUME SocketInv, [Next]_vars
  PROVE  DoneInv'
<1> USE DEF SocketInv, SharedSteps, Early
<1>1. CASE Still
  BY <1>1, StillFrame DEF DoneInv
<1>2. CASE ProxyOwn
  <2>1. UNCHANGED wg /\ (~SetDone => UNCHANGED handleDone)
    BY <1>2, ProxyOwnFrame
  <2>2. /\ pc'["reader"] = pc["reader"] /\ pc["proxy"] \notin {"doneNil", "aborted"}
        /\ pc'["proxy"] \in Early => pc["proxy"] \in Early
        /\ SetDone => pc["proxy"] = "setDone" /\ pc'["proxy"] = "sendHead"
    BY <1>2, ProxyMoves DEF ProxyOwn
  <2>3. QED
    BY <2>1, <2>2 DEF DoneInv
<1>3. CASE ReaderOwn
  <2>1. UNCHANGED <<wg, handleDone>> /\ pc'["proxy"] = pc["proxy"] /\ pc["reader"] \notin {"doneNil", "crashed"}
    BY <1>3, ReaderOwnFrame, ReaderMoves DEF ReaderOwn
  <2>2. QED
    BY <2>1 DEF DoneInv
<1>4. CASE Shared("proxy") /\ Running
  <2>1. pc'["reader"] = pc["reader"] /\ pc["reader"] # "crashed"
    BY <1>4, SharedProxyMoves DEF Running
  <2>2. CASE DoneCall("proxy")
    <3>1. /\ pc["proxy"] = "doneCall" /\ UNCHANGED handleDone
          /\ (handleDone => wg' = wg - 1) /\ (~handleDone => wg' = wg)
      BY <2>2 DEF DoneCall
    <3>2. \/ handleDone /\ wg > 0 /\ pc'["proxy"] = "doneNil"
          \/ ~(handleDone /\ wg > 0) /\ pc'["proxy"] = "aborted"
      BY <1>4, <3>1, SharedProxyMoves DEF BadCheck, ShutCheck, ShutUse, BadRemove, ErrStatus, DoneCheck, DoneNil
    <3>3. QED
      BY <2>1, <3>1, <3>2 DEF DoneInv
  <2>3. CASE DoneNil("proxy")
    <3>1. pc["proxy"] = "doneNil" /\ ~handleDone' /\ UNCHANGED wg
      BY <2>3 DEF DoneNil
    <3>2. pc'["proxy"] = "wait"
      BY <1>4, <3>1, SharedProxyMoves DEF BadCheck, ShutCheck, ShutUse, BadRemove, ErrStatus, DoneCheck, DoneCall
    <3>3. QED
      BY <2>1, <3>1, <3>2 DEF DoneInv
  <2>4. CASE ~DoneCall("proxy") /\ ~DoneNil("proxy")
    <3>1. UNCHANGED <<wg, handleDone>>
      BY <1>4, <2>4, SharedFrame DEF Goroutines
    <3>2. pc["proxy"] \notin {"doneNil", "aborted"} /\ pc'["proxy"] \notin Early
      BY <1>4, <2>4, SharedProxyMoves
    <3>3. QED
      BY <2>1, <3>1, <3>2 DEF DoneInv
  <2>5. QED
    BY <2>2, <2>3, <2>4
<1>5. CASE Shared("reader")
  <2>1. pc'["proxy"] = pc["proxy"]
    BY <1>5, SharedReaderMoves
  <2>2. CASE DoneCall("reader")
    <3>1. /\ pc["reader"] = "doneCall" /\ UNCHANGED handleDone
          /\ (handleDone => wg' = wg - 1) /\ (~handleDone => wg' = wg)
      BY <2>2 DEF DoneCall
    <3>2. \/ handleDone /\ wg > 0 /\ pc'["reader"] = "doneNil"
          \/ ~(handleDone /\ wg > 0) /\ pc'["reader"] = "crashed"
      BY <1>5, <3>1, SharedReaderMoves
    <3>3. QED
      BY <2>1, <3>1, <3>2 DEF DoneInv
  <2>3. CASE DoneNil("reader")
    <3>1. pc["reader"] = "doneNil" /\ ~handleDone' /\ UNCHANGED wg
      BY <2>3 DEF DoneNil
    <3>2. QED
      BY <2>1, <3>1 DEF DoneInv
  <2>4. CASE ~DoneCall("reader") /\ ~DoneNil("reader")
    <3>1. UNCHANGED <<wg, handleDone>>
      BY <1>5, <2>4, SharedFrame DEF Goroutines
    <3>2. pc["reader"] \notin {"doneNil", "crashed"}
      BY <1>5, <2>4, SharedReaderMoves
    <3>3. QED
      BY <2>1, <3>1, <3>2 DEF DoneInv
  <2>5. QED
    BY <2>2, <2>3, <2>4
<1>6. CASE LateUsePanics
  BY <1>6, PanicFrame DEF DoneInv
<1>7. QED
  BY <1>1, <1>2, <1>3, <1>4, <1>5, <1>6, Kinds

(* The head of a response comes after a request, and writes a status.      *)
LEMMA HeadArrives ==
  ASSUME Still, FlowInv
  PROVE  /\ gotHead => gotHead'
         /\ gotHead' /\ ~gotHead => sent # "nothing" /\ status' # "none"
<1>1. CASE OnWebsocketText
  <2>1. sent # "nothing" /\ gotHead' /\ (respWriter => WriteHeader("resp"))
    BY <1>1 DEF OnWebsocketText
  <2>2. QED
    BY <2>1 DEF WriteHeader, FlowInv
<1>2. CASE ~OnWebsocketText
  BY <1>2 DEF Still, OfferStores, ClientLeaves, OnWebsocketBinary, BinaryArrives, WebsocketEnds, readVars, vars
<1>3. QED
  BY <1>1, <1>2

(* What has been sent, and what may have come back.                        *)
LEMMA FlowStep ==
  ASSUME SocketInv, [Next]_vars
  PROVE  FlowInv'
<1> USE DEF SocketInv, SharedSteps, Early, Unsent, InReply
<1>0. status # "none" => status' # "none"
  BY StatusStays
<1>1. CASE Still
  <2>1. /\ UNCHANGED <<pc, op, wg, respWriter, sent, session>>
        /\ closeCode' # closeCode => closeCode = "open" /\ (closeCode' \in InReply => sent # "nothing")
    BY <1>1, StillFrame
  <2>2. /\ gotHead => gotHead'
        /\ gotHead' /\ ~gotHead => sent # "nothing" /\ status' # "none"
    BY <1>1, HeadArrives
  <2>3. pc["reader"] = "closeStatus" => closeCode # "open"
    BY DEF OpInv, Codes
  <2>4. QED
    BY <1>0, <2>1, <2>2, <2>3 DEF FlowInv
<1>2. CASE ProxyOwn
  <2>1. /\ UNCHANGED <<session, gotHead, closeCode, wg>>
        /\ ~SetWriter => UNCHANGED respWriter
        /\ ~SendHead /\ ~SendEnd => UNCHANGED sent
    BY <1>2, ProxyOwnFrame
  <2>2. pc'["reader"] = pc["reader"] /\ op'["reader"] = op["reader"]
    BY <1>2, ProxyMoves DEF ProxyOwn
  <2>3. CASE SetWriter
    <3>1. pc["proxy"] = "setWriter" /\ pc'["proxy"] = "setDone" /\ UNCHANGED sent /\ respWriter'
      BY <2>3, ProxyMoves DEF SetWriter, sendVars
    <3>2. QED
      BY <1>0, <2>1, <2>2, <3>1 DEF FlowInv
  <2>4. CASE SendHead \/ SendEnd
    <3>1. /\ UNCHANGED respWriter /\ sent' # "nothing" /\ pc["proxy"] \in {"sendHead", "sendEnd"}
          /\ pc'["proxy"] \in {"wait", "body"}
      <4>1. CASE SendHead
        BY <4>1, ProxyMoves DEF SendHead
      <4>2. CASE SendEnd
        <5>1. UNCHANGED respWriter /\ sent' # "nothing" /\ pc["proxy"] = "sendEnd"
          BY <4>2 DEF SendEnd
        <5>2. pc'["proxy"] = "wait"
          BY <4>2, ProxyMoves
        <5>3. QED
          BY <5>1, <5>2
      <4>3. QED
        BY <2>4, <4>1, <4>2
    <3>2. QED
      BY <1>0, <2>1, <2>2, <3>1 DEF FlowInv
  <2>5. CASE AcquireTimeout \/ Return
    <3>1. UNCHANGED <<sent, respWriter>> /\ pc'["proxy"] = "returned"
      BY <2>5, ProxyMoves DEF AcquireTimeout, Return, sendVars
    <3>2. AcquireTimeout => pc["proxy"] = "acquire" /\ status' # "none"
      BY ProxyMoves DEF AcquireTimeout, WriteHeader
    <3>3. Return => pc["proxy"] = "wait" /\ wg <= 0
      BY ProxyMoves DEF Return
    <3>4. QED
      BY <1>0, <2>1, <2>2, <2>5, <3>1, <3>2, <3>3 DEF FlowInv
  <2>6. CASE Acquire \/ SetDone \/ SendChunk \/ BodyEnds \/ SendFails \/ SendChunkFailsSilently
    <3>1. UNCHANGED <<sent, respWriter>>
      BY <2>6 DEF Acquire, SetDone, SendChunk, BodyEnds, SendFails, SendChunkFailsSilently, sendVars
    <3>2. \/ pc["proxy"] = "acquire" /\ pc'["proxy"] = "setWriter"
          \/ pc["proxy"] = "setDone" /\ pc'["proxy"] = "sendHead"
          \/ pc["proxy"] \in {"sendHead", "body", "sendEnd"} /\ pc'["proxy"] \in {"body", "sendEnd", "wait", "badCheck"}
      BY <2>6, ProxyMoves
    <3>3. QED
      BY <1>0, <2>1, <2>2, <3>1, <3>2 DEF FlowInv
  <2>7. QED
    BY <1>2, <2>3, <2>4, <2>5, <2>6 DEF ProxyOwn
<1>3. CASE ReaderOwn
  <2>1. /\ UNCHANGED <<respWriter, wg, sent, gotHead, closeCode>> /\ pc'["proxy"] = pc["proxy"]
        /\ ~OnWebsocketClose => UNCHANGED session
    BY <1>3, ReaderOwnFrame, ReaderMoves DEF ReaderOwn
  <2>2. OnWebsocketClose => ~session' /\ (closeCode = "1000" => gotHead)
    BY DEF OnWebsocketClose
  <2>3. OnWebsocketBinaryFails => gotHead
    BY DEF OnWebsocketBinaryFails, BinaryArrives
  <2>4. \/ OnWebsocketBinaryFails /\ op'["reader"] = "binary" /\ pc'["reader"] = "doneCheck"
        \/ OnWebsocketError /\ op'["reader"] = "error" /\ pc'["reader"] = "badCheck"
        \/ OnWebsocketClose /\ op'["reader"] = "close" /\ pc'["reader"] = "closeStatus"
        \/ pc["reader"] \in {"closeStatus", "closeRemove"} /\ op' = op /\ pc'["reader"] \in {"doneCheck", "ended"}
    BY <1>3, ReaderMoves DEF ReaderOwn
  <2>5. op["reader"] = "close" => ~session'
    BY <2>1, <2>2 DEF FlowInv
  <2>6. op'["reader"] = "close" => ~session'
    BY <2>2, <2>4, <2>5
  <2>7. op'["reader"] = "binary" => gotHead
    BY <2>3, <2>4 DEF FlowInv
  <2>8. pc'["reader"] = "closeStatus" /\ closeCode = "1000" => gotHead
    BY <2>2, <2>4
  <2>9. QED
    BY <1>0, <2>1, <2>6, <2>7, <2>8 DEF FlowInv
<1>4. CASE Shared("proxy")
  <2>1. UNCHANGED <<respWriter, sent, gotHead, closeCode>> /\ (session' => session)
    BY <1>4, SharedFrame DEF Goroutines
  <2>2. /\ pc'["reader"] = pc["reader"] /\ op' = op /\ pc["proxy"] \in SharedSteps
        /\ pc'["proxy"] \in SharedSteps \cup {"wait", "aborted"}
    BY <1>4, SharedProxyMoves
  <2>3. QED
    BY <1>0, <2>1, <2>2 DEF FlowInv
<1>5. CASE Shared("reader")
  <2>1. UNCHANGED <<respWriter, sent, gotHead, closeCode>> /\ (session' => session)
    BY <1>5, SharedFrame DEF Goroutines
  <2>2. pc'["proxy"] = pc["proxy"] /\ op' = op /\ pc'["reader"] # "closeStatus"
    BY <1>5, SharedReaderMoves
  <2>3. wg' = wg \/ wg' = wg - 1
    BY <1>5, SharedFrame DEF Goroutines, DoneCall
  <2>4. wg <= 0 => wg' <= 0
    BY <2>3 DEF DoneInv
  <2>5. QED
    BY <1>0, <2>1, <2>2, <2>4 DEF FlowInv
<1>6. CASE LateUsePanics
  BY <1>0, <1>6, PanicFrame DEF FlowInv
<1>7. QED
  BY <1>1, <1>2, <1>3, <1>4, <1>5, <1>6, Kinds

(* While the proxy has met no error, only the reader clears the fields.    *)
LEMMA QuietStep ==
  ASSUME SocketInv, [Next]_vars
  PROVE  QuietInv'
<1> USE DEF SocketInv, SharedSteps, Early, Doing
<1>0. lateWrite => lateWrite'
  BY LateStays
<1>1. CASE Still
  BY <1>0, <1>1, StillFrame DEF QuietInv
<1>2. CASE ProxyOwn
  <2>1. /\ UNCHANGED <<session, isRemoved, wg>> /\ (proxyFailed => proxyFailed')
        /\ ~SetDone => UNCHANGED handleDone
    BY <1>2, ProxyOwnFrame
  <2>2. pc'["reader"] = pc["reader"] /\ op'["reader"] = op["reader"]
        /\ (SetDone => pc["proxy"] = "setDone" /\ handleDone')
    BY <1>2, ProxyMoves DEF ProxyOwn, SetDone
  <2>3. SetDone => wg = 1 /\ handleDone'
    BY <2>2 DEF DoneInv
  <2>4. QED
    BY <1>0, <2>1, <2>2, <2>3 DEF QuietInv
<1>3. CASE ReaderOwn
  <2>1. /\ UNCHANGED <<handleDone, wg, proxyFailed>>
        /\ ~OnWebsocketClose => UNCHANGED session
        /\ ~CloseRemove => UNCHANGED isRemoved
    BY <1>3, ReaderOwnFrame
  <2>2. \/ pc["reader"] \in {"reading", "closeStatus"} /\ pc'["reader"] \in {"doneCheck", "badCheck", "closeStatus"}
           /\ ~CloseRemove
        \/ pc["reader"] = "closeRemove" /\ pc'["reader"] = "ended"
    BY <1>3, ReaderMoves DEF ReaderOwn
  <2>3. QED
    BY <2>1, <2>2 DEF QuietInv
<1>4. CASE Shared("proxy")
  <2>1. proxyFailed /\ UNCHANGED proxyFailed
    BY <1>4, SharedFrame, SharedProxyMoves DEF Goroutines
  <2>2. QED
    BY <2>1 DEF QuietInv
<1>5. CASE Shared("reader")
  <2>1. op' = op
    BY <1>5, SharedReaderMoves
  <2>2. /\ UNCHANGED proxyFailed /\ (~ShutUse("reader") => UNCHANGED session)
        /\ (~BadRemove("reader") => UNCHANGED isRemoved)
        /\ (~DoneNil("reader") => UNCHANGED handleDone) /\ (~DoneCall("reader") => UNCHANGED wg)
    BY <1>5, SharedFrame DEF Goroutines
  <2>3. CASE BadCheck("reader") \/ ShutCheck("reader")
    <3>1. UNCHANGED <<session, isRemoved, handleDone, wg>>
      BY <2>3 DEF BadCheck, ShutCheck, farmVars, doneVars
    <3>2. \/ pc["reader"] = "badCheck" /\ pc'["reader"] = "errStatus" /\ isRemoved
          \/ pc["reader"] = "badCheck" /\ pc'["reader"] = "shutCheck"
          \/ pc["reader"] = "shutCheck" /\ pc'["reader"] = "shutUse" /\ session
          \/ pc["reader"] = "shutCheck" /\ pc'["reader"] \in {"reading", "badRemove"} /\ ~session
      BY <1>5, <2>3, SharedReaderMoves DEF BadCheck, ShutCheck
    <3>3. QED
      BY <2>1, <2>2, <3>1, <3>2 DEF QuietInv
  <2>4. CASE ShutUse("reader")
    <3>1. UNCHANGED <<isRemoved, handleDone, wg>> /\ ~session' /\ pc["reader"] = "shutUse"
      BY <2>4 DEF ShutUse, farmVars, doneVars
    <3>2. \/ session /\ pc'["reader"] \in {"reading", "badRemove"}
          \/ ~session
      BY <1>5, <3>1, SharedReaderMoves
    <3>3. QED
      BY <2>1, <2>2, <3>1, <3>2 DEF QuietInv
  <2>5. CASE BadRemove("reader") \/ ErrStatus("reader")
    <3>1. UNCHANGED <<session, handleDone, wg>>
      BY <2>5 DEF BadRemove, ErrStatus, doneVars, farmVars
    <3>2. \/ pc["reader"] = "badRemove" /\ pc'["reader"] = "errStatus"
          \/ pc["reader"] = "errStatus" /\ pc'["reader"] = "doneCheck" /\ op["reader"] = "error"
      BY <1>5, <2>5, SharedReaderMoves DEF BadRemove, ErrStatus, OpInv
    <3>3. QED
      BY <2>1, <2>2, <3>1, <3>2 DEF QuietInv
  <2>6. CASE DoneCheck("reader")
    <3>1. UNCHANGED <<session, isRemoved, handleDone, wg>> /\ pc["reader"] = "doneCheck"
      BY <2>6 DEF DoneCheck, farmVars, doneVars
    <3>2. \/ handleDone /\ pc'["reader"] = "doneCall"
          \/ ~handleDone /\ pc'["reader"] \in {"closeRemove", "shutCheck"} /\ op["reader"] # "error"
          \/ ~handleDone /\ pc'["reader"] = "ended"
      BY <1>5, <3>1, SharedReaderMoves
    <3>3. QED
      BY <2>1, <2>2, <3>1, <3>2 DEF QuietInv
  <2>7. CASE DoneCall("reader")
    <3>1. UNCHANGED <<session, isRemoved, handleDone>> /\ pc["reader"] = "doneCall"
          /\ (handleDone => wg' = wg - 1)
      BY <2>7 DEF DoneCall, farmVars
    <3>2. \/ handleDone /\ wg > 0 /\ pc'["reader"] = "doneNil"
          \/ ~(handleDone /\ wg > 0)
      BY <1>5, <3>1, SharedReaderMoves
    <3>3. QED
      BY <2>1, <2>2, <3>1, <3>2 DEF QuietInv
  <2>8. CASE DoneNil("reader")
    <3>1. UNCHANGED <<session, isRemoved, wg>> /\ pc["reader"] = "doneNil" /\ ~handleDone'
      BY <2>8 DEF DoneNil, farmVars
    <3>2. \/ pc'["reader"] \in {"closeRemove", "shutCheck"} /\ op["reader"] # "error"
          \/ pc'["reader"] = "ended"
      BY <1>5, <3>1, SharedReaderMoves
    <3>3. QED
      BY <2>1, <2>2, <3>1, <3>2 DEF QuietInv
  <2>9. QED
    BY <1>5, <2>3, <2>4, <2>5, <2>6, <2>7, <2>8 DEF Shared
<1>6. CASE LateUsePanics
  BY <1>6, PanicFrame DEF QuietInv
<1>7. QED
  BY <1>1, <1>2, <1>3, <1>4, <1>5, <1>6, Kinds

(* A status is written before Handle is released, or the proxy will fail.  *)
LEMMA AnswerStep ==
  ASSUME SocketInv, [Next]_vars
  PROVE  AnswerInv'
<1> USE DEF SocketInv, SharedSteps, Early, Unsent, Doing
<1>0. status # "none" => status' # "none"
  BY StatusStays
<1>a. ASSUME closeCode = "1006" => closeCode' = "1006", session' => session,
             pc["proxy"] \in Unsent => pc'["proxy"] \in Unsent
      PROVE  Answered => Answered'
  BY <1>0, <1>a DEF Answered
<1>1. CASE Still
  <2>1. UNCHANGED <<pc, wg, proxyFailed, session>> /\ (closeCode = "1006" => closeCode' = "1006")
    BY <1>1, StillFrame
  <2>2. Answered => Answered'
    BY <1>a, <2>1
  <2>3. StatusBeforeReturn'
    BY <1>0, <2>1 DEF AnswerInv, StatusBeforeReturn
  <2>4. QED
    BY <1>0, <2>1, <2>2, <2>3 DEF AnswerInv
<1>2. CASE ProxyOwn
  <2>1. /\ UNCHANGED <<session, closeCode, wg>> /\ pc'["reader"] = pc["reader"]
        /\ ~SendFails => UNCHANGED proxyFailed
    BY <1>2, ProxyOwnFrame, ProxyMoves DEF ProxyOwn
  <2>2. CASE SendFails
    <3>1. proxyFailed' /\ pc'["proxy"] = "badCheck"
      BY <2>2, ProxyMoves DEF SendFails, ProxyError
    <3>2. QED
      BY <3>1 DEF AnswerInv, StatusBeforeReturn
  <2>3. CASE AcquireTimeout
    <3>1. status' # "none"
      BY <2>3 DEF AcquireTimeout, WriteHeader
    <3>2. QED
      BY <3>1 DEF AnswerInv, StatusBeforeReturn, Answered
  <2>4. CASE Acquire \/ SetWriter \/ SetDone
    <3>1. UNCHANGED proxyFailed /\ pc["proxy"] \in Unsent /\ pc'["proxy"] \in {"setWriter", "setDone", "sendHead"}
      BY <2>1, <2>4, ProxyMoves DEF Acquire, SetWriter, SetDone, SendFails
    <3>2. Answered => Answered'
      BY <1>a, <2>1, <3>1
    <3>3. QED
      BY <1>0, <2>1, <3>1, <3>2 DEF AnswerInv, StatusBeforeReturn
  <2>5. CASE SendHead \/ SendChunk \/ BodyEnds \/ SendEnd \/ SendChunkFailsSilently
    <3>1. /\ ~proxyFailed /\ UNCHANGED proxyFailed /\ pc'["proxy"] \in {"wait", "body", "sendEnd"}
          /\ pc["proxy"] \in Unsent => session
      <4>1. /\ pc["proxy"] \in {"sendHead", "body", "sendEnd"} /\ pc'["proxy"] \in {"wait", "body", "sendEnd"}
            /\ pc["proxy"] \in Unsent => SendHead
        BY <2>5, ProxyMoves
      <4>2. SendHead => session
        BY DEF SendHead
      <4>3. UNCHANGED proxyFailed
        BY <2>5 DEF SendHead, SendChunk, BodyEnds, SendEnd, SendChunkFailsSilently, sendVars
      <4>4. QED
        BY <4>1, <4>2, <4>3 DEF OpInv
    <3>2. Answered => Answered'
      BY <1>0, <2>1, <3>1 DEF Answered
    <3>3. QED
      BY <1>0, <2>1, <3>1, <3>2 DEF AnswerInv, StatusBeforeReturn
  <2>6. CASE Return
    <3>1. pc["proxy"] = "wait" /\ wg <= 0 /\ pc'["proxy"] = "returned" /\ UNCHANGED <<proxyFailed, status>>
      BY <2>6, ProxyMoves DEF Return, sendVars, respVars
    <3>2. status # "none" \/ (~proxyFailed /\ closeCode = "1006")
      BY <3>1 DEF AnswerInv, Answered
    <3>3. Answered'
      BY <2>1, <3>1, <3>2 DEF Answered
    <3>4. QED
      BY <2>1, <3>1, <3>2, <3>3 DEF AnswerInv, StatusBeforeReturn
  <2>7. QED
    BY <1>2, <2>2, <2>3, <2>4, <2>5, <2>6 DEF ProxyOwn
<1>3. CASE ReaderOwn
  <2>1. UNCHANGED <<wg, proxyFailed, closeCode>> /\ pc'["proxy"] = pc["proxy"] /\ (session' => session)
    <3>1. UNCHANGED <<wg, proxyFailed, closeCode>> /\ (~OnWebsocketClose => UNCHANGED session)
      BY <1>3, ReaderOwnFrame
    <3>2. OnWebsocketClose => ~session'
      BY DEF OnWebsocketClose
    <3>3. pc'["proxy"] = pc["proxy"]
      BY <1>3, ReaderMoves DEF ReaderOwn
    <3>4. QED
      BY <3>1, <3>2, <3>3
  <2>2. Answered => Answered'
    BY <1>a, <2>1
  <2>3. pc'["reader"] \in {"doneCheck", "doneCall"} => status' # "none" \/ closeCode = "1006"
    <3>1. CASE OnWebsocketBinaryFails
      BY <1>0, <3>1 DEF OnWebsocketBinaryFails, BinaryArrives, FlowInv
    <3>2. CASE CloseStatus
      <4>1. pc["reader"] = "closeStatus" /\ closeCode \in Codes
        BY <3>2, ReaderMoves DEF OpInv
      <4>2. closeCode = "1000" => status # "none"
        BY <4>1 DEF FlowInv
      <4>3. closeCode \in {"1011", "1008"} => respWriter
        BY DEF FlowInv, InReply
      <4>4. respWriter /\ closeCode \in {"1011", "1008"} => status' # "none"
        BY <3>2 DEF CloseStatus, WriteHeader
      <4>5. QED
        BY <1>0, <4>1, <4>2, <4>3, <4>4 DEF Codes
    <3>3. QED
      BY <1>3, <3>1, <3>2, ReaderMoves DEF ReaderOwn
  <2>4. QED
    BY <1>0, <2>1, <2>2, <2>3 DEF AnswerInv, StatusBeforeReturn, Answered
<1>4. CASE Shared("proxy")
  <2>1. proxyFailed /\ UNCHANGED proxyFailed /\ pc'["proxy"] # "returned"
    BY <1>4, SharedFrame, SharedProxyMoves DEF Goroutines
  <2>2. CASE ErrStatus("proxy")
    <3>1. pc["proxy"] = "errStatus" /\ (respWriter => status' # "none")
      BY <2>2 DEF ErrStatus, WriteHeader
    <3>2. status' # "none"
      BY <3>1 DEF FlowInv
    <3>3. QED
      BY <2>1, <3>2 DEF AnswerInv, StatusBeforeReturn
  <2>3. CASE ~ErrStatus("proxy")
    <3>1. \/ pc["proxy"] \in Doing
          \/ pc'["proxy"] \notin Doing \cup {"wait"}
      BY <1>4, <2>3, SharedProxyMoves
    <3>2. QED
      BY <1>0, <2>1, <3>1 DEF AnswerInv, StatusBeforeReturn
  <2>4. QED
    BY <2>2, <2>3
<1>5. CASE Shared("reader")
  <2>1. UNCHANGED <<proxyFailed, closeCode>> /\ (session' => session) /\ pc'["proxy"] = pc["proxy"]
    BY <1>5, SharedFrame, SharedReaderMoves DEF Goroutines
  <2>2. Answered => Answered'
    BY <1>a, <2>1
  <2>3. CASE ErrStatus("reader")
    <3>1. /\ pc["reader"] = "errStatus" /\ (respWriter => status' # "none") /\ UNCHANGED session
      BY <2>3 DEF ErrStatus, WriteHeader
    <3>2. ~respWriter => pc["proxy"] \in Early \/ status # "none"
      BY DEF FlowInv
    <3>3. ~proxyFailed => Answered'
      BY <1>0, <2>1, <3>1, <3>2 DEF QuietInv, Answered
    <3>4. QED
      BY <1>0, <2>1, <3>3 DEF AnswerInv, StatusBeforeReturn
  <2>4. CASE ~ErrStatus("reader")
    <3>1. \/ pc["reader"] \in {"doneCheck", "doneCall"}
          \/ pc'["reader"] \notin {"doneCheck", "doneCall"} /\ UNCHANGED wg
      <4>1. ~DoneCall("reader") => UNCHANGED wg
        BY <1>5, SharedFrame DEF Goroutines
      <4>2. DoneCall("reader") => pc["reader"] = "doneCall"
        BY DEF DoneCall
      <4>3. pc["reader"] \notin {"doneCheck", "doneCall"} => pc'["reader"] \notin {"doneCheck", "doneCall"}
        BY <1>5, <2>4, SharedReaderMoves
      <4>4. QED
        BY <4>1, <4>2, <4>3
    <3>2. QED
      BY <1>0, <2>1, <2>2, <3>1 DEF AnswerInv, StatusBeforeReturn
  <2>5. QED
    BY <2>3, <2>4
<1>6. CASE LateUsePanics
  <2>1. Answered => Answered'
    BY <1>6, <1>a, PanicFrame
  <2>2. QED
    BY <1>0, <1>6, <2>1, PanicFrame DEF AnswerInv, StatusBeforeReturn
<1>7. QED
  BY <1>1, <1>2, <1>3, <1>4, <1>5, <1>6, Kinds

(* The count of requests.                                                  *)
LEMMA CountStep ==
  ASSUME SocketInv, [Next]_vars
  PROVE  CountInv'
<1> USE DEF SocketInv, SharedSteps
<1>1. CASE Still
  BY <1>1, StillFrame DEF CountInv, Closed
<1>2. CASE ProxyOwn
  <2>1. /\ UNCHANGED session /\ (proxyFailed => proxyFailed')
        /\ (~SendFails => UNCHANGED proxyFailed)
        /\ (~SetWriter => UNCHANGED <<respWriter, requestNum>>)
        /\ (Closed' <=> Closed)
    BY <1>2, ProxyOwnFrame, ProxyMoves DEF ProxyOwn, Closed
  <2>2. CASE SetWriter
    <3>1. respWriter' /\ requestNum' = requestNum + 1 /\ pc["proxy"] = "setWriter" /\ pc'["proxy"] = "setDone"
      BY <2>2, ProxyMoves DEF SetWriter
    <3>2. requestNum = 0
      BY <3>1 DEF FlowInv, CountInv
    <3>3. requestNum' = 1
      BY <3>1, <3>2
    <3>4. Closed => ~session
      BY DEF Closed, FlowInv
    <3>5. QED
      BY <2>1, <3>1, <3>3, <3>4 DEF CountInv
  <2>3. CASE ~SetWriter
    <3>1. UNCHANGED <<respWriter, requestNum>>
      BY <2>1, <2>3
    <3>2. SendFails => proxyFailed'
      BY DEF SendFails, ProxyError
    <3>3. SendHead => session
      BY DEF SendHead
    <3>4. \/ SendFails \/ SendHead
          \/ pc["proxy"] = "setDone" /\ pc'["proxy"] = "sendHead"
          \/ pc["proxy"] \notin {"setDone", "sendHead"}
      BY <1>2, <2>3, ProxyMoves DEF ProxyOwn
    <3>5. QED
      BY <2>1, <3>1, <3>2, <3>3, <3>4 DEF CountInv
  <2>4. QED
    BY <2>2, <2>3
<1>3. CASE ReaderOwn
  <2>1. UNCHANGED <<respWriter, proxyFailed>> /\ pc'["proxy"] = pc["proxy"]
        /\ (~CloseStatus => UNCHANGED requestNum)
    BY <1>3, ReaderOwnFrame, ReaderMoves DEF ReaderOwn
  <2>2. CASE CloseStatus
    <3>1. ~Closed /\ (respWriter => requestNum' = requestNum - 1) /\ (~respWriter => requestNum' = requestNum)
      BY <2>2, ReaderMoves DEF CloseStatus, Closed
    <3>2. requestNum' = 0
      BY <3>1 DEF CountInv
    <3>3. Closed'
      BY <2>2, ReaderMoves DEF OpInv, Closed
    <3>4. QED
      BY <2>1, <3>2, <3>3 DEF CountInv
  <2>3. CASE CloseRemove
    <3>1. (Closed' <=> Closed) /\ UNCHANGED session
      BY <2>3, ReaderMoves DEF CloseRemove, Closed
    <3>2. UNCHANGED requestNum
      BY <2>3 DEF CloseRemove
    <3>3. QED
      BY <2>1, <3>1, <3>2 DEF CountInv
  <2>4. CASE OnWebsocketBinaryFails \/ OnWebsocketError \/ OnWebsocketClose
    <3>1. ~Closed /\ ~Closed'
      BY <2>4, ReaderMoves DEF Closed, OpInv
    <3>2. UNCHANGED requestNum
      BY <2>4 DEF OnWebsocketBinaryFails, BinaryArrives, OnWebsocketError, OnWebsocketClose
    <3>3. QED
      BY <2>1, <3>1, <3>2 DEF CountInv
  <2>5. QED
    BY <1>3, <2>2, <2>3, <2>4 DEF ReaderOwn
<1>4. CASE Shared("proxy")
  <2>1. UNCHANGED <<respWriter, requestNum, proxyFailed>> /\ proxyFailed /\ (Closed' <=> Closed)
    BY <1>4, SharedFrame, SharedProxyMoves DEF Goroutines, Closed
  <2>2. QED
    BY <2>1 DEF CountInv
<1>5. CASE Shared("reader")
  <2>1. UNCHANGED <<respWriter, requestNum, proxyFailed>> /\ (session' => session) /\ pc'["proxy"] = pc["proxy"]
    BY <1>5, SharedFrame, SharedReaderMoves DEF Goroutines
  <2>2. Closed' <=> Closed
    BY <1>5, SharedReaderMoves DEF Closed
  <2>3. QED
    BY <2>1, <2>2 DEF CountInv
<1>6. CASE LateUsePanics
  <2>1. ~Closed => requestNum = 1
    BY <1>6, PanicFrame DEF CountInv
  <2>2. CASE pc["reader"] = "closeStatus"
    <3>1. ~Closed /\ requestNum' = 0 /\ respWriter' /\ op["reader"] = "close"
      BY <1>6, <2>1, <2>2, PanicFrame DEF Closed, OpInv
    <3>2. Closed'
      BY <1>6, <3>1, PanicFrame DEF Closed
    <3>3. QED
      BY <3>1, <3>2 DEF CountInv
  <2>3. CASE pc["reader"] # "closeStatus"
    <3>1. (Closed' <=> Closed) /\ UNCHANGED <<requestNum, respWriter, proxyFailed, session>>
          /\ pc'["proxy"] = pc["proxy"]
      BY <1>6, <2>3, PanicFrame DEF Closed
    <3>2. QED
      BY <3>1 DEF CountInv
  <2>4. QED
    BY <2>2, <2>3
<1>7. QED
  BY <1>1, <1>2, <1>3, <1>4, <1>5, <1>6, Kinds

(* A Handle that is released has nothing more coming.                      *)
LEMMA LateStep ==
  ASSUME SocketInv, [Next]_vars
  PROVE  LateInv'
<1> USE DEF SocketInv, SharedSteps
<1>0. ~proxyFailed /\ HandleOver /\ respWriter => wg = 0
  <2>1. ~proxyFailed /\ HandleOver => pc["proxy"] = "returned"
    BY DEF OpInv, HandleOver
  <2>2. ~proxyFailed => wg \in {0, 1}
    BY DEF DoneInv, QuietInv
  <2>3. QED
    BY <2>1, <2>2 DEF FlowInv
<1>1. CASE Still
  <2>1. UNCHANGED <<pc, op, wg, proxyFailed>> /\ (clientGone => clientGone')
    BY <1>1, StillFrame
  <2>2. lateWrite' => lateWrite \/ (HandleOver /\ respWriter /\ pc["reader"] = "reading")
    <3>1. CASE OnWebsocketText
      BY <3>1 DEF OnWebsocketText, WriteHeader, respVars
    <3>2. CASE OnWebsocketBinary
      <4>1. /\ gotHead /\ pc["reader"] = "reading"
            /\ lateWrite' => lateWrite \/ HandleOver
        BY <3>2 DEF OnWebsocketBinary, BinaryArrives
      <4>2. gotHead => respWriter
        BY DEF FlowInv
      <4>3. QED
        BY <4>1, <4>2
    <3>3. CASE OfferStores \/ ClientLeaves \/ UNCHANGED vars \/ \E c \in Codes \cup {"error"} : WebsocketEnds(c)
      BY <3>3 DEF OfferStores, ClientLeaves, WebsocketEnds, vars, respVars
    <3>4. QED
      BY <1>1, <3>1, <3>2, <3>3 DEF Still
  <2>3. QED
    BY <1>0, <2>1, <2>2 DEF LateInv
<1>2. CASE ProxyOwn
  <2>1. /\ UNCHANGED <<clientGone, wg>> /\ (proxyFailed => proxyFailed')
        /\ ~AcquireTimeout => UNCHANGED lateWrite
    BY <1>2, ProxyOwnFrame
  <2>2. pc'["reader"] = pc["reader"] /\ op'["reader"] = op["reader"]
    BY <1>2, ProxyMoves DEF ProxyOwn
  <2>3. AcquireTimeout => (lateWrite' => lateWrite)
    BY DEF AcquireTimeout, WriteHeader, HandleOver
  <2>4. QED
    BY <2>1, <2>2, <2>3 DEF LateInv
<1>3. CASE ReaderOwn
  <2>1. UNCHANGED <<wg, proxyFailed, clientGone>>
    BY <1>3, ReaderOwnFrame
  <2>2. /\ CloseStatus => (lateWrite' => lateWrite \/ (HandleOver /\ respWriter))
        /\ ~CloseStatus /\ ~OnWebsocketBinaryFails => UNCHANGED lateWrite
    <3>1. CloseStatus => (lateWrite' <=> lateWrite) \/ (respWriter /\ (lateWrite' => lateWrite \/ HandleOver))
      BY DEF CloseStatus, WriteHeader, respVars
    <3>2. QED
      BY <1>3, <3>1, ReaderOwnFrame
  <2>3. OnWebsocketBinaryFails => clientGone \/ (HandleOver /\ respWriter)
    BY DEF OnWebsocketBinaryFails, BinaryArrives, FlowInv
  <2>4. CASE OnWebsocketBinaryFails
    <3>1. pc["reader"] = "reading"
      BY <2>4, ReaderMoves
    <3>2. QED
      BY <1>0, <2>1, <2>3, <2>4, <3>1 DEF LateInv
  <2>5. CASE CloseStatus
    <3>1. pc["reader"] = "closeStatus" /\ op' = op
      BY <2>5, ReaderMoves
    <3>2. QED
      BY <1>0, <2>1, <2>2, <2>5, <3>1 DEF LateInv
  <2>6. CASE OnWebsocketError \/ OnWebsocketClose \/ CloseRemove
    <3>1. /\ pc["reader"] = "reading" \/ pc'["reader"] = "ended"
          /\ op'["reader"] # "binary"
      BY <2>6, ReaderMoves DEF OpInv
    <3>2. UNCHANGED lateWrite
      BY <2>6 DEF OnWebsocketError, OnWebsocketClose, CloseRemove, respVars
    <3>3. QED
      BY <2>1, <3>1, <3>2 DEF LateInv
  <2>7. QED
    BY <1>3, <2>4, <2>5, <2>6 DEF ReaderOwn
<1>4. CASE Shared("proxy")
  <2>1. proxyFailed /\ UNCHANGED proxyFailed
    BY <1>4, SharedFrame, SharedProxyMoves DEF Goroutines
  <2>2. QED
    BY <2>1 DEF LateInv
<1>5. CASE Shared("reader")
  <2>1. UNCHANGED <<proxyFailed, clientGone>> /\ op' = op
    BY <1>5, SharedFrame, SharedReaderMoves DEF Goroutines
  <2>2. CASE ErrStatus("reader")
    <3>1. /\ lateWrite' => lateWrite \/ (HandleOver /\ respWriter)
          /\ pc["reader"] = "errStatus" /\ UNCHANGED wg
      BY <2>2 DEF ErrStatus, WriteHeader, respVars, doneVars
    <3>2. QED
      BY <1>0, <2>1, <3>1 DEF LateInv
  <2>3. CASE DoneCall("reader")
    <3>1. pc["reader"] = "doneCall" /\ UNCHANGED lateWrite
      BY <2>3 DEF DoneCall, respVars
    <3>2. ~proxyFailed => pc'["reader"] = "doneNil"
      BY <1>5, <3>1, SharedReaderMoves DEF QuietInv
    <3>3. QED
      BY <2>1, <3>1, <3>2 DEF LateInv
  <2>4. CASE ~ErrStatus("reader") /\ ~DoneCall("reader")
    <3>1. UNCHANGED <<wg, lateWrite>>
      BY <1>5, <2>4, SharedFrame DEF Goroutines
    <3>2. op["reader"] # "binary" /\ pc["reader"] \in {"doneNil", "closeRemove", "ended"}
             => pc'["reader"] \in {"doneNil", "closeRemove", "ended"}
      BY <1>5, <2>4, SharedReaderMoves
    <3>3. QED
      BY <2>1, <3>1, <3>2 DEF LateInv
  <2>5. QED
    BY <2>2, <2>3, <2>4
<1>6. CASE LateUsePanics
  BY <1>0, <1>6, PanicFrame DEF LateInv
<1>7. QED
  BY <1>1, <1>2, <1>3, <1>4, <1>5, <1>6, Kinds

-----------------------------------------------------------------------------
(* The other fields have the type TypeOK gives them.                       *)

FlagsTyped ==
    /\ session \in BOOLEAN /\ respWriter \in BOOLEAN /\ handleDone \in BOOLEAN
    /\ isRemoved \in BOOLEAN /\ gotHead \in BOOLEAN /\ clientGone \in BOOLEAN
    /\ proxyFailed \in BOOLEAN /\ lateWrite \in BOOLEAN

ValuesTyped ==
    /\ farm \in {"offering", "in", "out"}
    /\ sent \in {"nothing", "head", "all"}
    /\ chunks \in -1..MaxChunks
    /\ status \in {"none", "resp", "502", "503", "504", "400"}
    /\ frames \in 0..MaxFrames
    /\ closeCode \in Codes \cup {"open", "error"}

(* What WriteHeader leaves of the status and of the history.               *)
LEMMA WriteTyped ==
  ASSUME FlagsTyped, ValuesTyped, NEW st \in {"resp", "502", "503", "504", "400"}, WriteHeader(st)
  PROVE  lateWrite' \in BOOLEAN /\ status' \in {"none", "resp", "502", "503", "504", "400"}
<1>1. lateWrite' \in BOOLEAN
  BY DEF FlagsTyped, WriteHeader
<1>2. status' = st \/ status' = status
  BY DEF WriteHeader
<1>3. QED
  BY <1>1, <1>2 DEF ValuesTyped

(* The shared steps keep the types, whoever takes them.                    *)
LEMMA SharedTyped ==
  ASSUME FlagsTyped, ValuesTyped, NEW g \in Goroutines, Shared(g)
  PROVE  FlagsTyped' /\ ValuesTyped'
<1> USE DEF farmVars, doneVars, respVars, sendVars, readVars, FlagsTyped, ValuesTyped
<1>1. CASE BadCheck(g) \/ ShutCheck(g) \/ DoneCheck(g)
  <2>1. CASE BadCheck(g)
    BY <2>1 DEF BadCheck
  <2>2. CASE ShutCheck(g) \/ DoneCheck(g)
    BY <2>2 DEF ShutCheck, DoneCheck
  <2>3. QED
    BY <1>1, <2>1, <2>2
<1>2. CASE ShutUse(g) \/ DoneNil(g) \/ DoneCall(g)
  <2>1. handleDone' \in BOOLEAN /\ session' \in BOOLEAN
    BY <1>2 DEF ShutUse, DoneNil, DoneCall
  <2>2. UNCHANGED <<respWriter, isRemoved, gotHead, clientGone, proxyFailed, lateWrite,
                    farm, status, sent, chunks, frames, closeCode>>
    BY <1>2 DEF ShutUse, DoneNil, DoneCall
  <2>3. QED
    BY <2>1, <2>2
<1>3. CASE BadRemove(g)
  <2>1. isRemoved' \in BOOLEAN /\ farm' \in {"offering", "in", "out"}
    BY <1>3 DEF BadRemove, RemoveWebsocket
  <2>2. UNCHANGED <<session, respWriter, handleDone, gotHead, clientGone, proxyFailed, lateWrite,
                    status, sent, chunks, frames, closeCode>>
    BY <1>3 DEF BadRemove
  <2>3. QED
    BY <2>1, <2>2
<1>4. CASE ErrStatus(g)
  <2>1. UNCHANGED <<session, respWriter, handleDone, isRemoved, gotHead, clientGone, proxyFailed,
                    farm, sent, chunks, frames, closeCode>>
    BY <1>4 DEF ErrStatus
  <2>2. \/ UNCHANGED <<status, lateWrite>>
        \/ \E st \in {"502", "504"} : WriteHeader(st)
    BY <1>4 DEF ErrStatus
  <2>3. QED
    BY <2>1, <2>2, WriteTyped
<1>5. QED
  BY <1>1, <1>2, <1>3, <1>4 DEF Shared

(* So does every step.                                                     *)
LEMMA TypedStep ==
  ASSUME FlagsTyped, ValuesTyped, [Next]_vars
  PROVE  FlagsTyped' /\ ValuesTyped'
<1> USE MaxChunksAssumption, MaxFramesAssumption
    DEF farmVars, doneVars, respVars, sendVars, readVars, FlagsTyped, ValuesTyped
<1>1. CASE Shared("proxy") \/ Shared("reader")
  BY <1>1, SharedTyped DEF Goroutines
<1>2. CASE OfferStores \/ ClientLeaves \/ \E c \in Codes \cup {"error"} : WebsocketEnds(c)
  <2>1. CASE OfferStores \/ ClientLeaves
    <3>1. FlagsTyped'
      BY <2>1 DEF OfferStores, ClientLeaves
    <3>2. ValuesTyped'
      BY <2>1 DEF OfferStores, ClientLeaves
    <3>3. QED
      BY <3>1, <3>2
  <2>2. ASSUME NEW c \in Codes \cup {"error"}, WebsocketEnds(c)
        PROVE  FlagsTyped' /\ ValuesTyped'
    <3>1. FlagsTyped'
      BY <2>2 DEF WebsocketEnds
    <3>2. ValuesTyped'
      BY <2>2 DEF WebsocketEnds
    <3>3. QED
      BY <3>1, <3>2
  <2>3. QED
    BY <1>2, <2>1, <2>2
<1>3. CASE OnWebsocketText
  BY <1>3 DEF OnWebsocketText, WriteHeader, ReaderFrame
<1>4. CASE OnWebsocketBinary \/ OnWebsocketBinaryFails
  <2>1. FlagsTyped'
    BY <1>4 DEF OnWebsocketBinary, OnWebsocketBinaryFails, BinaryArrives, ReaderFrame
  <2>2. ValuesTyped'
    BY <1>4 DEF OnWebsocketBinary, OnWebsocketBinaryFails, BinaryArrives, ReaderFrame
  <2>3. QED
    BY <2>1, <2>2
<1>5. CASE OnWebsocketError \/ OnWebsocketClose
  <2>1. session' \in BOOLEAN
    BY <1>5 DEF OnWebsocketError, OnWebsocketClose
  <2>2. UNCHANGED <<respWriter, handleDone, isRemoved, gotHead, clientGone, proxyFailed, lateWrite,
                    farm, status, sent, chunks, frames, closeCode>>
    BY <1>5 DEF OnWebsocketError, OnWebsocketClose, ReaderFrame
  <2>3. QED
    BY <2>1, <2>2
<1>6. CASE CloseStatus
  <2>1. UNCHANGED <<session, respWriter, handleDone, isRemoved, gotHead, clientGone, proxyFailed,
                    farm, sent, chunks, frames, closeCode>>
    BY <1>6 DEF CloseStatus, ReaderFrame
  <2>2. UNCHANGED <<status, lateWrite>> \/ WriteHeader("502") \/ WriteHeader("400")
    BY <1>6 DEF CloseStatus
  <2>3. QED
    BY <2>1, <2>2, WriteTyped
<1>7. CASE CloseRemove
  <2>1. isRemoved' \in BOOLEAN
    BY <1>7 DEF CloseRemove
  <2>2. farm' \in {"offering", "in", "out"}
    BY <1>7 DEF CloseRemove, RemoveWebsocket
  <2>3. UNCHANGED <<session, respWriter, handleDone, gotHead, clientGone, proxyFailed, lateWrite,
                    status, sent, chunks, frames, closeCode>>
    BY <1>7 DEF CloseRemove, ReaderFrame
  <2>4. QED
    BY <2>1, <2>2, <2>3
<1>8. CASE Acquire \/ SetWriter \/ SetDone \/ Return
  <2>1. FlagsTyped'
    BY <1>8 DEF Acquire, SetWriter, SetDone, Return, ProxyFrame
  <2>2. ValuesTyped'
    BY <1>8 DEF Acquire, SetWriter, SetDone, Return, ProxyFrame
  <2>3. QED
    BY <2>1, <2>2
<1>9. CASE AcquireTimeout
  BY <1>9 DEF AcquireTimeout, WriteHeader, ProxyFrame
<1>10. CASE SendHead \/ BodyEnds \/ SendEnd \/ SendChunkFailsSilently
  <2>1. FlagsTyped'
    BY <1>10 DEF SendHead, BodyEnds, SendEnd, SendChunkFailsSilently, ProxyFrame
  <2>2. ValuesTyped'
    BY <1>10 DEF SendHead, BodyEnds, SendEnd, SendChunkFailsSilently, ProxyFrame
  <2>3. QED
    BY <2>1, <2>2
<1>11. CASE SendChunk
  <2>1. FlagsTyped'
    BY <1>11 DEF SendChunk, ProxyFrame
  <2>2. ValuesTyped'
    BY <1>11 DEF SendChunk, ProxyFrame
  <2>3. QED
    BY <2>1, <2>2
<1>12. CASE SendFails
  <2>1. FlagsTyped'
    BY <1>12 DEF SendFails, ProxyError, ProxyFrame
  <2>2. ValuesTyped'
    BY <1>12 DEF SendFails, ProxyError, ProxyFrame
  <2>3. QED
    BY <2>1, <2>2
<1>13. CASE LateUsePanics
  <2>1. FlagsTyped'
    BY <1>13 DEF LateUsePanics, ReaderFrame
  <2>2. ValuesTyped'
    BY <1>13 DEF LateUsePanics, ReaderFrame
  <2>3. QED
    BY <2>1, <2>2
<1>14. CASE UNCHANGED vars
  BY <1>14 DEF vars
<1>15. QED
  BY <1>1, <1>2, <1>3, <1>4, <1>5, <1>6, <1>7, <1>8, <1>9, <1>10, <1>11, <1>12, <1>13, <1>14
     DEF Next, ProxyNext, ReaderNext

-----------------------------------------------------------------------------
(* The theorems.                                                           *)

(* The invariants hold at first.                                           *)
LEMMA SocketInit ==
  ASSUME Init
  PROVE  SocketInv /\ FlagsTyped /\ ValuesTyped
<1>1. /\ PcTyped /\ pc["proxy"] = "acquire" /\ pc["reader"] = "reading"
      /\ op["proxy"] = "none" /\ op["reader"] = "none"
  BY DEF Init, PcTyped, Goroutines, ProxySteps, ReaderSteps, SharedSteps
<1>2. OpInv /\ DoneInv
  BY <1>1 DEF Init, OpInv, DoneInv, SharedSteps, Doing, Early, Unsent
<1>3. FlowInv /\ QuietInv
  BY <1>1 DEF Init, FlowInv, QuietInv, Unsent, Early, InReply
<1>4. AnswerInv /\ CountInv /\ LateInv
  BY <1>1 DEF Init, AnswerInv, StatusBeforeReturn, Answered, CountInv, Closed, LateInv, Doing
<1>5. FlagsTyped /\ ValuesTyped
  <2>1. FlagsTyped
    BY DEF Init, FlagsTyped
  <2>2. frames \in 0..MaxFrames
    BY MaxFramesAssumption DEF Init
  <2>3. ValuesTyped
    BY <2>2 DEF Init, ValuesTyped
  <2>4. QED
    BY <2>1, <2>3
<1>6. QED
  BY <1>1, <1>2, <1>3, <1>4, <1>5 DEF SocketInv

(* They hold always.                                                       *)
THEOREM SocketInvariant == Spec => [](SocketInv /\ FlagsTyped /\ ValuesTyped)
<1>1. Init => SocketInv /\ FlagsTyped /\ ValuesTyped
  BY SocketInit
<1>2. SocketInv /\ FlagsTyped /\ ValuesTyped /\ [Next]_vars
        => (SocketInv /\ FlagsTyped /\ ValuesTyped)'
  BY OpStep, DoneStep, FlowStep, QuietStep, AnswerStep, CountStep, LateStep, TypedStep DEF SocketInv
<1>3. QED
  BY <1>1, <1>2, PTL DEF Spec

(* The counter of the WaitGroup is at least -1, and at -1 someone has      *)
(* panicked; a request is counted at most once; the fields have their      *)
(* types.                                                                  *)
THEOREM TypeCorrect == Spec => []TypeOK
<1>1. SocketInv /\ FlagsTyped /\ ValuesTyped => TypeOK
  BY DEF TypeOK, SocketInv, PcTyped, FlagsTyped, ValuesTyped, DoneInv, CountInv
<1>2. QED
  BY <1>1, SocketInvariant, PTL

(* A Handle that was given a socket returns only after a status line, or   *)
(* after an abnormal closure, however the websocket ends and wherever the  *)
(* goroutines are then.                                                    *)
THEOREM StatusFirst == Spec => []StatusBeforeReturn
<1>1. SocketInv => StatusBeforeReturn
  BY DEF SocketInv, AnswerInv
<1>2. QED
  BY <1>1, SocketInvariant, PTL

(* Done is called once too often only when the proxy handles an error; the *)
(* reader panics only then, or on the response of a client that has left,  *)
(* after its Handle has returned.                                          *)
THEOREM CrashOnlyAfterFailure == Spec => []CrashNeedsFailure
<1>1. SocketInv => CrashNeedsFailure
  <2>1. SocketInv /\ ~proxyFailed => wg >= 0
    BY DEF SocketInv, DoneInv, QuietInv
  <2>2. SocketInv /\ ~proxyFailed /\ pc["reader"] = "crashed" => lateWrite /\ clientGone
    BY DEF SocketInv, QuietInv, LateInv
  <2>3. SocketInv => wg \in -1..1
    BY DEF SocketInv, DoneInv
  <2>4. QED
    BY <2>1, <2>2, <2>3 DEF CrashNeedsFailure
<1>2. QED
  BY <1>1, SocketInvariant, PTL

(* Nothing is written to a client whose Handle has returned, unless the    *)
(* client has left or the proxy has met an error.                          *)
THEOREM LateWriteOnlyAfterFailure == Spec => []LateWriteNeedsFailure
<1>1. SocketInv => LateWriteNeedsFailure
  BY DEF SocketInv, LateInv, LateWriteNeedsFailure
<1>2. QED
  BY <1>1, SocketInvariant, PTL

(* The count of requests leaks only after a read error, or an error that   *)
(* the proxy handled.                                                      *)
THEOREM CountLeaksOnError == Spec => []CountLeaksOnlyOnError
<1>1. SocketInv => CountLeaksOnlyOnError
  <2>1. SUFFICES ASSUME SocketInv, HandleOver, pc["reader"] = "ended", requestNum > 0,
                        closeCode # "error", ~proxyFailed
                 PROVE  FALSE
    BY DEF CountLeaksOnlyOnError
  <2>2. Closed
    BY <2>1 DEF SocketInv, OpInv, Closed
  <2>3. pc["proxy"] \in {"setDone", "sendHead"}
    BY <2>1, <2>2 DEF SocketInv, CountInv
  <2>4. QED
    BY <2>1, <2>3 DEF HandleOver
<1>2. QED
  BY <1>1, SocketInvariant, PTL
=============================================================================
