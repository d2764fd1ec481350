--------------------------- MODULE ExchangeProofs ---------------------------
(***************************************************************************)
(* Proofs about Exchange, for any requests, responses and bodies: what the *)
(* target gets of the client's body and of its headers, what the client    *)
(* gets of the answer, and that both bodies are carried as ChunkStream     *)
(* promises.                                                               *)
(***************************************************************************)
EXTENDS Exchange, FiniteSetTheorems, SequenceTheorems, TLAPS

-----------------------------------------------------------------------------
(* The frames on their way to the connector.                               *)

(* The target has been sent its request, and reads the body through an     *)
(* open pipe, or it has yet to be sent it: otherwise the frames under way  *)
(* no longer matter to it.                                                 *)
Awaited == target = NoTarget \/ pipe = "open"

\* the frames before the first chunk
Before == IF target = NoTarget THEN 1 ELSE 0

\* the number, in the client's body, of the chunk that frame i would be
Number(i) == Len(targetBody) + i - Before

IsChunk(i) ==
    /\ toConnector[i].kind = "binary" /\ toConnector[i].chunk = Number(i)
    /\ Number(i) \in 1..req.chunks

\* the body is declared to end after its last chunk
IsEnd(i) ==
    /\ toConnector[i].kind = "text" /\ toConnector[i].msg = BuildBodyEnded
    /\ Number(i) = req.chunks + 1

FramesInv ==
    /\ \E S : toConnector \in Seq(S)
    /\ Awaited => \A i \in 1..Len(toConnector) : i > Before => IsChunk(i) \/ IsEnd(i)
    /\ target = NoTarget /\ toConnector # <<>> => toConnector[1].kind = "text"

\* as long as the websocket holds, the frames reach as far as the client was read
SentInv ==
    handler = "stream" /\ reply # "lost" /\ Awaited =>
        chunksRead = Number(Len(toConnector)) /\ (target = NoTarget => toConnector # <<>>)

StartInv ==
    /\ handler = "start" => target = NoTarget /\ toConnector = <<>> /\ chunksRead = 0 /\ reply # "lost"
    /\ target = NoTarget => pipe = "none" /\ targetBody = <<>>

BodyInv ==
    /\ targetBody \in Seq(Nat) /\ Len(targetBody) <= req.chunks
    /\ \A i \in 1..Len(targetBody) : targetBody[i] = i
    /\ pipe = "ended" => Len(targetBody) = req.chunks

HandlerTyped ==
    /\ req \in Requests /\ req.chunks \in 0..MaxChunks
    /\ handler \in {"start", "stream", "sent", "failing", "texted", "failed"}
    /\ pipe \in {"none", "open", "ended", "unread"}
    /\ chunksRead \in 0..req.chunks

StreamInv == HandlerTyped /\ FramesInv /\ SentInv /\ StartInv /\ BodyInv

-----------------------------------------------------------------------------
(* Appending a frame, and taking the first.                                *)

LEMMA AppendFrame ==
  ASSUME NEW S, NEW s \in Seq(S), NEW x
  PROVE  /\ Append(s, x) \in Seq(S \cup {x})
         /\ Len(Append(s, x)) = Len(s) + 1 /\ Append(s, x) # <<>>
         /\ Append(s, x)[Len(s) + 1] = x
         /\ \A i \in 1..Len(s) : Append(s, x)[i] = s[i]
<1>1. s \in Seq(S \cup {x})
  BY SeqMonotonic
<1>2. QED
  BY <1>1

LEMMA HandlerTypedInit == Init => HandlerTyped
<1> SUFFICES ASSUME Init PROVE HandlerTyped
  OBVIOUS
<1>1. req \in Requests /\ handler = "start" /\ pipe = "none" /\ chunksRead = 0
  BY DEF Init
<1>2. req.chunks \in 0..MaxChunks
  BY <1>1, RequestsAssumption
<1>3. 0 \in 0..req.chunks
  BY <1>2, ChunksAssumption
<1>4. QED
  BY <1>1, <1>2, <1>3 DEF HandlerTyped

LEMMA StreamInit == Init => StreamInv
<1> SUFFICES ASSUME Init PROVE StreamInv
  OBVIOUS
<1>1. /\ handler = "start" /\ chunksRead = 0 /\ toConnector = <<>> /\ reply = "open"
      /\ target = NoTarget /\ pipe = "none" /\ targetBody = <<>>
  BY DEF Init
<1>2. HandlerTyped
  BY HandlerTypedInit
<1>3. FramesInv
  BY <1>1 DEF FramesInv
<1>4. SentInv /\ StartInv
  BY <1>1 DEF SentInv, StartInv
<1>5. BodyInv
  BY <1>1, <1>2, ChunksAssumption DEF BodyInv, HandlerTyped
<1>6. QED
  BY <1>2, <1>3, <1>4, <1>5 DEF StreamInv

-----------------------------------------------------------------------------
(* The router's handler.                                                   *)

\* the connector's end is as it was
ConnectorStill == UNCHANGED <<req, target, pipe, targetBody, reply>>

(* A frame that is sent is the next of the body, or its end, or it is the  *)
(* first and describes the request.                                        *)
LEMMA SendStep ==
  ASSUME StreamInv, NEW frame, ConnectorStill,
         toConnector' = IF reply = "lost" THEN toConnector ELSE Append(toConnector, frame),
         reply # "lost" /\ Awaited =>
            IF handler = "start"
              THEN frame.kind = "text"
              ELSE \/ frame = Binary(chunksRead + 1) /\ chunksRead < req.chunks
                   \/ frame = Text(BuildBodyEnded) /\ chunksRead = req.chunks,
         handler \in {"start", "stream"}
  PROVE  /\ FramesInv'
         /\ reply # "lost" =>
              /\ Len(toConnector)' = Len(toConnector) + 1 /\ toConnector' # <<>>
              /\ Len(toConnector) \in Nat
<1> USE DEF ConnectorStill
<1>1. CASE reply = "lost"
  BY <1>1 DEF StreamInv, FramesInv, Awaited, Before, Number, IsChunk, IsEnd
<1>2. CASE reply # "lost"
  <2>1. PICK S : toConnector \in Seq(S)
    BY DEF StreamInv, FramesInv
  <2>2. toConnector' = Append(toConnector, frame) /\ Len(toConnector) \in Nat
    BY <1>2, <2>1
  <2>3. /\ toConnector' \in Seq(S \cup {frame})
        /\ Len(toConnector') = Len(toConnector) + 1 /\ toConnector' # <<>>
        /\ toConnector'[Len(toConnector) + 1] = frame
        /\ \A i \in 1..Len(toConnector) : toConnector'[i] = toConnector[i]
    BY <2>1, <2>2, AppendFrame
  <2>4. ASSUME Awaited, NEW i \in 1..Len(toConnector), i > Before
        PROVE  (IsChunk(i) \/ IsEnd(i))'
    <3>1. IsChunk(i) \/ IsEnd(i)
      BY <2>4 DEF StreamInv, FramesInv
    <3>2. toConnector'[i] = toConnector[i]
      BY <2>3
    <3>3. Number(i)' = Number(i)
      BY DEF Number, Before
    <3>4. QED
      BY <3>1, <3>2, <3>3 DEF IsChunk, IsEnd
  <2>5. ASSUME Awaited, NEW n, n = Len(toConnector) + 1, n > Before
        PROVE  (IsChunk(n) \/ IsEnd(n))'
    <3>1. handler = "stream"
      <4>1. handler = "start" => toConnector = <<>> /\ target = NoTarget
        BY DEF StreamInv, StartInv
      <4>2. toConnector = <<>> /\ target = NoTarget => n = Before
        BY <2>5 DEF Before
      <4>3. Before \in Int
        BY DEF Before
      <4>4. QED
        BY <2>5, <4>1, <4>2, <4>3
    <3>2. chunksRead = Number(Len(toConnector))
      BY <1>2, <2>5, <3>1 DEF StreamInv, SentInv
    <3>3. Number(n) = chunksRead + 1 /\ Number(n)' = Number(n)
      <4>1. Len(targetBody) \in Nat /\ Before \in Int
        BY DEF StreamInv, BodyInv, Before
      <4>2. Number(n) = Number(Len(toConnector)) + 1
        BY <2>2, <2>5, <4>1 DEF Number
      <4>3. QED
        BY <3>2, <4>2 DEF Number, Before
    <3>4. toConnector'[n] = frame
      BY <2>3, <2>5
    <3>5. req.chunks \in Nat /\ chunksRead \in 0..req.chunks
      BY ChunksAssumption DEF StreamInv, HandlerTyped
    <3>6. CASE frame = Binary(chunksRead + 1) /\ chunksRead < req.chunks
      <4>1. frame.kind = "binary" /\ frame.chunk = chunksRead + 1
        BY <3>6 DEF Binary
      <4>2. chunksRead + 1 \in 1..req.chunks
        BY <3>5, <3>6
      <4>3. IsChunk(n)'
        BY <3>3, <3>4, <4>1, <4>2 DEF IsChunk
      <4>4. QED
        BY <4>3
    <3>7. CASE frame = Text(BuildBodyEnded) /\ chunksRead = req.chunks
      <4>1. frame.kind = "text" /\ frame.msg = BuildBodyEnded
        BY <3>7 DEF Text
      <4>2. IsEnd(n)'
        BY <3>3, <3>4, <3>7, <4>1 DEF IsEnd
      <4>3. QED
        BY <4>2
    <3>8. QED
      BY <1>2, <2>5, <3>1, <3>6, <3>7
  <2>6. Awaited' = Awaited /\ Before' = Before
    BY DEF Awaited, Before
  <2>7. target = NoTarget => toConnector'[1].kind = "text"
    <3>1. CASE toConnector = <<>>
      <4>1. target = NoTarget => handler = "start"
        BY <1>2, <3>1 DEF StreamInv, SentInv, Awaited
      <4>2. Len(toConnector) = 0
        BY <3>1
      <4>3. QED
        BY <1>2, <2>3, <4>1, <4>2 DEF Awaited
    <3>2. CASE toConnector # <<>>
      BY <2>1, <2>3, <3>2 DEF StreamInv, FramesInv
    <3>3. QED
      BY <3>1, <3>2
  <2>8. \A i \in 1..Len(toConnector') : i \in 1..Len(toConnector) \/ i = Len(toConnector) + 1
    BY <2>2, <2>3
  <2>9. Awaited' => \A i \in 1..Len(toConnector') : i > Before' => (IsChunk(i) \/ IsEnd(i))'
    BY <2>4, <2>5, <2>6, <2>8
  <2>10. QED
    BY <1>2, <2>2, <2>3, <2>7, <2>9 DEF FramesInv
<1>3. QED
  BY <1>1, <1>2


LEMMA StillBody == ASSUME BodyInv, ConnectorStill PROVE BodyInv'
BY DEF BodyInv, ConnectorStill

(* The description of the request is the first frame.                      *)
LEMMA DescriptionStep == StreamInv /\ SendDescription => StreamInv'
<1> SUFFICES ASSUME StreamInv, SendDescription PROVE StreamInv'
  OBVIOUS
<1>1. PICK frame :
        /\ frame.kind = "text"
        /\ toConnector' = IF reply = "lost" THEN toConnector ELSE Append(toConnector, frame)
        /\ ConnectorStill
  BY DEF SendDescription, Send, Text, ConnectorStill, targetVars, replyVars
<1>2. handler = "start" /\ handler' \in {"stream", "sent"} /\ chunksRead' = chunksRead
  BY DEF SendDescription
<1>3. /\ target = NoTarget /\ toConnector = <<>> /\ chunksRead = 0 /\ reply # "lost"
      /\ pipe = "none" /\ targetBody = <<>>
  BY <1>2 DEF StreamInv, StartInv
<1>4. FramesInv' /\ Len(toConnector)' = Len(toConnector) + 1 /\ toConnector' # <<>>
  BY <1>1, <1>2, <1>3, SendStep
<1>5. HandlerTyped'
  BY <1>1, <1>2 DEF StreamInv, HandlerTyped, ConnectorStill
<1>6. SentInv'
  <2>1. Len(toConnector)' = 1
    BY <1>3, <1>4
  <2>2. Number(Len(toConnector))' = 0
    BY <1>1, <1>3, <2>1 DEF Number, Before, ConnectorStill
  <2>3. QED
    BY <1>2, <1>3, <1>4, <2>2 DEF SentInv
<1>7. StartInv' /\ BodyInv'
  BY <1>1, <1>2, StillBody DEF StreamInv, StartInv, ConnectorStill
<1>8. QED
  BY <1>4, <1>5, <1>6, <1>7 DEF StreamInv

(* A chunk is sent when it has been read.                                  *)
LEMMA ChunkSentStep == StreamInv /\ SendChunk => StreamInv'
<1> SUFFICES ASSUME StreamInv, SendChunk PROVE StreamInv'
  OBVIOUS
<1>1. /\ toConnector' = IF reply = "lost" THEN toConnector
                                          ELSE Append(toConnector, Binary(chunksRead + 1))
      /\ ConnectorStill
  BY DEF SendChunk, Send, ConnectorStill, targetVars, replyVars
<1>2. /\ handler = "stream" /\ handler' = handler
      /\ chunksRead < req.chunks /\ chunksRead' = chunksRead + 1
  BY DEF SendChunk
<1>3. /\ FramesInv'
      /\ reply # "lost" => /\ Len(toConnector)' = Len(toConnector) + 1 /\ toConnector' # <<>>
                           /\ Len(toConnector) \in Nat
  BY <1>1, <1>2, SendStep
<1>4. HandlerTyped'
  <2>1. req.chunks \in Nat /\ chunksRead \in 0..req.chunks
    BY ChunksAssumption DEF StreamInv, HandlerTyped
  <2>2. chunksRead + 1 \in 0..req.chunks
    BY <1>2, <2>1
  <2>3. QED
    BY <1>1, <1>2, <2>2 DEF StreamInv, HandlerTyped, ConnectorStill
<1>5. SentInv'
  <2>1. SUFFICES ASSUME reply # "lost", Awaited
                 PROVE  chunksRead' = Number(Len(toConnector))' /\ toConnector' # <<>>
    BY <1>1, <1>2 DEF SentInv, Awaited, ConnectorStill
  <2>2. chunksRead = Number(Len(toConnector))
    BY <1>2, <2>1 DEF StreamInv, SentInv
  <2>3. Len(targetBody) \in Nat /\ Before \in Int
    BY DEF StreamInv, BodyInv, Before
  <2>4. Number(Len(toConnector))' = Len(targetBody) + (Len(toConnector) + 1) - Before
    BY <1>1, <1>3, <2>1 DEF Number, Before, ConnectorStill
  <2>5. QED
    BY <1>2, <1>3, <2>1, <2>2, <2>3, <2>4 DEF Number
<1>6. StartInv' /\ BodyInv'
  BY <1>1, <1>2, StillBody DEF StreamInv, StartInv, ConnectorStill
<1>7. QED
  BY <1>3, <1>4, <1>5, <1>6 DEF StreamInv

(* The end of the body is sent when it has been read whole.                *)
LEMMA EndSentStep == StreamInv /\ SendEnd => StreamInv'
<1> SUFFICES ASSUME StreamInv, SendEnd PROVE StreamInv'
  OBVIOUS
<1>1. /\ toConnector' = IF reply = "lost" THEN toConnector
                                          ELSE Append(toConnector, Text(BuildBodyEnded))
      /\ ConnectorStill
  BY DEF SendEnd, Send, ConnectorStill, targetVars, replyVars
<1>2. /\ handler = "stream" /\ handler' = "sent"
      /\ chunksRead = req.chunks /\ chunksRead' = chunksRead
  BY DEF SendEnd
<1>3. FramesInv'
  BY <1>1, <1>2, SendStep
<1>4. HandlerTyped' /\ SentInv' /\ StartInv' /\ BodyInv'
  BY <1>1, <1>2, StillBody DEF StreamInv, HandlerTyped, SentInv, StartInv, ConnectorStill
<1>5. QED
  BY <1>3, <1>4 DEF StreamInv

(* A handler that fails, or has finished, sends nothing more.              *)
LEMMA FailureStep ==
  StreamInv /\ (ReadFails \/ SendFails \/ WriteErrorText \/ HandlerDone \/ Return) => StreamInv'
<1> SUFFICES ASSUME StreamInv, ReadFails \/ SendFails \/ WriteErrorText \/ HandlerDone \/ Return
             PROVE  StreamInv'
  OBVIOUS
<1>1. /\ handler' \in {"sent", "failing", "texted", "failed"}
      /\ ConnectorStill /\ UNCHANGED <<chunksRead, toConnector>>
  BY DEF ReadFails, SendFails, HandlerFails, WriteErrorText, HandlerDone, Return, HandlerFrame,
         ConnectorStill, targetVars, replyVars
<1>2. FramesInv'
  BY <1>1 DEF StreamInv, FramesInv, Awaited, Before, Number, IsChunk, IsEnd, ConnectorStill
<1>3. HandlerTyped' /\ SentInv' /\ StartInv' /\ BodyInv'
  BY <1>1, StillBody DEF StreamInv, HandlerTyped, SentInv, StartInv, ConnectorStill
<1>4. QED
  BY <1>2, <1>3 DEF StreamInv

-----------------------------------------------------------------------------
(* The connector's reader.                                                 *)

\* the handler, and the websocket, are as they were
HandlerStill == UNCHANGED <<req, handler, chunksRead, reply>>

(* A frame that is taken brings the ones behind it a place nearer: as long *)
(* as the target is one chunk, or the description, further on.             *)
LEMMA TakeStep ==
  ASSUME StreamInv, HandlerStill, toConnector # <<>>, toConnector' = Tail(toConnector),
         target' # NoTarget, Len(targetBody') \in Nat,
         Awaited' => Awaited /\ (Len(targetBody) - Before)' = Len(targetBody) - Before + 1
  PROVE  FramesInv' /\ SentInv'
<1> USE DEF HandlerStill
<1>1. PICK S : toConnector \in Seq(S)
  BY DEF StreamInv, FramesInv
<1>2. /\ Tail(toConnector) \in Seq(S) /\ Len(Tail(toConnector)) = Len(toConnector) - 1
      /\ \A i \in 1..Len(Tail(toConnector)) : Tail(toConnector)[i] = toConnector[i + 1]
      /\ Len(toConnector) \in Nat
  BY <1>1, HeadTailProperties
<1>3. Len(targetBody) \in Nat /\ Before \in Int /\ Before <= 1 /\ Before' = 0
  BY DEF StreamInv, BodyInv, Before
<1>4. ASSUME Awaited', NEW i \in Nat
      PROVE  Number(i)' = Number(i + 1)
  BY <1>3, <1>4 DEF Number
<1>5. ASSUME Awaited', NEW i \in 1..Len(toConnector')
      PROVE  (IsChunk(i) \/ IsEnd(i))'
  <2>1. i + 1 \in 1..Len(toConnector) /\ i + 1 > Before /\ i \in Nat
    BY <1>2, <1>3
  <2>2. IsChunk(i + 1) \/ IsEnd(i + 1)
    BY <1>5, <2>1 DEF StreamInv, FramesInv
  <2>3. toConnector'[i] = toConnector[i + 1] /\ Number(i)' = Number(i + 1)
    BY <1>2, <1>4, <1>5, <2>1
  <2>4. QED
    BY <2>2, <2>3 DEF IsChunk, IsEnd
<1>6. SentInv'
  <2>1. SUFFICES ASSUME handler = "stream", reply # "lost", Awaited'
                 PROVE  chunksRead = Number(Len(toConnector))'
    BY DEF SentInv
  <2>2. chunksRead = Number(Len(toConnector))
    BY <2>1 DEF StreamInv, SentInv
  <2>3. Number(Len(toConnector))' = Number(Len(toConnector))
    BY <1>2, <1>3, <2>1 DEF Number
  <2>4. QED
    BY <2>2, <2>3
<1>7. QED
  BY <1>1, <1>2, <1>5, <1>6 DEF FramesInv

\* reading the description makes the request the target is sent
LEMMA ReceiveDescriptionStep == StreamInv /\ ReceiveDescription => StreamInv'
<1> SUFFICES ASSUME StreamInv, ReceiveDescription PROVE StreamInv'
  OBVIOUS
<1>1. /\ toConnector # <<>> /\ toConnector' = Tail(toConnector) /\ HandlerStill
      /\ target = NoTarget /\ targetBody' = targetBody /\ pipe' \in {"open", "none"}
  BY DEF ReceiveDescription, Received, HandlerStill, routerVars, replyVars
<1>2. target' # NoTarget
  <2>1. PICK m, d, u, h : target' = [method |-> m, dest |-> d, url |-> u, headers |-> h]
    BY DEF ReceiveDescription
  <2>2. QED
    BY <2>1 DEF NoTarget
<1>3. targetBody = <<>> /\ Before = 1 /\ Before' = 0 /\ Awaited
  BY <1>1, <1>2 DEF StreamInv, StartInv, Before, Awaited
<1>4. FramesInv' /\ SentInv'
  BY <1>1, <1>2, <1>3, TakeStep
<1>5. HandlerTyped' /\ StartInv' /\ BodyInv'
  BY <1>1, <1>2, <1>3 DEF StreamInv, HandlerTyped, StartInv, BodyInv, HandlerStill
<1>6. QED
  BY <1>4, <1>5 DEF StreamInv

\* a path that cannot be parsed ends the connector, which loses its frames
LEMMA ReceiveBadDestStep == StreamInv /\ ReceiveBadDest => StreamInv'
<1> SUFFICES ASSUME StreamInv, ReceiveBadDest PROVE StreamInv'
  OBVIOUS
<1>1. /\ toConnector # <<>> /\ toConnector' = <<>> /\ reply' = "lost"
      /\ UNCHANGED <<req, handler, chunksRead, target, pipe, targetBody>>
  BY DEF ReceiveBadDest, Received, routerVars, targetVars
<1>2. FramesInv' /\ SentInv'
  <2>1. toConnector' \in Seq({}) /\ Len(toConnector') = 0
    BY <1>1
  <2>2. QED
    BY <1>1, <2>1 DEF FramesInv, SentInv
<1>3. HandlerTyped' /\ StartInv' /\ BodyInv'
  BY <1>1 DEF StreamInv, HandlerTyped, StartInv, BodyInv
<1>4. QED
  BY <1>2, <1>3 DEF StreamInv

\* a text that follows is the end of the body, and comes when it was read
LEMMA ReceiveEndStep == StreamInv /\ ReceiveEnd => StreamInv'
<1> SUFFICES ASSUME StreamInv, ReceiveEnd PROVE StreamInv'
  OBVIOUS
<1>1. /\ toConnector # <<>> /\ toConnector' = Tail(toConnector) /\ HandlerStill
      /\ target # NoTarget /\ UNCHANGED <<target, targetBody>>
      /\ Head(toConnector).kind = "text"
  BY DEF ReceiveEnd, Received, HandlerStill, routerVars, replyVars
<1>2. CASE pipe = "open"
  <2>1. PICK S : toConnector \in Seq(S)
    BY DEF StreamInv, FramesInv
  <2>2. 1 \in 1..Len(toConnector) /\ Head(toConnector) = toConnector[1]
    BY <1>1, <2>1
  <2>3. IsChunk(1) \/ IsEnd(1)
    BY <1>1, <1>2, <2>2 DEF StreamInv, FramesInv, Awaited, Before
  <2>4. IsEnd(1)
    BY <1>1, <2>2, <2>3 DEF IsChunk
  <2>5. Head(toConnector).msg = BuildBodyEnded
    BY <2>2, <2>4 DEF IsEnd
  <2>6. NewCrankerProtocolRequest(BuildBodyEnded).endMarker = RequestBodyEndedMarker
    BY Zenon DEF NewCrankerProtocolRequest
  <2>7. pipe' = "ended"
    BY <1>2, <2>5, <2>6 DEF ReceiveEnd
  <2>8. Len(targetBody) = req.chunks
    <3>1. Number(1) = req.chunks + 1 /\ Number(1) = Len(targetBody) + 1
      BY <1>1, <2>4 DEF IsEnd, Number, Before, StreamInv, BodyInv
    <3>2. Len(targetBody) \in Nat /\ req.chunks \in Nat
      BY ChunksAssumption DEF StreamInv, BodyInv, HandlerTyped
    <3>3. QED
      BY <3>1, <3>2
  <2>9. ~Awaited'
    BY <1>1, <2>7 DEF Awaited
  <2>10. FramesInv' /\ SentInv'
    BY <1>1, <2>9, TakeStep DEF StreamInv, BodyInv
  <2>11. HandlerTyped' /\ StartInv' /\ BodyInv'
    BY <1>1, <2>7, <2>8 DEF StreamInv, HandlerTyped, StartInv, BodyInv, HandlerStill
  <2>12. QED
    BY <2>10, <2>11 DEF StreamInv
<1>3. CASE pipe # "open"
  <2>1. pipe' = pipe
    BY <1>3 DEF ReceiveEnd
  <2>2. ~Awaited'
    BY <1>1, <1>3, <2>1 DEF Awaited
  <2>3. FramesInv' /\ SentInv'
    BY <1>1, <2>2, TakeStep DEF StreamInv, BodyInv
  <2>4. HandlerTyped' /\ StartInv' /\ BodyInv'
    BY <1>1, <2>1 DEF StreamInv, HandlerTyped, StartInv, BodyInv, HandlerStill
  <2>5. QED
    BY <2>3, <2>4 DEF StreamInv
<1>4. QED
  BY <1>2, <1>3

\* a chunk is the next one of the body
LEMMA ReceiveChunkStep == StreamInv /\ ReceiveChunk => StreamInv'
<1> SUFFICES ASSUME StreamInv, ReceiveChunk PROVE StreamInv'
  OBVIOUS
<1>1. /\ toConnector # <<>> /\ toConnector' = Tail(toConnector) /\ HandlerStill
      /\ UNCHANGED <<target, pipe>> /\ Head(toConnector).kind = "binary"
  BY DEF ReceiveChunk, Received, HandlerStill, routerVars, replyVars
<1>2. PICK S : toConnector \in Seq(S)
  BY DEF StreamInv, FramesInv
<1>3. 1 \in 1..Len(toConnector) /\ Head(toConnector) = toConnector[1]
  BY <1>1, <1>2
<1>4. target # NoTarget
  BY <1>1, <1>3 DEF StreamInv, FramesInv
<1>5. CASE pipe = "open"
  <2>1. IsChunk(1)
    BY <1>1, <1>3, <1>4, <1>5 DEF StreamInv, FramesInv, Awaited, Before, IsEnd
  <2>2. Len(targetBody) \in Nat /\ req.chunks \in Nat /\ targetBody \in Seq(Nat)
    BY ChunksAssumption DEF StreamInv, BodyInv, HandlerTyped
  <2>3. Number(1) = Len(targetBody) + 1
    BY <1>4, <2>2 DEF Number, Before
  <2>4. targetBody' = Append(targetBody, Len(targetBody) + 1)
    BY <1>3, <1>5, <2>1, <2>3 DEF ReceiveChunk, IsChunk
  <2>5. Len(targetBody) + 1 <= req.chunks
    BY <2>1, <2>2, <2>3 DEF IsChunk
  <2>6. BodyInv'
    BY <1>1, <1>5, <2>2, <2>4, <2>5 DEF StreamInv, BodyInv, HandlerStill
  <2>7. Len(targetBody)' = Len(targetBody) + 1
    BY <2>2, <2>4
  <2>8. FramesInv' /\ SentInv'
    BY <1>1, <1>4, <1>5, <2>2, <2>7, TakeStep DEF Awaited, Before
  <2>9. HandlerTyped' /\ StartInv'
    BY <1>1, <1>4 DEF StreamInv, HandlerTyped, StartInv, HandlerStill
  <2>10. QED
    BY <2>6, <2>8, <2>9 DEF StreamInv
<1>6. CASE pipe # "open"
  <2>1. targetBody' = targetBody
    BY <1>6 DEF ReceiveChunk
  <2>2. FramesInv' /\ SentInv'
    BY <1>1, <1>4, <1>6, <2>1, TakeStep DEF Awaited, StreamInv, BodyInv
  <2>3. HandlerTyped' /\ StartInv' /\ BodyInv'
    BY <1>1, <1>4, <2>1 DEF StreamInv, HandlerTyped, StartInv, BodyInv, HandlerStill
  <2>4. QED
    BY <2>2, <2>3 DEF StreamInv
<1>7. QED
  BY <1>5, <1>6

-----------------------------------------------------------------------------
(* The other steps.                                                        *)

\* a target that reads no further waits for no frame
LEMMA StopReadingStep == StreamInv /\ StopReading => StreamInv'
<1> SUFFICES ASSUME StreamInv, StopReading PROVE StreamInv'
  OBVIOUS
<1>1. pipe = "open" /\ pipe' = "unread" /\ HandlerStill /\ UNCHANGED <<toConnector, target, targetBody>>
  BY DEF StopReading, HandlerStill, routerVars, replyVars
<1>2. target # NoTarget
  BY <1>1 DEF StreamInv, StartInv
<1>3. ~Awaited'
  BY <1>1, <1>2 DEF Awaited
<1>4. FramesInv' /\ SentInv'
  BY <1>1, <1>2, <1>3 DEF StreamInv, FramesInv, SentInv
<1>5. HandlerTyped' /\ StartInv' /\ BodyInv'
  BY <1>1 DEF StreamInv, HandlerTyped, StartInv, BodyInv, HandlerStill
<1>6. QED
  BY <1>4, <1>5 DEF StreamInv

\* a websocket that breaks loses the last frames
LEMMA BreakStep == StreamInv /\ WebsocketBreaks => StreamInv'
<1> SUFFICES ASSUME StreamInv, WebsocketBreaks PROVE StreamInv'
  OBVIOUS
<1>1. reply' = "lost" /\ handler # "start" /\ UNCHANGED <<req, handler, chunksRead, target, pipe, targetBody>>
  BY DEF WebsocketBreaks, routerVars, targetVars
<1>2. PICK S : toConnector \in Seq(S)
  BY DEF StreamInv, FramesInv
<1>3. PICK n \in 0..Len(toConnector) : toConnector' = SubSeq(toConnector, 1, n)
  BY DEF WebsocketBreaks
<1>4. /\ toConnector' \in Seq(S) /\ Len(toConnector') <= Len(toConnector) /\ Len(toConnector') \in Nat
      /\ \A i \in 1..Len(toConnector') : toConnector'[i] = toConnector[i]
  BY <1>2, <1>3
<1>5. FramesInv'
  <2>1. Awaited' = Awaited /\ Before' = Before /\ \A i : Number(i)' = Number(i)
    BY <1>1 DEF Awaited, Before, Number
  <2>2. ASSUME Awaited, NEW i \in 1..Len(toConnector'), i > Before
        PROVE  (IsChunk(i) \/ IsEnd(i))'
    <3>1. i \in 1..Len(toConnector)
      BY <1>2, <1>4
    <3>2. IsChunk(i) \/ IsEnd(i)
      BY <2>2, <3>1 DEF StreamInv, FramesInv
    <3>3. QED
      BY <1>1, <1>4, <2>1, <3>2 DEF IsChunk, IsEnd
  <2>3. target = NoTarget /\ toConnector' # <<>> => toConnector'[1].kind = "text"
    <3>1. toConnector' # <<>> => 1 \in 1..Len(toConnector') /\ toConnector # <<>>
      BY <1>2, <1>4
    <3>2. QED
      BY <1>4, <3>1 DEF StreamInv, FramesInv
  <2>4. QED
    BY <1>1, <1>4, <2>1, <2>2, <2>3 DEF FramesInv
<1>6. HandlerTyped' /\ SentInv' /\ StartInv' /\ BodyInv'
  BY <1>1 DEF StreamInv, HandlerTyped, SentInv, StartInv, BodyInv
<1>7. QED
  BY <1>5, <1>6 DEF StreamInv

\* nothing else touches the stream of the body
LEMMA AsideStep ==
  ASSUME StreamInv, UNCHANGED <<req, handler, chunksRead, toConnector, target, pipe, targetBody>>,
         reply' = "lost" <=> reply = "lost"
  PROVE  StreamInv'
<1>1. FramesInv'
  BY DEF StreamInv, FramesInv, Awaited, Before, Number, IsChunk, IsEnd
<1>2. SentInv'
  BY DEF StreamInv, SentInv, Awaited, Before, Number
<1>3. HandlerTyped' /\ StartInv' /\ BodyInv'
  BY DEF StreamInv, HandlerTyped, StartInv, BodyInv
<1>4. QED
  BY <1>1, <1>2, <1>3 DEF StreamInv

LEMMA StreamStep == StreamInv /\ [Next]_vars => StreamInv'
<1> SUFFICES ASSUME StreamInv, [Next]_vars PROVE StreamInv'
  OBVIOUS
<1>1. CASE HandlerNext \/ ReadFails
  BY <1>1, DescriptionStep, ChunkSentStep, EndSentStep, FailureStep DEF HandlerNext
<1>2. CASE ConnectorNext
  BY <1>2, ReceiveDescriptionStep, ReceiveBadDestStep, ReceiveEndStep, ReceiveChunkStep DEF ConnectorNext
<1>3. CASE Respond \/ ReplyChunk
  BY <1>3, AsideStep DEF Respond, ReplyChunk, ReplyFrame, routerVars, targetVars
<1>4. CASE ReplyEnds \/ ReplyBreaks
  BY <1>4, AsideStep DEF ReplyEnds, ReplyBreaks, CloseWebsocket, ReplyFrame, routerVars, targetVars
<1>5. CASE ReceiveResponse \/ ReceiveReply \/ ReceiveClose \/ ReceiveError
  <2>1. UNCHANGED <<req, handler, chunksRead, toConnector, target, pipe, targetBody, reply>>
    BY <1>5 DEF ReceiveResponse, ReceiveReply, ReceiveClose, ReceiveError, Receive, routerVars, targetVars
  <2>2. QED
    BY <2>1, AsideStep
<1>6. CASE UNCHANGED vars
  BY <1>6, AsideStep DEF vars
<1>7. QED
  BY <1>1, <1>2, <1>3, <1>4, <1>5, <1>6, StopReadingStep, BreakStep DEF Next

LEMMA StreamCorrect == Spec => []StreamInv
BY StreamInit, StreamStep, PTL DEF Spec

(* The target reads the chunks of any body in order, none twice and none   *)
(* left out, wherever the client, the websocket or the target stops.       *)
THEOREM ChunksInOrder == Spec => []BodyInOrder
<1>1. StreamInv => BodyInOrder
  <2> SUFFICES ASSUME StreamInv PROVE BodyInOrder
    OBVIOUS
  <2>1. targetBody \in Seq(Nat) /\ \A i \in 1..Len(targetBody) : targetBody[i] = i
    BY DEF StreamInv, BodyInv
  <2>2. targetBody = [i \in 1..Len(targetBody) |-> i]
    BY <2>1
  <2>3. QED
    BY <2>2 DEF BodyInOrder
<1>2. QED
  BY <1>1, StreamCorrect, PTL

(* A target that is told that the body has ended has read all of it.       *)
THEOREM EndMeansWhole == Spec => []EndedBodyIsWhole
<1>1. StreamInv => EndedBodyIsWhole
  BY DEF StreamInv, BodyInv, EndedBodyIsWhole
<1>2. QED
  BY <1>1, StreamCorrect, PTL

-----------------------------------------------------------------------------
(* The description of a response.                                          *)

(* The second word of the first line of a response is its status.          *)
LEMMA BuiltStatus ==
  ASSUME NEW method, NEW dest, NEW status, NEW reason, NEW lines,
         NEW T, NEW U, reason \in Seq(T), lines \in Seq(U)
  PROVE  BuildResponse(method, dest, status, reason, lines)[1][2] = status
<1> DEFINE version == "HTTP/1.1"
           first == <<version, status>> \o reason \o <<NoWord>>
           line == <<method, dest>>
           W == T \cup {version, status, NoWord}
           S == U \cup {first, line, Blank}
<1>1. first[2] = status
  <2> HIDE DEF version
  <2>1. <<version, status>> \in Seq(W) /\ reason \in Seq(W) /\ <<NoWord>> \in Seq(W)
    BY SeqMonotonic
  <2>2. /\ <<version, status>> \o reason \in Seq(W)
        /\ Len(<<version, status>> \o reason) = 2 + Len(reason)
        /\ (<<version, status>> \o reason)[2] = status
    BY <2>1, ConcatProperties
  <2>3. QED
    BY <2>1, <2>2, ConcatProperties
<1>2. (<<first, line>> \o lines \o <<Blank>>)[1] = first
  <2> HIDE DEF first, line
  <2>1. <<first, line>> \in Seq(S) /\ lines \in Seq(S) /\ <<Blank>> \in Seq(S)
    BY SeqMonotonic
  <2>2. /\ <<first, line>> \o lines \in Seq(S)
        /\ Len(<<first, line>> \o lines) = 2 + Len(lines)
        /\ (<<first, line>> \o lines)[1] = first
    BY <2>1, ConcatProperties
  <2>3. QED
    BY <2>1, <2>2, ConcatProperties
<1>3. QED
  BY <1>1, <1>2 DEF BuildResponse

(* What the router reads of the status is what the target gave.            *)
LEMMA StatusRead ==
  ASSUME NEW r \in Responses, NEW method, NEW dest
  PROVE  NewCrankerProtocolResponse(ResponseMessage(NewCrankerProtocolResponse(
             BuildResponse(method, dest, r.status, <<r.status>> \o r.reason,
                           HeaderLines(r.headers))))).status = r.status
<1> DEFINE built == BuildResponse(method, dest, r.status, <<r.status>> \o r.reason,
                                  HeaderLines(r.headers))
           read == NewCrankerProtocolResponse(built)
<1>1. \E T : <<r.status>> \o r.reason \in Seq(T)
  <2>1. r.reason \in Seq(STRING \cup {r.status}) /\ <<r.status>> \in Seq(STRING \cup {r.status})
    BY ResponsesAssumption, SeqMonotonic
  <2>2. QED
    BY <2>1, ConcatProperties
<1>2. \E U : HeaderLines(r.headers) \in Seq(U)
  <2> DEFINE h == r.headers
             U == {HeaderLine(h[i][1], h[i][2]) : i \in DOMAIN h}
  <2>1. Len(h) \in Nat /\ DOMAIN h = 1..Len(h)
    BY ResponsesAssumption, LenProperties
  <2>2. HeaderLines(h) \in [1..Len(h) -> U]
    BY <2>1 DEF HeaderLines
  <2>3. HeaderLines(h) \in Seq(U)
    BY <2>1, <2>2, SeqDef
  <2>4. QED
    BY <2>3
<1>3. read.status = built[1][2] /\ built[1][2] = r.status
  <2>1. ASSUME NEW rs, NEW hl, NEW T, NEW U, rs \in Seq(T), hl \in Seq(U)
        PROVE  BuildResponse(method, dest, r.status, rs, hl)[1][2] = r.status
    BY <2>1, BuiltStatus
  <2>2. built[1][2] = r.status
    BY <1>1, <1>2, <2>1, Zenon
  <2>3. QED
    BY <2>2 DEF NewCrankerProtocolResponse
<1>4. read.Headers = <<>>
  BY DEF NewCrankerProtocolResponse
<1>5. ResponseMessage(read)[1][2] = read.status
  <2> HIDE DEF read
  <2>1. <<read.reason>> \in Seq({read.reason}) /\ read.Headers \in Seq({read.reason})
    BY <1>4
  <2>2. BuildResponse(read.httpMethod, read.sourceUrl, read.status, <<read.reason>>,
                      read.Headers)[1][2] = read.status
    <3>1. ASSUME NEW rs, NEW hl, NEW T, NEW U, rs \in Seq(T), hl \in Seq(U)
          PROVE  BuildResponse(read.httpMethod, read.sourceUrl, read.status, rs, hl)[1][2]
                     = read.status
      BY <3>1, BuiltStatus
    <3>2. QED
      BY <2>1, <3>1, Zenon
  <2>3. QED
    BY <2>2 DEF ResponseMessage
<1>6. NewCrankerProtocolResponse(ResponseMessage(read)).status = ResponseMessage(read)[1][2]
  BY DEF NewCrankerProtocolResponse
<1>7. QED
  BY <1>3, <1>5, <1>6

-----------------------------------------------------------------------------
(* The frames on their way to the router.                                  *)

\* the description of the response is under way, and comes first
Owed == IF toRouter # <<>> /\ toRouter[1].kind = "text" THEN 1 ELSE 0

\* the number, in the target's answer, of the chunk that frame i would be
ReplyNumber(i) == Len(client.chunks) + i - Owed

IsDescription(i) ==
    /\ toRouter[i].kind = "text" /\ i = 1 /\ response # NoResponse
    /\ NewCrankerProtocolResponse(toRouter[i].msg).status = response.status

IsReply(i) ==
    /\ toRouter[i].kind = "binary" /\ i > Owed
    /\ toRouter[i].chunk = ReplyNumber(i) /\ toRouter[i].chunk <= replies

\* nothing follows the frame that closes the websocket, or its error
IsLast(i) ==
    /\ toRouter[i].kind \in {"close", "error"} /\ i = Len(toRouter) /\ reply # "open"
    /\ toRouter[i].kind = "close" /\ toRouter[i].code = InternalServerErr => reply # "whole"
    /\ reply # "lost" => toRouter[i].kind = "close"

IsDue(i) == IsDescription(i) \/ IsReply(i) \/ IsLast(i)

\* the frames under way but for the one that closes the websocket
Pending == Len(toRouter) - IF reply = "open" \/ toRouter = <<>> THEN 0 ELSE 1

WireInv ==
    /\ \E S : toRouter \in Seq(S)
    /\ ~client.over => \A i \in 1..Len(toRouter) : IsDue(i)
    /\ ~client.over /\ reply # "lost" => Pending = Owed + (replies - Len(client.chunks))

GivenInv ==
    /\ response \in Responses \cup {NoResponse}
    /\ reply \in {"open", "whole", "broken", "lost"}
    /\ replies \in Nat
    /\ response = NoResponse => replies = 0 /\ reply # "whole"

\* the chunks are the first ones of the answer, and texts tell of errors
ChunksInv ==
    /\ Len(client.chunks) <= replies
    /\ \A i \in 1..Len(client.chunks) : client.chunks[i] = i
    /\ client.texts # {} => HandlerFailed \/ reply = "lost"

ClientOf(A, B) ==
    [status : A, headers : B, chunks : Seq(Nat), texts : SUBSET Nat,
     end : {"none", "close", "error"}, over : BOOLEAN]

StatusInv ==
    /\ \/ client.status \in {"none", response.status}
       \/ client.status = BadGateway /\ (HandlerFailed \/ reply \in {"broken", "lost"})
    /\ ~client.over /\ reply # "lost" /\ response # NoResponse /\ Owed = 0 => client.status # "none"

EndInv ==
    /\ client.end = "close" =>
           reply # "open" /\ (reply = "whole" => Len(client.chunks) = replies)
    /\ client.end # "none" /\ ~HandlerFailed /\ reply # "lost" =>
           /\ reply \in {"whole", "broken"}
           /\ reply = "whole" => client.status = response.status /\ Len(client.chunks) = replies

ClientInv == (\E A, B : client \in ClientOf(A, B)) /\ StatusInv /\ EndInv

ReplyInv == WireInv /\ GivenInv /\ ChunksInv /\ ClientInv

LEMMA ReplyInit == Init => ReplyInv
<1> SUFFICES ASSUME Init PROVE ReplyInv
  OBVIOUS
<1>1. /\ handler = "start" /\ toRouter = <<>> /\ response = NoResponse /\ reply = "open"
      /\ replies = 0
      /\ client = [status |-> "none", headers |-> <<>>, chunks |-> <<>>, texts |-> {},
                   end |-> "none", over |-> FALSE]
  BY DEF Init
<1>2. /\ Len(client.chunks) = 0 /\ Owed = 0 /\ Pending = 0 /\ ~client.over /\ Len(toRouter) = 0
      /\ client.status = "none" /\ client.end = "none" /\ client.texts = {}
  <2>1. /\ client.chunks = <<>> /\ client.status = "none" /\ client.end = "none"
        /\ client.texts = {} /\ ~client.over
    BY <1>1
  <2>2. Len(client.chunks) = 0 /\ Len(toRouter) = 0
    BY <1>1, <2>1
  <2>3. QED
    BY <1>1, <2>1, <2>2 DEF Owed, Pending
<1>3. WireInv
  <2>1. toRouter \in Seq({}) /\ \A i \in 1..Len(toRouter) : IsDue(i)
    BY <1>1, <1>2
  <2>2. \E S : toRouter \in Seq(S)
    BY <2>1
  <2>3. Pending = Owed + (replies - Len(client.chunks))
    <3>1. replies = 0
      BY <1>1
    <3>2. QED
      BY <1>2, <3>1
  <2>4. QED
    BY <2>1, <2>2, <2>3 DEF WireInv
<1>4. GivenInv /\ ChunksInv /\ StatusInv /\ EndInv
  BY <1>1, <1>2 DEF GivenInv, ChunksInv, StatusInv, EndInv
<1>5. client \in ClientOf({"none"}, Seq(Nat))
  <2>1. <<>> \in Seq(Nat) /\ {} \in SUBSET Nat
    OBVIOUS
  <2>2. QED
    BY <1>1, <2>1 DEF ClientOf
<1>6. QED
  BY <1>3, <1>4, <1>5 DEF ReplyInv, ClientInv

\* what the router's reader and the client see
ReplyStill == UNCHANGED <<toRouter, response, reply, replies, client>>

\* what is under way is what it was
LEMMA SameFrames ==
  ASSUME UNCHANGED <<toRouter, response, reply, replies>>, client'.chunks = client.chunks
  PROVE  Owed' = Owed /\ Pending' = Pending /\ \A i : IsDue(i)' = IsDue(i)
<1>1. Owed' = Owed
  BY DEF Owed
<1>2. Pending' = Pending
  BY DEF Pending
<1>3. ASSUME NEW i PROVE IsDue(i)' = IsDue(i)
  <2>1. IsDescription(i)' = IsDescription(i)
    BY DEF IsDescription
  <2>2. IsReply(i)' = IsReply(i)
    BY <1>1 DEF IsReply, ReplyNumber
  <2>3. IsLast(i)' = IsLast(i)
    BY DEF IsLast
  <2>4. QED
    BY <2>1, <2>2, <2>3 DEF IsDue
<1>4. QED
  BY <1>1, <1>2, <1>3

(* A step that touches none of it, and does not mend the handler.          *)
LEMMA ReplyAside ==
  ASSUME ReplyInv, ReplyStill, HandlerFailed => HandlerFailed'
  PROVE  ReplyInv'
<1> USE DEF ReplyInv, ReplyStill
<1>1. WireInv'
  BY SameFrames DEF WireInv
<1>2. GivenInv' /\ ChunksInv'
  BY DEF GivenInv, ChunksInv
<1>3. ClientInv'
  <2>1. \E A, B : client' \in ClientOf(A, B)
    BY DEF ClientInv
  <2>2. StatusInv' /\ EndInv'
    BY DEF ClientInv, StatusInv, EndInv, Owed
  <2>3. (\E A, B : client \in ClientOf(A, B))'
    BY <2>1 DEF ClientOf
  <2>4. QED
    BY <2>2, <2>3 DEF ClientInv
<1>4. QED
  BY <1>1, <1>2, <1>3

(* The client is told of an error, or only that its response has ended, by *)
(* a handler that failed or a websocket that broke.                        *)
LEMMA FailedClient ==
  ASSUME ChunksInv, ClientInv, UNCHANGED <<response, reply, replies>>,
         HandlerFailed' \/ reply = "lost",
         NEW st \in {client.status, BadGateway}, NEW tx \in SUBSET Nat,
         NEW en, en = client.end \/ en = "error",
         client' = [client EXCEPT !.status = st, !.texts = tx, !.end = en],
         st = "none" => st = client.status /\ toRouter' = toRouter
  PROVE  /\ ClientInv' /\ ChunksInv'
         /\ client'.chunks = client.chunks /\ client'.over = client.over
<1>1. PICK A, B : client \in ClientOf(A, B)
  BY DEF ClientInv
<1>2. /\ client' \in ClientOf(A \cup {st}, B)
      /\ client'.status = st /\ client'.chunks = client.chunks /\ client'.texts = tx
      /\ client'.end = en /\ client'.over = client.over
  BY <1>1 DEF ClientOf
<1>3. ChunksInv'
  BY <1>2 DEF ChunksInv
<1>4. StatusInv'
  <2>1. ~client.over /\ reply # "lost" /\ response # NoResponse /\ Owed' = 0 => st # "none"
    BY DEF ClientInv, StatusInv, Owed
  <2>2. st \in {"none", response.status} \/ st = BadGateway
    BY DEF ClientInv, StatusInv
  <2>3. QED
    BY <1>2, <2>1, <2>2 DEF StatusInv
<1>5. EndInv'
  BY <1>2 DEF ClientInv, EndInv
<1>6. (\E C, D : client \in ClientOf(C, D))'
  BY <1>2 DEF ClientOf
<1>7. QED
  BY <1>2, <1>3, <1>4, <1>5, <1>6 DEF ClientInv

\* the text of an error is one more
LEMMA TextedClient ==
  ASSUME ClientInv
  PROVE  \E st \in {client.status, BadGateway}, tx \in SUBSET Nat :
            /\ st # "none"
            /\ Texted(client) = [client EXCEPT !.status = st, !.texts = tx, !.end = client.end]
            /\ Done(Texted(client), "error") =
                 [client EXCEPT !.status = st, !.texts = tx,
                                !.end = IF client.end = "none" THEN "error" ELSE client.end]
<1>1. PICK A, B : client \in ClientOf(A, B)
  BY DEF ClientInv
<1> DEFINE st == IF client.status = "none" THEN BadGateway ELSE client.status
           tx == client.texts \cup {Len(client.chunks)}
<1>2. st \in {client.status, BadGateway} /\ st # "none"
  BY DEF BadGateway
<1>3. tx \in SUBSET Nat
  <2>1. Len(client.chunks) \in Nat /\ client.texts \subseteq Nat
    BY <1>1 DEF ClientOf
  <2>2. QED
    BY <2>1
<1>4. Texted(client) = [client EXCEPT !.status = st, !.texts = tx]
  BY DEF Texted
<1> HIDE DEF st, tx
<1>5. [client EXCEPT !.status = st, !.texts = tx]
          = [client EXCEPT !.status = st, !.texts = tx, !.end = client.end]
  BY <1>1 DEF ClientOf
<1>6. Done(Texted(client), "error") =
        [client EXCEPT !.status = st, !.texts = tx,
                       !.end = IF client.end = "none" THEN "error" ELSE client.end]
  BY <1>1, <1>4 DEF Done, ClientOf
<1>7. QED
  BY <1>2, <1>3, <1>4, <1>5, <1>6

\* a client that is told changes no frame
LEMMA ToldWire ==
  ASSUME ReplyInv, UNCHANGED <<toRouter, response, reply, replies>>,
         client'.chunks = client.chunks, client.over => client'.over
  PROVE  WireInv' /\ GivenInv'
BY SameFrames DEF ReplyInv, WireInv, GivenInv

\* the router's handler fails, writes the error and calls Done
LEMMA HandlerFailsReply ==
  ReplyInv /\ (HandlerFails \/ WriteErrorText \/ HandlerDone) => ReplyInv'
<1> SUFFICES ASSUME ReplyInv, HandlerFails \/ WriteErrorText \/ HandlerDone PROVE ReplyInv'
  OBVIOUS
<1>1. CASE HandlerFails
  <2>1. ReplyStill /\ HandlerFailed'
    BY <1>1 DEF HandlerFails, ReplyStill, replyVars, HandlerFailed
  <2>2. QED
    BY <2>1, ReplyAside
<1>2. CASE WriteErrorText
  <2>1. client' = Texted(client) /\ HandlerFailed' /\ UNCHANGED <<toRouter, response, reply, replies>>
    BY <1>2 DEF WriteErrorText, HandlerFrame, HandlerFailed
  <2>2. PICK st \in {client.status, BadGateway}, tx \in SUBSET Nat :
          /\ st # "none"
          /\ client' = [client EXCEPT !.status = st, !.texts = tx, !.end = client.end]
    BY <2>1, TextedClient DEF ReplyInv
  <2>3. ClientInv' /\ ChunksInv' /\ client'.chunks = client.chunks /\ client'.over = client.over
    BY <2>1, <2>2, FailedClient DEF ReplyInv
  <2>4. QED
    BY <2>1, <2>3, ToldWire DEF ReplyInv
<1>3. CASE HandlerDone
  <2>1. client' = Done(client, "error") /\ HandlerFailed' /\ UNCHANGED <<toRouter, response, reply, replies>>
    BY <1>3 DEF HandlerDone, HandlerFrame, HandlerFailed
  <2> DEFINE en == IF client.end = "none" THEN "error" ELSE client.end
  <2>2. PICK A, B : client \in ClientOf(A, B)
    BY DEF ReplyInv, ClientInv
  <2>3. client.texts \in SUBSET Nat
    BY <2>2 DEF ClientOf
  <2>4. client' = [client EXCEPT !.status = client.status, !.texts = client.texts, !.end = en]
    BY <2>1, <2>2 DEF Done, ClientOf
  <2>5. en = client.end \/ en = "error"
    OBVIOUS
  <2> HIDE DEF en
  <2>6. ClientInv' /\ ChunksInv' /\ client'.chunks = client.chunks /\ client'.over = client.over
    BY <2>1, <2>3, <2>4, <2>5, FailedClient DEF ReplyInv
  <2>7. QED
    BY <2>1, <2>6, ToldWire DEF ReplyInv
<1>4. QED
  BY <1>1, <1>2, <1>3

\* Handle returns: the client is written no more
LEMMA ReturnReply == ReplyInv /\ Return => ReplyInv'
<1> SUFFICES ASSUME ReplyInv, Return PROVE ReplyInv'
  OBVIOUS
<1>1. /\ client' = [client EXCEPT !.over = TRUE]
      /\ UNCHANGED <<handler, toRouter, response, reply, replies>>
  BY DEF Return, HandlerFrame
<1>2. PICK A, B : client \in ClientOf(A, B)
  BY DEF ReplyInv, ClientInv
<1>3. /\ client' \in ClientOf(A, B) /\ client'.over
      /\ client'.status = client.status /\ client'.chunks = client.chunks
      /\ client'.texts = client.texts /\ client'.end = client.end
  BY <1>1, <1>2 DEF ClientOf
<1>4. WireInv' /\ GivenInv'
  BY <1>1, <1>3, ToldWire
<1>5. ChunksInv' /\ StatusInv' /\ EndInv'
  BY <1>1, <1>3 DEF ReplyInv, ChunksInv, ClientInv, StatusInv, EndInv, HandlerFailed
<1>6. (\E C, D : client \in ClientOf(C, D))'
  BY <1>3 DEF ClientOf
<1>7. QED
  BY <1>4, <1>5, <1>6 DEF ReplyInv, ClientInv

(* The websocket is lost, after some of the frames under way.              *)
LEMMA LostReply ==
  ASSUME ReplyInv, reply' = "lost", UNCHANGED <<handler, response, replies, client>>,
         NEW S, toRouter' \in Seq(S), NEW n \in 0..Len(toRouter),
         \A i \in 1..Len(toRouter') :
             IF i <= n THEN toRouter'[i] = toRouter[i] ELSE toRouter'[i].kind = "error",
         n < Len(toRouter') => Len(toRouter') = n + 1,
         \A i \in 1..Len(toRouter') :
             ~client.over /\ i <= n /\ IsLast(i) => i = Len(toRouter')
  PROVE  ReplyInv'
<1>1. ASSUME ~client.over, NEW i \in 1..Len(toRouter')
      PROVE  IsDue(i)'
  <2>1. CASE i <= n
    <3>1. i \in 1..Len(toRouter) /\ 1 \in 1..Len(toRouter') /\ 1 <= n /\ toRouter # <<>> /\ toRouter' # <<>>
      <4>1. Len(toRouter) \in Nat /\ Len(toRouter') \in Nat
        BY DEF ReplyInv, WireInv
      <4>2. QED
        BY <2>1, <4>1
    <3>2. IsDue(i) /\ toRouter'[i] = toRouter[i] /\ toRouter'[1] = toRouter[1]
      BY <1>1, <2>1, <3>1 DEF ReplyInv, WireInv
    <3>3. Owed' = Owed
      BY <3>1, <3>2 DEF Owed
    <3>4. ReplyNumber(i)' = ReplyNumber(i)
      BY <3>3 DEF ReplyNumber
    <3>5. IsDescription(i) => IsDescription(i)'
      BY <3>2 DEF IsDescription
    <3>6. IsReply(i) => IsReply(i)'
      BY <3>2, <3>3, <3>4 DEF IsReply
    <3>7. IsLast(i) => IsLast(i)'
      BY <1>1, <2>1, <3>2 DEF IsLast
    <3>8. QED
      BY <3>2, <3>5, <3>6, <3>7 DEF IsDue
  <2>2. CASE ~(i <= n)
    <3>1. toRouter'[i].kind = "error" /\ i = Len(toRouter')
      <4>1. Len(toRouter') \in Nat /\ i \in 1..Len(toRouter') /\ n \in Nat
        BY <1>1
      <4>2. i = n + 1 /\ Len(toRouter') = n + 1
        BY <2>2, <4>1
      <4>3. QED
        BY <2>2, <4>2
    <3>2. QED
      BY <3>1 DEF IsDue, IsLast
  <2>3. QED
    BY <2>1, <2>2
<1>2. WireInv'
  BY <1>1 DEF WireInv
<1>3. GivenInv' /\ ChunksInv' /\ StatusInv' /\ EndInv'
  BY DEF ReplyInv, GivenInv, ChunksInv, ClientInv, StatusInv, EndInv, HandlerFailed
<1>4. (\E A, B : client \in ClientOf(A, B))'
  BY DEF ReplyInv, ClientInv, ClientOf
<1>5. QED
  BY <1>2, <1>3, <1>4 DEF ReplyInv, ClientInv

\* the websocket breaks, or ends with the connector
LEMMA BreakReply == ReplyInv /\ (WebsocketBreaks \/ ReceiveBadDest) => ReplyInv'
<1> SUFFICES ASSUME ReplyInv, WebsocketBreaks \/ ReceiveBadDest PROVE ReplyInv'
  OBVIOUS
<1>1. reply' = "lost" /\ UNCHANGED <<handler, response, replies, client>>
  BY DEF WebsocketBreaks, ReceiveBadDest, routerVars
<1>2. PICK S : toRouter \in Seq(S)
  BY DEF ReplyInv, WireInv
<1>3. Len(toRouter) \in Nat /\ SubSeq(toRouter, 1, Len(toRouter)) = toRouter
  BY <1>2
<1>4. CASE toRouter' = toRouter
  <2>1. \A i \in 1..Len(toRouter') : i <= Len(toRouter) /\ toRouter'[i] = toRouter[i]
    BY <1>3, <1>4
  <2>2. \A i \in 1..Len(toRouter') :
            ~client.over /\ IsLast(i) => i = Len(toRouter')
    BY <1>3, <1>4 DEF IsLast
  <2>3. Len(toRouter) \in 0..Len(toRouter) /\ toRouter' \in Seq(S) /\ Len(toRouter') = Len(toRouter)
    BY <1>2, <1>3, <1>4
  <2>4. QED
    BY <1>1, <2>1, <2>2, <2>3, LostReply
<1>5. ASSUME NEW n \in 0..Len(toRouter), toRouter' = Append(SubSeq(toRouter, 1, n), Error),
             \A i \in 1..n : ~client.over => ~IsLast(i)
      PROVE  ReplyInv'
  <2>1. /\ SubSeq(toRouter, 1, n) \in Seq(S) /\ Len(SubSeq(toRouter, 1, n)) = n
        /\ \A i \in 1..n : SubSeq(toRouter, 1, n)[i] = toRouter[i]
    BY <1>2, <1>3
  <2>2. /\ toRouter' \in Seq(S \cup {Error}) /\ Len(toRouter') = n + 1
        /\ toRouter'[n + 1] = Error /\ \A i \in 1..n : toRouter'[i] = toRouter[i]
    BY <1>5, <2>1, AppendFrame
  <2>3. ASSUME NEW i \in 1..Len(toRouter')
        PROVE  /\ IF i <= n THEN toRouter'[i] = toRouter[i] ELSE toRouter'[i].kind = "error"
               /\ ~client.over /\ i <= n /\ IsLast(i) => i = Len(toRouter')
    <3>1. CASE i <= n
      <4>1. i \in 1..n /\ ~(i > n)
        BY <1>3, <2>2, <3>1
      <4>2. QED
        BY <1>5, <2>2, <3>1, <4>1
    <3>2. CASE ~(i <= n)
      <4>1. i = n + 1
        BY <1>3, <2>2, <3>2
      <4>2. QED
        BY <2>2, <3>2, <4>1 DEF Error
    <3>3. QED
      BY <3>1, <3>2
  <2>4. QED
    BY <1>1, <2>2, <2>3, LostReply
<1>6. CASE WebsocketBreaks
  <2>1. PICK n \in 0..Len(toRouter) :
          toRouter' = IF n > 0 /\ toRouter[n].kind = "close" THEN toRouter
                      ELSE Append(SubSeq(toRouter, 1, n), Error)
    BY <1>6 DEF WebsocketBreaks
  <2>2. CASE n > 0 /\ toRouter[n].kind = "close"
    BY <1>4, <2>1, <2>2
  <2>3. CASE ~(n > 0 /\ toRouter[n].kind = "close")
    <3>1. ASSUME NEW i \in 1..n, IsLast(i) PROVE FALSE
      <4>1. i = n /\ n > 0
        <5>1. PICK l \in Nat : l = Len(toRouter)
          BY <1>3
        <5>2. n \in Nat /\ n <= l /\ i \in Nat /\ i <= n /\ i >= 1 /\ i = l
          BY <3>1, <5>1 DEF IsLast
        <5>3. n = i
          BY <5>1, <5>2
        <5>4. QED
          BY <5>2, <5>3
      <4>2. toRouter[i].kind = "close"
        BY <1>6, <3>1 DEF IsLast, WebsocketBreaks
      <4>3. QED
        BY <2>3, <4>1, <4>2
    <3>2. QED
      BY <1>5, <2>1, <2>3, <3>1
  <2>4. QED
    BY <2>2, <2>3
<1>7. CASE ReceiveBadDest
  <2>1. toRouter' = IF reply = "open" THEN Append(SubSeq(toRouter, 1, Len(toRouter)), Error)
                                      ELSE toRouter
    BY <1>3, <1>7 DEF ReceiveBadDest
  <2>2. reply = "open" => \A i \in 1..Len(toRouter) : ~IsLast(i)
    BY DEF IsLast
  <2>3. Len(toRouter) \in 0..Len(toRouter)
    BY <1>3
  <2>4. QED
    BY <1>4, <1>5, <2>1, <2>2, <2>3
<1>8. QED
  BY <1>6, <1>7

\* while the websocket is open, every chunk of the answer is under way or arrived
LEMMA OpenCount ==
  ASSUME ReplyInv, reply = "open", ~client.over
  PROVE  /\ Len(toRouter) = Owed + (replies - Len(client.chunks))
         /\ Len(toRouter) \in Nat /\ Len(client.chunks) \in Nat /\ replies \in Nat
         /\ Owed \in {0, 1} /\ Len(client.chunks) <= replies
<1>1. Len(client.chunks) \in Nat /\ Len(toRouter) \in Nat /\ replies \in Nat
  BY DEF ReplyInv, ClientInv, ClientOf, WireInv, GivenInv
<1>2. Owed \in {0, 1}
  BY DEF Owed
<1>3. Pending = Owed + (replies - Len(client.chunks)) /\ Len(client.chunks) <= replies
  BY DEF ReplyInv, WireInv, ChunksInv
<1>4. Pending = Len(toRouter)
  BY <1>1 DEF Pending
<1>5. QED
  BY <1>1, <1>2, <1>3, <1>4

(* A frame is appended, by the connector.                                  *)
LEMMA AppendReply ==
  ASSUME ReplyInv, NEW frame, toRouter' = Append(toRouter, frame), UNCHANGED <<handler, client>>,
         reply = "open", reply' # "lost",
         Owed' = Owed \/ toRouter = <<>>,
         \A i \in 1..Len(toRouter) : ~client.over /\ toRouter'[i] = toRouter[i] /\ IsDue(i) => IsDue(i)',
         \A i : ~client.over /\ i = Len(toRouter') /\ i = Len(toRouter) + 1 /\ toRouter'[i] = frame
                    => IsDue(i)',
         ~client.over =>
             Len(toRouter) + (IF reply' = "open" THEN 1 ELSE 0) = Owed' + (replies' - Len(client.chunks))
  PROVE  WireInv'
<1>1. PICK S : toRouter \in Seq(S)
  BY DEF ReplyInv, WireInv
<1>2. /\ toRouter' \in Seq(S \cup {frame}) /\ Len(toRouter') = Len(toRouter) + 1
      /\ toRouter' # <<>> /\ toRouter'[Len(toRouter) + 1] = frame /\ Len(toRouter) \in Nat
      /\ \A i \in 1..Len(toRouter) : toRouter'[i] = toRouter[i]
  BY <1>1, AppendFrame
<1>3. ASSUME ~client.over, NEW i \in 1..Len(toRouter')
      PROVE  IsDue(i)'
  <2>1. CASE i = Len(toRouter) + 1
    BY <1>2, <1>3, <2>1
  <2>2. CASE i # Len(toRouter) + 1
    <3>1. i \in 1..Len(toRouter)
      BY <1>2, <2>2
    <3>2. IsDue(i)
      BY <1>3, <3>1 DEF ReplyInv, WireInv
    <3>3. QED
      BY <1>2, <1>3, <3>1, <3>2
  <2>3. QED
    BY <2>1, <2>2
<1>4. Pending' = Len(toRouter) + IF reply' = "open" THEN 1 ELSE 0
  <2>1. CASE reply' = "open"
    BY <1>2, <2>1 DEF Pending
  <2>2. CASE reply' # "open"
    BY <1>2, <2>2 DEF Pending
  <2>3. QED
    BY <2>1, <2>2
<1>5. QED
  BY <1>2, <1>3, <1>4 DEF WireInv

\* a frame behind others leaves the first the first
LEMMA AppendOwed ==
  ASSUME ReplyInv, NEW frame, toRouter' = Append(toRouter, frame), frame.kind # "text"
  PROVE  Owed' = Owed
<1>1. PICK S : toRouter \in Seq(S)
  BY DEF ReplyInv, WireInv
<1>2. /\ Len(toRouter) \in Nat /\ toRouter'[Len(toRouter) + 1] = frame /\ toRouter' # <<>>
      /\ \A i \in 1..Len(toRouter) : toRouter'[i] = toRouter[i]
  BY <1>1, AppendFrame
<1>3. CASE toRouter = <<>>
  <2>1. toRouter'[1] = frame
    BY <1>2, <1>3
  <2>2. QED
    BY <1>2, <1>3, <2>1 DEF Owed
<1>4. CASE toRouter # <<>>
  <2>1. 1 \in 1..Len(toRouter)
    BY <1>1, <1>4
  <2>2. toRouter'[1] = toRouter[1]
    BY <1>2, <2>1
  <2>3. QED
    BY <1>2, <1>4, <2>2 DEF Owed
<1>5. QED
  BY <1>3, <1>4

\* the target answers
LEMMA RespondReply == ReplyInv /\ Respond => ReplyInv'
<1> SUFFICES ASSUME ReplyInv, Respond PROVE ReplyInv'
  OBVIOUS
<1>1. /\ response = NoResponse /\ reply = "open" /\ UNCHANGED <<handler, client, reply, replies>>
      /\ response' \in Responses
  BY DEF Respond, ReplyFrame, routerVars
<1>2. PICK frame :
        /\ toRouter' = Append(toRouter, frame) /\ frame.kind = "text"
        /\ NewCrankerProtocolResponse(frame.msg).status = response'.status
  <2>1. PICK r \in Responses :
          /\ response' = r
          /\ toRouter' = Append(toRouter, Text(ResponseMessage(NewCrankerProtocolResponse(
                 BuildResponse(target.method, target.dest, r.status, <<r.status>> \o r.reason,
                               HeaderLines(r.headers))))))
    BY DEF Respond
  <2>2. QED
    BY <2>1, StatusRead DEF Text
<1>3. NoResponse.status = "none" /\ response'.status # "none" /\ response' # NoResponse /\ replies = 0
  BY <1>1, ResponsesAssumption DEF NoResponse, ReplyInv, GivenInv
<1>4. ~client.over => Owed = 0 /\ Len(toRouter) = 0 /\ Len(client.chunks) = 0
  <2>1. SUFFICES ASSUME ~client.over PROVE Owed = 0 /\ Len(toRouter) = 0 /\ Len(client.chunks) = 0
    OBVIOUS
  <2>2. Len(client.chunks) = 0 /\ Len(toRouter) = Owed
    BY <1>1, <1>3, <2>1, OpenCount
  <2>3. Owed = 0
    <3>1. SUFFICES ASSUME Owed # 0 PROVE FALSE
      OBVIOUS
    <3>2. toRouter # <<>> /\ toRouter[1].kind = "text" /\ Len(toRouter) = 1
      BY <2>2, <3>1 DEF Owed
    <3>3. IsDue(1)
      BY <2>1, <3>2 DEF ReplyInv, WireInv
    <3>4. QED
      BY <1>1, <3>2, <3>3 DEF IsDue, IsDescription, IsReply, IsLast
  <2>4. QED
    BY <2>2, <2>3
<1>5. PICK S : toRouter \in Seq(S)
  BY DEF ReplyInv, WireInv
<1>6. /\ Len(toRouter) \in Nat /\ toRouter' # <<>> /\ Len(toRouter') = Len(toRouter) + 1
      /\ toRouter'[Len(toRouter) + 1] = frame
  BY <1>2, <1>5, AppendFrame
<1>7. ~client.over => toRouter = <<>> /\ Owed' = 1
  BY <1>2, <1>4, <1>5, <1>6 DEF Owed
<1>8. WireInv'
  <2>1. ASSUME ~client.over, NEW i \in 1..Len(toRouter') PROVE IsDue(i)'
    <3>1. i = 1 /\ toRouter'[i] = frame
      BY <1>4, <1>6, <2>1
    <3>2. QED
      BY <1>2, <1>3, <3>1 DEF IsDue, IsDescription
  <2>2. \E T : toRouter' \in Seq(T)
    BY <1>2, <1>5, AppendFrame
  <2>3. ~client.over => Pending' = Owed' + (replies' - Len(client'.chunks))
    BY <1>1, <1>3, <1>4, <1>6, <1>7 DEF Pending
  <2>4. QED
    BY <1>1, <2>1, <2>2, <2>3 DEF WireInv
<1>9. GivenInv' /\ ChunksInv'
  BY <1>1, <1>3 DEF ReplyInv, GivenInv, ChunksInv, HandlerFailed
<1>10. StatusInv'
  BY <1>1, <1>3, <1>7 DEF ReplyInv, ClientInv, StatusInv, HandlerFailed
<1>11. EndInv' /\ (\E A, B : client \in ClientOf(A, B))'
  BY <1>1 DEF ReplyInv, ClientInv, ClientOf, EndInv, HandlerFailed
<1>12. QED
  BY <1>8, <1>9, <1>10, <1>11 DEF ReplyInv, ClientInv

\* a chunk of the answer is sent
LEMMA ReplyChunkReply == ReplyInv /\ ReplyChunk => ReplyInv'
<1> SUFFICES ASSUME ReplyInv, ReplyChunk PROVE ReplyInv'
  OBVIOUS
<1>1. /\ response # NoResponse /\ reply = "open" /\ UNCHANGED <<handler, client, reply, response>>
      /\ replies' = replies + 1 /\ toRouter' = Append(toRouter, Binary(replies + 1))
  BY DEF ReplyChunk, ReplyFrame, routerVars
<1>2. Owed' = Owed
  BY <1>1, AppendOwed DEF Binary
<1>3. replies \in Nat
  BY DEF ReplyInv, GivenInv
<1>4. WireInv'
  <2>1. ASSUME NEW i \in 1..Len(toRouter), ~client.over, toRouter'[i] = toRouter[i], IsDue(i)
        PROVE  IsDue(i)'
    <3>1. ReplyNumber(i)' = ReplyNumber(i)
      BY <1>1, <1>2 DEF ReplyNumber
    <3>2. CASE IsDescription(i)
      BY <1>1, <2>1, <3>2 DEF IsDue, IsDescription
    <3>3. CASE IsReply(i)
      <4>1. toRouter[i].chunk \in Int
        <5>1. Len(client.chunks) \in Nat /\ Owed \in {0, 1} /\ Len(toRouter) \in Nat
          BY <1>1, <2>1, OpenCount
        <5>2. QED
          BY <3>3, <5>1 DEF IsReply, ReplyNumber
      <4>2. toRouter[i].chunk <= replies + 1
        BY <1>3, <3>3, <4>1 DEF IsReply
      <4>3. IsReply(i)'
        BY <1>1, <1>2, <2>1, <3>1, <3>3, <4>2 DEF IsReply
      <4>4. QED
        BY <4>3 DEF IsDue
    <3>4. QED
      BY <1>1, <2>1, <3>2, <3>3 DEF IsDue, IsLast
  <2>2. ASSUME ~client.over, NEW i, i = Len(toRouter) + 1, toRouter'[i] = Binary(replies + 1)
        PROVE  IsDue(i)'
    <3>1. toRouter'[i].kind = "binary" /\ toRouter'[i].chunk = replies + 1
      BY <2>2 DEF Binary
    <3>2. i > Owed /\ Len(client.chunks) + i - Owed = replies + 1
      <4>1. /\ Len(toRouter) = Owed + (replies - Len(client.chunks))
            /\ Len(toRouter) \in Nat /\ Len(client.chunks) \in Nat /\ replies \in Nat
            /\ Owed \in {0, 1} /\ Len(client.chunks) <= replies
        BY <1>1, <2>2, OpenCount
      <4> DEFINE l == Len(toRouter)  o == Owed  r == replies  c == Len(client.chunks)
      <4>2. l \in Nat /\ o \in Nat /\ r \in Nat /\ c \in Nat /\ l = o + (r - c) /\ c <= r
        BY <4>1
      <4> HIDE DEF l, o, r, c
      <4>3. l + 1 > o /\ c + (l + 1) - o = r + 1
        BY <4>2
      <4>4. /\ Len(toRouter) + 1 > Owed
            /\ Len(client.chunks) + (Len(toRouter) + 1) - Owed = replies + 1
        BY <4>3 DEF l, o, r, c
      <4>5. QED
        BY <2>2, <4>4, Zenon
    <3>3. ReplyNumber(i)' = Len(client.chunks) + i - Owed
      BY <1>1, <1>2 DEF ReplyNumber
    <3>4. replies + 1 <= replies'
      BY <1>1, <1>3
    <3>5. IsReply(i)'
      BY <1>1, <1>2, <3>1, <3>2, <3>3, <3>4 DEF IsReply
    <3>6. QED
      BY <3>5 DEF IsDue
  <2>3. ~client.over => Len(toRouter) + 1 = Owed + (replies' - Len(client.chunks))
    BY <1>1, OpenCount
  <2>4. QED
    BY <1>1, <1>2, <2>1, <2>2, <2>3, AppendReply
<1>5. GivenInv' /\ ChunksInv'
  <2>1. Len(client.chunks) \in Nat /\ Len(client.chunks) <= replies
    BY DEF ReplyInv, ClientInv, ClientOf, ChunksInv
  <2>2. QED
    BY <1>1, <1>3, <2>1 DEF ReplyInv, GivenInv, ChunksInv, HandlerFailed
<1>6. StatusInv' /\ EndInv' /\ (\E A, B : client \in ClientOf(A, B))'
  BY <1>1, <1>2 DEF ReplyInv, ClientInv, ClientOf, StatusInv, EndInv, HandlerFailed
<1>7. QED
  BY <1>4, <1>5, <1>6 DEF ReplyInv, ClientInv

\* the callback of the request closes the websocket
LEMMA CloseReply == ReplyInv /\ (ReplyEnds \/ ReplyBreaks) => ReplyInv'
<1> SUFFICES ASSUME ReplyInv, ReplyEnds \/ ReplyBreaks PROVE ReplyInv'
  OBVIOUS
<1>1. PICK code :
        /\ reply = "open" /\ UNCHANGED <<handler, client, response, replies>>
        /\ reply' \in {"whole", "broken"}
        /\ reply' = "whole" => response # NoResponse /\ code = NormalClosure
        /\ toRouter' = Append(toRouter, Close(code))
  BY DEF ReplyEnds, ReplyBreaks, CloseWebsocket, ReplyFrame, routerVars
<1>2. Owed' = Owed
  BY <1>1, AppendOwed DEF Close
<1>3. WireInv'
  <2>1. ASSUME NEW i \in 1..Len(toRouter), ~client.over, toRouter'[i] = toRouter[i], IsDue(i)
        PROVE  IsDue(i)'
    <3>1. ReplyNumber(i)' = ReplyNumber(i)
      BY <1>1, <1>2 DEF ReplyNumber
    <3>2. IsDescription(i) \/ IsReply(i)
      BY <1>1, <2>1 DEF IsDue, IsLast
    <3>3. QED
      BY <1>1, <1>2, <2>1, <3>1, <3>2 DEF IsDue, IsDescription, IsReply
  <2>2. ASSUME NEW i, i = Len(toRouter'), toRouter'[i] = Close(code) PROVE IsDue(i)'
    <3>1. toRouter'[i].kind = "close" /\ toRouter'[i].code = code
      BY <2>2 DEF Close
    <3>2. code = InternalServerErr => reply' # "whole"
      BY <1>1 DEF InternalServerErr, NormalClosure
    <3>3. IsLast(i)'
      BY <1>1, <2>2, <3>1, <3>2 DEF IsLast
    <3>4. QED
      BY <3>3 DEF IsDue
  <2>3. ~client.over => Len(toRouter) + 0 = Owed + (replies - Len(client.chunks))
    BY <1>1, OpenCount
  <2>4. QED
    BY <1>1, <1>2, <2>1, <2>2, <2>3, AppendReply
<1>4. GivenInv' /\ ChunksInv' /\ (\E A, B : client \in ClientOf(A, B))'
  BY <1>1 DEF ReplyInv, GivenInv, ChunksInv, ClientInv, ClientOf, HandlerFailed
<1>5. StatusInv' /\ EndInv'
  BY <1>1, <1>2 DEF ReplyInv, GivenInv, ClientInv, StatusInv, EndInv, HandlerFailed
<1>6. QED
  BY <1>4, <1>3, <1>5 DEF ReplyInv, ClientInv

-----------------------------------------------------------------------------
(* The router's reader.                                                    *)

\* the rest of the exchange is as it was
ReaderStill == UNCHANGED <<handler, response, reply, replies>>

\* the first frame is what is due
LEMMA FirstDue ==
  ASSUME ReplyInv, toRouter # <<>>
  PROVE  /\ ~client.over => IsDue(1)
         /\ Head(toRouter) = toRouter[1] /\ Len(toRouter) \in Nat \ {0}
         /\ Len(Tail(toRouter)) = Len(toRouter) - 1
         /\ \A i \in 1..Len(Tail(toRouter)) : Tail(toRouter)[i] = toRouter[i + 1]
         /\ \E S : Tail(toRouter) \in Seq(S)
<1>1. PICK S : toRouter \in Seq(S)
  BY DEF ReplyInv, WireInv
<1>2. /\ Head(toRouter) = toRouter[1] /\ Len(toRouter) \in Nat \ {0}
      /\ Tail(toRouter) \in Seq(S) /\ Len(Tail(toRouter)) = Len(toRouter) - 1
      /\ \A i \in 1..Len(Tail(toRouter)) : Tail(toRouter)[i] = toRouter[i + 1]
  BY <1>1, HeadTailProperties
<1>3. 1 \in 1..Len(toRouter)
  BY <1>2
<1>4. QED
  BY <1>2, <1>3 DEF ReplyInv, WireInv

(* When a client has the next frame, the ones behind it are due one place  *)
(* nearer.                                                                 *)
LEMMA NextDue ==
  ASSUME ReplyInv, ReaderStill, toRouter # <<>>, toRouter' = Tail(toRouter),
         ~client.over, ~client'.over, Len(client'.chunks) \in Nat,
         toRouter[1].kind \in {"text", "binary"},
         Len(client'.chunks) = Len(client.chunks) - Owed + 1
  PROVE  WireInv' /\ Owed' = 0
<1> USE DEF ReaderStill
<1>1. Len(client.chunks) \in Nat /\ Owed \in {0, 1} /\ replies \in Nat
  BY DEF ReplyInv, ClientInv, ClientOf, GivenInv, Owed
<1>2. /\ Len(toRouter') = Len(toRouter) - 1 /\ Len(toRouter) \in Nat \ {0}
      /\ \A i \in 1..Len(toRouter') : toRouter'[i] = toRouter[i + 1]
      /\ \E S : toRouter' \in Seq(S)
  BY FirstDue
<1>3. ASSUME NEW i \in 1..Len(toRouter')
      PROVE  i + 1 \in 1..Len(toRouter) /\ (IsReply(i + 1) \/ IsLast(i + 1))
  <2>1. i + 1 \in 1..Len(toRouter) /\ i + 1 # 1
    BY <1>2
  <2>2. IsDue(i + 1)
    BY <2>1 DEF ReplyInv, WireInv
  <2>3. QED
    BY <2>1, <2>2 DEF IsDue, IsDescription
<1>4. Owed' = 0
  <2>1. SUFFICES ASSUME toRouter' # <<>> PROVE toRouter'[1].kind # "text"
    BY DEF Owed
  <2>2. 1 \in 1..Len(toRouter')
    BY <1>2, <2>1
  <2>3. toRouter'[1] = toRouter[1 + 1] /\ (IsReply(1 + 1) \/ IsLast(1 + 1))
    BY <1>2, <1>3, <2>2
  <2>4. QED
    BY <2>3 DEF IsReply, IsLast
<1>5. ASSUME NEW i \in 1..Len(toRouter') PROVE IsDue(i)'
  <2>1. i + 1 \in 1..Len(toRouter) /\ i \in Nat /\ i > 0 /\ (IsReply(i + 1) \/ IsLast(i + 1))
    BY <1>2, <1>3
  <2>2. toRouter'[i] = toRouter[i + 1]
    BY <1>2
  <2>3. ReplyNumber(i)' = ReplyNumber(i + 1)
    <3>1. PICK a \in Nat, b \in Nat, o \in Nat :
            a = Len(client'.chunks) /\ b = Len(client.chunks) /\ o = Owed /\ a = b - o + 1
      BY <1>1
    <3>2. \A j \in Nat : j = b - o + 1 => j + i - 0 = b + (i + 1) - o
      BY <2>1
    <3>3. a + i - 0 = b + (i + 1) - o
      BY <3>1, <3>2, Zenon
    <3>4. QED
      BY <1>4, <3>1, <3>3 DEF ReplyNumber
  <2>4. CASE IsReply(i + 1)
    <3>1. IsReply(i)'
      BY <1>4, <2>1, <2>2, <2>3, <2>4 DEF IsReply
    <3>2. QED
      BY <3>1 DEF IsDue
  <2>5. CASE IsLast(i + 1)
    <3>1. i + 1 = Len(toRouter) => i = Len(toRouter')
      <4>1. PICK n \in Nat : n = Len(toRouter) /\ n - 1 = Len(toRouter')
        BY <1>2
      <4>2. i + 1 = n => i = n - 1
        BY <2>1, <4>1
      <4>3. QED
        BY <4>1, <4>2
    <3>2. IsLast(i)'
      BY <2>2, <2>5, <3>1 DEF IsLast
    <3>3. QED
      BY <3>2 DEF IsDue
  <2>6. QED
    BY <2>1, <2>4, <2>5
<1>6. ASSUME reply # "lost"
      PROVE  Pending' = Owed' + (replies - Len(client'.chunks))
  <2>1. Pending = Owed + (replies - Len(client.chunks))
    BY <1>6 DEF ReplyInv, WireInv
  <2>2. Pending' = Pending - 1
    <3>1. CASE reply = "open"
      BY <1>2, <3>1 DEF Pending
    <3>2. CASE reply # "open"
      <4>1. Pending = Len(toRouter) - 1
        BY <3>2 DEF Pending
      <4>2. toRouter' # <<>>
        <5> SUFFICES ASSUME toRouter' = <<>> PROVE FALSE
          OBVIOUS
        <5>1. Len(toRouter) = 1
          <6>1. PICK S : toRouter' \in Seq(S)
            BY <1>2
          <6>2. Len(toRouter') = 0
            BY <6>1, EmptySeq, Zenon
          <6>3. PICK n \in Nat : n = Len(toRouter) /\ n - 1 = Len(toRouter')
            BY <1>2
          <6>4. \A k \in Nat : k - 1 = 0 => k = 1
            OBVIOUS
          <6>5. QED
            BY <6>2, <6>3, <6>4, Zenon
        <5>2. IsDue(1) /\ Len(client.chunks) <= replies
          BY FirstDue DEF ReplyInv, ChunksInv
        <5>3. Owed + (replies - Len(client.chunks)) = 0
          BY <2>1, <4>1, <5>1
        <5>4. Owed = 0 /\ Len(client.chunks) = replies
          BY <1>1, <5>2, <5>3
        <5>5. IsReply(1)
          BY <5>2, <5>4 DEF IsDue, IsDescription, IsLast, Owed
        <5>6. Len(client.chunks) + 1 <= replies
          BY <1>1, <5>4, <5>5 DEF IsReply, ReplyNumber
        <5>7. QED
          BY <1>1, <5>4, <5>6
      <4>3. Pending' = Len(toRouter') - 1
        BY <3>2, <4>2 DEF Pending
      <4>4. QED
        BY <1>2, <4>1, <4>3
    <3>3. QED
      BY <3>1, <3>2
  <2>3. QED
    BY <1>1, <1>4, <2>1, <2>2
<1>7. QED
  BY <1>2, <1>4, <1>5, <1>6 DEF WireInv

\* a client whose Handle has returned gets nothing more
LEMMA LateReply ==
  ASSUME ReplyInv, ReaderStill, toRouter # <<>>, toRouter' = Tail(toRouter),
         client.over, client' = client
  PROVE  ReplyInv'
<1>1. WireInv'
  BY FirstDue DEF WireInv
<1>2. GivenInv' /\ ChunksInv' /\ StatusInv' /\ EndInv'
  BY DEF ReplyInv, GivenInv, ChunksInv, ClientInv, StatusInv, EndInv, HandlerFailed, ReaderStill
<1>3. (\E A, B : client \in ClientOf(A, B))'
  BY DEF ReplyInv, ClientInv, ClientOf
<1>4. QED
  BY <1>1, <1>2, <1>3 DEF ReplyInv, ClientInv

\* the description of the response
LEMMA ReceiveResponseReply == ReplyInv /\ ReceiveResponse => ReplyInv'
<1> SUFFICES ASSUME ReplyInv, ReceiveResponse PROVE ReplyInv'
  OBVIOUS
<1>1. /\ toRouter # <<>> /\ toRouter' = Tail(toRouter) /\ ReaderStill
      /\ Head(toRouter).kind = "text" /\ (client.over => client' = client)
  BY DEF ReceiveResponse, Receive, ReaderStill, routerVars
<1>2. CASE client.over
  BY <1>1, <1>2, LateReply
<1>3. CASE ~client.over
  <2>1. PICK st, hd :
          /\ client' = [client EXCEPT !.status = st, !.headers = hd]
          /\ IF client.status # "none" THEN st = client.status /\ hd = client.headers
             ELSE st = NewCrankerProtocolResponse(Head(toRouter).msg).status
    <3>1. CASE client.status # "none"
      <4>1. client' = client
        BY <1>3, <3>1 DEF ReceiveResponse, Receive
      <4>2. PICK A, B : client \in ClientOf(A, B)
        BY DEF ReplyInv, ClientInv
      <4>3. client = [client EXCEPT !.status = client.status, !.headers = client.headers]
        BY <4>2 DEF ClientOf
      <4>4. QED
        BY <3>1, <4>1, <4>3
    <3>2. CASE client.status = "none"
      BY <1>3, <3>2 DEF ReceiveResponse, Receive
    <3>3. QED
      BY <3>1, <3>2
  <2>2. toRouter[1].kind = "text" /\ IsDescription(1)
    BY <1>1, <1>3, FirstDue DEF IsDue, IsReply, IsLast
  <2>3. /\ Owed = 1 /\ response # NoResponse
        /\ client.status = "none" => st = response.status
    BY <1>1, <2>1, <2>2, FirstDue DEF IsDescription, Owed
  <2>4. PICK A, B : client \in ClientOf(A, B)
    BY DEF ReplyInv, ClientInv
  <2>5. /\ client' \in ClientOf(A \cup {st}, B \cup {hd})
        /\ client'.status = st /\ client'.chunks = client.chunks /\ client'.end = client.end
        /\ client'.texts = client.texts /\ client'.over = client.over
    BY <2>1, <2>4 DEF ClientOf
  <2>6. response.status # "none" /\ st # "none"
    <3>1. response \in Responses
      BY <2>3 DEF ReplyInv, GivenInv
    <3>2. QED
      BY <2>1, <2>3, <3>1, ResponsesAssumption
  <2>7. WireInv' /\ Owed' = 0
    <3>1. Len(client.chunks) \in Nat
      BY <2>4 DEF ClientOf
    <3>2. Len(client'.chunks) = Len(client.chunks) - Owed + 1 /\ Len(client'.chunks) \in Nat
      BY <2>3, <2>5, <3>1
    <3>3. QED
      BY <1>1, <1>3, <2>2, <2>5, <3>2, NextDue
  <2>8. GivenInv' /\ ChunksInv'
    BY <1>1, <2>5 DEF ReplyInv, GivenInv, ChunksInv, HandlerFailed, ReaderStill
  <2>9. StatusInv'
    <3>1. \/ st = response.status
          \/ st = BadGateway /\ (HandlerFailed \/ reply \in {"broken", "lost"})
      BY <2>1, <2>3 DEF ReplyInv, ClientInv, StatusInv
    <3>2. QED
      BY <1>1, <2>5, <2>6, <3>1 DEF StatusInv, HandlerFailed, ReaderStill
  <2>10. EndInv'
    <3>1. client.status = response.status => st = response.status
      BY <2>1, <2>3
    <3>2. QED
      BY <1>1, <2>5, <3>1 DEF ReplyInv, ClientInv, EndInv, HandlerFailed, ReaderStill
  <2>11. (\E C, D : client \in ClientOf(C, D))'
    BY <2>5 DEF ClientOf
  <2>12. QED
    BY <2>7, <2>8, <2>9, <2>10, <2>11 DEF ReplyInv, ClientInv
<1>4. QED
  BY <1>2, <1>3

\* a chunk of the answer
LEMMA ReceiveReplyReply ==
  ASSUME ReplyInv, ReceiveReply
  PROVE  /\ ReplyInv'
         /\ ~client.over => /\ client'.chunks = Append(client.chunks, Len(client.chunks) + 1)
                            /\ Len(client.chunks) < replies
<1>1. /\ toRouter # <<>> /\ toRouter' = Tail(toRouter) /\ ReaderStill
      /\ Head(toRouter).kind = "binary" /\ (client.over => client' = client)
  BY DEF ReceiveReply, Receive, ReaderStill, routerVars
<1>2. CASE client.over
  BY <1>1, <1>2, LateReply
<1>3. CASE ~client.over
  <2>1. client' = [client EXCEPT !.chunks = Append(client.chunks, Head(toRouter).chunk)]
    BY <1>3 DEF ReceiveReply, Receive
  <2>2. PICK A, B : client \in ClientOf(A, B)
    BY DEF ReplyInv, ClientInv
  <2>3. toRouter[1].kind = "binary" /\ IsReply(1)
    BY <1>1, <1>3, FirstDue DEF IsDue, IsDescription, IsLast
  <2>4. Owed = 0 /\ Len(client.chunks) \in Nat /\ replies \in Nat
    BY <2>2, <2>3 DEF IsReply, Owed, ReplyInv, GivenInv, ClientOf
  <2>5. Head(toRouter).chunk = Len(client.chunks) + 1 /\ Len(client.chunks) + 1 <= replies
    BY <1>1, <2>3, <2>4, FirstDue DEF IsReply, ReplyNumber
  <2> DEFINE ch == Append(client.chunks, Len(client.chunks) + 1)
  <2>6. /\ client' \in ClientOf(A, B)
        /\ client'.status = client.status /\ client'.chunks = ch /\ client'.end = client.end
        /\ client'.texts = client.texts /\ client'.over = client.over
    <3>1. ch \in Seq(Nat)
      BY <2>2, <2>4 DEF ClientOf
    <3> HIDE DEF ch
    <3>2. client' = [client EXCEPT !.chunks = ch]
      BY <2>1, <2>5 DEF ch
    <3>3. QED
      BY <2>2, <3>1, <3>2 DEF ClientOf
  <2>7. /\ Len(client'.chunks) = Len(client.chunks) + 1
        /\ client'.chunks[Len(client.chunks) + 1] = Len(client.chunks) + 1
        /\ \A i \in 1..Len(client.chunks) : client'.chunks[i] = client.chunks[i]
    <3>1. client.chunks \in Seq(Nat)
      BY <2>2 DEF ClientOf
    <3>2. QED
      BY <2>4, <2>6, <3>1
  <2>8. WireInv' /\ Owed' = 0
    <3>1. Len(client'.chunks) = Len(client.chunks) - Owed + 1 /\ Len(client'.chunks) \in Nat
      BY <2>4, <2>7
    <3>2. QED
      BY <1>1, <1>3, <2>3, <2>6, <3>1, NextDue
  <2>9. GivenInv'
    BY <1>1 DEF ReplyInv, GivenInv, ReaderStill
  <2>10. ChunksInv'
    <3>1. \A i \in 1..Len(client'.chunks) : client'.chunks[i] = i
      <4>1. \A i \in 1..Len(client.chunks) : client.chunks[i] = i
        BY DEF ReplyInv, ChunksInv
      <4>2. \A i \in 1..(Len(client.chunks) + 1) :
               i \in 1..Len(client.chunks) \/ i = Len(client.chunks) + 1
        BY <2>4
      <4>3. QED
        BY <2>7, <4>1, <4>2
    <3>2. QED
      BY <1>1, <2>5, <2>6, <2>7, <3>1 DEF ReplyInv, ChunksInv, HandlerFailed, ReaderStill
  <2>11. StatusInv'
    BY <1>1, <2>4, <2>6 DEF ReplyInv, ClientInv, StatusInv, HandlerFailed, ReaderStill
  <2>12. EndInv'
    <3>1. reply = "whole" => Len(client.chunks) # replies
      BY <2>4, <2>5
    <3>2. QED
      BY <1>1, <2>6, <3>1 DEF ReplyInv, ClientInv, EndInv, HandlerFailed, ReaderStill
  <2>13. (\E C, D : client \in ClientOf(C, D))'
    BY <2>6 DEF ClientOf
  <2>14. Len(client.chunks) < replies
    BY <2>4, <2>5
  <2>15. QED
    BY <2>6, <2>8, <2>9, <2>10, <2>11, <2>12, <2>13, <2>14 DEF ReplyInv, ClientInv
<1>4. QED
  BY <1>2, <1>3

\* nothing is under way once the end of the websocket was read
LEMMA EndedWire ==
  ASSUME ReplyInv, ReaderStill, reply # "open", toRouter' = <<>>,
         reply # "lost" => Len(client.chunks) = replies, client'.chunks = client.chunks
  PROVE  WireInv'
<1>1. Len(toRouter') = 0 /\ Pending' = 0 /\ Owed' = 0 /\ toRouter' \in Seq({})
  BY DEF Pending, Owed, ReaderStill
<1>2. replies \in Nat
  BY DEF ReplyInv, GivenInv
<1>3. reply' # "lost" => Pending' = Owed' + (replies' - Len(client'.chunks))
  BY <1>1, <1>2 DEF ReaderStill
<1>4. QED
  BY <1>1, <1>3 DEF WireInv

\* the close of the websocket
LEMMA ReceiveCloseReply == ReplyInv /\ ReceiveClose => ReplyInv'
<1> SUFFICES ASSUME ReplyInv, ReceiveClose PROVE ReplyInv'
  OBVIOUS
<1>1. /\ toRouter # <<>> /\ toRouter' = Tail(toRouter) /\ ReaderStill
      /\ Head(toRouter).kind = "close" /\ (client.over => client' = client)
  BY DEF ReceiveClose, Receive, ReaderStill, routerVars
<1>2. CASE client.over
  BY <1>1, <1>2, LateReply
<1>3. CASE ~client.over
  <2>1. PICK A, B : client \in ClientOf(A, B)
    BY DEF ReplyInv, ClientInv
  <2>2. PICK st, en :
          /\ client' = [client EXCEPT !.status = st, !.end = en]
          /\ \/ st = client.status
             \/ client.status = "none" /\ st = BadGateway /\ Head(toRouter).code = InternalServerErr
          /\ en = IF client.end = "none" THEN "close" ELSE client.end
    <3> DEFINE st == IF client.status = "none" /\ Head(toRouter).code = InternalServerErr
                       THEN BadGateway ELSE client.status
               en == IF client.end = "none" THEN "close" ELSE client.end
    <3>1. client' = Done([client EXCEPT !.status = st], "close")
      BY <1>3 DEF ReceiveClose, Receive
    <3>2. \/ st = client.status
          \/ client.status = "none" /\ st = BadGateway /\ Head(toRouter).code = InternalServerErr
      OBVIOUS
    <3> HIDE DEF st
    <3>3. client' = [client EXCEPT !.status = st, !.end = en]
      BY <2>1, <3>1 DEF Done, ClientOf
    <3>4. QED
      BY <3>2, <3>3
  <2>3. /\ client' \in ClientOf(A \cup {st}, B)
        /\ client'.status = st /\ client'.chunks = client.chunks /\ client'.end = en
        /\ client'.texts = client.texts /\ client'.over = client.over
    BY <2>1, <2>2 DEF ClientOf
  <2>4. toRouter[1].kind = "close" /\ toRouter[1] = Head(toRouter) /\ IsLast(1)
    BY <1>1, <1>3, FirstDue DEF IsDue, IsDescription, IsReply
  <2>5. reply # "open" /\ (Head(toRouter).code = InternalServerErr => reply # "whole")
    BY <2>4 DEF IsLast
  <2>6. reply \in {"whole", "broken", "lost"} /\ Owed = 0
    BY <2>4, <2>5 DEF ReplyInv, GivenInv, Owed
  <2>7. /\ toRouter' = <<>> /\ Len(toRouter') = 0
        /\ reply # "lost" => Len(client.chunks) = replies
    <3>1. Len(toRouter) = 1
      BY <2>4 DEF IsLast
    <3>2. Pending = 0
      BY <2>5, <3>1 DEF Pending
    <3>3. reply # "lost" => Pending = Owed + (replies - Len(client.chunks))
      BY <1>3 DEF ReplyInv, WireInv
    <3>4. Len(client.chunks) \in Nat /\ replies \in Nat
      BY <2>1 DEF ClientOf, ReplyInv, GivenInv
    <3>5. toRouter' = <<>>
      <4>1. PICK S : toRouter \in Seq(S)
        BY DEF ReplyInv, WireInv
      <4>2. QED
        BY <1>1, <3>1, <4>1
    <3>6. QED
      BY <2>6, <3>2, <3>3, <3>4, <3>5
  <2>8. WireInv'
    BY <1>1, <2>3, <2>5, <2>7, EndedWire
  <2>9. GivenInv' /\ ChunksInv'
    BY <1>1, <2>3 DEF ReplyInv, GivenInv, ChunksInv, HandlerFailed, ReaderStill
  <2>10. reply # "lost" /\ response # NoResponse => client.status # "none"
    BY <1>3, <2>6 DEF ReplyInv, ClientInv, StatusInv
  <2>11. StatusInv'
    BY <1>1, <2>2, <2>3, <2>5, <2>6, <2>10
       DEF ReplyInv, ClientInv, StatusInv, HandlerFailed, ReaderStill, BadGateway
  <2>12. EndInv'
    <3>1. reply = "whole" => response # NoResponse
      BY DEF ReplyInv, GivenInv
    <3>2. reply = "whole" /\ ~HandlerFailed => st = response.status
      BY <2>2, <2>10, <3>1 DEF ReplyInv, ClientInv, StatusInv
    <3>3. QED
      BY <1>1, <2>3, <2>6, <2>7, <3>2 DEF EndInv, HandlerFailed, ReaderStill
  <2>13. (\E C, D : client \in ClientOf(C, D))'
    BY <2>3 DEF ClientOf
  <2>14. QED
    BY <2>8, <2>9, <2>11, <2>12, <2>13 DEF ReplyInv, ClientInv
<1>4. QED
  BY <1>2, <1>3

\* an error of the websocket
LEMMA ReceiveErrorReply == ReplyInv /\ ReceiveError => ReplyInv'
<1> SUFFICES ASSUME ReplyInv, ReceiveError PROVE ReplyInv'
  OBVIOUS
<1>1. /\ toRouter # <<>> /\ toRouter' = Tail(toRouter) /\ ReaderStill
      /\ Head(toRouter).kind = "error" /\ (client.over => client' = client)
  BY DEF ReceiveError, Receive, ReaderStill, routerVars
<1>2. CASE client.over
  BY <1>1, <1>2, LateReply
<1>3. CASE ~client.over
  <2>1. client' = Done(Texted(client), "error")
    BY <1>3 DEF ReceiveError, Receive
  <2>2. IsLast(1)
    BY <1>1, <1>3, FirstDue DEF IsDue, IsDescription, IsReply
  <2>3. reply = "lost" /\ Len(toRouter) = 1
    BY <1>1, <2>2, FirstDue DEF IsLast
  <2> DEFINE en == IF client.end = "none" THEN "error" ELSE client.end
  <2>4. PICK st \in {client.status, BadGateway}, tx \in SUBSET Nat :
          /\ st # "none"
          /\ client' = [client EXCEPT !.status = st, !.texts = tx, !.end = en]
    BY <2>1, TextedClient DEF ReplyInv
  <2>5. en = client.end \/ en = "error"
    OBVIOUS
  <2> HIDE DEF en
  <2>6. ClientInv' /\ ChunksInv' /\ client'.chunks = client.chunks
    BY <1>1, <2>3, <2>4, <2>5, FailedClient DEF ReplyInv, ReaderStill
  <2>7. toRouter' = <<>>
    <3>1. PICK S : toRouter \in Seq(S)
      BY DEF ReplyInv, WireInv
    <3>2. QED
      BY <1>1, <2>3, <3>1
  <2>8. WireInv' /\ GivenInv'
    BY <1>1, <2>3, <2>6, <2>7, EndedWire DEF ReplyInv, GivenInv, ReaderStill
  <2>9. QED
    BY <2>6, <2>8 DEF ReplyInv
<1>4. QED
  BY <1>2, <1>3

LEMMA ReplyStep == ReplyInv /\ [Next]_vars => ReplyInv'
<1> SUFFICES ASSUME ReplyInv, [Next]_vars PROVE ReplyInv'
  OBVIOUS
<1>1. CASE SendDescription \/ SendChunk \/ SendEnd
  <2>1. ReplyStill /\ ~HandlerFailed
    BY <1>1 DEF SendDescription, SendChunk, SendEnd, Send, ReplyStill, replyVars, HandlerFailed
  <2>2. QED
    BY <2>1, ReplyAside
<1>2. CASE SendFails \/ ReadFails \/ WriteErrorText \/ HandlerDone
  BY <1>2, HandlerFailsReply DEF SendFails, ReadFails
<1>3. CASE ReceiveDescription \/ ReceiveEnd \/ ReceiveChunk \/ StopReading
  <2>1. ReplyStill /\ handler' = handler
    BY <1>3 DEF ReceiveDescription, ReceiveEnd, ReceiveChunk, StopReading, ReplyStill,
                replyVars, routerVars
  <2>2. QED
    BY <2>1, ReplyAside DEF HandlerFailed
<1>4. CASE UNCHANGED vars
  BY <1>4, ReplyAside DEF vars, ReplyStill, HandlerFailed
<1>5. QED
  BY <1>1, <1>2, <1>3, <1>4, ReturnReply, RespondReply, ReplyChunkReply, CloseReply, BreakReply,
     ReceiveResponseReply, ReceiveReplyReply, ReceiveCloseReply, ReceiveErrorReply
     DEF Next, HandlerNext, ConnectorNext

(* No header of a message of a response is read back.                      *)
LEMMA NoHeadersRead ==
  ASSUME NEW msg
  PROVE  SentBackHeaders(HeadersIn(NewCrankerProtocolResponse(msg).Headers)) = <<>>
<1>1. ElementsAt(<<>>, {}) = <<>>
  <2>1. Cardinality({}) = 0
    BY FS_EmptySet
  <2>2. QED
    BY <2>1 DEF ElementsAt
<1>2. NewCrankerProtocolResponse(msg).Headers = <<>>
  BY DEF NewCrankerProtocolResponse
<1>3. \A P : P \subseteq DOMAIN <<>> => P = {}
  OBVIOUS
<1>4. {i \in DOMAIN <<>> : IsHeaderLine(<<>>[i])} = {} /\ {i \in DOMAIN <<>> : SentBack(<<>>[i])} = {}
  BY <1>3
<1>5. HeadersIn(<<>>) = <<>>
  BY <1>1, <1>4 DEF HeadersIn
<1>6. QED
  BY <1>1, <1>2, <1>4, <1>5 DEF SentBackHeaders

HeadersInv == client.headers \in {<<>>, <<ViaHeader>>}

(* The headers the client is written are the router's.                     *)
LEMMA HeadersStep ==
  ASSUME ReplyInv, HeadersInv, [Next]_vars
  PROVE  HeadersInv'
<1>1. PICK A, B : client \in ClientOf(A, B)
  BY DEF ReplyInv, ClientInv
<1>2. /\ Texted(client).headers = client.headers
      /\ \A how : Done(client, how).headers = client.headers
      /\ Done(Texted(client), "error").headers = client.headers
  BY <1>1 DEF Texted, Done, ClientOf
<1>3. ASSUME client'.headers = client.headers
      PROVE  HeadersInv'
  BY <1>3 DEF HeadersInv
<1>4. CASE client' = client
  BY <1>3, <1>4
<1>5. CASE WriteErrorText \/ HandlerDone \/ ReceiveError
  BY <1>2, <1>3, <1>5 DEF WriteErrorText, HandlerDone, ReceiveError, Receive
<1>6. CASE Return
  <2>1. client'.headers = client.headers
    BY <1>1, <1>6 DEF Return, ClientOf
  <2>2. QED
    BY <1>3, <2>1
<1>7. CASE ReceiveReply
  <2>1. PICK ch : client' \in {client, [client EXCEPT !.chunks = ch]}
    BY <1>7 DEF ReceiveReply, Receive
  <2>2. client'.headers = client.headers
    BY <1>1, <2>1 DEF ClientOf
  <2>3. QED
    BY <1>3, <2>2
<1>8. CASE ReceiveClose
  <2>1. PICK st : client' \in {client, Done([client EXCEPT !.status = st], "close")}
    BY <1>8 DEF ReceiveClose, Receive
  <2>2. Done([client EXCEPT !.status = st], "close").headers = client.headers
    BY <1>1 DEF Done, ClientOf
  <2>3. QED
    BY <1>3, <2>1, <2>2
<1>9. CASE ReceiveResponse
  <2>1. CASE client.over \/ client.status # "none"
    <3>1. client' = client
      BY <1>9, <2>1 DEF ReceiveResponse, Receive
    <3>2. QED
      BY <1>4, <3>1
  <2>2. CASE ~client.over /\ client.status = "none"
    <3>1. PICK st : client' = [client EXCEPT !.status = st, !.headers =
               SentBackHeaders(HeadersIn(NewCrankerProtocolResponse(Head(toRouter).msg).Headers))
                   \o <<ViaHeader>>]
      BY <1>9, <2>2 DEF ReceiveResponse, Receive
    <3>2. client' = [client EXCEPT !.status = st, !.headers = <<>> \o <<ViaHeader>>]
      BY <3>1, NoHeadersRead
    <3>3. client'.headers = <<>> \o <<ViaHeader>>
      BY <1>1, <3>2 DEF ClientOf
    <3>4. QED
      BY <3>3 DEF HeadersInv
  <2>3. QED
    BY <2>1, <2>2
<1>10. CASE SendDescription \/ SendEnd \/ SendChunk \/ SendFails \/ ReadFails
  BY <1>4, <1>10 DEF SendDescription, SendEnd, SendChunk, SendFails, ReadFails, HandlerFails, Send,
                     replyVars
<1>11. CASE ConnectorNext \/ StopReading \/ Respond \/ ReplyChunk \/ ReplyEnds \/ ReplyBreaks
           \/ WebsocketBreaks
  BY <1>4, <1>11 DEF ConnectorNext, ReceiveDescription, ReceiveBadDest, ReceiveEnd, ReceiveChunk,
                     StopReading, Respond, ReplyChunk, ReplyEnds, ReplyBreaks, CloseWebsocket,
                     ReplyFrame, WebsocketBreaks, replyVars
<1>12. CASE UNCHANGED vars
  BY <1>4, <1>12 DEF vars
<1>13. QED
  BY <1>5, <1>6, <1>7, <1>8, <1>9, <1>10, <1>11, <1>12 DEF Next, HandlerNext

(* The client gets the status and the chunks of the answer, in order and   *)
(* all of them, unless the answer, the handler or the websocket broke; and *)
(* none of its headers.                                                    *)
THEOREM AnswerDelivered == Spec => []ReplyDelivered
<1>1. ReplyInv /\ HeadersInv => ReplyDelivered
  <2> SUFFICES ASSUME ReplyInv, HeadersInv PROVE ReplyDelivered
    OBVIOUS
  <2>1. PICK A, B : client \in ClientOf(A, B)
    BY DEF ReplyInv, ClientInv
  <2>2. client.chunks \in Seq(Nat) /\ client.end \in {"none", "close", "error"}
    BY <2>1 DEF ClientOf
  <2>3. client.chunks = [i \in 1..Len(client.chunks) |-> i]
    <3>1. DOMAIN client.chunks = 1..Len(client.chunks)
      BY <2>2
    <3>2. client.chunks = [i \in 1..Len(client.chunks) |-> client.chunks[i]]
      BY <2>2
    <3>3. QED
      BY <3>2 DEF ReplyInv, ChunksInv
  <2>4. client.end # "none" /\ ~HandlerFailed /\ reply \notin {"broken", "lost"}
           => client.status = response.status /\ Len(client.chunks) = replies
    BY DEF ReplyInv, ClientInv, EndInv
  <2>5. \/ client.status \in {"none", response.status}
        \/ client.status = BadGateway /\ (HandlerFailed \/ reply \in {"broken", "lost"})
    BY DEF ReplyInv, ClientInv, StatusInv
  <2>6. QED
    BY <2>3, <2>4, <2>5 DEF ReplyInv, ChunksInv, HeadersInv, ReplyDelivered
<1>2. Init => HeadersInv
  BY DEF Init, HeadersInv
<1>3. ReplyInv /\ HeadersInv /\ [Next]_vars => (ReplyInv /\ HeadersInv)'
  BY ReplyStep, HeadersStep
<1>4. QED
  BY <1>1, <1>2, <1>3, ReplyInit, PTL DEF Spec

-----------------------------------------------------------------------------
(* The types of the frames, and the places of the texts.                   *)

ReplyChunks == 0..MaxReplies

FrameTyped(f) == f.kind \in {"text", "binary", "close", "error"}

FramesTyped ==
    /\ \E S : toConnector \in Seq(S)
    /\ \A i \in 1..Len(toConnector) : toConnector[i].kind \in {"text", "binary"}
    /\ \E S : toRouter \in Seq(S)
    /\ \A i \in 1..Len(toRouter) : FrameTyped(toRouter[i])
    /\ replies \in ReplyChunks
    /\ client.texts \subseteq ReplyChunks

\* one direction each
ToConnectorTyped == \A i \in 1..Len(toConnector) : toConnector[i].kind \in {"text", "binary"}
ToRouterTyped == \A i \in 1..Len(toRouter) : FrameTyped(toRouter[i])

LEMMA ReplyChunksNat == ReplyChunks \subseteq Nat /\ 0 \in ReplyChunks
BY ChunksAssumption DEF ReplyChunks

LEMMA FramesInit == Init => FramesTyped
<1> SUFFICES ASSUME Init PROVE FramesTyped
  OBVIOUS
<1>1. /\ toConnector = <<>> /\ toRouter = <<>> /\ replies = 0
      /\ client.texts = {}
  BY DEF Init
<1>2. /\ toConnector \in Seq({}) /\ toRouter \in Seq({})
      /\ Len(toConnector) = 0 /\ Len(toRouter) = 0 /\ replies \in ReplyChunks
  BY <1>1, ReplyChunksNat
<1>3. QED
  BY <1>1, <1>2 DEF FramesTyped

(* The frames to the connector.                                            *)
LEMMA ToConnectorStep ==
  ASSUME FramesTyped, [Next]_vars
  PROVE  (\E S : toConnector' \in Seq(S)) /\ ToConnectorTyped'
<1> DEFINE Good == (\E S : toConnector' \in Seq(S)) /\ ToConnectorTyped'
<1>1. PICK S : toConnector \in Seq(S)
  BY DEF FramesTyped
<1>2. ASSUME NEW frame, frame.kind \in {"text", "binary"}, toConnector' = Append(toConnector, frame)
      PROVE  Good
  <2>1. /\ toConnector' \in Seq(S \cup {frame}) /\ Len(toConnector') = Len(toConnector) + 1
        /\ toConnector'[Len(toConnector) + 1] = frame /\ Len(toConnector) \in Nat
        /\ \A i \in 1..Len(toConnector) : toConnector'[i] = toConnector[i]
    BY <1>1, <1>2, AppendFrame
  <2>2. \A i \in 1..Len(toConnector') : toConnector'[i].kind \in {"text", "binary"}
    BY <1>2, <2>1 DEF FramesTyped
  <2>3. QED
    BY <2>1, <2>2 DEF ToConnectorTyped
<1>3. CASE toConnector' = toConnector
  BY <1>3 DEF FramesTyped, ToConnectorTyped
<1>4. ASSUME toConnector # <<>>, toConnector' = Tail(toConnector) PROVE Good
  <2>1. /\ toConnector' \in Seq(S) /\ Len(toConnector') = Len(toConnector) - 1
        /\ Len(toConnector) \in Nat
        /\ \A i \in 1..Len(toConnector') : toConnector'[i] = toConnector[i + 1]
    BY <1>1, <1>4, HeadTailProperties
  <2>2. \A i \in 1..Len(toConnector') : i + 1 \in 1..Len(toConnector)
    BY <2>1
  <2>3. QED
    BY <2>1, <2>2 DEF FramesTyped, ToConnectorTyped
<1>5. ASSUME NEW n \in 0..Len(toConnector), toConnector' = SubSeq(toConnector, 1, n) PROVE Good
  <2>1. /\ toConnector' \in Seq(S) /\ Len(toConnector') <= Len(toConnector)
        /\ \A i \in 1..Len(toConnector') : toConnector'[i] = toConnector[i]
        /\ Len(toConnector) \in Nat /\ Len(toConnector') \in Nat
    BY <1>1, <1>5
  <2>2. \A i \in 1..Len(toConnector') : i \in 1..Len(toConnector)
    BY <2>1
  <2>3. QED
    BY <2>1, <2>2 DEF FramesTyped, ToConnectorTyped
<1>6. CASE SendDescription \/ SendEnd \/ SendChunk
  <2>1. \E frame :
          /\ frame.kind \in {"text", "binary"}
          /\ toConnector' = toConnector \/ toConnector' = Append(toConnector, frame)
    BY <1>6 DEF SendDescription, SendEnd, SendChunk, Send, Text, Binary
  <2>2. QED
    BY <1>2, <1>3, <2>1
<1>7. CASE ReceiveDescription \/ ReceiveEnd \/ ReceiveChunk
  BY <1>4, <1>7 DEF ReceiveDescription, ReceiveEnd, ReceiveChunk, Received
<1>8. CASE WebsocketBreaks
  BY <1>5, <1>8 DEF WebsocketBreaks
<1>9. CASE SendFails \/ ReadFails \/ StopReading \/ Respond \/ ReplyChunk \/ ReplyEnds \/ ReplyBreaks
  BY <1>3, <1>9 DEF SendFails, ReadFails, StopReading, Respond, ReplyChunk, ReplyEnds, ReplyBreaks,
                    CloseWebsocket, ReplyFrame
<1>13. CASE WriteErrorText \/ HandlerDone \/ Return
  BY <1>3, <1>13 DEF WriteErrorText, HandlerDone, Return, HandlerFrame
<1>14. CASE ReceiveBadDest
  <2>1. toConnector' \in Seq({}) /\ Len(toConnector') = 0
    BY <1>14 DEF ReceiveBadDest
  <2>2. QED
    BY <2>1 DEF ToConnectorTyped
<1>10. CASE ReceiveResponse \/ ReceiveReply \/ ReceiveClose \/ ReceiveError
  <2>1. toConnector' = toConnector
    BY <1>10 DEF ReceiveResponse, ReceiveReply, ReceiveClose, ReceiveError, Receive
  <2>2. QED
    BY <1>3, <2>1
<1>11. CASE UNCHANGED vars
  BY <1>3, <1>11 DEF vars
<1>12. QED
  BY <1>6, <1>7, <1>8, <1>9, <1>10, <1>11, <1>13, <1>14 DEF Next, HandlerNext, ConnectorNext

(* The frames to the router, and the number of the last chunk among them.  *)
LEMMA ToRouterStep ==
  ASSUME FramesTyped, [Next]_vars
  PROVE  (\E S : toRouter' \in Seq(S)) /\ ToRouterTyped' /\ replies' \in ReplyChunks
<1> DEFINE Good == (\E S : toRouter' \in Seq(S)) /\ ToRouterTyped'
<1>1. PICK S : toRouter \in Seq(S)
  BY DEF FramesTyped
<1>2. ASSUME NEW frame, FrameTyped(frame), NEW T, NEW s \in Seq(T), toRouter' = Append(s, frame),
             \A i \in 1..Len(s) : FrameTyped(s[i])
      PROVE  Good
  <2>1. /\ toRouter' \in Seq(T \cup {frame}) /\ Len(toRouter') = Len(s) + 1
        /\ toRouter'[Len(s) + 1] = frame /\ Len(s) \in Nat
        /\ \A i \in 1..Len(s) : toRouter'[i] = s[i]
    BY <1>2, AppendFrame
  <2>2. \A i \in 1..Len(toRouter') : FrameTyped(toRouter'[i])
    <3> SUFFICES ASSUME NEW i \in 1..Len(toRouter') PROVE FrameTyped(toRouter'[i])
      OBVIOUS
    <3>1. i \in 1..Len(s) \/ i = Len(s) + 1
      BY <2>1
    <3>2. QED
      BY <1>2, <2>1, <3>1
  <2>3. QED
    BY <2>1, <2>2 DEF ToRouterTyped
<1>3. ASSUME toRouter' = toRouter PROVE Good
  BY <1>3 DEF FramesTyped, ToRouterTyped
<1>4. \A i \in 1..Len(toRouter) : FrameTyped(toRouter[i])
  BY DEF FramesTyped
<1>5. CASE SendDescription \/ SendEnd \/ SendChunk \/ SendFails \/ ReadFails
  BY <1>3, <1>5 DEF SendDescription, SendEnd, SendChunk, SendFails, ReadFails, HandlerFails, Send,
                    replyVars, FramesTyped
<1>13. CASE WriteErrorText \/ HandlerDone \/ Return
  BY <1>3, <1>13 DEF WriteErrorText, HandlerDone, Return, HandlerFrame, FramesTyped
<1>6. CASE ReceiveDescription \/ ReceiveEnd \/ ReceiveChunk \/ StopReading
  BY <1>3, <1>6 DEF ReceiveDescription, ReceiveEnd, ReceiveChunk, StopReading,
                    replyVars, FramesTyped
<1>7. CASE Respond \/ ReplyEnds \/ ReplyBreaks
  <2>1. PICK frame : toRouter' = Append(toRouter, frame) /\ frame.kind \in {"text", "close"}
    <3>1. CASE Respond
      <4>1. PICK m : toRouter' = Append(toRouter, Text(m))
        BY <3>1 DEF Respond
      <4>2. QED
        BY <4>1 DEF Text
    <3>2. CASE ReplyEnds \/ ReplyBreaks
      <4>1. PICK code : toRouter' = Append(toRouter, Close(code))
        BY <3>2 DEF ReplyEnds, ReplyBreaks, CloseWebsocket
      <4>2. QED
        BY <4>1 DEF Close
    <3>3. QED
      BY <1>7, <3>1, <3>2
  <2>2. FrameTyped(frame) /\ UNCHANGED replies
    BY <1>7, <2>1 DEF FrameTyped, Respond, ReplyEnds, ReplyBreaks, CloseWebsocket
  <2>3. QED
    BY <1>1, <1>2, <1>4, <2>1, <2>2 DEF FramesTyped
<1>8. CASE ReplyChunk
  <2>1. /\ toRouter' = Append(toRouter, Binary(replies + 1)) /\ replies' = replies + 1
        /\ replies < MaxReplies
    BY <1>8 DEF ReplyChunk
  <2>2. replies + 1 \in ReplyChunks
    BY <2>1, ChunksAssumption DEF FramesTyped, ReplyChunks
  <2>3. FrameTyped(Binary(replies + 1))
    BY DEF FrameTyped, Binary
  <2>4. QED
    BY <1>1, <1>2, <1>4, <2>1, <2>2, <2>3
<1>9. CASE WebsocketBreaks \/ ReceiveBadDest
  <2>1. replies' = replies
    BY <1>9 DEF WebsocketBreaks, ReceiveBadDest
  <2>2. Len(toRouter) \in Nat /\ SubSeq(toRouter, 1, Len(toRouter)) = toRouter
    BY <1>1
  <2>3. \/ toRouter' = toRouter
        \/ \E n \in 0..Len(toRouter) : toRouter' = Append(SubSeq(toRouter, 1, n), Error)
    <3>1. CASE WebsocketBreaks
      BY <3>1 DEF WebsocketBreaks
    <3>2. CASE ReceiveBadDest
      <4>1. toRouter' = IF reply = "open" THEN Append(toRouter, Error) ELSE toRouter
        BY <3>2 DEF ReceiveBadDest
      <4>2. Len(toRouter) \in 0..Len(toRouter)
        BY <2>2
      <4>3. QED
        BY <2>2, <4>1, <4>2
    <3>3. QED
      BY <1>9, <3>1, <3>2
  <2>4. ASSUME NEW n \in 0..Len(toRouter), toRouter' = Append(SubSeq(toRouter, 1, n), Error)
        PROVE  Good
    <3>1. /\ SubSeq(toRouter, 1, n) \in Seq(S) /\ Len(SubSeq(toRouter, 1, n)) = n
          /\ \A i \in 1..n : SubSeq(toRouter, 1, n)[i] = toRouter[i]
          /\ n <= Len(toRouter) /\ n \in Nat /\ Len(toRouter) \in Nat
      BY <1>1
    <3>2. \A i \in 1..n : FrameTyped(SubSeq(toRouter, 1, n)[i])
      BY <1>4, <3>1
    <3>3. FrameTyped(Error)
      BY DEF FrameTyped, Error
    <3>4. QED
      BY <1>2, <2>4, <3>1, <3>2, <3>3
  <2>5. QED
    BY <1>3, <2>1, <2>3, <2>4 DEF FramesTyped
<1>10. CASE ReceiveResponse \/ ReceiveReply \/ ReceiveClose \/ ReceiveError
  <2>1. toRouter # <<>> /\ toRouter' = Tail(toRouter) /\ replies' = replies
    BY <1>10 DEF ReceiveResponse, ReceiveReply, ReceiveClose, ReceiveError, Receive
  <2>2. /\ toRouter' \in Seq(S) /\ Len(toRouter') = Len(toRouter) - 1 /\ Len(toRouter) \in Nat
        /\ \A i \in 1..Len(toRouter') : toRouter'[i] = toRouter[i + 1]
    BY <1>1, <2>1, HeadTailProperties
  <2>3. \A i \in 1..Len(toRouter') : i + 1 \in 1..Len(toRouter)
    BY <2>2
  <2>4. QED
    BY <1>4, <2>1, <2>2, <2>3 DEF FramesTyped, ToRouterTyped
<1>11. CASE UNCHANGED vars
  BY <1>3, <1>11 DEF vars, FramesTyped
<1>12. QED
  BY <1>5, <1>6, <1>7, <1>8, <1>9, <1>10, <1>11, <1>13 DEF Next, HandlerNext, ConnectorNext

(* The texts of errors that the client is written.                         *)
LEMMA TextsStep ==
  ASSUME ReplyInv, FramesTyped, [Next]_vars
  PROVE  client'.texts \subseteq ReplyChunks
<1>1. PICK A, B : client \in ClientOf(A, B)
  BY DEF ReplyInv, ClientInv
<1>2. Len(client.chunks) \in ReplyChunks
  <2>1. Len(client.chunks) \in Nat /\ Len(client.chunks) <= replies /\ replies \in 0..MaxReplies
    BY <1>1 DEF ClientOf, ReplyInv, ChunksInv, FramesTyped, ReplyChunks
  <2>2. QED
    BY <2>1, ChunksAssumption DEF ReplyChunks
<1>3. /\ Texted(client).texts = client.texts \cup {Len(client.chunks)}
      /\ Done(Texted(client), "error").texts = client.texts \cup {Len(client.chunks)}
  BY <1>1 DEF Texted, Done, ClientOf
<1>4. ASSUME client'.texts \in {client.texts, client.texts \cup {Len(client.chunks)}}
      PROVE  client'.texts \subseteq ReplyChunks
  BY <1>2, <1>4 DEF FramesTyped
<1>5. CASE WriteErrorText \/ ReceiveError
  BY <1>3, <1>4, <1>5 DEF WriteErrorText, ReceiveError, Receive
<1>6. CASE HandlerDone \/ Return
  <2>1. client'.texts = client.texts
    BY <1>1, <1>6 DEF HandlerDone, Return, Done, ClientOf
  <2>2. QED
    BY <1>4, <2>1
<1>7. CASE ReceiveResponse \/ ReceiveReply \/ ReceiveClose
  <2>1. ASSUME NEW st, NEW hd, NEW ch
        PROVE  /\ [client EXCEPT !.status = st, !.headers = hd].texts = client.texts
               /\ [client EXCEPT !.chunks = ch].texts = client.texts
               /\ Done([client EXCEPT !.status = st], "close").texts = client.texts
    BY <1>1 DEF Done, ClientOf
  <2>2. client'.texts = client.texts
    <3>1. CASE ReceiveResponse
      <4>1. PICK st, hd : client' \in {client, [client EXCEPT !.status = st, !.headers = hd]}
        BY <3>1 DEF ReceiveResponse, Receive
      <4>2. [client EXCEPT !.status = st, !.headers = hd].texts = client.texts
        BY <2>1
      <4>3. QED
        BY <4>1, <4>2, Zenon
    <3>2. CASE ReceiveReply
      <4>1. PICK ch : client' \in {client, [client EXCEPT !.chunks = ch]}
        BY <3>2 DEF ReceiveReply, Receive
      <4>2. QED
        BY <2>1, <4>1
    <3>3. CASE ReceiveClose
      <4>1. PICK st : client' \in {client, Done([client EXCEPT !.status = st], "close")}
        BY <3>3 DEF ReceiveClose, Receive
      <4>2. QED
        BY <2>1, <4>1
    <3>4. QED
      BY <1>7, <3>1, <3>2, <3>3
  <2>3. QED
    BY <1>4, <2>2
<1>8. CASE client' = client
  BY <1>4, <1>8
<1>9. CASE SendDescription \/ SendEnd \/ SendChunk \/ SendFails \/ ReadFails
  BY <1>8, <1>9 DEF SendDescription, SendEnd, SendChunk, SendFails, ReadFails, HandlerFails, Send,
                    replyVars
<1>10. CASE ConnectorNext \/ StopReading \/ Respond \/ ReplyChunk \/ ReplyEnds \/ ReplyBreaks
           \/ WebsocketBreaks
  BY <1>8, <1>10 DEF ConnectorNext, ReceiveDescription, ReceiveBadDest, ReceiveEnd, ReceiveChunk,
                     StopReading, Respond, ReplyChunk, ReplyEnds, ReplyBreaks, CloseWebsocket,
                     ReplyFrame, WebsocketBreaks, replyVars
<1>11. CASE UNCHANGED vars
  BY <1>8, <1>11 DEF vars
<1>12. QED
  BY <1>5, <1>6, <1>7, <1>9, <1>10, <1>11 DEF Next, HandlerNext

LEMMA FramesStep == ReplyInv /\ FramesTyped /\ [Next]_vars => FramesTyped'
<1> SUFFICES ASSUME ReplyInv, FramesTyped, [Next]_vars PROVE FramesTyped'
  OBVIOUS
<1>1. (\E S : toConnector' \in Seq(S)) /\ ToConnectorTyped'
  BY ToConnectorStep
<1>2. (\E S : toRouter' \in Seq(S)) /\ ToRouterTyped' /\ replies' \in ReplyChunks
  BY ToRouterStep
<1>3. QED
  BY <1>1, <1>2, TextsStep DEF FramesTyped, ToConnectorTyped, ToRouterTyped

(* The variables have their types: no count goes past the body it counts.  *)
THEOREM TypeCorrect == Spec => []TypeOK
<1>1. StreamInv /\ ReplyInv /\ FramesTyped => TypeOK
  <2> SUFFICES ASSUME StreamInv, ReplyInv, FramesTyped PROVE TypeOK
    OBVIOUS
  <2>1. req.chunks \in 0..MaxChunks /\ chunksRead \in 0..req.chunks
    BY DEF StreamInv, HandlerTyped
  <2>2. chunksRead \in 0..MaxChunks
    BY <2>1, ChunksAssumption
  <2>3. targetBody \in UNION {[1..n -> 1..MaxChunks] : n \in 0..MaxChunks}
    <3>1. targetBody \in Seq(Nat) /\ Len(targetBody) <= req.chunks
      BY DEF StreamInv, BodyInv
    <3>2. PICK n \in 0..MaxChunks : n = Len(targetBody)
      BY <2>1, <3>1, ChunksAssumption
    <3>3. \A i \in 1..n : targetBody[i] = i /\ i \in 1..MaxChunks
      BY <3>2, ChunksAssumption DEF StreamInv, BodyInv
    <3>4. targetBody \in [1..n -> 1..MaxChunks]
      BY <3>1, <3>2, <3>3, LenProperties
    <3>5. QED
      BY <3>4
  <2>4. /\ \A i \in DOMAIN toConnector : toConnector[i].kind \in {"text", "binary"}
        /\ \A i \in DOMAIN toRouter : toRouter[i].kind \in {"text", "binary", "close", "error"}
    BY DEF FramesTyped, FrameTyped
  <2>5. replies \in 0..MaxReplies /\ client.texts \subseteq 0..MaxReplies
    BY DEF FramesTyped, ReplyChunks
  <2>9. PICK A, B : client \in ClientOf(A, B)
    BY DEF ReplyInv, ClientInv
  <2>10. client.end \in {"none", "close", "error"} /\ client.over \in BOOLEAN
    BY <2>9 DEF ClientOf
  <2>11. client.chunks \in Seq(1..MaxReplies)
    <3>1. client.chunks \in Seq(Nat) /\ Len(client.chunks) <= replies /\ Len(client.chunks) \in Nat
      BY <2>9 DEF ClientOf, ReplyInv, ChunksInv
    <3>2. ASSUME NEW i \in 1..Len(client.chunks) PROVE client.chunks[i] \in 1..MaxReplies
      <4>1. client.chunks[i] = i
        BY DEF ReplyInv, ChunksInv
      <4>2. QED
        BY <2>5, <3>1, <4>1, ChunksAssumption
    <3>3. client.chunks = [i \in 1..Len(client.chunks) |-> client.chunks[i]]
      BY <3>1
    <3> DEFINE ch == client.chunks
               n == Len(client.chunks)
    <3>4. n \in Nat /\ ch = [i \in 1..n |-> ch[i]] /\ \A i \in 1..n : ch[i] \in 1..MaxReplies
      BY <3>1, <3>2, <3>3
    <3> HIDE DEF ch, n
    <3>5. ch \in [1..n -> 1..MaxReplies]
      BY <3>4
    <3>6. ch \in Seq(1..MaxReplies)
      BY <3>4, <3>5, SeqDef
    <3>7. QED
      BY <3>6 DEF ch
  <2>6. /\ req \in Requests /\ handler \in {"start", "stream", "sent", "failing", "texted", "failed"}
        /\ pipe \in {"none", "open", "ended", "unread"}
    BY DEF StreamInv, HandlerTyped
  <2>7. response \in Responses \union {NoResponse} /\ reply \in {"open", "whole", "broken", "lost"}
    BY DEF ReplyInv, GivenInv
  <2>8. QED
    BY <2>2, <2>3, <2>4, <2>5, <2>6, <2>7, <2>10, <2>11 DEF TypeOK
<1>2. QED
  BY <1>1, StreamCorrect, ReplyInit, ReplyStep, FramesInit, FramesStep, PTL DEF Spec


-----------------------------------------------------------------------------
(* Taking the elements at some positions of a sequence.                    *)

(* The place of each position of P among the elements taken.               *)
Rank(P) == [i \in P |-> Cardinality({j \in P : j <= i})]

(* The positions are numbered from one, without gaps, in their order.      *)
LEMMA RankOrder ==
  ASSUME NEW P \in SUBSET Int, IsFiniteSet(P)
  PROVE  /\ Cardinality(P) \in Nat
         /\ Rank(P) \in [P -> 1..Cardinality(P)]
         /\ \A i, j \in P : Rank(P)[i] = Rank(P)[j] => i = j
         /\ \A k \in 1..Cardinality(P) : \E i \in P : Rank(P)[i] = k
         /\ \A i, j \in P : i < j => Rank(P)[i] < Rank(P)[j]
<1> DEFINE upTo(i) == {j \in P : j <= i}
<1>1. IsFiniteSet(P) /\ Cardinality(P) \in Nat
  BY FS_CardinalityType
<1>2. ASSUME NEW i \in P
      PROVE  /\ IsFiniteSet(upTo(i)) /\ Cardinality(upTo(i)) \in 1..Cardinality(P)
             /\ Rank(P)[i] = Cardinality(upTo(i))
  <2>1. upTo(i) \in SUBSET P /\ i \in upTo(i)
    OBVIOUS
  <2>2. IsFiniteSet(upTo(i)) /\ Cardinality(upTo(i)) <= Cardinality(P)
    BY <1>1, <2>1, FS_Subset
  <2>3. Cardinality(upTo(i)) \in Nat /\ Cardinality(upTo(i)) # 0
    BY <2>1, <2>2, FS_CardinalityType, FS_EmptySet
  <2>4. QED
    BY <1>1, <2>2, <2>3 DEF Rank
<1>3. ASSUME NEW i \in P, NEW j \in P, i < j PROVE Rank(P)[i] < Rank(P)[j]
  <2>0. i \in Int /\ j \in Int
    OBVIOUS
  <2>1. upTo(i) \in SUBSET upTo(j) /\ j \in upTo(j) /\ j \notin upTo(i)
    <3>1. ASSUME NEW l \in upTo(i) PROVE l \in upTo(j)
      BY <1>3, <2>0
    <3>2. j \in upTo(j) /\ j \notin upTo(i)
      BY <1>3, <2>0
    <3>3. QED
      BY <3>1, <3>2
  <2>2. Cardinality(upTo(i)) <= Cardinality(upTo(j)) /\ Cardinality(upTo(i)) # Cardinality(upTo(j))
    BY <1>2, <2>1, FS_Subset
  <2>3. QED
    BY <1>2, <2>2
<1> HIDE DEF upTo
<1>4. Rank(P) \in [P -> 1..Cardinality(P)]
  BY <1>2 DEF Rank, upTo
<1>5. ASSUME NEW i \in P, NEW j \in P, Rank(P)[i] = Rank(P)[j] PROVE i = j
  <2>1. Rank(P)[i] \in Int /\ Rank(P)[j] \in Int /\ i \in Int /\ j \in Int
    BY <1>4
  <2>2. QED
    BY <1>3, <1>5, <2>1
<1>6. Rank(P) \in Injection(P, 1..Cardinality(P))
  BY <1>4, <1>5 DEF Injection, IsInjective
<1>7. IsFiniteSet(1..Cardinality(P)) /\ Cardinality(1..Cardinality(P)) = Cardinality(P)
  BY <1>1, FS_Interval
<1>8. Rank(P) \in Surjection(P, 1..Cardinality(P))
  BY <1>6, <1>7, FS_Injection
<1>9. QED
  BY <1>1, <1>3, <1>4, <1>5, <1>8 DEF Surjection

(* The element at each position of P is taken, to the place of its rank,   *)
(* and nothing else is.                                                    *)
LEMMA ElementsAtRank ==
  ASSUME NEW P \in SUBSET Int, IsFiniteSet(P), NEW s
  PROVE  /\ DOMAIN ElementsAt(s, P) = 1..Cardinality(P)
         /\ \A i \in P : Rank(P)[i] \in 1..Cardinality(P) /\ ElementsAt(s, P)[Rank(P)[i]] = s[i]
         /\ \A k \in 1..Cardinality(P) : \E i \in P : Rank(P)[i] = k
<1> DEFINE Nth(k) == CHOOSE i \in P : Cardinality({j \in P : j <= i}) = k
<1>1. /\ Rank(P) \in [P -> 1..Cardinality(P)]
      /\ \A i, j \in P : Rank(P)[i] = Rank(P)[j] => i = j
      /\ \A k \in 1..Cardinality(P) : \E i \in P : Rank(P)[i] = k
  BY RankOrder
<1>2. ElementsAt(s, P) = [k \in 1..Cardinality(P) |-> s[Nth(k)]]
  BY DEF ElementsAt
<1>3. ASSUME NEW i \in P PROVE Nth(Rank(P)[i]) = i
  <2>1. \A j \in P : Rank(P)[j] = Cardinality({l \in P : l <= j})
    BY DEF Rank
  <2>2. Nth(Rank(P)[i]) \in P /\ Rank(P)[Nth(Rank(P)[i])] = Rank(P)[i]
    BY <2>1
  <2>3. QED
    BY <1>1, <2>2
<1> HIDE DEF Nth
<1>4. QED
  BY <1>1, <1>2, <1>3

(* What is taken of a sequence is a sequence of its elements.              *)
LEMMA ElementsAtType ==
  ASSUME NEW T, NEW s \in Seq(T), NEW P \in SUBSET (DOMAIN s)
  PROVE  ElementsAt(s, P) \in Seq(T) /\ Len(ElementsAt(s, P)) = Cardinality(P)
<1>1. Len(s) \in Nat /\ DOMAIN s = 1..Len(s) /\ \A i \in P : s[i] \in T
  OBVIOUS
<1>2. P \in SUBSET Int /\ IsFiniteSet(P) /\ Cardinality(P) \in Nat
  <2>1. IsFiniteSet(1..Len(s))
    BY <1>1, FS_Interval
  <2>2. P \in SUBSET (1..Len(s))
    BY <1>1
  <2>3. QED
    BY <2>1, <2>2, FS_Subset, FS_CardinalityType
<1>3. ASSUME NEW k \in 1..Cardinality(P) PROVE ElementsAt(s, P)[k] \in T
  <2>1. PICK i \in P : Rank(P)[i] = k
    BY <1>2, <1>3, ElementsAtRank
  <2>2. ElementsAt(s, P)[k] = s[i]
    BY <1>2, <2>1, ElementsAtRank
  <2>3. QED
    BY <1>1, <2>2
<1>4. ElementsAt(s, P) = [k \in 1..Cardinality(P) |-> ElementsAt(s, P)[k]]
  BY DEF ElementsAt
<1>5. QED
  BY <1>2, <1>3, <1>4

(* Taking the first m elements keeps each in its place.                    *)
LEMMA ElementsAtPrefix ==
  ASSUME NEW T, NEW s \in Seq(T), NEW m \in 0..Len(s)
  PROVE  ElementsAt(s, 1..m) = [k \in 1..m |-> s[k]]
<1>1. m \in Nat /\ IsFiniteSet(1..m) /\ Cardinality(1..m) = m /\ 1..m \in SUBSET Int
  BY FS_Interval
<1>2. ASSUME NEW k \in 1..m PROVE Rank(1..m)[k] = k
  <2>1. {j \in 1..m : j <= k} = 1..k
    BY <1>1
  <2>2. Cardinality(1..k) = k
    BY FS_Interval
  <2>3. QED
    BY <2>1, <2>2 DEF Rank
<1>3. /\ DOMAIN ElementsAt(s, 1..m) = 1..m
      /\ \A k \in 1..m : ElementsAt(s, 1..m)[k] = s[k]
  BY <1>1, <1>2, ElementsAtRank
<1>4. ElementsAt(s, 1..m) = [k \in 1..m |-> ElementsAt(s, 1..m)[k]]
  BY <1>1 DEF ElementsAt
<1>5. QED
  BY <1>3, <1>4

\* the positions, among P, of the elements that are in X
Hits(s, P, X) == {i \in P : s[i] \in X}

(* As many of the elements taken are in a set as of those at the positions. *)
LEMMA ElementsAtCount ==
  ASSUME NEW P \in SUBSET Int, IsFiniteSet(P), NEW s, NEW X
  PROVE  Cardinality(Hits(ElementsAt(s, P), 1..Cardinality(P), X)) = Cardinality(Hits(s, P, X))
<1> DEFINE from == {i \in P : s[i] \in X}
           to == {k \in 1..Cardinality(P) : ElementsAt(s, P)[k] \in X}
           f == [i \in from |-> Rank(P)[i]]
<1>1. /\ \A i \in P : Rank(P)[i] \in 1..Cardinality(P) /\ ElementsAt(s, P)[Rank(P)[i]] = s[i]
      /\ \A k \in 1..Cardinality(P) : \E i \in P : Rank(P)[i] = k
  BY ElementsAtRank
<1>2. \A i, j \in P : Rank(P)[i] = Rank(P)[j] => i = j
  BY RankOrder
<1>3. f \in [from -> to]
  BY <1>1
<1>4. f \in Injection(from, to)
  BY <1>2, <1>3 DEF Injection, IsInjective
<1>5. \A k \in to : \E i \in from : f[i] = k
  BY <1>1
<1>6. f \in Bijection(from, to)
  BY <1>3, <1>4, <1>5 DEF Bijection, Surjection
<1>7. IsFiniteSet(from)
  <2>1. from \in SUBSET P
    OBVIOUS
  <2>2. QED
    BY <2>1, FS_Subset
<1> HIDE DEF from, to, f
<1>8. ExistsBijection(from, to)
  BY <1>6 DEF ExistsBijection
<1>9. Cardinality(to) = Cardinality(from)
  BY <1>7, <1>8, FS_Bijection
<1>10. QED
  BY <1>9 DEF Hits, from, to

\* strings, with those the two ends write: no prover knows that these are strings
Texts == STRING \cup {"Forwarded", "router", "User-Agent", "", "Via", "1.1 crnk"} \cup Range(XForwarded)
Headers == Texts \X Texts

UserAgentHeader == <<"User-Agent", "">>
ForwardedHeader == <<"Forwarded", "router">>

(* The headers that the two ends add are headers.                          *)
LEMMA WrittenHeaders ==
  /\ <<UserAgentHeader>> \in Seq(Headers)
  /\ <<ForwardedHeader>> \in Seq(Headers)
  /\ <<ViaHeader>> \in Seq(Headers)
<1>1. \A name \in {"Forwarded", "User-Agent", "Via"} : name \in Texts
  BY DEF Texts
<1>2. \A value \in {"router", "", "1.1 crnk"} : value \in Texts
  BY DEF Texts
<1>3. UserAgentHeader \in Headers /\ ForwardedHeader \in Headers /\ ViaHeader \in Headers
  BY <1>1, <1>2 DEF Headers, UserAgentHeader, ForwardedHeader, ViaHeader
<1>4. QED
  BY <1>3

(* Header lines are a sequence of lines of three words.                    *)
LEMMA HeaderLinesType ==
  ASSUME NEW h \in Seq(Headers)
  PROVE  /\ HeaderLines(h) \in Seq({HeaderLine(h[i][1], h[i][2]) : i \in 1..Len(h)})
         /\ Len(HeaderLines(h)) = Len(h)
         /\ \A i \in 1..Len(h) : HeaderLines(h)[i] = HeaderLine(h[i][1], h[i][2])
<1>1. Len(h) \in Nat /\ DOMAIN h = 1..Len(h)
  OBVIOUS
<1>2. HeaderLines(h) = [i \in 1..Len(h) |-> HeaderLine(h[i][1], h[i][2])]
  BY <1>1 DEF HeaderLines
<1>3. QED
  BY <1>1, <1>2

(* A reader finds in the lines of a message the headers written to them:   *)
(* the blank line, which it takes for a header line, has no colon.         *)
LEMMA HeadersReadBack ==
  ASSUME NEW h \in Seq(Headers)
  PROVE  HeadersIn(HeaderLines(h) \o <<Blank>>) = h
<1> DEFINE lines == HeaderLines(h) \o <<Blank>>
           H == {HeaderLine(h[i][1], h[i][2]) : i \in 1..Len(h)}
           T == H \cup {Blank}
<1>1. Len(h) \in Nat /\ h = [i \in 1..Len(h) |-> h[i]] /\ \A i \in 1..Len(h) : h[i] \in Headers
  OBVIOUS
<1>2. /\ lines \in Seq(T) /\ Len(lines) = Len(h) + 1
      /\ \A i \in 1..Len(h) : lines[i] = HeaderLine(h[i][1], h[i][2])
      /\ lines[Len(h) + 1] = Blank
  <2> HIDE DEF H
  <2>1. HeaderLines(h) \in Seq(H) /\ Len(HeaderLines(h)) = Len(h)
    BY HeaderLinesType DEF H
  <2>2. HeaderLines(h) \in Seq(T) /\ <<Blank>> \in Seq(T)
    BY <2>1, SeqMonotonic
  <2>3. /\ lines \in Seq(T) /\ Len(lines) = Len(h) + 1
        /\ \A i \in 1..Len(h) : lines[i] = HeaderLines(h)[i]
        /\ lines[Len(h) + 1] = Blank
    BY <1>1, <2>1, <2>2
  <2>4. QED
    BY <2>3, HeaderLinesType
<1> HIDE DEF lines
<1>3. \A i \in 1..Len(h) : IsHeaderLine(lines[i]) /\ <<lines[i][1], lines[i][3]>> = h[i]
  <2> SUFFICES ASSUME NEW i \in 1..Len(h)
               PROVE  IsHeaderLine(lines[i]) /\ <<lines[i][1], lines[i][3]>> = h[i]
    OBVIOUS
  <2>1. lines[i] = <<h[i][1], ":", h[i][2]>>
    BY <1>2 DEF HeaderLine
  <2>2. h[i] \in Headers
    BY <1>1
  <2>3. h[i] = <<h[i][1], h[i][2]>>
    BY <2>2 DEF Headers
  <2>4. QED
    BY <2>1, <2>3 DEF IsHeaderLine
<1>4. ~IsHeaderLine(lines[Len(h) + 1])
  BY <1>2 DEF IsHeaderLine, Blank
<1>5. DOMAIN lines = 1..(Len(h) + 1)
  BY <1>2
<1>6. {i \in DOMAIN lines : IsHeaderLine(lines[i])} = 1..Len(h)
  BY <1>1, <1>3, <1>4, <1>5
<1>7. ElementsAt(lines, 1..Len(h)) = [k \in 1..Len(h) |-> lines[k]]
  <2>1. lines \in Seq(T) /\ Len(h) \in 0..Len(lines)
    BY <1>1, <1>2
  <2> HIDE DEF T
  <2>2. QED
    BY <2>1, ElementsAtPrefix
<1>8. HeadersIn(lines) = [k \in 1..Len(h) |-> <<lines[k][1], lines[k][3]>>]
  <2> DEFINE found == ElementsAt(lines, {i \in DOMAIN lines : IsHeaderLine(lines[i])})
  <2>1. found = [k \in 1..Len(h) |-> lines[k]]
    BY <1>6, <1>7
  <2>2. HeadersIn(lines) = [i \in DOMAIN found |-> <<found[i][1], found[i][3]>>]
    BY DEF HeadersIn
  <2> HIDE DEF found
  <2>3. QED
    BY <2>1, <2>2
<1>9. HeadersIn(lines) = h
  BY <1>1, <1>3, <1>8
<1>10. QED
  BY <1>9 DEF lines

(* What the connector reads of the description of a request is what the    *)
(* router wrote to it.                                                     *)
LEMMA RequestReadBack ==
  ASSUME NEW reqLine, NEW h \in Seq(Headers), NEW marker
  PROVE  LET read == NewCrankerProtocolRequest(BuildRequest(reqLine, h, marker))
         IN  /\ read.HttpMethod = reqLine[1] /\ read.Dest = reqLine[2]
             /\ read.Headers = HeaderLines(h) \o <<Blank>>
             /\ read.endMarker = marker
<1> DEFINE H == {HeaderLine(h[i][1], h[i][2]) : i \in 1..Len(h)}
           end == <<marker>>
           S == H \cup {reqLine, Blank, end}
           lines == HeaderLines(h)
           msg == <<reqLine>> \o lines \o <<Blank, end>>
<1>1. msg = BuildRequest(reqLine, h, marker)
  BY DEF BuildRequest
<1>2. lines \in Seq(S) /\ Len(lines) = Len(h) /\ Len(h) \in Nat
  <2>1. lines \in Seq(H) /\ Len(lines) = Len(h)
    BY HeaderLinesType
  <2> HIDE DEF lines, H, end
  <2>2. QED
    BY <2>1, SeqMonotonic
<1> HIDE DEF lines, H, end
<1>3. <<reqLine>> \in Seq(S) /\ <<Blank, end>> \in Seq(S) /\ <<Blank>> \in Seq(S)
  OBVIOUS
<1> HIDE DEF S
<1>4. /\ <<reqLine>> \o lines \in Seq(S)
      /\ Len(<<reqLine>> \o lines) = Len(h) + 1
      /\ (<<reqLine>> \o lines)[1] = reqLine
      /\ \A i \in 1..Len(h) : (<<reqLine>> \o lines)[i + 1] = lines[i]
  BY <1>2, <1>3
<1>5. /\ msg \in Seq(S) /\ Len(msg) = Len(h) + 3
      /\ msg[1] = reqLine /\ msg[Len(h) + 3] = end /\ msg[Len(h) + 2] = Blank
      /\ \A i \in 1..Len(h) : msg[i + 1] = lines[i]
  BY <1>2, <1>3, <1>4
<1> HIDE DEF msg
<1>6. msg # BuildBodyEnded
  <2>1. Len(BuildBodyEnded) = 1
    BY DEF BuildBodyEnded
  <2>2. Len(msg) # 1
    BY <1>2, <1>5
  <2>3. QED
    BY <2>1, <2>2
<1>7. SubSeq(msg, 2, Len(msg) - 1) = lines \o <<Blank>>
  <2> DEFINE sub == SubSeq(msg, 2, Len(msg) - 1)
             cat == lines \o <<Blank>>
  <2>1. /\ sub \in Seq(S) /\ Len(sub) = Len(h) + 1
        /\ \A i \in 1..(Len(h) + 1) : sub[i] = msg[i + 1]
    BY <1>2, <1>5
  <2>2. /\ cat \in Seq(S) /\ Len(cat) = Len(h) + 1
        /\ \A i \in 1..Len(h) : cat[i] = lines[i]
        /\ cat[Len(h) + 1] = Blank
    BY <1>2, <1>3
  <2> HIDE DEF sub, cat
  <2>3. ASSUME NEW i \in 1..(Len(h) + 1) PROVE sub[i] = cat[i]
    <3>1. CASE i \in 1..Len(h)
      BY <1>2, <1>5, <2>1, <2>2, <3>1
    <3>2. CASE i = Len(h) + 1
      <4>1. sub[i] = msg[Len(h) + 2]
        BY <1>2, <2>1, <3>2
      <4>2. QED
        BY <1>5, <2>2, <3>2, <4>1
    <3>3. QED
      BY <1>2, <3>1, <3>2
  <2>4. sub = cat
    BY <2>1, <2>2, <2>3, SeqEqual
  <2>5. QED
    BY <2>4 DEF sub, cat
<1>8. Last(msg) = end /\ Last(msg)[1] = marker
  BY <1>2, <1>5 DEF Last, end
<1>9. NewCrankerProtocolRequest(msg) =
        [endMarker |-> Last(msg)[1], requestLine |-> msg[1],
         HttpMethod |-> msg[1][1], Dest |-> msg[1][2],
         Headers |-> SubSeq(msg, 2, Len(msg) - 1)]
  BY <1>6 DEF NewCrankerProtocolRequest
<1>10. QED
  BY <1>1, <1>5, <1>7, <1>8, <1>9 DEF lines

(* The request line leads with the method and the first word of the path.  *)
LEMMA RequestLine ==
  ASSUME NEW r \in Requests
  PROVE  createReqLine(r)[1] = r.method /\ createReqLine(r)[2] = r.path[1]
<1> DEFINE version == "HTTP/1.1"
           W == STRING \cup {r.method, version}
<1>1. r.path \in Seq(STRING) /\ Len(r.path) >= 1
  BY RequestsAssumption
<1>2. createReqLine(r) = <<r.method>> \o r.path \o <<version>>
  BY DEF createReqLine
<1> HIDE DEF version
<1>3. r.path \in Seq(W) /\ <<r.method>> \in Seq(W) /\ <<version>> \in Seq(W)
  BY <1>1, SeqMonotonic
<1> HIDE DEF W
<1>4. /\ <<r.method>> \o r.path \in Seq(W)
      /\ Len(<<r.method>> \o r.path) = Len(r.path) + 1
      /\ (<<r.method>> \o r.path)[1] = r.method
      /\ (<<r.method>> \o r.path)[2] = r.path[1]
  BY <1>1, <1>3
<1>5. QED
  BY <1>1, <1>2, <1>3, <1>4

-----------------------------------------------------------------------------
(* How often a header occurs.                                              *)

(* The occurrences in a sequence are a finite set of positions.            *)
LEMMA TimesType ==
  ASSUME NEW T, NEW a \in Seq(T), NEW name
  PROVE  /\ IsFiniteSet({i \in DOMAIN a : a[i][1] = name})
         /\ Times(a, name) \in Nat
<1>1. IsFiniteSet(1..Len(a)) /\ DOMAIN a = 1..Len(a)
  BY FS_Interval
<1>2. {i \in DOMAIN a : a[i][1] = name} \in SUBSET (1..Len(a))
  BY <1>1
<1>3. QED
  BY <1>1, <1>2, FS_Subset, FS_CardinalityType DEF Times

(* The occurrences in two sequences add up.                                *)
LEMMA TimesConcat ==
  ASSUME NEW T, NEW a \in Seq(T), NEW b \in Seq(T), NEW name
  PROVE  Times(a \o b, name) = Times(a, name) + Times(b, name)
<1> DEFINE A == {i \in DOMAIN a : a[i][1] = name}
           B == {i \in DOMAIN b : b[i][1] = name}
           C == {i \in DOMAIN (a \o b) : (a \o b)[i][1] = name}
           moved == {i + Len(a) : i \in B}
           f == [i \in B |-> i + Len(a)]
<1>1. /\ Len(a) \in Nat /\ Len(b) \in Nat /\ DOMAIN a = 1..Len(a) /\ DOMAIN b = 1..Len(b)
      /\ DOMAIN (a \o b) = 1..(Len(a) + Len(b))
      /\ \A i \in 1..Len(a) : (a \o b)[i] = a[i]
      /\ \A i \in 1..Len(b) : (a \o b)[i + Len(a)] = b[i]
  OBVIOUS
<1>2. C = A \cup moved
  <2>1. ASSUME NEW i \in C PROVE i \in A \cup moved
    <3>1. CASE i <= Len(a)
      BY <1>1, <3>1
    <3>2. CASE i > Len(a)
      <4>1. i - Len(a) \in 1..Len(b) /\ i = (i - Len(a)) + Len(a)
        BY <1>1, <3>2
      <4>2. i - Len(a) \in B
        BY <1>1, <4>1
      <4>3. QED
        BY <4>1, <4>2
    <3>3. QED
      BY <1>1, <3>1, <3>2
  <2>2. A \subseteq C
    BY <1>1
  <2>3. ASSUME NEW i \in B PROVE i + Len(a) \in C
    <3>1. i \in 1..Len(b) /\ i + Len(a) \in 1..(Len(a) + Len(b))
      BY <1>1
    <3>2. QED
      BY <1>1, <3>1
  <2>4. QED
    BY <2>1, <2>2, <2>3
<1>3. A \cap moved = {}
  BY <1>1
<1>4. f \in Bijection(B, moved)
  <2>1. f \in [B -> moved] /\ \A i, j \in B : f[i] = f[j] => i = j
    BY <1>1
  <2>2. \A k \in moved : \E i \in B : f[i] = k
    OBVIOUS
  <2>3. QED
    BY <2>1, <2>2 DEF Bijection, Injection, Surjection, IsInjective
<1>5. IsFiniteSet(A) /\ IsFiniteSet(B) /\ Times(a, name) = Cardinality(A)
      /\ Times(b, name) = Cardinality(B)
  BY TimesType DEF Times
<1>6. Times(a \o b, name) = Cardinality(C)
  BY DEF Times
<1> HIDE DEF A, B, C, moved, f
<1>7. IsFiniteSet(moved) /\ Cardinality(moved) = Cardinality(B)
  BY <1>4, <1>5, FS_Bijection DEF ExistsBijection
<1>8. Cardinality(C) = Cardinality(A) + Cardinality(moved) - Cardinality({})
  BY <1>2, <1>3, <1>5, <1>7, FS_Union
<1>9. QED
  BY <1>5, <1>6, <1>7, <1>8, FS_EmptySet, FS_CardinalityType

(* A single header occurs once, under its own name.                        *)
LEMMA TimesOne ==
  ASSUME NEW h, NEW name
  PROVE  Times(<<h>>, name) = IF h[1] = name THEN 1 ELSE 0
<1> DEFINE found == {i \in DOMAIN <<h>> : <<h>>[i][1] = name}
<1>1. found = IF h[1] = name THEN {1} ELSE {}
  OBVIOUS
<1>2. Times(<<h>>, name) = Cardinality(found)
  BY DEF Times
<1> HIDE DEF found
<1>3. QED
  BY <1>1, <1>2, FS_EmptySet, FS_Singleton

-----------------------------------------------------------------------------
(* Leaving out the headers of some names.                                  *)

Others(headers, names) == {i \in DOMAIN headers : headers[i][1] \notin names}

(* The positions of a sequence are finitely many integers.                 *)
LEMMA PositionsFinite ==
  ASSUME NEW T, NEW s \in Seq(T), NEW P \in SUBSET (DOMAIN s)
  PROVE  P \in SUBSET Int /\ IsFiniteSet(P) /\ Cardinality(P) \in Nat
<1>1. IsFiniteSet(1..Len(s)) /\ DOMAIN s = 1..Len(s)
  BY FS_Interval
<1>2. P \in SUBSET (1..Len(s))
  BY <1>1
<1>3. QED
  BY <1>1, <1>2, FS_Subset, FS_CardinalityType

(* Of the headers of a name all or none are left.                          *)
LEMMA OtherTimes ==
  ASSUME NEW headers \in Seq(Headers), NEW names, NEW name
  PROVE  Times(ElementsAt(headers, Others(headers, names)), name)
           = IF name \notin names THEN Times(headers, name) ELSE 0
<1> DEFINE P == Others(headers, names)
           X == {h \in Headers : h[1] = name}
           taken == ElementsAt(headers, P)
<1>0. P \in SUBSET (DOMAIN headers)
  BY DEF Others
<1>1. taken \in Seq(Headers) /\ Len(taken) = Cardinality(P)
  BY <1>0, ElementsAtType
<1>2. P \in SUBSET Int /\ IsFiniteSet(P)
  BY <1>0, PositionsFinite
<1> HIDE DEF P
<1>3. Cardinality(Hits(taken, 1..Cardinality(P), X)) = Cardinality(Hits(headers, P, X))
  BY <1>2, ElementsAtCount
<1> HIDE DEF taken
<1>4. Hits(taken, 1..Cardinality(P), X) = {k \in DOMAIN taken : taken[k][1] = name}
  BY <1>1 DEF Hits
<1>5. Hits(headers, P, X) = IF name \notin names
                              THEN {i \in DOMAIN headers : headers[i][1] = name} ELSE {}
  <2>1. Hits(headers, P, X) = {i \in P : headers[i][1] = name}
    BY <1>0 DEF Hits
  <2>2. P = {i \in DOMAIN headers : headers[i][1] \notin names}
    BY DEF P, Others
  <2>3. QED
    BY <2>1, <2>2
<1>6. QED
  BY <1>3, <1>4, <1>5, FS_EmptySet DEF Times, taken, P

(* Those that are left keep their values and their order.                  *)
LEMMA OtherOrder ==
  ASSUME NEW headers \in Seq(Headers), NEW names,
         NEW i \in DOMAIN headers, NEW j \in DOMAIN headers, i <= j,
         headers[i][1] \notin names, headers[j][1] \notin names
  PROVE  \E k, l \in DOMAIN ElementsAt(headers, Others(headers, names)) :
            /\ k <= l
            /\ ElementsAt(headers, Others(headers, names))[k] = headers[i]
            /\ ElementsAt(headers, Others(headers, names))[l] = headers[j]
<1> DEFINE P == Others(headers, names)
           taken == ElementsAt(headers, P)
<1>1. P \in SUBSET (DOMAIN headers) /\ i \in P /\ j \in P
  BY DEF Others
<1>2. P \in SUBSET Int /\ IsFiniteSet(P) /\ i \in Int /\ j \in Int
  BY <1>1, PositionsFinite
<1> HIDE DEF P
<1>3. /\ DOMAIN taken = 1..Cardinality(P)
      /\ Rank(P)[i] \in 1..Cardinality(P) /\ Rank(P)[j] \in 1..Cardinality(P)
      /\ taken[Rank(P)[i]] = headers[i] /\ taken[Rank(P)[j]] = headers[j]
  BY <1>1, <1>2, ElementsAtRank
<1>4. Rank(P)[i] <= Rank(P)[j]
  <2>1. CASE i = j
    BY <1>3, <2>1
  <2>2. CASE i < j
    BY <1>1, <1>2, <1>3, <2>2, RankOrder
  <2>3. QED
    BY <1>2, <2>1, <2>2
<1>5. QED
  BY <1>3, <1>4 DEF P

-----------------------------------------------------------------------------
(* The headers the target is sent.                                         *)

\* the names that the router does not send
Held(headers) == HopByHopHeadersFields \union connHeaders(headers)

SentPositions(headers) == Others(headers, Held(headers))

AbsentPositions(headers) == {i \in DOMAIN XForwarded : Get(headers, XForwarded[i]) = NoWord}

AbsentHeaders(headers) ==
    [k \in 1..Cardinality(AbsentPositions(headers)) |->
        <<ElementsAt(XForwarded, AbsentPositions(headers))[k], "router">>]

(* The X-Forwarded headers have texts for names.                           *)
LEMMA XForwardedTexts == XForwarded \in Seq(Texts)
<1>1. XForwarded \in Seq(Range(XForwarded))
  BY DEF XForwarded, Range
<1>2. Range(XForwarded) \subseteq Texts
  BY DEF Texts
<1>3. QED
  BY <1>1, <1>2, SeqMonotonic

(* What the router adds is Forwarded and the X-Forwarded headers that the  *)
(* client did not send.                                                    *)
LEMMA AddedHeaders ==
  ASSUME NEW headers
  PROVE  /\ AbsentHeaders(headers) \in Seq(Headers)
         /\ addProxyForwardingHeaders(headers) = <<ForwardedHeader>> \o AbsentHeaders(headers)
<1> DEFINE absent == AbsentPositions(headers)
           found == ElementsAt(XForwarded, absent)
           names == <<"Forwarded">> \o found
           all == [i \in DOMAIN names |-> <<names[i], "router">>]
           cat == <<ForwardedHeader>> \o AbsentHeaders(headers)
<1>1. XForwarded \in Seq(Texts)
  BY XForwardedTexts
<1>2. absent \in SUBSET (DOMAIN XForwarded)
  BY DEF AbsentPositions
<1>3. found \in Seq(Texts) /\ Len(found) = Cardinality(absent)
  BY <1>1, <1>2, ElementsAtType
<1>4. addProxyForwardingHeaders(headers) = all
  BY DEF addProxyForwardingHeaders, AbsentPositions
<1>5. AbsentHeaders(headers) = [k \in 1..Len(found) |-> <<found[k], "router">>]
  BY <1>3 DEF AbsentHeaders
<1> HIDE DEF absent, found
<1>6. AbsentHeaders(headers) \in Seq(Headers) /\ Len(AbsentHeaders(headers)) = Len(found)
  <2>1. "router" \in Texts
    BY DEF Texts
  <2>2. \A k \in 1..Len(found) : <<found[k], "router">> \in Headers
    BY <1>3, <2>1 DEF Headers
  <2>3. QED
    BY <1>3, <1>5, <2>2
<1>7. /\ Len(names) = Len(found) + 1 /\ DOMAIN names = 1..(Len(found) + 1)
      /\ names[1] = "Forwarded" /\ \A k \in 1..Len(found) : names[k + 1] = found[k]
  BY <1>3
<1> HIDE DEF names
<1>8. /\ Len(cat) = Len(found) + 1 /\ DOMAIN cat = 1..(Len(found) + 1)
      /\ cat[1] = ForwardedHeader
      /\ \A k \in 1..Len(found) : cat[k + 1] = AbsentHeaders(headers)[k]
      /\ cat = [i \in 1..(Len(found) + 1) |-> cat[i]]
  <2>1. <<ForwardedHeader>> \in Seq(Headers) /\ Len(found) \in Nat
    BY <1>3, WrittenHeaders
  <2>2. cat \in Seq(Headers)
    BY <1>6, <2>1
  <2>3. QED
    BY <1>6, <2>1, <2>2
<1> HIDE DEF cat
<1>9. ASSUME NEW i \in 1..(Len(found) + 1) PROVE cat[i] = <<names[i], "router">>
  <2>1. Len(found) \in Nat
    BY <1>3
  <2>2. CASE i = 1
    BY <1>7, <1>8, <2>2 DEF ForwardedHeader
  <2>3. CASE i # 1
    <3>1. i - 1 \in 1..Len(found) /\ i = (i - 1) + 1
      BY <2>1, <2>3
    <3>2. cat[i] = AbsentHeaders(headers)[i - 1] /\ names[i] = found[i - 1]
      BY <1>7, <1>8, <3>1
    <3>3. QED
      BY <1>5, <3>1, <3>2
  <2>4. QED
    BY <2>2, <2>3
<1>10. all = cat
  BY <1>7, <1>8, <1>9
<1>11. QED
  BY <1>4, <1>6, <1>10 DEF cat

(* The headers the router sends are those of the client that pass and      *)
(* those it adds.                                                          *)
LEMMA SentHeadersType ==
  ASSUME NEW headers \in Seq(Headers)
  PROVE  /\ SentPositions(headers) \in SUBSET (DOMAIN headers)
         /\ ElementsAt(headers, SentPositions(headers)) \in Seq(Headers)
         /\ SentHeaders(headers) = ElementsAt(headers, SentPositions(headers))
                                     \o (<<ForwardedHeader>> \o AbsentHeaders(headers))
         /\ SentHeaders(headers) \in Seq(Headers)
<1>1. SentPositions(headers) \in SUBSET (DOMAIN headers)
  BY DEF SentPositions, Others
<1>2. ElementsAt(headers, SentPositions(headers)) \in Seq(Headers)
  BY <1>1, ElementsAtType
<1>3. SentHeaders(headers) = ElementsAt(headers, SentPositions(headers))
                               \o (<<ForwardedHeader>> \o AbsentHeaders(headers))
  <2>1. SentPositions(headers)
            = {i \in DOMAIN headers : shouldSendHeaderFromClientToTarget(headers[i][1], headers)}
    BY DEF SentPositions, Others, Held, shouldSendHeaderFromClientToTarget
  <2>2. QED
    BY <2>1, AddedHeaders DEF SentHeaders
<1>4. <<ForwardedHeader>> \in Seq(Headers) /\ AbsentHeaders(headers) \in Seq(Headers)
  BY AddedHeaders, WrittenHeaders
<1>5. QED
  BY <1>1, <1>2, <1>3, <1>4

(* Each X-Forwarded header is added once, if it is absent.                 *)
LEMMA AbsentTimes ==
  ASSUME NEW headers, NEW name
  PROVE  Times(AbsentHeaders(headers), name)
           = IF name \in Range(XForwarded) /\ Get(headers, name) = NoWord THEN 1 ELSE 0
<1> DEFINE P == AbsentPositions(headers)
           taken == ElementsAt(XForwarded, P)
<1>1. XForwarded \in Seq(Texts) /\ P \in SUBSET (DOMAIN XForwarded)
  BY XForwardedTexts DEF AbsentPositions
<1>2. P \in SUBSET Int /\ IsFiniteSet(P)
  BY <1>1, PositionsFinite
<1>3. \A k \in 1..Cardinality(P) : AbsentHeaders(headers)[k][1] = taken[k]
  BY DEF AbsentHeaders
<1>4. DOMAIN AbsentHeaders(headers) = 1..Cardinality(P)
  BY DEF AbsentHeaders
<1> HIDE DEF P
<1>5. Cardinality(Hits(taken, 1..Cardinality(P), {name})) = Cardinality(Hits(XForwarded, P, {name}))
  BY <1>2, ElementsAtCount
<1> HIDE DEF taken
<1>6. Times(AbsentHeaders(headers), name) = Cardinality(Hits(XForwarded, P, {name}))
  <2>1. {k \in DOMAIN AbsentHeaders(headers) : AbsentHeaders(headers)[k][1] = name}
          = Hits(taken, 1..Cardinality(P), {name})
    BY <1>3, <1>4 DEF Hits
  <2>2. QED
    BY <1>5, <2>1 DEF Times
<1>7. \A i, j \in DOMAIN XForwarded : XForwarded[i] = XForwarded[j] => i = j
  BY DEF XForwarded
<1>8. P = {i \in DOMAIN XForwarded : Get(headers, XForwarded[i]) = NoWord}
  BY DEF P, AbsentPositions
<1>9. CASE name \in Range(XForwarded) /\ Get(headers, name) = NoWord
  <2>1. PICK i \in DOMAIN XForwarded : XForwarded[i] = name
    BY <1>9 DEF Range
  <2>2. Hits(XForwarded, P, {name}) = {i}
    BY <1>7, <1>8, <1>9, <2>1 DEF Hits
  <2>3. QED
    BY <1>6, <1>9, <2>2, FS_Singleton
<1>10. CASE ~(name \in Range(XForwarded) /\ Get(headers, name) = NoWord)
  <2>1. Hits(XForwarded, P, {name}) = {}
    BY <1>8, <1>10 DEF Range, Hits
  <2>2. QED
    BY <1>6, <1>10, <2>1, FS_EmptySet
<1>11. QED
  BY <1>9, <1>10

-----------------------------------------------------------------------------
(* From the client's headers to the target's.                              *)

\* the headers that the connector lists in the request to the target
Listed(headers) == <<UserAgentHeader>> \o SentHeaders(headers) \o <<ViaHeader>>

\* how many of a name the two ends add to the client's
AddedTo(headers, name) ==
    IF \/ name \in {"Forwarded", "Via"}
       \/ name \in Range(XForwarded) /\ Get(headers, name) = NoWord
      THEN 1 ELSE 0

(* Of each name the connector lists all the client sent, or none, and what *)
(* the two ends add; and it lists an empty User-Agent first.               *)
LEMMA ListedTimes ==
  ASSUME NEW headers \in Seq(Headers), NEW name, name # "User-Agent"
  PROVE  Times(Listed(headers), name)
           = (IF name \notin Held(headers) THEN Times(headers, name) ELSE 0) + AddedTo(headers, name)
<1> DEFINE taken == ElementsAt(headers, SentPositions(headers))
           absent == AbsentHeaders(headers)
           sent == SentHeaders(headers)
           u == <<UserAgentHeader>>
           f == <<ForwardedHeader>>
           v == <<ViaHeader>>
           One(x) == IF x = name THEN 1 ELSE 0
<1>1. /\ taken \in Seq(Headers) /\ absent \in Seq(Headers) /\ sent \in Seq(Headers)
      /\ sent = taken \o (f \o absent)
  BY SentHeadersType, AddedHeaders
<1>2. u \in Seq(Headers) /\ f \in Seq(Headers) /\ v \in Seq(Headers)
  BY WrittenHeaders
<1>3. /\ Times(u, name) = 0
      /\ Times(f, name) = One("Forwarded")
      /\ Times(v, name) = One("Via")
  <2>1. \A h : Times(<<h>>, name) = One(h[1])
    BY TimesOne
  <2>2. /\ UserAgentHeader[1] = "User-Agent" /\ ForwardedHeader[1] = "Forwarded"
        /\ ViaHeader[1] = "Via"
    BY DEF UserAgentHeader, ForwardedHeader, ViaHeader
  <2>3. One("User-Agent") = 0
    OBVIOUS
  <2> HIDE DEF One
  <2>4. QED
    BY <2>1, <2>2, <2>3
<1>4. Listed(headers) = u \o sent \o v
  BY DEF Listed
<1> HIDE DEF taken, absent, sent, u, f, v
<1>5. u \o sent \in Seq(Headers) /\ f \o absent \in Seq(Headers)
  BY <1>1, <1>2
<1>6. /\ Times(u \o sent \o v, name) = Times(u \o sent, name) + Times(v, name)
      /\ Times(u \o sent, name) = Times(u, name) + Times(sent, name)
      /\ Times(taken \o (f \o absent), name) = Times(taken, name) + Times(f \o absent, name)
      /\ Times(f \o absent, name) = Times(f, name) + Times(absent, name)
  <2>1. \A a, b \in Seq(Headers) : Times(a \o b, name) = Times(a, name) + Times(b, name)
    BY TimesConcat
  <2>2. QED
    BY <1>1, <1>2, <1>5, <2>1
<1>7. Times(taken, name) \in Nat /\ Times(absent, name) \in Nat
  BY <1>1, TimesType
<1>8. Times(Listed(headers), name)
        = 0 + (Times(taken, name) + (One("Forwarded") + Times(absent, name))) + One("Via")
  BY <1>1, <1>3, <1>4, <1>6
<1>9. name \in Range(XForwarded) => name \notin {"Forwarded", "Via"}
  BY DEF Range, XForwarded
<1>10. Times(absent, name) = IF name \in Range(XForwarded) /\ Get(headers, name) = NoWord THEN 1 ELSE 0
  BY AbsentTimes DEF absent
<1>11. Times(taken, name) = IF name \notin Held(headers) THEN Times(headers, name) ELSE 0
  BY OtherTimes DEF taken, SentPositions
<1>12. One("Forwarded") + One("Via") + Times(absent, name) = AddedTo(headers, name)
  BY <1>9, <1>10 DEF AddedTo
<1> HIDE DEF One
<1>13. One("Forwarded") \in Int /\ One("Via") \in Int
  BY DEF One
<1>14. Times(Listed(headers), name) = Times(taken, name) +
         (One("Forwarded") + One("Via") + Times(absent, name))
  BY <1>7, <1>8, <1>13
<1>15. QED
  BY <1>11, <1>12, <1>14

(* The headers that pass keep their values and their order.                *)
LEMMA ListedOrder ==
  ASSUME NEW headers \in Seq(Headers), NEW i \in DOMAIN headers, NEW j \in DOMAIN headers,
         i <= j,
         headers[i][1] \notin Held(headers), headers[j][1] \notin Held(headers)
  PROVE  \E k, l \in DOMAIN Listed(headers) :
            /\ k <= l
            /\ Listed(headers)[k] = headers[i] /\ Listed(headers)[l] = headers[j]
<1> DEFINE P == SentPositions(headers)
           taken == ElementsAt(headers, P)
           rest == <<ForwardedHeader>> \o AbsentHeaders(headers)
           u == <<UserAgentHeader>>
           v == <<ViaHeader>>
           d == Listed(headers)
<1>1. /\ P \in SUBSET (DOMAIN headers) /\ taken \in Seq(Headers) /\ Len(taken) = Cardinality(P)
      /\ SentHeaders(headers) = taken \o rest
  BY SentHeadersType, ElementsAtType
<1>2. rest \in Seq(Headers) /\ u \in Seq(Headers) /\ v \in Seq(Headers)
  <2>1. /\ <<ForwardedHeader>> \in Seq(Headers) /\ AbsentHeaders(headers) \in Seq(Headers)
        /\ u \in Seq(Headers) /\ v \in Seq(Headers)
    BY AddedHeaders, WrittenHeaders
  <2>2. QED
    BY <2>1
<1>3. PICK p, q \in DOMAIN taken : p <= q /\ taken[p] = headers[i] /\ taken[q] = headers[j]
  BY OtherOrder DEF SentPositions
<1>5. d = u \o (taken \o rest) \o v /\ Len(u) = 1
  BY <1>1 DEF Listed
<1> HIDE DEF P, u, v, rest, d
<1> HIDE DEF taken
<1>8. ASSUME NEW k \in 1..Len(taken) PROVE 1 + k \in DOMAIN d /\ d[1 + k] = taken[k]
  <2>1. taken \o rest \in Seq(Headers) /\ (taken \o rest)[k] = taken[k]
        /\ k \in 1..Len(taken \o rest)
    BY <1>1, <1>2
  <2> DEFINE t == taken \o rest
             ut == u \o t
  <2> HIDE DEF t
  <2>2. /\ ut \in Seq(Headers) /\ Len(ut) = 1 + Len(t)
        /\ ut[1 + k] = t[k] /\ Len(t) \in Nat /\ k \in 1..Len(t)
    <3>1. t \in Seq(Headers) /\ k \in 1..Len(t) /\ Len(t) \in Nat
      BY <2>1 DEF t
    <3>2. /\ ut \in Seq(Headers) /\ Len(ut) = Len(u) + Len(t)
          /\ \A n \in 1..Len(ut) : ut[n] = IF n <= Len(u) THEN u[n] ELSE t[n - Len(u)]
      BY <1>2, <3>1, ConcatProperties
    <3>3. 1 + k \in 1..Len(ut) /\ ~(1 + k <= Len(u)) /\ (1 + k) - Len(u) = k
      BY <1>5, <3>1, <3>2
    <3>4. QED
      BY <1>5, <3>1, <3>2, <3>3
  <2>3. d = ut \o v
    BY <1>5 DEF t
  <2> HIDE DEF ut
  <2>4. 1 + k \in DOMAIN d /\ d[1 + k] = ut[1 + k]
    BY <1>2, <2>2, <2>3
  <2>5. QED
    BY <2>1, <2>2, <2>4 DEF t
<1>9. /\ Listed(headers) \in Seq(Headers)
      /\ p \in 1..Len(taken) /\ q \in 1..Len(taken) /\ 1 + p <= 1 + q
  BY <1>1, <1>2, <1>3, <1>5 DEF d
<1>10. QED
  BY <1>3, <1>8, <1>9 DEF d

(* Of the headers listed net/http writes those it does not leave out; and  *)
(* no User-Agent, since the first listed is empty.                         *)
LEMMA WrittenOthers ==
  ASSUME NEW headers \in Seq(Headers)
  PROVE  /\ Listed(headers) \in Seq(Headers)
         /\ TargetHeaders(SentHeaders(headers))
              = ElementsAt(Listed(headers), Others(Listed(headers), reqWriteExcludeHeader))
<1> DEFINE list == Listed(headers)
           rest == ElementsAt(list, Others(list, reqWriteExcludeHeader))
           found == {i \in DOMAIN list : list[i][1] = "User-Agent"}
<1>1. /\ SentHeaders(headers) \in Seq(Headers)
      /\ <<UserAgentHeader>> \in Seq(Headers) /\ <<ViaHeader>> \in Seq(Headers)
  BY SentHeadersType, WrittenHeaders
<1>2. list \in Seq(Headers) /\ 1 \in DOMAIN list /\ list[1] = UserAgentHeader
  <2> DEFINE u == <<UserAgentHeader>>
             t == SentHeaders(headers)
             v == <<ViaHeader>>
  <2>1. Len(u) = 1 /\ u[1] = UserAgentHeader
    OBVIOUS
  <2> HIDE DEF u, t, v
  <2>2. /\ u \o t \in Seq(Headers) /\ (u \o t) \o v \in Seq(Headers)
        /\ 1 \in 1..Len((u \o t) \o v) /\ ((u \o t) \o v)[1] = u[1]
    BY <1>1, <2>1 DEF u, t, v
  <2>3. QED
    BY <2>1, <2>2 DEF Listed, u, t, v
<1>3. TargetHeaders(SentHeaders(headers)) = Written(list)
  BY DEF TargetHeaders, Listed, UserAgentHeader, ViaHeader
<1> HIDE DEF list
<1>10. list[1][1] = "User-Agent" /\ list[1][2] = NoWord
  <2>1. UserAgentHeader[1] = "User-Agent" /\ UserAgentHeader[2] = NoWord
    BY DEF UserAgentHeader, NoWord
  <2>2. QED
    BY <1>2, <2>1
<1>4. found # {} /\ Min(found) = 1
  <2>1. 1 \in found /\ \A i \in found : i \in Nat /\ 1 <= i
    <3>1. DOMAIN list = 1..Len(list)
      BY <1>2
    <3>2. QED
      BY <1>2, <1>10, <3>1
  <2>2. \A x \in found : (\A y \in found : x <= y) => x = 1
    BY <2>1
  <2> HIDE DEF found
  <2>3. QED
    BY <2>1, <2>2 DEF Min
<1>5. Get(list, "User-Agent") = NoWord
  <2>1. Get(list, "User-Agent") = IF found = {} THEN NoWord ELSE list[Min(found)][2]
    BY DEF Get
  <2> HIDE DEF found
  <2>2. QED
    BY <1>4, <1>10, <2>1
<1>6. rest \in Seq(Headers)
  BY <1>2, ElementsAtType DEF Others
<1>7. Written(list) = <<>> \o rest
  BY <1>5 DEF Written, Others
<1>8. <<>> \o rest = rest
  BY <1>6, ConcatEmptySeq
<1>9. QED
  BY <1>2, <1>3, <1>7, <1>8 DEF list

(* Of each name the target gets all the client sent, or none, and what the *)
(* two ends add.                                                           *)
LEMMA DeliveredTimes ==
  ASSUME NEW headers \in Seq(Headers), NEW name
  PROVE  Times(TargetHeaders(SentHeaders(headers)), name)
           = (IF name \notin Held(headers) \cup reqWriteExcludeHeader THEN Times(headers, name) ELSE 0)
             + AddedTo(headers, name)
<1> DEFINE list == Listed(headers)
<1>1. /\ list \in Seq(Headers)
      /\ TargetHeaders(SentHeaders(headers)) = ElementsAt(list, Others(list, reqWriteExcludeHeader))
  BY WrittenOthers
<1> HIDE DEF list
<1>2. Times(TargetHeaders(SentHeaders(headers)), name)
        = IF name \notin reqWriteExcludeHeader THEN Times(list, name) ELSE 0
  BY <1>1, OtherTimes
<1>3. CASE name \notin reqWriteExcludeHeader
  <2>1. name # "User-Agent"
    BY <1>3 DEF reqWriteExcludeHeader
  <2>2. Times(list, name)
          = (IF name \notin Held(headers) THEN Times(headers, name) ELSE 0) + AddedTo(headers, name)
    BY <2>1, ListedTimes DEF list
  <2>3. QED
    BY <1>2, <1>3, <2>2
<1>4. CASE name \in reqWriteExcludeHeader
  <2>1. AddedTo(headers, name) = 0
    BY <1>4 DEF AddedTo, reqWriteExcludeHeader, XForwarded, Range
  <2>2. QED
    BY <1>2, <1>4, <2>1
<1>5. QED
  BY <1>3, <1>4

(* The headers that pass keep their values and their order.                *)
LEMMA DeliveredOrder ==
  ASSUME NEW headers \in Seq(Headers), NEW i \in DOMAIN headers, NEW j \in DOMAIN headers,
         i <= j,
         headers[i][1] \notin Held(headers) \cup reqWriteExcludeHeader,
         headers[j][1] \notin Held(headers) \cup reqWriteExcludeHeader
  PROVE  LET got == TargetHeaders(SentHeaders(headers))
         IN  \E k, l \in DOMAIN got : k <= l /\ got[k] = headers[i] /\ got[l] = headers[j]
<1> DEFINE list == Listed(headers)
<1>1. /\ list \in Seq(Headers)
      /\ TargetHeaders(SentHeaders(headers)) = ElementsAt(list, Others(list, reqWriteExcludeHeader))
  BY WrittenOthers
<1>2. PICK n, m \in DOMAIN list : n <= m /\ list[n] = headers[i] /\ list[m] = headers[j]
  BY ListedOrder
<1> HIDE DEF list
<1>3. list[n][1] \notin reqWriteExcludeHeader /\ list[m][1] \notin reqWriteExcludeHeader
  BY <1>2
<1>4. QED
  BY <1>1, <1>2, <1>3, OtherOrder

-----------------------------------------------------------------------------
(* The request that the target is sent.                                    *)

Description ==
    Text(BuildRequest(createReqLine(req), SentHeaders(req.headers),
         IF hasBody(req.headers) THEN RequestBodyPendingMarker ELSE RequestHasNoBodyMarker))

\* the first frame describes the request, and the target is sent what it says
DescribedInv ==
    /\ target = NoTarget /\ toConnector # <<>> => toConnector[1] = Description
    /\ target # NoTarget =>
          /\ target = [method |-> req.method, dest |-> req.path[1], url |-> Resolved(req.path[1]),
                       headers |-> TargetHeaders(SentHeaders(req.headers))]
          /\ hasBody(req.headers) => pipe # "none"

(* The headers of a request are headers.                                   *)
LEMMA RequestHeaders == ASSUME NEW r \in Requests PROVE r.headers \in Seq(Headers)
<1>1. r.headers \in Seq(STRING \X STRING)
  BY RequestsAssumption
<1>2. STRING \X STRING \subseteq Headers
  BY DEF Headers, Texts
<1>3. QED
  BY <1>1, <1>2, SeqMonotonic

(* What the connector makes of the description is the request for the      *)
(* target.                                                                 *)
LEMMA DescriptionRead ==
  ASSUME req \in Requests
  PROVE  LET ptcReq == NewCrankerProtocolRequest(Description.msg)
         IN  /\ ptcReq.HttpMethod = req.method /\ ptcReq.Dest = req.path[1]
             /\ HeadersIn(ptcReq.Headers) = SentHeaders(req.headers)
             /\ hasBody(req.headers) => ptcReq.endMarker = RequestBodyPendingMarker
<1> DEFINE marker == IF hasBody(req.headers) THEN RequestBodyPendingMarker
                                             ELSE RequestHasNoBodyMarker
           sent == SentHeaders(req.headers)
           read == NewCrankerProtocolRequest(BuildRequest(createReqLine(req), sent, marker))
<1>1. sent \in Seq(Headers)
  BY RequestHeaders, SentHeadersType
<1>2. Description.msg = BuildRequest(createReqLine(req), sent, marker)
  BY DEF Description, Text
<1> HIDE DEF marker, sent
<1>3. /\ read.HttpMethod = createReqLine(req)[1] /\ read.Dest = createReqLine(req)[2]
      /\ read.Headers = HeaderLines(sent) \o <<Blank>> /\ read.endMarker = marker
  BY <1>1, RequestReadBack
<1>4. createReqLine(req)[1] = req.method /\ createReqLine(req)[2] = req.path[1]
  BY RequestLine
<1> HIDE DEF read
<1>5. HeadersIn(read.Headers) = sent
  BY <1>1, <1>3, HeadersReadBack
<1>6. QED
  BY <1>2, <1>3, <1>4, <1>5 DEF marker, sent, read

(* A frame sent behind the description leaves it the first.                *)
LEMMA DescribedSend ==
  ASSUME StreamInv, DescribedInv, NEW frame, UNCHANGED <<req, target, pipe>>,
         toConnector' = IF reply = "lost" THEN toConnector ELSE Append(toConnector, frame),
         handler = "start" => frame = Description, handler \in {"start", "stream"}
  PROVE  DescribedInv'
<1>1. PICK S : toConnector \in Seq(S)
  BY DEF StreamInv, FramesInv
<1>2. ASSUME target = NoTarget, toConnector' # <<>> PROVE toConnector'[1] = Description
  <2>1. CASE reply = "lost"
    BY <1>2, <2>1 DEF DescribedInv
  <2>2. CASE reply # "lost" /\ toConnector = <<>>
    <3>1. handler = "start"
      BY <1>2, <2>2 DEF StreamInv, SentInv, Awaited
    <3>2. QED
      BY <2>2, <3>1
  <2>3. CASE reply # "lost" /\ toConnector # <<>>
    <3>1. 1 \in 1..Len(toConnector)
      BY <1>1, <2>3
    <3>2. toConnector'[1] = toConnector[1]
      BY <1>1, <2>3, <3>1, AppendFrame
    <3>3. QED
      BY <1>2, <2>3, <3>2 DEF DescribedInv
  <2>4. QED
    BY <2>1, <2>2, <2>3
<1>3. Description' = Description
  BY DEF Description
<1>4. QED
  BY <1>2, <1>3 DEF DescribedInv

(* The description is read once, and then the request stays.               *)
LEMMA DescribedStep == StreamInv /\ DescribedInv /\ [Next]_vars => DescribedInv'
<1> SUFFICES ASSUME StreamInv, DescribedInv, [Next]_vars PROVE DescribedInv'
  OBVIOUS
<1>1. PICK S : toConnector \in Seq(S)
  BY DEF StreamInv, FramesInv
<1>2. toConnector # <<>> => Head(toConnector) = toConnector[1]
  BY <1>1
<1>same. ASSUME UNCHANGED <<req, toConnector, target, pipe>> PROVE DescribedInv'
  BY <1>same DEF DescribedInv, Description
<1>later. ASSUME target # NoTarget, UNCHANGED <<req, target>>,
                 pipe' \in {pipe, "ended", "unread"}
          PROVE  DescribedInv'
  BY <1>later DEF DescribedInv
<1>3. CASE SendDescription
  BY <1>3, DescribedSend DEF SendDescription, Send, Description, targetVars
<1>4. CASE SendChunk \/ SendEnd
  BY <1>4, DescribedSend DEF SendChunk, SendEnd, Send, targetVars
<1>5. CASE ReadFails \/ SendFails
  BY <1>5, <1>same DEF ReadFails, SendFails, HandlerFails, targetVars
<1>6. CASE ReceiveDescription
  <2>1. target = NoTarget /\ Head(toConnector) = Description /\ req' = req /\ req \in Requests
    BY <1>2, <1>6 DEF ReceiveDescription, Received, DescribedInv, StreamInv, HandlerTyped
  <2>2. /\ target' = [method |-> req.method, dest |-> req.path[1], url |-> Resolved(req.path[1]),
                      headers |-> TargetHeaders(SentHeaders(req.headers))]
        /\ hasBody(req.headers) => pipe' = "open"
    <3> DEFINE ptcReq == NewCrankerProtocolRequest(Description.msg)
    <3>1. /\ target' = [method |-> ptcReq.HttpMethod, dest |-> ptcReq.Dest,
                        url |-> Resolved(ptcReq.Dest),
                        headers |-> TargetHeaders(HeadersIn(ptcReq.Headers))]
          /\ pipe' = IF ptcReq.endMarker = RequestBodyPendingMarker THEN "open" ELSE "none"
      BY <1>6, <2>1 DEF ReceiveDescription
    <3>2. /\ ptcReq.HttpMethod = req.method /\ ptcReq.Dest = req.path[1]
          /\ HeadersIn(ptcReq.Headers) = SentHeaders(req.headers)
          /\ hasBody(req.headers) => ptcReq.endMarker = RequestBodyPendingMarker
      BY <2>1, DescriptionRead
    <3> HIDE DEF ptcReq
    <3>3. QED
      BY <3>1, <3>2
  <2>3. target' # NoTarget
    BY <2>2 DEF NoTarget
  <2>4. QED
    BY <2>1, <2>2, <2>3 DEF DescribedInv
<1>7. CASE ReceiveEnd
  BY <1>7, <1>later DEF ReceiveEnd
<1>8. CASE ReceiveChunk
  <2>1. target # NoTarget
    BY <1>2, <1>8 DEF ReceiveChunk, Received, StreamInv, FramesInv
  <2>2. QED
    BY <1>8, <2>1, <1>later DEF ReceiveChunk
<1>9. CASE StopReading
  <2>1. target # NoTarget
    BY <1>9 DEF StopReading, StreamInv, StartInv
  <2>2. QED
    BY <1>9, <2>1, <1>later DEF StopReading
<1>10. CASE WebsocketBreaks
  <2>1. PICK n \in 0..Len(toConnector) : toConnector' = SubSeq(toConnector, 1, n)
    BY <1>10 DEF WebsocketBreaks
  <2>2. toConnector' # <<>> => toConnector # <<>> /\ toConnector'[1] = toConnector[1]
    BY <1>1, <2>1
  <2>3. UNCHANGED <<req, target, pipe>>
    BY <1>10 DEF WebsocketBreaks, targetVars
  <2>4. QED
    BY <2>2, <2>3 DEF DescribedInv, Description
<1>15. CASE ReceiveBadDest
  <2>1. target' = NoTarget /\ toConnector' = <<>>
    BY <1>15 DEF ReceiveBadDest, targetVars
  <2>2. QED
    BY <2>1 DEF DescribedInv
<1>16. CASE WriteErrorText \/ HandlerDone \/ Return
  BY <1>16, <1>same DEF WriteErrorText, HandlerDone, Return, HandlerFrame, targetVars
<1>11. CASE Respond \/ ReplyChunk \/ ReplyEnds \/ ReplyBreaks
  BY <1>11, <1>same DEF Respond, ReplyChunk, ReplyEnds, ReplyBreaks, CloseWebsocket,
                        ReplyFrame, targetVars
<1>12. CASE ReceiveResponse \/ ReceiveReply \/ ReceiveClose \/ ReceiveError
  BY <1>12, <1>same DEF ReceiveResponse, ReceiveReply, ReceiveClose, ReceiveError, Receive,
                        targetVars
<1>13. CASE UNCHANGED vars
  BY <1>13, <1>same DEF vars
<1>14. QED
  BY <1>3, <1>4, <1>5, <1>6, <1>7, <1>8, <1>9, <1>10, <1>11, <1>12, <1>13,
     <1>15, <1>16 DEF Next, HandlerNext, ConnectorNext

(* Whatever headers a client sends, the target gets its method, its path,  *)
(* the values of each header that passes, in order, and what the two ends  *)
(* add to them; and a body of a given length is never held back.           *)
THEOREM RequestIsDelivered == Spec => []RequestDelivered
<1>1. Init => DescribedInv
  BY DEF Init, DescribedInv
<1>2. Spec => [](StreamInv /\ DescribedInv)
  BY <1>1, StreamInit, StreamStep, DescribedStep, PTL DEF Spec
<1>3. StreamInv /\ DescribedInv => RequestDelivered
  <2> SUFFICES ASSUME StreamInv, DescribedInv, target # NoTarget
               PROVE  RequestDelivered
    BY DEF RequestDelivered
  <2> DEFINE headers == req.headers
             got == TargetHeaders(SentHeaders(headers))
  <2>1. req \in Requests /\ headers \in Seq(Headers)
    BY RequestHeaders DEF StreamInv, HandlerTyped
  <2>2. target.method = req.method /\ target.url = Resolved(req.path[1]) /\ target.headers = got
    BY DEF DescribedInv
  <2>3. "Content-Length" \in NamesOf(headers) => pipe # "none"
    BY DEF DescribedInv, hasBody
  <2>4. \A h : Passes(h) <=> h[1] \notin Held(headers) \cup reqWriteExcludeHeader
    BY DEF Passes, Held
  <2>5. ASSUME NEW name
        PROVE  Times(got, name)
                 = (IF Passes(<<name>>) THEN Times(headers, name) ELSE 0) + Added(name)
    <3>1. Passes(<<name>>) <=> name \notin Held(headers) \cup reqWriteExcludeHeader
      BY <2>4
    <3>2. Added(name) = AddedTo(headers, name)
      BY DEF Added, AddedTo
    <3> HIDE DEF headers, got
    <3>3. QED
      BY <2>1, <3>1, <3>2, DeliveredTimes DEF got
  <2> HIDE DEF headers, got
  <2>6. ASSUME NEW i \in DOMAIN headers, NEW j \in DOMAIN headers, i <= j,
               Passes(headers[i]), Passes(headers[j])
        PROVE  \E k, l \in DOMAIN got :
                  k <= l /\ got[k] = headers[i] /\ got[l] = headers[j]
    BY <2>1, <2>4, <2>6, DeliveredOrder DEF got
  <2>7. QED
    BY <2>2, <2>3, <2>5, <2>6 DEF RequestDelivered, headers
<1>4. QED
  BY <1>2, <1>3, PTL


-----------------------------------------------------------------------------
(* The two bodies implement ChunkStream: the client's.                     *)

(* A chunk under way was read from the client, and nothing under way tells *)
(* of the end of the body before the handler has come to it.               *)
IsSent(i) ==
    /\ toConnector[i].kind = "binary" => Number(i) <= chunksRead
    /\ toConnector[i].kind = "text" => handler = "sent" /\ chunksRead = req.chunks

ReachInv == Awaited => \A i \in 1..Len(toConnector) : i > Before => IsSent(i)

(* A frame that is sent says no more than the handler has done.            *)
LEMMA SendReach ==
  ASSUME StreamInv, ReachInv, NEW frame, ConnectorStill,
         chunksRead' \in Int, chunksRead' >= chunksRead,
         toConnector' = IF reply = "lost" THEN toConnector ELSE Append(toConnector, frame),
         handler \in {"start", "stream"},
         handler = "stream" =>
            \/ frame.kind = "binary" /\ chunksRead' = chunksRead + 1
            \/ frame.kind = "text" /\ handler' = "sent" /\ chunksRead' = req.chunks
  PROVE  ReachInv'
<1> USE DEF ConnectorStill
<1>1. PICK S : toConnector \in Seq(S)
  BY DEF StreamInv, FramesInv
<1>2. SUFFICES ASSUME Awaited, NEW i \in 1..Len(toConnector'), i > Before
               PROVE  IsSent(i)'
  BY DEF ReachInv, Awaited, Before
<1>3. /\ Len(toConnector) \in Nat /\ Len(targetBody) \in Nat /\ Before \in {0, 1}
      /\ chunksRead \in Int /\ chunksRead' \in Int
  BY <1>1 DEF StreamInv, BodyInv, HandlerTyped, Before
<1>4. Number(i)' = Number(i) /\ Number(i) \in Int
  BY <1>3 DEF Number, Before
<1>5. CASE i \in 1..Len(toConnector)
  <2>1. toConnector'[i] = toConnector[i]
    BY <1>1, <1>5, AppendFrame
  <2>2. IsSent(i)
    BY <1>2, <1>5 DEF ReachInv
  <2>3. toConnector[i].kind # "text"
    BY <1>2, <1>5, <2>2 DEF IsSent
  <2>4. QED
    BY <1>3, <1>4, <2>1, <2>2, <2>3 DEF IsSent
<1>6. CASE i \notin 1..Len(toConnector)
  <2>1. reply # "lost" /\ i = Len(toConnector) + 1 /\ toConnector'[i] = frame
    BY <1>1, <1>2, <1>6, AppendFrame
  <2>2. handler = "stream"
    BY <1>2, <1>3, <2>1 DEF StreamInv, StartInv, Before
  <2>3. chunksRead = Number(Len(toConnector))
    BY <1>2, <2>1, <2>2 DEF StreamInv, SentInv
  <2>4. Number(i) = chunksRead + 1
    BY <1>3, <2>1, <2>3 DEF Number
  <2>5. QED
    BY <1>3, <1>4, <2>1, <2>2, <2>4 DEF IsSent
<1>7. QED
  BY <1>5, <1>6

(* A frame that is taken leaves the others as they were.                   *)
LEMMA TakeReach ==
  ASSUME StreamInv, ReachInv, HandlerStill, toConnector # <<>>, toConnector' = Tail(toConnector),
         target' # NoTarget, Len(targetBody') \in Nat,
         Awaited' => Awaited /\ (Len(targetBody) - Before)' = Len(targetBody) - Before + 1
  PROVE  ReachInv'
<1> USE DEF HandlerStill
<1>1. PICK S : toConnector \in Seq(S)
  BY DEF StreamInv, FramesInv
<1>2. /\ Len(Tail(toConnector)) = Len(toConnector) - 1 /\ Len(toConnector) \in Nat
      /\ \A i \in 1..Len(Tail(toConnector)) : Tail(toConnector)[i] = toConnector[i + 1]
  BY <1>1, HeadTailProperties
<1>3. Len(targetBody) \in Nat /\ Before \in Int /\ Before <= 1 /\ Before' = 0
  BY DEF StreamInv, BodyInv, Before
<1>4. SUFFICES ASSUME Awaited', NEW i \in 1..Len(toConnector') PROVE IsSent(i)'
  BY DEF ReachInv
<1>5. i + 1 \in 1..Len(toConnector) /\ i + 1 > Before
  BY <1>2, <1>3
<1>6. Number(i)' = Number(i + 1) /\ toConnector'[i] = toConnector[i + 1]
  BY <1>2, <1>3, <1>4 DEF Number
<1>7. IsSent(i + 1)
  BY <1>4, <1>5 DEF ReachInv
<1>8. QED
  BY <1>6, <1>7 DEF IsSent

RequestBodyStep == RequestBody!Next \/ UNCHANGED RequestBody!vars

(* The steps of the handler write the body.                                *)
LEMMA HandlerImplements ==
  StreamInv /\ ReachInv /\ (HandlerNext \/ ReadFails) => ReachInv' /\ RequestBodyStep
<1> USE DEF RequestBodyStep, RequestBody!vars
<1>1. ASSUME StreamInv, ReachInv, SendDescription PROVE ReachInv' /\ RequestBodyStep
  <2>1. ConnectorStill /\ handler = "start" /\ handler' \in {"stream", "sent"} /\ chunksRead' = chunksRead
    BY <1>1 DEF SendDescription, Send, ConnectorStill, targetVars, replyVars
  <2>2. PICK frame : toConnector' = IF reply = "lost" THEN toConnector ELSE Append(toConnector, frame)
    BY <1>1 DEF SendDescription, Send
  <2>3. chunksRead \in Int
    BY <1>1 DEF StreamInv, HandlerTyped
  <2>4. ReachInv'
    BY <1>1, <2>1, <2>2, <2>3, SendReach
  <2>5. HandlerEnd = "open" /\ HandlerEnd' \in {"open", "done"} /\ TargetEnd' = TargetEnd
    BY <2>1 DEF HandlerEnd, HandlerFailed, TargetEnd, ConnectorStill
  <2>6. QED
    BY <2>1, <2>4, <2>5 DEF RequestBody!Next, RequestBody!Declare, ConnectorStill
<1>2. ASSUME StreamInv, ReachInv, SendChunk PROVE ReachInv' /\ RequestBodyStep
  <2>1. ConnectorStill /\ handler = "stream" /\ handler' = handler /\ chunksRead' = chunksRead + 1
    BY <1>2 DEF SendChunk, Send, ConnectorStill, targetVars, replyVars
  <2>2. toConnector' = IF reply = "lost" THEN toConnector ELSE Append(toConnector, Binary(chunksRead + 1))
    BY <1>2 DEF SendChunk, Send
  <2>3. chunksRead \in Int /\ Binary(chunksRead + 1).kind = "binary"
    BY <1>2 DEF StreamInv, HandlerTyped, Binary
  <2>4. ReachInv'
    BY <1>2, <2>1, <2>2, <2>3, SendReach
  <2>5. HandlerEnd = "open" /\ HandlerEnd' = "open" /\ TargetEnd' = TargetEnd
    BY <2>1 DEF HandlerEnd, HandlerFailed, TargetEnd, ConnectorStill
  <2>6. QED
    BY <2>1, <2>4, <2>5 DEF RequestBody!Next, RequestBody!Write, ConnectorStill
<1>3. ASSUME StreamInv, ReachInv, SendEnd PROVE ReachInv' /\ RequestBodyStep
  <2>1. /\ ConnectorStill /\ handler = "stream" /\ handler' = "sent"
        /\ chunksRead' = chunksRead /\ chunksRead = req.chunks
    BY <1>3 DEF SendEnd, Send, ConnectorStill, targetVars, replyVars
  <2>2. toConnector' = IF reply = "lost" THEN toConnector ELSE Append(toConnector, Text(BuildBodyEnded))
    BY <1>3 DEF SendEnd, Send
  <2>3. chunksRead \in Int /\ Text(BuildBodyEnded).kind = "text"
    BY <1>3 DEF StreamInv, HandlerTyped, Text
  <2>4. ReachInv'
    BY <1>3, <2>1, <2>2, <2>3, SendReach
  <2>5. HandlerEnd = "open" /\ HandlerEnd' = "done" /\ TargetEnd' = TargetEnd
    BY <2>1 DEF HandlerEnd, HandlerFailed, TargetEnd, ConnectorStill
  <2>6. QED
    BY <2>1, <2>4, <2>5 DEF RequestBody!Next, RequestBody!Declare, ConnectorStill
<1>4. ASSUME StreamInv, ReachInv, SendFails \/ ReadFails PROVE ReachInv' /\ RequestBodyStep
  <2>1. ConnectorStill /\ handler = "stream" /\ handler' = "failing" /\ UNCHANGED <<chunksRead, toConnector>>
    BY <1>4 DEF SendFails, ReadFails, HandlerFails, ConnectorStill, targetVars, replyVars
  <2>2. ReachInv'
    BY <1>4, <2>1 DEF ReachInv, Awaited, Before, Number, IsSent, ConnectorStill
  <2>3. HandlerEnd' = "broken" /\ TargetEnd' = TargetEnd
    BY <2>1 DEF HandlerEnd, HandlerFailed, TargetEnd, ConnectorStill
  <2>4. QED
    BY <2>1, <2>2, <2>3 DEF RequestBody!Next, RequestBody!Break, ConnectorStill
<1>5. ASSUME StreamInv, ReachInv, WriteErrorText \/ HandlerDone \/ Return
      PROVE  ReachInv' /\ RequestBodyStep
  <2>1. /\ ConnectorStill /\ UNCHANGED <<chunksRead, toConnector>>
        /\ handler' = "sent" <=> handler = "sent"
        /\ HandlerFailed' <=> HandlerFailed
    BY <1>5 DEF WriteErrorText, HandlerDone, Return, HandlerFrame, HandlerFailed, ConnectorStill,
                targetVars
  <2>2. ReachInv'
    BY <1>5, <2>1 DEF ReachInv, Awaited, Before, Number, IsSent, ConnectorStill
  <2>3. HandlerEnd' = HandlerEnd /\ TargetEnd' = TargetEnd
    BY <2>1 DEF HandlerEnd, TargetEnd, ConnectorStill
  <2>4. QED
    BY <2>1, <2>2, <2>3 DEF ConnectorStill
<1>6. QED
  BY <1>1, <1>2, <1>3, <1>4, <1>5 DEF HandlerNext

(* The steps of the connector's reader, and a target that stops, read it.  *)
LEMMA TargetImplements ==
  StreamInv /\ ReachInv /\ (ConnectorNext \/ StopReading) => ReachInv' /\ RequestBodyStep
<1> USE DEF RequestBodyStep, RequestBody!vars
<1>1. ASSUME StreamInv, ReachInv, ReceiveDescription PROVE ReachInv' /\ RequestBodyStep
  <2>1. /\ toConnector # <<>> /\ toConnector' = Tail(toConnector) /\ HandlerStill
        /\ target = NoTarget /\ targetBody' = targetBody /\ pipe' \in {"open", "none"}
    BY <1>1 DEF ReceiveDescription, Received, HandlerStill, routerVars, replyVars
  <2>2. target' # NoTarget
    <3>1. PICK m, d, u, h : target' = [method |-> m, dest |-> d, url |-> u, headers |-> h]
      BY <1>1 DEF ReceiveDescription
    <3>2. QED
      BY <3>1 DEF NoTarget
  <2>3. targetBody = <<>> /\ pipe = "none" /\ Before = 1 /\ Before' = 0 /\ Awaited
    BY <1>1, <2>1, <2>2 DEF StreamInv, StartInv, Before, Awaited
  <2>4. ReachInv'
    BY <1>1, <2>1, <2>2, <2>3, TakeReach
  <2>5. TargetEnd = "open" /\ TargetEnd' \in {"open", "cut"} /\ HandlerEnd' = HandlerEnd
    BY <2>1, <2>2, <2>3 DEF TargetEnd, HandlerEnd, HandlerFailed, HandlerStill
  <2>6. QED
    BY <2>1, <2>4, <2>5 DEF RequestBody!Next, RequestBody!Cut, HandlerStill
<1>2. ASSUME StreamInv, ReachInv, ReceiveEnd PROVE ReachInv' /\ RequestBodyStep
  <2>1. /\ toConnector # <<>> /\ toConnector' = Tail(toConnector) /\ HandlerStill
        /\ target # NoTarget /\ UNCHANGED <<target, targetBody>>
        /\ Head(toConnector).kind = "text" /\ pipe' \in {pipe, "ended"}
        /\ (pipe # "open" => pipe' = pipe)
    BY <1>2 DEF ReceiveEnd, Received, HandlerStill, routerVars, replyVars
  <2>2. HandlerEnd' = HandlerEnd /\ Len(targetBody) \in Nat
    BY <1>2, <2>1 DEF HandlerEnd, HandlerFailed, HandlerStill, StreamInv, BodyInv
  <2>3. CASE pipe # "open"
    <3>1. ReachInv'
      BY <1>2, <2>1, <2>2, <2>3, TakeReach DEF Awaited
    <3>2. TargetEnd' = TargetEnd
      BY <2>1, <2>3 DEF TargetEnd
    <3>3. QED
      BY <2>1, <2>2, <3>1, <3>2 DEF HandlerStill
  <2>4. CASE pipe = "open"
    <3>1. StreamInv'
      BY <1>2, ReceiveEndStep
    <3>2. PICK S : toConnector \in Seq(S)
      BY <1>2 DEF StreamInv, FramesInv
    <3>3. 1 \in 1..Len(toConnector) /\ Head(toConnector) = toConnector[1]
      BY <2>1, <3>2
    <3>4. IsSent(1) /\ (IsChunk(1) \/ IsEnd(1))
      BY <1>2, <2>1, <2>4, <3>3 DEF StreamInv, FramesInv, ReachInv, Awaited, Before
    <3>5. handler = "sent" /\ chunksRead = req.chunks
      BY <2>1, <3>3, <3>4 DEF IsSent
    <3>6. pipe' = "ended"
      <4>1. Head(toConnector).msg = BuildBodyEnded
        BY <2>1, <3>3, <3>4 DEF IsChunk, IsEnd
      <4>2. NewCrankerProtocolRequest(BuildBodyEnded).endMarker = RequestBodyEndedMarker
        BY Zenon DEF NewCrankerProtocolRequest
      <4>3. QED
        BY <1>2, <2>4, <4>1, <4>2 DEF ReceiveEnd
    <3>7. Len(targetBody) = chunksRead
      BY <2>1, <3>1, <3>5, <3>6 DEF StreamInv, BodyInv, HandlerStill
    <3>8. ReachInv'
      BY <1>2, <2>1, <2>2, <3>6, TakeReach DEF Awaited
    <3>9. TargetEnd = "open" /\ TargetEnd' = "whole" /\ HandlerEnd = "done"
      BY <2>4, <3>5, <3>6 DEF TargetEnd, HandlerEnd
    <3>10. QED
      BY <2>1, <2>2, <3>7, <3>8, <3>9 DEF RequestBody!Next, RequestBody!Finish, HandlerStill
  <2>5. QED
    BY <2>3, <2>4
<1>3. ASSUME StreamInv, ReachInv, ReceiveChunk PROVE ReachInv' /\ RequestBodyStep
  <2>1. /\ toConnector # <<>> /\ toConnector' = Tail(toConnector) /\ HandlerStill
        /\ UNCHANGED <<target, pipe>> /\ Head(toConnector).kind = "binary"
    BY <1>3 DEF ReceiveChunk, Received, HandlerStill, routerVars, replyVars
  <2>2. PICK S : toConnector \in Seq(S)
    BY <1>3 DEF StreamInv, FramesInv
  <2>3. 1 \in 1..Len(toConnector) /\ Head(toConnector) = toConnector[1]
    BY <2>1, <2>2
  <2>4. target # NoTarget
    BY <1>3, <2>1, <2>3 DEF StreamInv, FramesInv
  <2>5. /\ HandlerEnd' = HandlerEnd /\ TargetEnd' = TargetEnd
        /\ targetBody \in Seq(Nat) /\ Len(targetBody) \in Nat
    BY <1>3, <2>1 DEF HandlerEnd, HandlerFailed, TargetEnd, HandlerStill, StreamInv, BodyInv
  <2>6. CASE pipe # "open"
    <3>1. targetBody' = targetBody
      BY <1>3, <2>6 DEF ReceiveChunk
    <3>2. ReachInv'
      BY <1>3, <2>1, <2>4, <2>5, <2>6, <3>1, TakeReach DEF Awaited
    <3>3. QED
      BY <2>1, <2>5, <3>1, <3>2 DEF HandlerStill
  <2>7. CASE pipe = "open"
    <3>1. IsChunk(1) /\ IsSent(1)
      BY <1>3, <2>1, <2>3, <2>4, <2>7 DEF StreamInv, FramesInv, ReachInv, Awaited, Before, IsEnd
    <3>2. Number(1) = Len(targetBody) + 1
      BY <2>4, <2>5 DEF Number, Before
    <3>3. targetBody' = Append(targetBody, Len(targetBody) + 1)
      BY <1>3, <2>3, <2>7, <3>1, <3>2 DEF ReceiveChunk, IsChunk
    <3>4. Len(targetBody) < chunksRead
      <4>1. Len(targetBody) + 1 <= chunksRead /\ chunksRead \in Int
        BY <1>3, <2>1, <2>3, <3>1, <3>2 DEF IsSent, StreamInv, HandlerTyped
      <4>2. QED
        BY <2>5, <4>1
    <3>5. Len(targetBody)' = Len(targetBody) + 1
      BY <2>5, <3>3
    <3>6. ReachInv'
      BY <1>3, <2>1, <2>4, <2>5, <2>7, <3>5, TakeReach DEF Awaited, Before
    <3>7. TargetEnd = "open"
      BY <2>7 DEF TargetEnd
    <3>8. QED
      BY <2>1, <2>5, <3>3, <3>4, <3>6, <3>7 DEF RequestBody!Next, RequestBody!Read, HandlerStill
  <2>8. QED
    BY <2>6, <2>7
<1>4. ASSUME StreamInv, ReachInv, StopReading PROVE ReachInv' /\ RequestBodyStep
  <2>1. /\ pipe = "open" /\ pipe' = "unread" /\ HandlerStill
        /\ UNCHANGED <<toConnector, target, targetBody>>
    BY <1>4 DEF StopReading, HandlerStill, routerVars, replyVars
  <2>2. target # NoTarget
    BY <1>4, <2>1 DEF StreamInv, StartInv
  <2>3. ReachInv'
    BY <2>1, <2>2 DEF ReachInv, Awaited
  <2>4. TargetEnd = "open" /\ TargetEnd' = "cut" /\ HandlerEnd' = HandlerEnd
    BY <2>1, <2>2 DEF TargetEnd, HandlerEnd, HandlerFailed, HandlerStill
  <2>5. QED
    BY <2>1, <2>3, <2>4 DEF RequestBody!Next, RequestBody!Cut, HandlerStill
<1>5. ASSUME ReceiveBadDest PROVE ReachInv' /\ RequestBodyStep
  <2>1. /\ Len(toConnector') = 0
        /\ UNCHANGED <<handler, chunksRead, target, pipe, targetBody>>
    BY <1>5 DEF ReceiveBadDest, routerVars, targetVars
  <2>2. ReachInv'
    BY <2>1 DEF ReachInv
  <2>3. QED
    BY <2>1, <2>2 DEF HandlerEnd, HandlerFailed, TargetEnd
<1>6. QED
  BY <1>1, <1>2, <1>3, <1>4, <1>5 DEF ConnectorNext

(* The other steps are stutters; a websocket that breaks only loses frames. *)
LEMMA RequestBodyImplements == StreamInv /\ ReachInv /\ [Next]_vars => ReachInv' /\ RequestBodyStep
<1> SUFFICES ASSUME StreamInv, ReachInv, [Next]_vars PROVE ReachInv' /\ RequestBodyStep
  OBVIOUS
<1>1. CASE WebsocketBreaks
  <2>1. UNCHANGED <<req, handler, chunksRead, target, pipe, targetBody>>
    BY <1>1 DEF WebsocketBreaks, routerVars, targetVars
  <2>2. PICK n \in 0..Len(toConnector) : toConnector' = SubSeq(toConnector, 1, n)
    BY <1>1 DEF WebsocketBreaks
  <2>3. PICK S : toConnector \in Seq(S)
    BY DEF StreamInv, FramesInv
  <2>4. \A i \in 1..Len(toConnector') : i \in 1..Len(toConnector) /\ toConnector'[i] = toConnector[i]
    BY <2>2, <2>3
  <2>5. ReachInv'
    <3>1. SUFFICES ASSUME Awaited, NEW i \in 1..Len(toConnector'), i > Before PROVE IsSent(i)'
      BY <2>1 DEF ReachInv, Awaited, Before
    <3>2. IsSent(i)
      BY <2>4, <3>1 DEF ReachInv
    <3>3. Number(i)' = Number(i)
      BY <2>1 DEF Number, Before
    <3>4. QED
      BY <2>1, <2>4, <3>2, <3>3 DEF IsSent
  <2>6. QED
    BY <2>1, <2>5 DEF RequestBodyStep, RequestBody!vars, HandlerEnd, HandlerFailed, TargetEnd
<1>2. ASSUME UNCHANGED <<req, handler, chunksRead, toConnector, target, pipe, targetBody>>
      PROVE  ReachInv' /\ RequestBodyStep
  <2>1. ReachInv'
    BY <1>2 DEF ReachInv, Awaited, Before, Number, IsSent
  <2>2. QED
    BY <1>2, <2>1 DEF RequestBodyStep, RequestBody!vars, HandlerEnd, HandlerFailed, TargetEnd
<1>3. CASE Respond \/ ReplyChunk \/ ReplyEnds \/ ReplyBreaks
  BY <1>2, <1>3 DEF Respond, ReplyChunk, ReplyEnds, ReplyBreaks, CloseWebsocket, ReplyFrame,
                    routerVars, targetVars
<1>4. CASE ReceiveResponse \/ ReceiveReply \/ ReceiveClose \/ ReceiveError
  BY <1>2, <1>4 DEF ReceiveResponse, ReceiveReply, ReceiveClose, ReceiveError, Receive,
                    routerVars, targetVars
<1>5. CASE UNCHANGED vars
  BY <1>2, <1>5 DEF vars
<1>6. QED
  BY <1>1, <1>3, <1>4, <1>5, HandlerImplements, TargetImplements DEF Next

-----------------------------------------------------------------------------
(* The two bodies implement ChunkStream: the target's.                     *)

(* A client that has the whole of an answer has nothing more under way;    *)
(* and only a target that was sent a request answers.                      *)
ClosedInv ==
    /\ client.end = "close" /\ reply = "whole" => toRouter = <<>>
    /\ response # NoResponse => target # NoTarget

ResponseBodyStep == ResponseBody!Next \/ UNCHANGED ResponseBody!vars

\* what is done with neither the response nor the client
LEMMA ResponseAside ==
  ASSUME ClosedInv, UNCHANGED <<toRouter, response, reply, replies, client>>,
         target # NoTarget => target' # NoTarget
  PROVE  ClosedInv' /\ ResponseBodyStep
BY DEF ClosedInv, ResponseBodyStep, ResponseBody!vars, ReplyEnd, ClientEnd

(* The target's steps, and the loss of the websocket, are the writer's.    *)
LEMMA ReplyImplements ==
  ReplyInv /\ ClosedInv
     /\ (Respond \/ ReplyChunk \/ ReplyEnds \/ ReplyBreaks \/ WebsocketBreaks \/ ReceiveBadDest)
     => ClosedInv' /\ ResponseBodyStep
<1> SUFFICES ASSUME ReplyInv, ClosedInv,
                    \/ Respond \/ ReplyChunk \/ ReplyEnds \/ ReplyBreaks
                    \/ WebsocketBreaks \/ ReceiveBadDest
             PROVE  ClosedInv' /\ ResponseBodyStep
  OBVIOUS
<1>1. UNCHANGED <<client, target>>
  BY DEF Respond, ReplyChunk, ReplyEnds, ReplyBreaks, CloseWebsocket, ReplyFrame, targetVars,
         WebsocketBreaks, ReceiveBadDest
<1>2. CASE Respond
  <2>1. UNCHANGED <<reply, replies>> /\ reply = "open" /\ target # NoTarget
    BY <1>2 DEF Respond
  <2>2. QED
    BY <1>1, <2>1 DEF ClosedInv, ResponseBodyStep, ResponseBody!vars, ReplyEnd, ClientEnd
<1>3. CASE ReplyChunk
  <2>1. UNCHANGED <<response, reply>> /\ replies' = replies + 1 /\ reply = "open"
    BY <1>3 DEF ReplyChunk
  <2>2. ReplyEnd = "open" /\ ReplyEnd' = ReplyEnd /\ ClientEnd' = ClientEnd
    BY <1>1, <2>1 DEF ReplyEnd, ClientEnd
  <2>3. QED
    BY <1>1, <2>1, <2>2 DEF ClosedInv, ResponseBodyStep, ResponseBody!Next, ResponseBody!Write
<1>4. CASE ReplyEnds \/ ReplyBreaks
  <2>1. UNCHANGED <<response, replies>> /\ reply = "open" /\ reply' \in {"whole", "broken"}
    BY <1>4 DEF ReplyEnds, ReplyBreaks, CloseWebsocket
  <2>2. client.end # "close"
    BY <2>1 DEF ReplyInv, ClientInv, EndInv
  <2>3. ReplyEnd = "open" /\ ReplyEnd' \in {"done", "broken"}
    BY <2>1 DEF ReplyEnd
  <2>4. ClientEnd' = ClientEnd
    BY <1>1, <2>1, <2>2 DEF ClientEnd
  <2>5. QED
    BY <1>1, <2>1, <2>2, <2>3, <2>4
       DEF ClosedInv, ResponseBodyStep, ResponseBody!Next, ResponseBody!Declare, ResponseBody!Break
<1>5. CASE WebsocketBreaks \/ ReceiveBadDest
  <2>1. UNCHANGED <<response, replies>> /\ reply' = "lost"
    BY <1>5 DEF WebsocketBreaks, ReceiveBadDest
  <2>2. ~(client.end = "close" /\ reply = "whole")
    <3>1. CASE WebsocketBreaks
      BY <3>1 DEF WebsocketBreaks, ClosedInv
    <3>2. CASE ReceiveBadDest
      BY <3>2 DEF ReceiveBadDest, ClosedInv, ReplyInv, GivenInv
    <3>3. QED
      BY <1>5, <3>1, <3>2
  <2>3. ReplyEnd' = "broken" /\ ClientEnd' = ClientEnd
    BY <1>1, <2>1, <2>2 DEF ReplyEnd, ClientEnd
  <2>4. QED
    BY <1>1, <2>1, <2>3 DEF ClosedInv, ResponseBodyStep, ResponseBody!Next, ResponseBody!Break
<1>6. QED
  BY <1>2, <1>3, <1>4, <1>5

(* Nothing is under way once the close of a websocket was received.        *)
LEMMA NothingAfterClose ==
  ASSUME ReplyInv, ReceiveClose, ~client.over
  PROVE  toRouter' = <<>>
<1>1. toRouter # <<>> /\ toRouter' = Tail(toRouter) /\ Head(toRouter).kind = "close"
  BY DEF ReceiveClose, Receive
<1>2. IsLast(1)
  BY <1>1, FirstDue DEF IsDue, IsDescription, IsReply
<1>3. PICK S : toRouter \in Seq(S)
  BY DEF ReplyInv, WireInv
<1>4. Len(toRouter) = 1
  BY <1>2 DEF IsLast
<1>5. QED
  BY <1>1, <1>3, <1>4

(* The steps of the router's reader are the reader's, which gets the       *)
(* chunks, and no more of them once Handle has returned.                   *)
LEMMA ReaderImplements ==
  ReplyInv /\ ClosedInv /\ (ReceiveResponse \/ ReceiveReply \/ ReceiveClose \/ ReceiveError)
     => ClosedInv' /\ ResponseBodyStep
<1> SUFFICES ASSUME ReplyInv, ClosedInv,
                    ReceiveResponse \/ ReceiveReply \/ ReceiveClose \/ ReceiveError
             PROVE  ClosedInv' /\ ResponseBodyStep
  OBVIOUS
<1>1. /\ toRouter # <<>> /\ UNCHANGED <<target, response, reply, replies>> /\ ReplyEnd' = ReplyEnd
      /\ client.over => client' = client
  BY DEF ReceiveResponse, ReceiveReply, ReceiveClose, ReceiveError, Receive, ReplyEnd, targetVars
<1>2. ~(client.end = "close" /\ reply = "whole")
  BY <1>1 DEF ClosedInv
<1>3. PICK A, B : client \in ClientOf(A, B)
  BY DEF ReplyInv, ClientInv
<1>4. CASE client.over
  BY <1>1, <1>2, <1>4 DEF ClosedInv, ResponseBodyStep, ResponseBody!vars, ClientEnd
<1>5. ASSUME ~client.over, client'.chunks = client.chunks, client'.over = client.over,
             client'.end = "close" => client.end = "close" \/ toRouter' = <<>>
      PROVE  ClosedInv' /\ ResponseBodyStep
  BY <1>1, <1>2, <1>5 DEF ClosedInv, ResponseBodyStep, ResponseBody!vars, ClientEnd
<1>6. CASE ~client.over /\ ReceiveResponse
  <2>1. \/ client' = client
        \/ \E st, hd : client' = [client EXCEPT !.status = st, !.headers = hd]
    BY <1>6 DEF ReceiveResponse, Receive
  <2>2. client'.chunks = client.chunks /\ client'.end = client.end /\ client'.over = client.over
    BY <1>3, <2>1 DEF ClientOf
  <2>3. QED
    BY <1>5, <1>6, <2>2
<1>7. CASE ~client.over /\ ReceiveReply
  <2>1. /\ client'.chunks = Append(client.chunks, Len(client.chunks) + 1)
        /\ Len(client.chunks) < replies
    BY <1>7, ReceiveReplyReply
  <2>2. client'.end = client.end /\ client'.over = client.over
    <3>1. PICK ch : client' = [client EXCEPT !.chunks = ch]
      BY <1>7 DEF ReceiveReply, Receive
    <3>2. QED
      BY <1>3, <3>1 DEF ClientOf
  <2>3. ClientEnd = "open" /\ ClientEnd' = ClientEnd
    BY <1>7, <2>2 DEF ClientEnd
  <2>4. ClosedInv'
    BY <1>1, <1>2, <2>2 DEF ClosedInv
  <2>5. QED
    BY <1>1, <2>1, <2>3, <2>4 DEF ResponseBodyStep, ResponseBody!Next, ResponseBody!Read
<1>8. CASE ~client.over /\ ReceiveClose
  <2>1. PICK st, en : client' = [client EXCEPT !.status = st, !.end = en]
    <3>1. PICK st : client' = Done([client EXCEPT !.status = st], "close")
      BY <1>8 DEF ReceiveClose, Receive
    <3>2. client' = [client EXCEPT !.status = st,
                                   !.end = IF client.end = "none" THEN "close" ELSE client.end]
      BY <1>3, <3>1 DEF Done, ClientOf
    <3>3. QED
      BY <3>2
  <2>2. client'.chunks = client.chunks /\ client'.over = client.over
    BY <1>3, <2>1 DEF ClientOf
  <2>3. toRouter' = <<>>
    BY <1>8, NothingAfterClose
  <2>4. QED
    BY <1>5, <1>8, <2>2, <2>3
<1>9. CASE ~client.over /\ ReceiveError
  <2>1. client' = Done(Texted(client), "error")
    BY <1>9 DEF ReceiveError, Receive
  <2>2. PICK st, tx : client' = [client EXCEPT !.status = st, !.texts = tx,
                                    !.end = IF client.end = "none" THEN "error" ELSE client.end]
    BY <2>1, TextedClient DEF ReplyInv
  <2>3. /\ client'.chunks = client.chunks /\ client'.over = client.over
        /\ client'.end = "close" => client.end = "close"
    BY <1>3, <2>2 DEF ClientOf
  <2>4. QED
    BY <1>5, <1>9, <2>3
<1>10. QED
  BY <1>4, <1>6, <1>7, <1>8, <1>9

(* The end of the client's response is the return of Handle.               *)
LEMMA ReturnImplements == ReplyInv /\ ClosedInv /\ Return => ClosedInv' /\ ResponseBodyStep
<1> SUFFICES ASSUME ReplyInv, ClosedInv, Return PROVE ClosedInv' /\ ResponseBodyStep
  OBVIOUS
<1>1. /\ client' = [client EXCEPT !.over = TRUE] /\ ~client.over
      /\ UNCHANGED <<target, toRouter, response, reply, replies>>
  BY DEF Return, HandlerFrame, targetVars
<1>2. PICK A, B : client \in ClientOf(A, B)
  BY DEF ReplyInv, ClientInv
<1>3. client'.chunks = client.chunks /\ client'.end = client.end /\ client'.over
  BY <1>1, <1>2 DEF ClientOf
<1>4. ClosedInv' /\ ReplyEnd' = ReplyEnd /\ ClientEnd = "open"
  BY <1>1, <1>3 DEF ClosedInv, ReplyEnd, ClientEnd
<1>5. CASE client.end = "close" /\ reply = "whole"
  <2>1. Len(client.chunks) = replies
    BY <1>5 DEF ReplyInv, ClientInv, EndInv
  <2>2. ReplyEnd = "done" /\ ClientEnd' = "whole"
    BY <1>1, <1>3, <1>5 DEF ReplyEnd, ClientEnd
  <2>3. QED
    BY <1>1, <1>3, <1>4, <2>1, <2>2 DEF ResponseBodyStep, ResponseBody!Next, ResponseBody!Finish
<1>6. CASE ~(client.end = "close" /\ reply = "whole")
  <2>1. ClientEnd' = "cut"
    BY <1>1, <1>3, <1>6 DEF ClientEnd
  <2>2. QED
    BY <1>1, <1>3, <1>4, <2>1 DEF ResponseBodyStep, ResponseBody!Next, ResponseBody!Cut
<1>7. QED
  BY <1>5, <1>6

LEMMA ResponseBodyImplements ==
  ReplyInv /\ ClosedInv /\ [Next]_vars => ClosedInv' /\ ResponseBodyStep
<1> SUFFICES ASSUME ReplyInv, ClosedInv, [Next]_vars PROVE ClosedInv' /\ ResponseBodyStep
  OBVIOUS
<1>1. CASE SendDescription \/ SendChunk \/ SendEnd \/ SendFails \/ ReadFails
  <2>1. UNCHANGED <<target, toRouter, response, reply, replies, client>>
    BY <1>1 DEF SendDescription, SendChunk, SendEnd, Send, SendFails, ReadFails, HandlerFails,
                targetVars, replyVars
  <2>2. QED
    BY <2>1, ResponseAside
<1>2. CASE WriteErrorText \/ HandlerDone
  <2>1. UNCHANGED <<target, toRouter, response, reply, replies>>
    BY <1>2 DEF WriteErrorText, HandlerDone, HandlerFrame, targetVars
  <2>2. PICK A, B : client \in ClientOf(A, B)
    BY DEF ReplyInv, ClientInv
  <2>3. \/ \E st, tx : client' = [client EXCEPT !.status = st, !.texts = tx, !.end = client.end]
        \/ client' = [client EXCEPT !.end = IF client.end = "none" THEN "error" ELSE client.end]
    <3>1. CASE WriteErrorText
      BY <3>1, TextedClient DEF WriteErrorText, ReplyInv
    <3>2. CASE HandlerDone
      BY <2>2, <3>2 DEF HandlerDone, Done, ClientOf
    <3>3. QED
      BY <1>2, <3>1, <3>2
  <2>4. /\ client'.chunks = client.chunks /\ client'.over = client.over
        /\ client'.end = client.end \/ (client.end = "none" /\ client'.end = "error")
    BY <2>2, <2>3 DEF ClientOf
  <2>5. ClientEnd' = ClientEnd
    BY <2>1, <2>4 DEF ClientEnd
  <2>6. QED
    BY <2>1, <2>4, <2>5 DEF ClosedInv, ResponseBodyStep, ResponseBody!vars, ReplyEnd
<1>3. CASE ReceiveDescription \/ ReceiveEnd \/ ReceiveChunk \/ StopReading
  <2>1. UNCHANGED <<toRouter, response, reply, replies, client>>
    BY <1>3 DEF ReceiveDescription, ReceiveEnd, ReceiveChunk, StopReading, replyVars
  <2>2. target # NoTarget => target' # NoTarget
    BY <1>3 DEF ReceiveDescription, ReceiveEnd, ReceiveChunk, StopReading
  <2>3. QED
    BY <2>1, <2>2, ResponseAside
<1>4. CASE UNCHANGED vars
  BY <1>4, ResponseAside DEF vars, targetVars
<1>5. QED
  BY <1>1, <1>2, <1>3, <1>4, ReplyImplements, ReaderImplements, ReturnImplements
     DEF Next, HandlerNext, ConnectorNext

(* Whatever fails, and whenever, each of the two bodies is carried as      *)
(* ChunkStream promises: the client's as far as the target, and the        *)
(* target's as far as the client.                                          *)
THEOREM BodiesStreamed == Spec => BodyStreams
<1>1. Init => ReachInv /\ ClosedInv /\ RequestBody!Init /\ ResponseBody!Init
  <2> SUFFICES ASSUME Init PROVE ReachInv /\ ClosedInv /\ RequestBody!Init /\ ResponseBody!Init
    OBVIOUS
  <2>1. /\ handler = "start" /\ chunksRead = 0 /\ toConnector = <<>> /\ target = NoTarget
        /\ pipe = "none" /\ targetBody = <<>> /\ reply = "open" /\ replies = 0
        /\ response = NoResponse /\ client.chunks = <<>> /\ ~client.over
    BY DEF Init
  <2>2. ReachInv /\ ClosedInv
    BY <2>1 DEF ReachInv, ClosedInv
  <2>3. HandlerEnd = "open" /\ TargetEnd = "open" /\ ReplyEnd = "open" /\ ClientEnd = "open"
    BY <2>1 DEF HandlerEnd, HandlerFailed, TargetEnd, ReplyEnd, ClientEnd
  <2>4. QED
    BY <2>1, <2>2, <2>3 DEF RequestBody!Init, ResponseBody!Init
<1>2. StreamInv /\ ReachInv /\ [Next]_vars => ReachInv' /\ [RequestBody!Next]_(RequestBody!vars)
  BY RequestBodyImplements DEF RequestBodyStep
<1>3. ReplyInv /\ ClosedInv /\ [Next]_vars => ClosedInv' /\ [ResponseBody!Next]_(ResponseBody!vars)
  BY ResponseBodyImplements DEF ResponseBodyStep
<1>4. QED
  BY <1>1, <1>2, <1>3, StreamInit, StreamStep, ReplyInit, ReplyStep, PTL
     DEF Spec, BodyStreams, RequestBody!Spec, ResponseBody!Spec
=============================================================================
