------------------------------ MODULE Exchange ------------------------------
(***************************************************************************)
(* One request and its response, end to end: the client's request is       *)
(* described and streamed by ReverseProxy.sendRequestOverWebsocket, read   *)
(* by ConnectorSocket, sent to the target by IntermediateRequest, and the  *)
(* response comes back through RouterSocket.                               *)
(*                                                                         *)
(* The router's handler, the connector's reader, the target with the       *)
(* goroutine that calls it, and the router's reader run concurrently.  The *)
(* websocket may break at any time, and with it both directions; what the  *)
(* two ends do to each other's goroutines then is in RouterSocket and      *)
(* ConnectorSocket.  So are a client that leaves while it is written to,   *)
(* the panic of a write to a client whose Handle has returned, which here  *)
(* is lost, and a chunk whose sending fails without a word.                *)
(***************************************************************************)
EXTENDS CrankerProtocol, FiniteSets

CONSTANTS
    Requests,       \* the requests a client may send
    Responses,      \* the responses a target may give
    Resolved(_),    \* what url.Parse and ResolveReference make of a path, or BadURL
    MaxChunks,      \* bound: chunks of a request body
    MaxReplies      \* bound: chunks of a response body

(* A request: its method; its path, which net/http has decoded, and query, *)
(* as the words spaces part; its headers as <<name, value>> pairs in the   *)
(* order the map is iterated; the chunks of its body.  A response: its     *)
(* status, reason and headers.  What the client was written: a status,     *)
(* headers, the chunks of the body, and after how many of them the text of *)
(* an error; end is who called Done first, over that Handle has returned.  *)
ASSUME RequestsAssumption ==
    \A r \in Requests :
        /\ r.path \in Seq(STRING) /\ Len(r.path) >= 1 /\ r.chunks \in 0..MaxChunks
        /\ r.headers \in Seq(STRING \X STRING)
ASSUME ResponsesAssumption ==
    \A r \in Responses :
        /\ r.status # "none" /\ r.reason \in Seq(STRING) /\ Len(r.reason) >= 1
        /\ r.headers \in Seq(STRING \X STRING)
ASSUME ChunksAssumption == MaxChunks \in Nat /\ MaxReplies \in Nat

NormalClosure == 1000
InternalServerErr == 1011

BadGateway == "502"
BadURL == "bad URL"

NoTarget   == [method |-> "none"]
NoResponse == [status |-> "none", reason |-> <<"none">>, headers |-> <<>>]

VARIABLES
    req,            \* the client's request
    handler,        \* where sendRequestOverWebsocket is
    chunksRead,     \* chunks of the body read from the client
    toConnector,    \* frames on their way to the connector, in order
    toRouter,       \* ... and to the router
    target,         \* the request the target was sent
    pipe,           \* the pipe that feeds the target the body
    targetBody,     \* the chunks the target has read
    response,       \* the response the target gave
    reply,          \* what became of the response: open, whole, broken or lost
    replies,        \* chunks of its body sent
    client          \* what the client was written, and how its response ended

vars == <<req, handler, chunksRead, toConnector, toRouter, target, pipe, targetBody,
          response, reply, replies, client>>

routerVars == <<handler, chunksRead>>
targetVars == <<target, pipe, targetBody>>
replyVars  == <<response, reply, replies, client>>

TypeOK ==
    /\ req \in Requests
    /\ handler \in {"start", "stream", "sent", "failing", "texted", "failed"}
    /\ chunksRead \in 0..MaxChunks
    /\ \A i \in DOMAIN toConnector : toConnector[i].kind \in {"text", "binary"}
    /\ \A i \in DOMAIN toRouter : toRouter[i].kind \in {"text", "binary", "close", "error"}
    /\ pipe \in {"none", "open", "ended", "unread"}
    /\ targetBody \in UNION {[1..n -> 1..MaxChunks] : n \in 0..MaxChunks}
    /\ response \in Responses \union {NoResponse}
    /\ reply \in {"open", "whole", "broken", "lost"} /\ replies \in 0..MaxReplies
    /\ client.chunks \in Seq(1..MaxReplies) /\ client.texts \subseteq 0..MaxReplies
    /\ client.end \in {"none", "close", "error"} /\ client.over \in BOOLEAN

Init ==
    /\ req \in Requests
    /\ handler = "start" /\ chunksRead = 0
    /\ toConnector = <<>> /\ toRouter = <<>>
    /\ target = NoTarget /\ pipe = "none" /\ targetBody = <<>>
    /\ response = NoResponse /\ reply = "open" /\ replies = 0
    /\ client = [status |-> "none", headers |-> <<>>, chunks |-> <<>>, texts |-> {},
                 end |-> "none", over |-> FALSE]

Text(msg) == [kind |-> "text", msg |-> msg]
Binary(n) == [kind |-> "binary", chunk |-> n]
Close(code) == [kind |-> "close", code |-> code]

Error == [kind |-> "error"]     \* what a reader finds after the last frame of a broken websocket

(* OnSendOrReceiveDataError writes a status, if there is none yet, and the *)
(* text of the error, and calls Done, if nobody has.                       *)
Texted(c) == [c EXCEPT !.status = IF @ = "none" THEN BadGateway ELSE @,
                       !.texts = @ \union {Len(c.chunks)}]
Done(c, how) == [c EXCEPT !.end = IF @ = "none" THEN how ELSE @]

-----------------------------------------------------------------------------
(* The router's handler.                                                   *)

NamesOf(headers) == {headers[i][1] : i \in DOMAIN headers}

createReqLine(r) == <<r.method>> \o r.path \o <<"HTTP/1.1">>

\* the map is keyed by "TE", which is not how net/http writes that name
HopByHopHeadersFields ==
    {"Connection", "Keep-Alive", "Proxy-Authenticate", "Proxy-Authorization", "TE",
     "Trailer", "Transfer-Encoding", "Upgrade"}

\* each value of Connection is compared as a whole
connHeaders(headers) ==
    {headers[i][2] : i \in {j \in DOMAIN headers : headers[j][1] = "Connection"}}

shouldSendHeaderFromClientToTarget(name, headers) ==
    name \notin HopByHopHeadersFields \union connHeaders(headers)

XForwarded ==
    <<"X-Forwarded-For", "X-Forwarded-Proto", "X-Forwarded-Host", "X-Forwarded-Server">>

\* http.Header.Get: the first value of a header, or the empty string
Get(headers, name) ==
    LET found == {i \in DOMAIN headers : headers[i][1] = name}
    IN  IF found = {} THEN NoWord ELSE headers[Min(found)][2]

addProxyForwardingHeaders(headers) ==
    LET absent == {i \in DOMAIN XForwarded : Get(headers, XForwarded[i]) = NoWord}
        names  == <<"Forwarded">> \o ElementsAt(XForwarded, absent)
    IN  [i \in DOMAIN names |-> <<names[i], "router">>]

SentHeaders(headers) ==
    LET sent == {i \in DOMAIN headers : shouldSendHeaderFromClientToTarget(headers[i][1], headers)}
    IN  ElementsAt(headers, sent) \o addProxyForwardingHeaders(headers)

(* What setTargetReqHeaders returns.  hasTransferEncodingHeader is         *)
(* overwritten at each header, so only the last one counts; net/http       *)
(* takes Transfer-Encoding out of the headers in any case.                 *)
hasBody(headers) ==
    LET hasContentLength == "Content-Length" \in NamesOf(headers)
    IN  \/ hasContentLength
        \/ headers # <<>> /\ Last(headers)[1] = "Transfer-Encoding"

\* a write to a websocket that broke is lost, or fails once the reader has noticed
Send(frame) ==
    /\ client.end = "none"
    /\ toConnector' = IF reply = "lost" THEN toConnector ELSE Append(toConnector, frame)
    /\ UNCHANGED <<req, toRouter, targetVars, replyVars>>

\* the description of the request is sent
SendDescription ==
    /\ handler = "start"
    /\ Send(Text(BuildRequest(createReqLine(req), SentHeaders(req.headers),
                 IF hasBody(req.headers) THEN RequestBodyPendingMarker
                                         ELSE RequestHasNoBodyMarker)))
    /\ handler' = IF hasBody(req.headers) THEN "stream" ELSE "sent"
    /\ UNCHANGED chunksRead

\* the chunk that comes with io.EOF is not sent
SendChunkUnlessLast ==
    /\ handler = "stream" /\ chunksRead < req.chunks
    /\ chunksRead' = chunksRead + 1
    /\ IF chunksRead' = req.chunks
         THEN UNCHANGED <<req, toConnector, toRouter, targetVars, replyVars>>
         ELSE Send(Binary(chunksRead + 1))
    /\ UNCHANGED handler

SendChunk ==
    /\ handler = "stream" /\ chunksRead < req.chunks
    /\ chunksRead' = chunksRead + 1
    /\ Send(Binary(chunksRead + 1))
    /\ UNCHANGED handler

\* at the end of the body nothing more is sent
SendNoEnd ==
    /\ handler = "stream" /\ chunksRead = req.chunks
    /\ handler' = "sent"
    /\ UNCHANGED <<req, chunksRead, toConnector, toRouter, targetVars, replyVars>>

SendEnd ==
    /\ handler = "stream" /\ chunksRead = req.chunks
    /\ handler' = "sent"
    /\ Send(Text(BuildBodyEnded))
    /\ UNCHANGED chunksRead

HandlerFails ==
    /\ handler = "stream" /\ handler' = "failing"
    /\ UNCHANGED <<req, chunksRead, toRouter, targetVars, replyVars>>

\* whatever happened, the body is declared to have ended
ReadFailsEnds ==
    /\ chunksRead < req.chunks
    /\ toConnector' = Append(toConnector, Text(BuildBodyEnded))
    /\ HandlerFails

\* reading from the client fails, and nothing more is sent
ReadFails ==
    /\ chunksRead < req.chunks
    /\ HandlerFails
    /\ UNCHANGED toConnector

\* the websocket ended while the body was sent: session is nil, which panics
SendFails ==
    /\ client.end # "none" \/ reply = "lost"
    /\ HandlerFails
    /\ UNCHANGED toConnector

HandlerFrame ==
    UNCHANGED <<req, chunksRead, toConnector, toRouter, targetVars, response, reply, replies>>

\* onProxyingError: the text of the error, and Done; the reader runs on meanwhile
WriteErrorText ==
    /\ handler = "failing" /\ handler' = "texted"
    /\ client' = Texted(client)
    /\ HandlerFrame

HandlerDone ==
    /\ handler = "texted" /\ handler' = "failed"
    /\ client' = Done(client, "error")
    /\ HandlerFrame

\* Handle, which waited for Done, returns, and the response is over
Return ==
    /\ handler \in {"sent", "failed"} /\ client.end # "none" /\ ~client.over
    /\ client' = [client EXCEPT !.over = TRUE]
    /\ UNCHANGED handler
    /\ HandlerFrame

HandlerFailed == handler \in {"failing", "texted", "failed"}

-----------------------------------------------------------------------------
(* The connector's reader.                                                 *)

Received(kind) == toConnector # <<>> /\ Head(toConnector).kind = kind

\* the headers that net/http does not take from the list when it writes a request
reqWriteExcludeHeader ==
    {"Host", "User-Agent", "Content-Length", "Transfer-Encoding", "Trailer"}

\* ... the first User-Agent of which it writes, or none if that is empty
Written(headers) ==
    LET agent == Get(headers, "User-Agent")
    IN  (IF agent = NoWord THEN <<>> ELSE <<<<"User-Agent", agent>>>>)
            \o ElementsAt(headers, {i \in DOMAIN headers : headers[i][1] \notin reqWriteExcludeHeader})

\* what each of the two ends adds to the headers it writes
ViaHeader == <<"Via", "1.1 crnk">>

\* putHeadersTo follows Agent(""), which has added an empty User-Agent
TargetHeaders(headers) ==
    Written(<<<<"User-Agent", "">>>> \o headers \o <<ViaHeader>>)

(* OnWebsocketText: newRequestToTarget and sendRequestToTarget.  (What is  *)
(* bound as the member of a set is evaluated by TLC once.)                 *)
ReceiveDescription ==
    /\ Received("text") /\ target = NoTarget
    /\ \E ptcReq \in {NewCrankerProtocolRequest(Head(toConnector).msg)} :
          /\ Resolved(ptcReq.Dest) # BadURL
          /\ \E headers \in {HeadersIn(ptcReq.Headers)} :
                target' = [method |-> ptcReq.HttpMethod, dest |-> ptcReq.Dest,
                           url |-> Resolved(ptcReq.Dest), headers |-> TargetHeaders(headers)]
          /\ pipe' = IF ptcReq.endMarker = RequestBodyPendingMarker THEN "open" ELSE "none"
    /\ toConnector' = Tail(toConnector)
    /\ UNCHANGED <<req, routerVars, toRouter, targetBody, replyVars>>

(* The error of url.Parse is dropped, and ResolveReference(nil) panics: no *)
(* one recovers, and the connector ends with every websocket it has.       *)
ReceiveBadDest ==
    /\ Received("text") /\ target = NoTarget
    /\ Resolved(NewCrankerProtocolRequest(Head(toConnector).msg).Dest) = BadURL
    /\ reply' = "lost" /\ toConnector' = <<>>
    /\ toRouter' = IF reply = "open" THEN Append(toRouter, Error) ELSE toRouter
    /\ UNCHANGED <<req, routerVars, targetVars, response, replies, client>>

\* OnWebsocketText again: RequestBodyEnded closes the writer of the pipe
ReceiveEnd ==
    /\ Received("text") /\ target # NoTarget
    /\ pipe' = IF /\ NewCrankerProtocolRequest(Head(toConnector).msg).endMarker
                         = RequestBodyEndedMarker
                  /\ pipe = "open"
               THEN "ended" ELSE pipe
    /\ toConnector' = Tail(toConnector)
    /\ UNCHANGED <<req, routerVars, toRouter, target, targetBody, replyVars>>

(* OnWebsocketBinary: the write returns when the target has read the       *)
(* chunk, or fails, and is logged, when the target no longer reads.        *)
ReceiveChunk ==
    /\ Received("binary")
    /\ targetBody' = IF pipe = "open" THEN Append(targetBody, Head(toConnector).chunk)
                                      ELSE targetBody
    /\ toConnector' = Tail(toConnector)
    /\ UNCHANGED <<req, routerVars, toRouter, target, pipe, replyVars>>

-----------------------------------------------------------------------------
(* The target, and the goroutine of IntermediateRequest that calls it.     *)

\* the target answers, or fails, before it has read the body, and reads no further
StopReading ==
    /\ pipe = "open" /\ (response # NoResponse \/ reply = "broken")
    /\ pipe' = "unread"
    /\ UNCHANGED <<req, routerVars, toConnector, toRouter, target, targetBody, replyVars>>

ReplyFrame == UNCHANGED <<req, routerVars, toConnector, targetVars, client>>

\* onResponseBegin: the response is described, read back, and sent
Respond ==
    /\ target # NoTarget /\ response = NoResponse /\ reply = "open"
    /\ \E r \in Responses :
          /\ response' = r
          /\ LET built == BuildResponse(target.method, target.dest, r.status,
                                        <<r.status>> \o r.reason, HeaderLines(r.headers))
             IN  toRouter' = Append(toRouter,
                     Text(ResponseMessage(NewCrankerProtocolResponse(built))))
    /\ UNCHANGED <<reply, replies>>
    /\ ReplyFrame

\* the loop that copies the body of the response
ReplyChunk ==
    /\ response # NoResponse /\ reply = "open" /\ replies < MaxReplies
    /\ replies' = replies + 1
    /\ toRouter' = Append(toRouter, Binary(replies + 1))
    /\ UNCHANGED <<response, reply>>
    /\ ReplyFrame

\* the callback of the request closes the websocket
CloseWebsocket(to, code) ==
    /\ reply = "open" /\ reply' = to
    /\ toRouter' = Append(toRouter, Close(code))
    /\ UNCHANGED <<response, replies>>
    /\ ReplyFrame

\* the response was copied to its end
ReplyEnds == response # NoResponse /\ CloseWebsocket("whole", NormalClosure)

\* the target fails to answer, or breaks off its answer
ReplyBreaks == target # NoTarget /\ CloseWebsocket("broken", InternalServerErr)

\* the reader of the router finds an error after some of the frames under way
WebsocketBreaks ==
    /\ handler # "start" /\ reply # "lost" /\ (reply = "open" \/ toRouter # <<>>)
    /\ reply' = "lost"
    /\ \E n \in 0..Len(toRouter) :
          toRouter' = IF n > 0 /\ toRouter[n].kind = "close" THEN toRouter
                      ELSE Append(SubSeq(toRouter, 1, n), Error)
    /\ \E n \in 0..Len(toConnector) : toConnector' = SubSeq(toConnector, 1, n)
    /\ UNCHANGED <<req, routerVars, targetVars, response, replies, client>>

-----------------------------------------------------------------------------
(* The router's reader.                                                    *)

\* RespHeadersNotSendBack
SentBack(h) == h[1] \notin {"Server", "Content-Length"}

SentBackHeaders(headers) == ElementsAt(headers, {i \in DOMAIN headers : SentBack(headers[i])})

\* the next frame; what is written to a client whose Handle has returned is lost
Receive(kind, written) ==
    /\ toRouter # <<>> /\ Head(toRouter).kind = kind
    /\ client' = IF client.over THEN client ELSE written
    /\ toRouter' = Tail(toRouter)
    /\ UNCHANGED <<req, routerVars, toConnector, targetVars, response, reply, replies>>

\* OnWebsocketText: putHeadersTo and WriteHeader, without effect after a status
ReceiveResponse ==
    Receive("text", LET ptcResp == NewCrankerProtocolResponse(Head(toRouter).msg)
                    IN  IF client.status # "none" THEN client
                        ELSE [client EXCEPT
                                !.status = ptcResp.status,
                                !.headers = SentBackHeaders(HeadersIn(ptcResp.Headers))
                                                \o <<ViaHeader>>])

\* OnWebsocketBinary
ReceiveReply == Receive("binary", [client EXCEPT !.chunks = Append(@, Head(toRouter).chunk)])

\* OnWebsocketClose: a status is written only if there is none
ReceiveClose ==
    Receive("close", Done([client EXCEPT
        !.status = IF @ = "none" /\ Head(toRouter).code = InternalServerErr THEN BadGateway ELSE @],
        "close"))

\* OnWebsocketError
ReceiveError == Receive("error", Done(Texted(client), "error"))

-----------------------------------------------------------------------------
HandlerNext ==
    \/ SendDescription \/ SendChunk \/ SendEnd
    \/ SendFails \/ WriteErrorText \/ HandlerDone \/ Return
ConnectorNext == ReceiveDescription \/ ReceiveBadDest \/ ReceiveEnd \/ ReceiveChunk

Next ==
    \/ HandlerNext \/ ReadFails
    \/ ConnectorNext
    \/ StopReading \/ Respond \/ ReplyChunk \/ ReplyEnds \/ ReplyBreaks
    \/ WebsocketBreaks
    \/ ReceiveResponse \/ ReceiveReply \/ ReceiveClose \/ ReceiveError

Spec == Init /\ [][Next]_vars

(* The handler and the connector's reader run; the client goes on sending, *)
(* unless reading from it fails.                                           *)
Fairness == WF_vars(HandlerNext) /\ WF_vars(ConnectorNext)

FairSpec == Spec /\ Fairness

-----------------------------------------------------------------------------
Times(headers, name) == Cardinality({i \in DOMAIN headers : headers[i][1] = name})

\* neither hop-by-hop, nor named by Connection, nor left to net/http
Passes(h) ==
    h[1] \notin HopByHopHeadersFields \union connHeaders(req.headers) \union reqWriteExcludeHeader

\* the values of a header that the two ends add to the client's
Added(name) ==
    IF \/ name \in {"Forwarded", "Via"}
       \/ name \in Range(XForwarded) /\ Get(req.headers, name) = NoWord
      THEN 1 ELSE 0

(* The target gets the method, and the path as far as its first space, as  *)
(* net/url resolves it.  Of each header it gets the values the client      *)
(* sent, in their order, or none of them if the header is hop-by-hop,      *)
(* named by Connection or left to net/http, and what the two ends add,     *)
(* which for X-Forwarded is nothing if the first value the client sent is  *)
(* not empty.  And a body of a given length is never held back.            *)
RequestDelivered ==
    target # NoTarget =>
        /\ target.method = req.method
        /\ target.url = Resolved(req.path[1])
        /\ "Content-Length" \in NamesOf(req.headers) => pipe # "none"
        /\ \A name \in NamesOf(req.headers) \union NamesOf(target.headers) :
              Times(target.headers, name) =
                 (IF Passes(<<name>>) THEN Times(req.headers, name) ELSE 0) + Added(name)
        /\ \A i, j \in DOMAIN req.headers :
              i <= j /\ Passes(req.headers[i]) /\ Passes(req.headers[j]) =>
                 \E k, l \in DOMAIN target.headers :
                    /\ k <= l
                    /\ target.headers[k] = req.headers[i] /\ target.headers[l] = req.headers[j]

(* The target reads the chunks of the client's body in order, none twice   *)
(* and none left out.                                                      *)
BodyInOrder == targetBody = [i \in 1..Len(targetBody) |-> i]

(* A target is told that the body has ended only when it has read all of   *)
(* it: a body cut short by the client never looks complete.                *)
EndedBodyIsWhole == pipe = "ended" => Len(targetBody) = req.chunks

(* The client gets the status the target gave, unless the router's        *)
(* handler failed, or the target or the websocket broke off; and the       *)
(* chunks of its body in order, with the text of an error among them only  *)
(* if the handler failed or the websocket broke; and when none of this     *)
(* happened, it gets the whole.  Of the headers it gets none, as a message *)
(* that was read has none: the router's Via is all it finds.               *)
ReplyDelivered ==
    /\ \/ client.status \in {"none", response.status}
       \/ client.status = BadGateway /\ (HandlerFailed \/ reply \in {"broken", "lost"})
    /\ client.chunks = [i \in 1..Len(client.chunks) |-> i]
    /\ client.texts # {} => HandlerFailed \/ reply = "lost"
    /\ client.headers \in {<<>>, <<ViaHeader>>}
    /\ client.end # "none" /\ ~HandlerFailed /\ reply \notin {"broken", "lost"}
           => client.status = response.status /\ Len(client.chunks) = replies

(* A request with a Content-Length that the client sends in full is ended  *)
(* for the target, unless the target stops reading or the websocket breaks.*)
BodyEnds ==
    "Content-Length" \in NamesOf(req.headers)
        ~> (pipe \in {"ended", "unread"} \/ HandlerFailed \/ reply = "lost")

\* the two ends of the client's body: sendRequestOverWebsocket, and the target
HandlerEnd == IF handler = "sent" THEN "done" ELSE IF HandlerFailed THEN "broken" ELSE "open"
TargetEnd ==
    IF pipe = "ended" THEN "whole" ELSE IF target = NoTarget \/ pipe = "open" THEN "open" ELSE "cut"

RequestBody == INSTANCE ChunkStream WITH
    writer <- HandlerEnd, written <- chunksRead, reader <- TargetEnd, read <- targetBody

\* the two ends of the target's: IntermediateRequest, and the client
ReplyEnd == IF reply = "whole" THEN "done" ELSE IF reply = "open" THEN "open" ELSE "broken"
ClientEnd ==
    IF ~client.over THEN "open"
    ELSE IF client.end = "close" /\ reply = "whole" THEN "whole" ELSE "cut"

ResponseBody == INSTANCE ChunkStream WITH
    writer <- ReplyEnd, written <- replies, reader <- ClientEnd, read <- client.chunks

(* Each body is carried as ChunkStream promises, whatever fails at either  *)
(* end: no chunk arrives before it was read, or after the end; and a body  *)
(* ends as a whole one only if it was read to its end and has all arrived. *)
BodyStreams == RequestBody!Spec /\ ResponseBody!Spec

(* "from the point of view of the browser [...] it just looks like a       *)
(* normal reverse proxy": a response that the target broke off is not      *)
(* ended for the client, under the status of the target, as a whole one.   *)
EndedReplyIsWhole ==
    client.end # "none" /\ handler = "sent" /\ client.status = response.status => reply # "broken"
=============================================================================
