-------------------------- MODULE CrankerProtocol ---------------------------
(***************************************************************************)
(* protocol/cranker_protocol.go: the text messages that describe a request *)
(* to the connector and a response to the router.                          *)
(*                                                                         *)
(* A message is a sequence of lines, a line the sequence of the words that *)
(* spaces part in it; a header line is <<name, ":", value>>.  Splitting at *)
(* "\n" and at " " is thus indexing, and what matters is which lines and   *)
(* words each side writes and reads.                                       *)
(***************************************************************************)
EXTENDS Sequences, SequencesExt, Integers

RequestBodyPendingMarker == "_1"
RequestHasNoBodyMarker   == "_2"
RequestBodyEndedMarker   == "_3"

NoWord == ""    \* what Split finds after a last space
Blank == <<NoWord>>
HeaderLine(name, value) == <<name, ":", value>>

\* strings.Index(line, ":") > 0: the line names a header
IsHeaderLine(line) == Len(line) = 3 /\ line[2] = ":"

\* what AppendHeader writes for a sequence of <<name, value>> pairs
HeaderLines(headers) == [i \in DOMAIN headers |-> HeaderLine(headers[i][1], headers[i][2])]

(* The elements of s at the positions P, in order: what a loop keeps that  *)
(* skips the others.  It stands for SelectSeq, which is defined by         *)
(* recursion and could not be reasoned about.                              *)
ElementsAt(s, P) ==
    LET Nth(k) == CHOOSE i \in P : Cardinality({j \in P : j <= i}) = k
    IN  [k \in 1..Cardinality(P) |-> s[Nth(k)]]

\* the pairs that a reader finds in lines, as both putHeadersTo do
HeadersIn(lines) ==
    LET found == ElementsAt(lines, {i \in DOMAIN lines : IsHeaderLine(lines[i])})
    IN  [i \in DOMAIN found |-> <<found[i][1], found[i][3]>>]

-----------------------------------------------------------------------------
(* Requests.                                                               *)

\* CrankerProtocolRequestBuilder.Build
BuildRequest(reqLine, headers, marker) ==
    <<reqLine>> \o HeaderLines(headers) \o <<Blank, <<marker>>>>

BuildBodyEnded == <<<<RequestBodyEndedMarker>>>>

\* the lines of the headers are taken to begin one later
NewRequestSkipsHeader(msg) ==
    [endMarker |-> Last(msg)[1], requestLine |-> msg[1],
     HttpMethod |-> msg[1][1], Dest |-> msg[1][2],
     Headers |-> SubSeq(msg, 3, Len(msg) - 1)]

(* The blank line counts as a header.  Dest is the second word: what       *)
(* follows a space of the path is lost.                                    *)
NewCrankerProtocolRequest(msg) ==
    IF msg = BuildBodyEnded
      THEN [endMarker |-> RequestBodyEndedMarker, requestLine |-> Blank,
            HttpMethod |-> NoWord, Dest |-> NoWord, Headers |-> <<>>]
      ELSE [endMarker |-> Last(msg)[1], requestLine |-> msg[1],
            HttpMethod |-> msg[1][1], Dest |-> msg[1][2],
            Headers |-> SubSeq(msg, 2, Len(msg) - 1)]

-----------------------------------------------------------------------------
(* Responses.                                                              *)

\* CrankerProtocolResponseBuilder.Build, the reason being a sequence of words
BuildResponse(method, sourceUrl, status, reason, lines) ==
    <<<<"HTTP/1.1", status>> \o reason \o <<NoWord>>, <<method, sourceUrl>>>> \o lines \o <<Blank>>

\* the status is read from the end of the words
NewResponseLastWord(msg) ==
    [status |-> Last(msg[1]), reason |-> msg[1][3],
     httpMethod |-> msg[2][1], sourceUrl |-> msg[2][2], Headers |-> <<>>]

\* copy(resp.Headers, ...) copies nothing: resp.Headers is made with length 0
NewCrankerProtocolResponse(msg) ==
    [status |-> msg[1][2], reason |-> msg[1][3],
     httpMethod |-> msg[2][1], sourceUrl |-> msg[2][2], Headers |-> <<>>]

\* CrankerProtocolResponse.ToProtocolMessage
ResponseMessage(resp) ==
    BuildResponse(resp.httpMethod, resp.sourceUrl, resp.status, <<resp.reason>>, resp.Headers)
=============================================================================
