----------------------------- MODULE MCExchange -----------------------------
(* Instances of Exchange for TLC. *)
EXTENDS Exchange

(* The headers that setTargetReqHeaders and net/http treat differently: a  *)
(* plain one, the client's agent, one that tells of a body, two that name  *)
(* another, one they name, and one that the router would add, which may be *)
(* named too, empty, or both.                                              *)
Plain == {<<"Accept", "any">>, <<"User-Agent", "client">>, <<"Content-Length", "n">>}

Named ==
    {<<"Connection", "X-Hop">>, <<"Connection", "X-Forwarded-For">>, <<"X-Hop", "yes">>,
     <<"X-Forwarded-For", "client">>, <<"X-Forwarded-For", "">>}

\* a map is iterated in any order, but the values of a name follow each other
Orders(S) ==
    {s \in [1..Cardinality(S) -> S] :
        /\ Range(s) = S
        /\ \A i, j \in DOMAIN s : s[i][1] = s[j][1] => \A k \in i..j : s[k][1] = s[i][1]}

HeaderSets ==
    {S \in SUBSET (Plain \union Named) : Cardinality(S) <= 2}
        \union {S \in SUBSET Named : Cardinality(S) = 3}

(* A client that gives no Content-Length may still send a body, chunked.   *)
RequestsWith(paths, sets, chunks) ==
    {[method |-> "POST", path |-> p, headers |-> h, chunks |-> c] :
        p \in paths, h \in UNION {Orders(S) : S \in sets}, c \in chunks}

\* a few descriptions, with any body
FewRequests ==
    RequestsWith({<<"/a">>}, SUBSET {<<"Content-Length", "n">>, <<"User-Agent", "client">>},
                 0..MaxChunks)

(* What net/url makes of a path that was decoded once: it drops a fragment,*)
(* resolves "..", decodes once more, and fails where it cannot.            *)
OddPaths == {"/a?b", "/a#b", "/a/../b", "/%41", "/%zz"}

MCResolved(path) ==
    CASE path = "/a#b"    -> "/a"
      [] path = "/a/../b" -> "/b"
      [] path = "/%41"    -> "/A"
      [] path = "/%zz"    -> BadURL
      [] OTHER            -> path

\* and every description, with no body
MCRequests ==
    FewRequests \union RequestsWith({<<"/a">>, <<"/a", "b">>}, HeaderSets, {0})
                \union RequestsWith({<<p>> : p \in OddPaths}, {{}, {<<"Content-Length", "n">>}}, {1})

MCResponses ==
    {[status |-> "200", reason |-> <<"OK">>, headers |-> <<<<"Content-Type", "text">>>>],
     [status |-> "404", reason |-> <<"Not", "Found">>, headers |-> <<<<"Server", "x">>>>]}
=============================================================================
