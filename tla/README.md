# A verification development for crank4go

crank4go is a reverse proxy turned inside out. A *router* faces the clients. A
*connector* runs beside each HTTP service and opens a window of idle websockets
to the router. A client's request is written on one idle websocket, the
connector calls its service, and the response comes back on the same websocket,
which is then closed and replaced by a new one.

This directory holds TLA+ modules translated from the Go source, TLC
configurations that check them on small instances, and TLAPS proofs for every
value of the constants. `PROJECT.json` is the index: components, runs, mutants,
the source lines of each definition, findings, hazards and theorems.

    tlc -workers 2 -config RouterSocket.cfg MCRouterSocket     # model-check
    tlapm ConnectorProofs.tla                                  # check the proofs

## 1. Inventory

Paths are relative to the repository. "Hard" names what tests hardly reach.

| Component | State | Operations | Hard | Module |
|---|---|---|---|---|
| `IterableChan` (`router/router_socket/iterable_chan.go`) | a bounded channel, a concurrent map of valid sockets, an atomic length | `Offer`, `Remove`, `Poll`, `PollTimeout` | three stores updated one after the other by any number of goroutines; a full channel; timeouts | `IterableChan`, `SocketPool` |
| `RouterSocket` with `ReverseProxy.Handle` (`router_socket.go`, `router/reverse_proxy.go`) | `session`, `respWriter`, `handleDone`, `isRemoved`, all without a lock | `SetResponse`, `SendText/SendData`, `OnWebsocketText/Binary/Close/Error`, `CloseSocketSession` | two goroutines race for each field; a client that leaves; a websocket that ends anywhere | `RouterSocket` |
| `Connector` with `WebsocketClientFarm` and `ConnectionInfo` (`connector/connector.go`, `connector/ws_cli_farm_conn_info.go`) | `state`, one counter per router, attempts per slot | `Start`, `connectToRouter`, `whenConsumedAction`, `ShutDownAfterTimeout` | a counter updated apart from the dial it counts; retries; a shutdown that races them | `Connector` |
| `ConnectorSocket`, `IntermediateRequest` (`connector/connector_socket.go`, `intermediate_request.go`) | `session`, the request to the target, a pipe, a ping goroutine | the websocket handlers, `FireRequest`, `onResponseBegin`, `clean` | the ping and the callback use what `clean` clears; a pipe that blocks the reader | `ConnectorSocket`; `Connector` (replacement), `Exchange` (data) |
| Protocol codec (`protocol/cranker_protocol.go`) | none | builders and readers of requests and responses | a text format cut apart by position | `CrankerProtocol` |
| Exchange of a request and a response (`reverse_proxy.go`, `connector_socket.go`, `intermediate_request.go`, `router_socket.go`) | frames under way both ways, the body pipe, what the client was written | headers filtered, bodies streamed, status and headers sent back | map order; bodies without a length; targets that answer early or break off; clients and websockets that break | `Exchange` |
| `WebsocketFarm` (`router/router_socket/websocket_farm.go`) | queues by route, a catchall, and dark twins of both | `AddWebsocket`, `RemoveWebsocket`, `AcquireSocket`, `DeregisterSocket`, the dark launch listener | load-then-store; sockets moved while they are polled, offered or closed | `WebsocketFarm` |
| `DarkLaunchManager`, gray toggle (`router/darklaunch_manager`) | lists of services and ips, one flag | add, remove, put on, put off; notify the farm | plain maps, changed while requests and registrations read them; two calls at a time | `WebsocketFarm`, `Router` |
| `ConnectionMonitor` (`util/connection_monitor.go`) | active requests | started, ended | the shutdown waits for it | part of `RouterSocket`, `Connector`, `ConnectorSocket`, `Drain` |
| `Router` and its process (`router/router.go`, `router_config.go`, `util/shutdown.go`) | two servers, the shutdown hooks, a `WaitGroup`, the signal channel of each `ExitProgram` | `Start`, registration and deregistration handlers, `Shutdown`, `ExitProgram` | a `WaitGroup` added to inside the goroutines it waits for; a signal channel without a buffer; two packages that each exit the process | `Router`, `Drain` |
| API resources (`router/api`), handlers and filters (`router/handler`), validator | none of their own | one call on a list, one test of a request each | calls at the same time | partly `Router` |
| Plugins, interceptors, CORS, health, `RouterAvailability`, configuration, most utilities, tests | little or none | read-only reports, interfaces, wiring | - | not modelled, see section 7 |

How they interact. `Router` gives each registering websocket a `RouterSocket`
and hands it to `WebsocketFarm.AddWebsocket`, which offers it to the
`IterableChan` of its route. `ReverseProxy.Handle` acquires a socket from the
farm (polling up to 15 s), writes the encoded request on it, and waits on a
`WaitGroup` that the goroutine reading the websocket releases. On the other side
`ConnectorSocket` decodes the request, first runs `whenConsumedAction` (which
makes `Connector` dial the replacement), then fires the request and copies the
response back. `DarkLaunchManager` calls back the farm's listener, which moves
sockets between the normal and the dark queues. A connector that shuts down dials
the router's deregistration, and both processes end through `ExitProgram`. What
makes each part correct:

- a queue gives out or removes each socket once, and loses none;
- a socket always answers and always releases its `Handle`, once, and after
  writing; neither goroutine crashes the other;
- a connector keeps its window full, does not dial in a loop, and stops;
- what the target and the client get is what the other sent;
- a request gets a socket of its own route and mode, used by nobody else and
  still open;
- a process that is told to end does, and cuts off no request that it could wait
  for; connectors come and go without requests failing.

## 2. Modules

| Module | What it models |
|---|---|
| `SocketPool` | what a queue promises: a socket is added once and leaves once, taken or removed |
| `IterableChan` | the queue, one atomic access at a time; refines `SocketPool` |
| `RouterSocket` | one router socket, its proxy goroutine and its reader goroutine |
| `SlidingWindow` | what a connector promises of its window: a slot is filled again until the shutdown, and not after it |
| `Connector` | the window of one router and the shutdown; refines `SlidingWindow` |
| `ConnectorSocket` | one websocket of a connector: reader, goroutine of the request with its callback, ping task |
| `CrankerProtocol` | the two text messages, as builders and readers over lines of words |
| `Exchange` | one request and its response through both ends; uses `CrankerProtocol`; refines `ChunkStream` twice |
| `ChunkStream` | what the tunnel promises of a body: its chunks are read in order, and it is read as whole only when it was written whole |
| `WebsocketFarm` | farm, dark launch manager and listener; its queues are pools as `IterableChan` provides |
| `Router` | the process of a router: servers, shutdown, signals, requests, concurrent calls on a dark list |
| `Drain` | several connectors of a route, the router's pool and clients: shutdown, deregistration and crash under load; refines `SlidingWindow` |
| `IterableChanProofs`, `RouterSocketProofs`, `ConnectorProofs`, `ConnectorSocketProofs`, `ExchangeProofs`, `WebsocketFarmProofs`, `RouterProofs`, `DrainProofs` | theorems, see section 5 |
| `MC*` | what TLC instantiates: input sets, and symmetry for the farm |

The modules cut the system into overlapping views. `RouterSocket` and
`ConnectorSocket` have each lock-free step of one end and leave the other end to
the environment; `Exchange` has both ends and the data, in steps of a frame;
`Connector`, `WebsocketFarm` and `Router` have one owner of many sockets each;
`Drain` puts owners and requests together, in steps of a handler. A
refinement is stated where one part offers another an abstraction: the queue
implements `SocketPool`, which the farm and `Drain` build on, and the tunnel of
`Exchange` implements a `ChunkStream` each way, which is what client and target
build on, and `Connector` implements the `SlidingWindow` that `Drain`, in its larger
steps, keeps for several connectors at once.

**IterableChan.** `ch`, `aliveSocketSet` and `length` are the three fields of
the struct. `Offer` is the goroutine the method starts: `OfferSend` (blocks
while the channel is full; its five minute timer only retries), `OfferStore`,
`OfferInc`. `Remove` is `RemoveLoadAndDelete` and `RemoveDec`; a call that finds
nothing changes nothing and is not a step. `Poll` and `PollTimeout` share
`PollReceive`, `PollLoadAndDelete` or `PollDead`, and `PollDec`, and differ in
how they give up (`PollEmpty`, `PollTimeoutExpires`, `PollDeadLate`). Each
socket is offered once; the second offer that the dark launch makes is in
`WebsocketFarm`.

**RouterSocket.** `pc` holds the next step of the two goroutines, and the steps they share
(`OnSendOrReceiveDataError`, `CloseSocketSession`, the release of `handleDone`) are
written once, with the goroutine as parameter. A test of a field and the use of the field
are two steps, because the code holds no lock. `wg` is the `WaitGroup` that `handleDone`
points to. Once `Handle` has returned, its `ResponseWriter` belongs to `net/http` again: a
write of the reader to it may succeed (and land in another response), fail, or panic
(`LateUsePanics`), which ends the router, as nobody recovers there. The far ends are the
environment: a client that may leave, a connector that answers, a websocket that may end
by a close code or by an error whenever it likes. Interleaving is sequentially consistent:
the weaker outcomes that Go's memory model allows a racing program are not modelled, so
the module shows a subset of what can go wrong.

**Connector.** A slot is a place in the window; `life[i]` follows its current
websocket from the dial to the end of its `whenConsumedAction`, and
`Reconnect` puts the next one in its place. `known` and `idleNum` are the entry of
`connectorSockets`; `lost` counts the `removeWebsocket` calls that found no
entry, each of which leaves the counter one too high for good. A router that is
listed twice, as in the end-to-end test, has two windows of slots on one counter
(`Listings`), and the limit of the farm is the same: one lost removal is then enough for
`isSafeToAddWebsocket` to refuse, and the slot that asked is `dropped`, never to be
filled again. `connectToRouter` and the `addWebsocket` that follows it are two steps.
`forRequest` tells a replacement made because a request arrived, after which
the request goes on (`starting`) to `OnConnectionStarted`. `StopStep` is the
sequence of `ShutDownAfterTimeout`.

**ConnectorSocket.** `pc` holds the next step of the three goroutines. `incoming`
is what the router has sent; a frame or a close that is late is one the reader
has not come to. `ReceiveHead` is `OnWebsocketText` with a description: it
replaces the websocket (in detail in `Connector`) and starts the goroutine that
fires. `ReceiveBadDest` is the same with a destination that `url.Parse` refuses: its error
is dropped, `ResolveReference(nil)` panics, and nobody recovers, while the websocket is
open. `TargetAnswers` to `CopyEnds` are
`FireRequestFromConnectorToTargetService`, whose panics are recovered;
`Callback` to `UseSession` are the callback, whose panics are not, as it runs in
the deferred function itself. `answer` is what is left of the response;
`answer.broken` says it breaks off. A write to a websocket that has ended may
succeed or fail, and after one failure all fail, as in gorilla/websocket. The
error of a read that comes with data is overwritten by the write's and found
again by the next read, as `net/http` bodies repeat their error.

**CrankerProtocol, Exchange.** A message is a sequence of lines and a line a sequence of
words, so that splitting at newlines and spaces is indexing and what is checked is which
lines and words each side writes and reads. The headers of a request are a sequence
because a Go map is iterated in any order and one of them (`hasTransferEncodingHeader`)
depends on it. The path is a sequence of words, as a decoded path may hold a space, and
the target is asked for the first of them. `Resolved` is what `url.Parse` and
`ResolveReference` make of it, a constant operator: a path that `net/http` has already
decoded is decoded again, loses a fragment, may start a query, has its ".." resolved, or
cannot be parsed (`BadURL`), which ends the connector (`ReceiveBadDest`). A path that
begins with "//", which would name another host, is left out. `Written` is what `net/http`
writes of the headers in a request: not those it has its own fields for, and of
`User-Agent` the first value, or none if that is empty. `Agent("")` always puts an empty
one first, so the target gets no agent at all. A filter of headers is
`ElementsAt`, the elements of a sequence at a set of positions in their order, with which
its properties can be proved. `RequestDelivered` says of each header how often it passes
and what is added to it.

`toConnector` and `toRouter` are the frames under way; the router's handler, the
connector's reader, the target and the router's reader run concurrently. The client may
break off (`ReadFails`), the target may not read on, not answer, fail, or break off its
response (`ReplyBreaks`), and the websocket may be lost at any time, both ways at once. A
handler that fails writes the text of its error (`WriteErrorText`), calls `Done`
(`HandlerDone`) and returns (`Return`) in steps of their own, and the router's reader runs
on between them: what it writes until `Return` reaches the client among the texts, and
what it writes later is lost here (`RouterSocket` has what else it may do). `client`
records the status, headers and chunks the client was written, after how many chunks the
text of an error was (`texts`), who called `Done` first (`end`), and that `Handle` has
returned (`over`).

**ChunkStream.** A writer is `open`, `done` or `broken`, a reader `open`, `whole` or
`cut`, and chunks are counted. For the request's body the writer is the router's handler
and the reader the target; for the response's the writer is the target and the reader the
client, for whom it ends when `Handle` returns. A response that its target broke off is
read as `cut` even where the client cannot tell (finding 2 of section 6); what it has read
is in order all the same. The mappings (`HandlerEnd`, `TargetEnd`, `ReplyEnd`,
`ClientEnd`) are in `Exchange`. The abstract writer may break off at any time, and the
reader may find it cut at any time after that.

**WebsocketFarm.** A queue is a set of sockets, filled by `OfferStores` some time after
the `Offer`. `queueOf` is the pair of `sync.Map`s; a queue created by the registration of
a socket bears the socket's name, so two racing registrations create two queues
(`AddLoad`, `AddStore`). The listener visits sockets, offers them to another queue and
removes them from their own, one by one (`Visit`, `RemoveMoved`), while everything else
goes on. The model takes as given: one administrator at a time, one deregistration at a
time, a refused request makes room for another, an access to the plain maps of the lists
is atomic (it is not in `Router`), and the order of a queue does not matter. Because a
queue is a pool, the zombie entry of section 6 is not repeated here.

**Router.** All goroutines end with the process (`ended` tells how). `exiter`
follows each `util.ExitProgram`: its channel has no buffer, so `Signal` reaches
only the goroutines that wait for one. The packages `router` and `connector` each start one
in their `init`; in a program that imports both, as the tests do, the first to
finish exits. `Shutdown` starts the two `stopper`s and goes on to `Wait` without
waiting for their `Add`; `counted` remembers which had added by then. A write of
a list is two steps, `BeginWrite` and `EndWrite`, and `Throw` is Go's fatal error
for an access in between, which happens if the runtime notices. What `Notify`
does to sockets is in `WebsocketFarm`; `moved` keeps only what it was last told.
A filter's answer and the proxy's are both `RequestAnswered`, the validator's two
verdicts are the two outcomes of `Register`.

**Drain.** `socket[s]` is the current websocket of a slot: `taken` by a request until its
connector hears of it (`Arrives`, which also replaces it), `forgotten` when a
deregistration took it out of the pool and left it open. The callback of a request first
counts it as ended (`OnConnectionEnded`) and then writes the close frame that ends it for
the router (`Answer`). The shutdown of a connector stops replacement, dials the
deregistration and returns by count or by timeout; a process may end before or after that.
`late` and `missed` record the gaps of section 6: a request given a websocket of a
connector that was shutting down, and one that, when the shutdown returned, was not
counted yet or no longer. `DialGivenUp` is a dial that fails once the shutdown has begun,
whose retry is cancelled; one that fails before is dialled again and is not a step.

**SlidingWindow.** A slot is `vacant`, `filling`, `open` or `closed`; `closing` holds the
slots whose connector shuts down or has ended, and `mayRefuse` tells that the account of
the websockets may have drifted so far that a new one is refused (`Refuse`), which it
never does in `Drain`, where there is no counter. In `Connector` a slot is filling from
the check of the state on, as the goroutine that passed it will dial, and vacant while it
waits to retry; in `Drain` a slot is open until its request arrives.

Definitions that are not reached by `Next`, each with a comment that says what
is wrong with it (`OfferSendUnbounded`, `DoneKept`, `isSafeWithinWindow`, ...),
are the plausible bugs used to test the properties: `PROJECT.json` "mutants"
names, for each property, the definition to replace and the property then fails.

## 3. Runs

| Run | Shows | Bounds |
|---|---|---|
| `queue` | sockets leave once; the length agrees; nothing pollable is lost; the queue implements `SocketPool`; a blocked `Offer` completes, `Poll` returns | 2 sockets, 2 pollers, capacity 1 |
| `queue_zombie` (violation) | a socket counted as alive that no poll can return | 1 socket, 1 poller |
| `router_socket` | status before release; when the reader can crash (late writes included), write late or leak the count; `Handle` returns | 2 body chunks, 2 frames |
| `connector` | exact accounting of the window; it implements `SlidingWindow`; a retry waits from 1 s to 5000 s; at most one late dial; a used, closed or lost websocket is replaced, unless the counter has drifted so far that the farm may refuse | window 1, router listed twice, 1 request, attempts saturate at 2, no websocket ends while 2 dials wait for their add |
| `connector_dropped` (violation) | the farm refuses a replacement for good after one lost removal | as above |
| `connector_socket` | what can crash the process; a normal close means a whole response; one replacement; the connection is released, the end noticed, the request counted as ended | 2 body chunks, 2 response chunks |
| `connector_socket_abort` (violation) | an aborted request that never ends | 1 body chunk, an empty response |
| `exchange` | the request arrives as it was sent, its body in order and ended only when whole; the client gets the answer's status and chunks, or an error, and none of its headers; both bodies implement `ChunkStream` | each order of up to 2 of 8 headers, and of 3 of the 5 that name each other, the values of a name together; paths that resolve to themselves, to another, or not at all; 2 chunks each way |
| `exchange_truncated` (violation) | a response that the target broke off ends like a whole one | as above, fewer requests |
| `farm` | a request gets a socket of its route and mode, that nobody else has; the only ways to lose an idle socket or to keep an ended one | 2 sockets, 2 requests, 1 service, 1 ip, 1 addition to the lists, 1 deregistration |
| `router` | the only ways a request is cut off by the end of the process; what `Wait` covers; the farm follows the list; a signal ends the process | 1 request, 2 calls, 1 name, 1 websocket, both packages |
| `drain` | the only ways a request breaks; how many sockets deregistrations lose; windows are kept as `SlidingWindow` promises; a waiting request is served | 2 connectors, window 1, 2 requests |

Why the bounds are enough. In the queue every race is between two calls on one socket,
plus one other socket that fills the channel: two sockets and two pollers on a channel of
one have them all. A router socket and a connector socket serve one request; the body
loops meet a first and a last chunk, the end before, between and after them. In the
window, drift needs one removal that comes before the first add, and a slot that asks
afterwards: two slots of a router listed twice meet it, and with them the limit. The
headers are of each kind that `setTargetReqHeaders` and `net/http` tell apart, with three
in a row enough for one to precede, follow and name another; the paths are one of each
kind that `net/url` changes; two chunks are enough for one to be out of order or missing.
`MCConnector` also assumes that the table of powers from which `Connector` takes its
delays agrees with `2^n`, which TLC evaluates. Every hazard of the farm is between two
sockets of one route, or a socket and a request, or either and one change of the lists.
`MaxCalls` bounds additions only: what was added may be removed, and the toggle flips
freely. In the router, requests do not touch each other, two calls about one name are the
least that overlap, and one websocket reads a list while a call writes it. In `Drain` a
deregistration reaches another connector's socket with two connectors, and two requests
compete for one socket. The theorems of section 5 give the invariants for any number.

Properties that list exemptions (`IdleSocketAtHome`, `ClosedSocketGone`, `AcquiredOnce`,
`GracefulExit`, `MovesFollowList`, `BrokenOnlyInGaps`, `ReplyDelivered`, `CrashNeedsEndOrBadDest`,
`ConnectionReleased`, `CrashNeedsFailure`, `LateWriteNeedsFailure`, `CountLeaksOnlyOnError`,
`StatusBeforeReturn`, `WindowKept`, `SlotRefilled`) say that a fault of the code has no other
cause than those named; they do not catch the fault where such a cause is present. Each
exemption is needed: without it TLC finds the fault.

`CHECK_DEADLOCK FALSE` is set where the system comes to rest: a socket that has
ended, a connector that has stopped, an exchange that is over, sockets and
requests used up.

## 4. Fairness

- Queue: a goroutine that can run runs (weak). `PollReceive` is strongly fair:
  a `select` entered while the channel holds an entry takes it, as its timer has
  only just been set. `OfferCompletes` assumes besides, as its premise, that polls keep
  coming: nothing else empties the channel.
- Router socket: both goroutines run, and every websocket ends at last. The connector
  closes it after each response, which takes a target that answers, and the network
  reports a connection that was reset. The code sets no read deadline, so a half-open
  connection on which nothing is ever reported would hold `Handle` for good: this
  assumption is about the network, and no code backs it. No request need arrive.
- Connector: goroutines run, timers fire, a dial ends (the dialer has a
  handshake timeout). The bound `MaxPending` holds back the ends of websockets only,
  never what the connector does then, so that nothing has to wait for it.
- Connector socket: goroutines run and timers fire; a target reads the body it is
  sent or answers, and answers (or fails) once it has been sent the whole. It need
  not answer before, the router need not send the rest, and nothing makes the
  websocket end. The ping task is not assumed to run.
- Exchange: the handler, the steps after its failure included, and the connector's
  reader run; that the client goes on
  sending is the alternative to `ReadFails`. The target need not answer.
- Router: goroutines run; `http.Server.Shutdown` ends, as its context expires after 15
  seconds; the connector's hooks end, as its shutdown has a timeout. No signal need
  come, and nothing is assumed of requests, calls or websockets.
- Drain: a dial that is repeated until the shutdown succeeds in the end, the router
  notices a lost connection, and a request that can go on does. The last is strong
  fairness: an idle websocket may be lost and replaced over and over, and the poll of
  `AcquireSocket` waits on the channel meanwhile. Nothing makes a connector stop, end or
  lose a websocket.

## 5. What is proved

For every value of the constants under the named assumptions of the modules.

`TypeOK` is proved for each module (`TypeCorrect`) and not repeated in the runs.

`IterableChanProofs` - for any finite sets of sockets and pollers and any
capacity. `TypeCorrect` is inductive as it stands. `SocketLeavesOnce` is not:
`ExitInv` adds, for each socket, that it has not left before the `Store` of its
`Offer` nor while it is in the map, and that the call about to count an exit is the
only one. `LengthConserved`
follows from it with cardinalities (each step moves one element between the
counted sets). `ReachableKept` proves the action property of the same name.
`ImplementsPool` maps each step to a step of `SocketPool` or a stutter.

`ConnectorProofs` - for any window, number of listings and bounds.

- `CounterAccounted` proves `WindowAccounting`. The invariant `AccountInv` adds the types, and
  that slots `Start` has not reached are off, so that a slot that begins to dial was not
  counted before.
- `SlotsKept` proves `DropsBounded`: the slots given up for good are no more than the
  removals lost beyond the room that the slots leave below the limit of the farm. That room
  is a whole window for a router that is listed once, and nothing for one that is listed
  twice. `DroppedBelow` compares cardinalities: a slot that asks is itself not counted, nor
  are those already dropped, so that by `WindowAccounting` only lost removals can bring the
  counter to its limit. That no slot is ever dropped is false (finding 4).
- `KeepsWindow` proves `WindowKept`, that the connector implements `SlidingWindow`.
  `RefusedOnlyIfMay` maps the step that gives a slot up before the shutdown to `Refuse`;
  `FilledInv` adds to `AccountInv` that nothing is cancelled before the shutdown.
- `BacksOff` proves `RetryBacksOff`. `Dialled` adds that a slot that dials or is idle has
  an attempt on record, so that a failure never finds a count of zero. The delay is a
  table of the first powers of two and its limit afterwards, which the provers can reason about.
- `LateDialOnce` proves `OneLateDial`. `LateInv` adds that a slot between the check of the
  state and the dial has not been dialled late.

`RouterSocketProofs` - for any body and any response. All four invariants follow
from one, `SocketInv`, because each field that a goroutine tests is cleared by
the other: which handler each goroutine is in (`OpInv`), how often `Done` has
been called (`DoneInv`, the counter is 1, 0 or, after a panic, -1), what was
sent and may have come back (`FlowInv`), that only the reader clears fields
until the proxy meets an error (`QuietInv`), that whoever is about to release
`Handle` has written a status (`AnswerInv`), the count (`CountInv`), and that a
`Handle` that is released has nothing more coming, unless the client left or sending
failed (`LateInv`). `CrashOnlyAfterFailure` follows for both ways the reader crashes, on a
field that was cleared and on a response that was taken back. The lemma `Kinds` sorts the
steps into six kinds that each conjunct is then kept by.

`ConnectorSocketProofs` - for any body and response. `SocketInv` says what the
reader may still receive (`FramesInv`), that a request is counted from its head to
its callback (`CountInv`), who has replaced and who has closed the websocket
(`ReplaceInv`), what a cleared field says of the reader (`CrashInv`: `session` is
nil only once `clean` ran, so a panic needs an end of the websocket, or is that of the
reader on a destination it cannot parse), and that a request that
succeeded was written whole (`ResultInv`, from which `NormalCloseIsWhole`).

`ExchangeProofs` - for any requests, any responses and any number of chunks. On
the way to the target, `StreamInv` says that the frames under way continue the
chunks the target has read (`FramesInv`), and that the end frame follows the last chunk
(`SentInv`). On the way back, `ReplyInv` says that, as long as `Handle` has not returned,
frame `i` under way is the description or the chunk that comes `i`th after what the client
has (`WireInv`), that what it has are the first chunks of the response, with the text of an
error among them only after a failure (`ChunksInv`), that its status is the target's or an
error's (`StatusInv`), and that it has the whole when its response ended and nothing failed
(`EndInv`). `HeadersInv` says that no header of the response reaches the client. A failing handler
does not stop the reader, so each of its steps is shown to keep what the next frames will add.
That the status the client reads is the one the target gave rests on two lemmas about the
builder and the reader of the codec.

- `RequestIsDelivered` proves `RequestDelivered`. `DescribedInv` says that whatever describes the
  request, under way or at the target, is what the builder made of it. The rest is about
  sequences: `ElementsAt` keeps the order of the positions it takes (`ElementsAtRank`,
  `RankOrder`), how often a header occurs in it is a cardinality, and the headers
  that are added, before, between and after, add their own numbers (`Listed`). What `net/http`
  writes of that list has no agent, as the first is empty, and of every header it
  does not keep to itself all values in their order (`WrittenOthers`).
- `BodiesStreamed` proves `BodyStreams`, the refinement of `ChunkStream` both ways. Each step of
  the exchange is a step of the abstract writer or reader, or leaves both alone.
  For the request, `ReachInv` adds that the frames under way carry no chunk that was not read,
  and no end before the handler is done; for the response, `ClosedInv` adds that
  nothing is under way after the close of a whole answer, and that only a target that was
  sent a request answers.

`WebsocketFarmProofs` - for any sockets, requests, services, ips and bounds.
`FarmInv` says for each queue, offer, listener call and request which routes and
which mode it can have to do with; `RightSocket` and `DarkIsolated` follow. The
lemma `VisitStays` shows the listener never moves a socket to another queue
(section 6), so that a socket whose service the lists never named is in one place
(`OnceInv`, for `AcquiredOnce`) and in the queue it is looked for in (`HomeInv`, for
`IdleSocketAtHome` and `ClosedSocketGone`).

`RouterProofs` - for any requests, calls, websockets and names. `Typed` adds to
the types that the `WaitGroup` counts the stoppers between their `Add` and their
`Done`. `StopInv` places the stoppers that were counted when `Wait` began, for
`WaitCoversCounted`; `HandlingInv` adds that a server being stopped takes no
request, so that none is left when its stopper is done in time, for `GracefulExit`;
`CallInv` says that the one call about a name tells how list and farm differ, for
`MovesFollowList`.

`DrainProofs` - for any finite number of connectors and any window. `OneForgotten`
compares cardinalities: a step that forgets a socket ends a deregistration, which
`NotYet` says begins with a shutdown. `GapInv` follows a request from the
socket it was given: once the shutdown of its connector has returned true it is
answered or in one of the gaps. `KeepWindows` proves `WindowsKept`; `TakenInv` says that a
websocket whose request is on its way is held by that request alone, so that a slot is
refilled once for it.

Every invariant, action property and refinement that a passing run checks is proved. Left to
TLC are the properties under fairness (`OfferCompletes`, `PollReturns`, `HandlerReturns`,
`SlotRefilled`, `BodyEnds`, `EndNoticed`, `RequestEnds`, `Exits`, `Served`), since the provers
do not reason about `ENABLED`, and the violations, which are counterexamples.

## 6. Findings

1. `Offer` sends before it stores. A poll in between throws the only entry of the
   socket away; the socket stays counted for good (`queue_zombie`), and
   `DeregisterSocket`, which loops while the length is not 0, would spin on it.
2. A response that the target breaks off ends for the client like a whole one
   (`exchange_truncated`): the 502 comes too late, and no `Content-Length` is sent
   back that would tell.
3. `Abort` stores an error and nothing else: a request whose websocket closes in
   the middle of its body waits in `client.Do` for the rest, its callback never
   runs, and it counts as active for good (`connector_socket_abort`). A shutdown
   then always runs into its timeout.
4. A `removeWebsocket` that precedes the first `addWebsocket` of a URL removes nothing. The
   limit `2 * slidingWindowSize` leaves no room for that drift where a router is listed
   twice: the branch "unexpected error happened" is taken and a slot is never filled
   again (`connector_dropped`).

Met while modelling and held by properties, exemptions or comments rather than runs of
their own:

- `copy` into a slice of length 0 (`protocol/cranker_protocol.go:287`) loses every header
  of a response, although the format documented above it has them: the client gets the
  router's `Via` and none of the target's (`ReplyDelivered`);
- `Agent("")` hides the client's `User-Agent`, which `connector/connector_socket.go:156` means
  to use: `net/http` sends the first value of that header, which is empty, and so sends
  none (`RequestDelivered`);
- a proxy goroutine that handles an error races the reader for `handleDone` and
  `session`, and the reader's panic ends the router; the panic at
  `reverse_proxy.go:153` carries a nil error, which `recover` does not see; the
  reader may then, or when the client has left, write after `Handle` has returned
  (`LateWriteNeedsFailure` says only then) to a response that `net/http` has taken back,
  which may panic too (`CrashNeedsFailure`);
- a path that `url.Parse` refuses once `net/http` has decoded it ends the connector
  (`ReceiveBadDest`), with all its websockets;
- `ShutDownAfterTimeout` returns true while a request is on its way, not yet counted, or
  counted as ended before its close frame is written, and the router gives out sockets of
  a connector that is shutting down: such requests break when the process exits (`late`
  and `missed` in `Drain`);
- a request body without `Content-Length` is dropped;
- `intermediate_request.go:112` overwrites the error of a read with the write's;
- `Router.Shutdown` calls `wg.Add` inside the goroutines it waits for, so `Wait`
  may return before a server was stopped, or panic (`WaitCoversCounted` says only
  for servers not counted yet);
- `ExitProgram` gives `signal.Notify` a channel without a buffer, so a signal that
  arrives before the goroutine waits is dropped; the packages `router` and
  `connector` each exit the process when their own hooks are done, so in one program
  the quicker cuts off the other's requests;
- `DarkLaunchManager.path` is never used, so the lists do not survive a restart;
- two accesses to a dark list at a time may end the router (`Throw`), and two
  calls about one name may leave the farm and the list at odds (`raced`);
- a connector's websocket that ends while its ping task or its callback uses
  `session` or `cancelPing`, or before a response begins, can end the process
  (`CrashNeedsEndOrBadDest` says only then); one that ends by an error while it serves a
  request is closed by nobody;
- `WriteControl` is given a close code for a message type (`router_socket.go:274`),
  so the connection stays open;
- `socket.Ip()` has a port and never equals a listed ip; adding a service
  compares ips with the service's name (`websocket_farm.go:306`) or looks for it among
  the sockets of the catchall, which have none; revoking a service offers each of its sockets
  to the dark queue it is in and then removes it there. So the listener moves no
  socket, and a revoked service loses its dark ones;
- `removeWebsockets` looks for a "/" that `RemoteAddr` does not have, so a
  deregistration takes one socket of the route, of any connector, and panics;
- a socket with route "*" is put into the catchall and never removed from it;
- `ShutDownAfterTimeout` and `SetSlidingWindowSize` have other limits than
  their comments say; `RouterAvailability`'s pings and `WebsocketFarm.Stop` have no
  caller.

## 7. Not modelled

- `RouterAvailability`, `AliveSocketSlice`, `Range` as a report: they only read. The
  scheduler of `RouterAvailability`'s pings and `WebsocketFarm.Stop` have no caller.
- Plugins, proxy interceptors, the health interface: code of the embedding program.
  The CORS processor sets one header. `ConnectorConfig`, the client factory and the
  setters of `RouterConfig` only store values, which are constants here.
- In the API: the calls that only read the lists (their access is that of `LookUpCall`),
  and the list of ips as a second instance of what `Router` says of services.
- What a filter, the validator or the white list of addresses tests: their verdict
  is an outcome.
- Sizes in bytes and read limits, log and statistics, TLS, ports, timeouts as
  durations (a timer may fire at any time).
- Data races as Go's memory model defines them, other than the fatal error for
  the lists' maps.
- More than one router per connector, beyond the count of listings in `Connector`:
  each router has a window and counter of its own.

## 8. Plan

The plan this development began with is done: queue with its abstraction, router
socket, connector window, connector socket, codec and exchange, farm with dark
launch, router process, and the composition of connectors, router and requests,
each with its proofs. What could follow is a refinement from `RouterSocket` and
`ConnectorSocket` to the two ends of
`Exchange`, whose steps are now related by reading only.
