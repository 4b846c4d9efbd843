# A TLA+ model of the proxy server

The repository is a single-threaded HTTP proxy built in layers on `epoll`
(C++, `src/src/`). The program's difficulty is not in any one function but in
who owns which descriptor when: handlers run to completion one after another,
but each of them opens and closes descriptors that events still waiting in the
same `epoll_wait` array name, closures keep references into maps that other
handlers erase from, and five tables describe the same set of descriptors.
This directory models that: the event loop, the tables, the handlers, the
network around them, and the service all of it is meant to provide. A second
model takes the text of one connection apart, which TCP may cut anywhere: the
parsers, the serializers and the sockets they write to. A third is the chat
server that shares the event loop.

    tlc -workers 2 -config FewDescriptors.cfg MCProxy.tla # see section 3 for which .cfg
    tlc -workers 2 -config Exchange.cfg MCExchange.tla    # goes with which module
    tlc -workers 2 -config Chat.cfg MCChat.tla
    tlapm ProxyTrafficProofs.tla                         # and the other *Proofs.tla

Source lines below are written `file:line`, the file being in `src/src/`.

## 1. Inventory

| component | state | operations | status |
|---|---|---|---|
| `epoll_wrapper` (`epoll_wrapper.cpp`) | kernel set `efd`, `handlers`, `fd_status` | `add_socket`, `remove_socket`, `process_events` | `EpollWrapper`, `Proxy` |
| `tcp_socket`, `tcp_connection` | `sfd`, its `O_NONBLOCK` flag | connect/bind, accept, close, `recieve`, `send` | `EpollWrapper` and `Proxy`: open, accept, close, read, write with their failures; `TcpSocket`: the flag, blocking and partial writes |
| `tcp_server` (`tcp.h`) | `clients`, `running` | accept handler, the two handlers of a client, `start`, `stop`, `disconnect_client` | `Proxy` |
| `http_server` | `request_map` | `on_connect`, `on_data_income`, `on_disconnect` | `Proxy` |
| `http_connection::query` | `is_alive`, response holder | first query registers a bridge, later ones only send; the bridge's two handlers | `Proxy` |
| `main`, `proxy.cpp` | `con_map`: client descriptor to (host, bridge) | `on_request`, response and disconnect callbacks, `on_disconnect`, signal handler, exit | `Proxy` |
| `http_request`, `http_response` | parser state | `append_data`/`parse`, `is_complete`, `commit` | `HttpMessage`, `HttpRequest`, `HttpResponse`, run by `Exchange`; `Proxy` uses only what it sees of them |
| chat server (`server.cpp`, `main2`) | ids of clients | broadcast on connect, data, disconnect | `Chat`; compiled but never called |
| `logger`, `http_example.cpp`, `tcp_server.cpp` | | | not modelled: output only; the other two are not in `CMakeLists.txt` |

How they interact. `main` builds an `http_server`, which owns a `tcp_server`,
which owns the `epoll_wrapper` and the server socket. `process_events` calls a
closure per event: for the server socket the accept handler, for a client
`on_data_income` (read, parse, and when the request is complete `on_request`
of `main`), for a bridge the data handler that `query` registered (read,
parse, and when the response is complete `connection.send_response`). A
hang-up goes the same way: a client takes its bridge down, a bridge takes its
client down. There are no threads and no timeouts, and nothing is persisted;
the interleavings come from the order of events in the array, from what peers
do between `epoll_wait` and the visit of an event, and from signals.

What makes each part correct:

* the registry: the three tables and the two maps always agree with each other
  and with the open descriptors (`RegistryCoherent`);
* the captured references: a closure is only ever called for the connection it
  was made for (`CapturesValid`);
* requests and responses: bytes of one client never end up in the request of
  another, and bytes of a host that was left, or of an answer already given,
  never in a later answer (`IncomeIsOneRequest`, `DownloadIsAwaited`,
  `RoutedOnce`);
* isolation: the handler of a hang-up touches one client, its bridge and nothing
  else (`HangupIsPrivate`); which client that is, after a descriptor has been
  reused, need not be the one that left (section 3);
* the service as a whole: `ProxyService`;
* progress: requests, answers and hang-ups are dealt with (`ProxyLiveness`);
* the text: however it is cut, a message is written whole, once, and without a
  byte of another, and only the end of a request can be lost in the write
  (`RequestIntact`, `ResponseIntact`, `NothingCarriedOver`), and every request is
  answered (`Answered`);
* the chat: one room, told to all in the same order, and truly (`FeedIsLog`,
  `LogIsTruth`), and nobody dropped who is still there (`HangupIsReal`).

`PROJECT.json` lists the hazards behind these, each at its line, and says of
those no property covers yet why not.

## 2. Modules

```
EpollWrapper            the registry as a data structure: operators, no variables
  Network               the world: clients, origins, TCP (external)
    Proxy               the process: loop, handlers, signals, invariants
      ProxyTraffic      where each request and its answer can be
      ProxyRefinement   ... implements ProxyService
      ProxyLiveness     what must eventually happen
      ProxyClaims       what log messages and checks say, and runs refute
        MCProxy         all four, for TLC
HttpText                symbols, and the string operations of the parsers
  HttpMessage           what both parsers share: state, header loop, counted body
    HttpRequest         parse() and commit() of a request
    HttpResponse        the same of a response, chunk decoder and encoder
TcpSocket               the O_NONBLOCK flag, and what a write() does under it
      Exchange          client, proxy and origin with their text (uses all of these)
        ExchangeClaims  what comments and the repository's README say of chunks
          MCExchange    instances for TLC
Chat                    the chat server, on EpollWrapper and TcpSocket
  ChatOrder             how its tables, array, broadcast and log hang together
    MCChat
EpollWrapperProofs      lemmas on the registry's operators
  ProxyProofs           the inductive invariant of Proxy
    ProxyTrafficProofs  ... and of ProxyTraffic
      ProxyRefinementProofs   the steps of the refinement
  ChatProofs            the inductive invariant of Chat
    ChatOrderProofs     ... and of ChatOrder: the log and what is heard
HttpProofs              what the parsers and the encoder compute
  ExchangeProofs        the inductive invariant of Exchange
```

**EpollWrapper.** A registry `E` is a record of the descriptor table of the
process (`fdt`), the kernel's epoll set, `handlers` and `fd_status` (how many
of the vector's elements name a descriptor). `add_socket`, `remove_socket` and
`close_fd` are translated with their quirks: `handlers.insert` keeps an old
entry, `fd_status` may grow twice, `remove_socket` does nothing for an unknown
descriptor, and `close` leaves `handlers` alone. Handlers of the loop call them
several times in a row, so they are operators that compose. The kernel hands
out the lowest free descriptor, which is what makes reuse happen at once.

**Network** is external to the repository. Clients send requests in two pieces
("head" has the title, "end" the rest), one request at a time. Origins answer
the requests of a link in order, in two pieces, optionally after an interim
response (100 Continue). Pieces pile up unread in `rx`, so a read may find one
or several. Either side may close at any time; a peer that has closed answers
a write by RST, at once or later.

**Proxy.** The correspondence of state:

| variable | in the code |
|---|---|
| `epoll` | `tcp_server::epoll` and the open descriptors |
| `clients` | `tcp_server::clients` (`tcp.h:248`) |
| `request_map` | `http_server::request_map` (`http.h:173`): the pieces parsed so far |
| `con_map` | `*con_map` of `main`: host and descriptor of a client's bridge |
| `response` | `*response` in `query`: the pieces of the response so far, by bridge |
| `batch`, `pc` | the `events` array left to visit, and where the loop is |
| `running`, `signalled` | `tcp_server::running`; which signals were delivered |

One action is one visit of an event by `process_events`, with everything the
handler calls: `Accept`, `AcceptFails`; `RequestPart`, `RequestThrows` and the
three ways a complete request goes (`RequestOnBridge`, `RequestNewBridge`,
`RequestRefused`); `ResponsePart`, `ResponseThrows`, `ResponseDone`;
`ClientHup`, `BridgeHup`; `Ignore` for a descriptor without a handler.
`EpollWait` takes a snapshot of what is ready. An event keeps the descriptor
only, so by the time it is visited the descriptor may be somebody else's, as in
the code: the handler is looked up at the visit (`epoll_wrapper.cpp:62`,
`:82`). `Start`, `LoopTest`, `EnterWait` and `Exit` are the steps of the loop
between which a signal can make a difference. The process may die: of an
exception in the accept handler or in the request parser, or of SIGPIPE.
`is_alive` is left out: it is set in the handler that creates the bridge, and
the bridge is erased when it drops.

**ProxyService** is what clients and origins are promised: each request is
handed to a server of its host at most once; only the request a client waits
for is answered, only once it was served, and with one final answer, before
which there may be interim ones; and a client is disconnected on its own or
together with the whole service. `ProxyRefinement` maps the proxy's state to
it: a connection is open while its client has it open and the proxy, or the
listen queue, holds the other end; the served requests are those that reached
an origin; `asked` and `got` are the client's own, unchanged.

**ProxyTraffic** says where a request and its answer can be: with the client,
in its socket or in `request_map`, in the inbox of one server, in the bridge's
socket or in `*response`, or received. It adds no state; it is what
`IncomeIsOneRequest`, `DownloadIsAwaited`, `RoutedOnce` and `HangupIsPrivate`
have in common and what makes them inductive (section 4).

**HttpText, HttpMessage, HttpRequest, HttpResponse.** A text is a sequence of
symbols. A read may end between any two of them, so whatever the parsers treat
differently when it is cut is several symbols: CR and LF are two, a title is
its words and spaces, a body its bytes. A header line without its line end and
a number are one symbol each, because a cut within them has the effect of one
beside them: the parser waits for the line end in either case. `Find`, `Upto`
and `From` do what `find` and `substr` do, npos and its wrapping around
included. A cut within a chunk size is beside it, too, unless the size has zeros
before it (section 5). A parser is a record with the fields of the class, and `threw`. The loops of
`parse()` are recursive functions on it; `AppendRequest` and `AppendResponse` are
`append_data`. `CommitRequest` and `CommitResponse` give the text that `commit()`
returns: first line, header lines in some order of the map (`MapText`), an empty
line, and the body in its form.

**TcpSocket.** `send` toggles `O_NONBLOCK`, writes once, and toggles it back.
A client's socket was made non-blocking when it was accepted, so the write to
it blocks and is whole; a bridge's never was, so the write to it does not block
and what does not fit is lost. At least `Room` symbols fit; with `Room` = 0 nothing
need to, which is a write that returns -1.

**Exchange** is one connection of a client and its bridge. `ReadsClient` is
`on_data_income` of `http_server`, `ReadsOrigin` the data handler of `query`,
each for a read of any size, with the three ways it can go (the parser throws,
waits, is done). A complete message is committed, and title, headers and body go
out in one write, as in the code: what the write to the bridge does not take may
begin anywhere, in the head too. `served` therefore has two parts, the `wire` that
the origin receives and the text that was `lost`; `got` is the text that the
client receives. `Received` and `Meaning` are what a receiver makes of a text: it
is read anew, head and body, and nothing of what the proxy has parsed is taken
over. The origin answers when `Meaning` finds the request whole. `asked`,
`served`, `answered` and `got` are the exchange under way; a new one begins when the client has understood the answer to the last,
so that the number of exchanges is not bounded. `torn` records the reads that
ended where the parsers do not bear it, for the properties that make
exceptions of these. Connections that come and go are the subject of `Proxy`;
here there is one.

**Chat.** Because a broadcast is a series of blocking writes, it is not one
action: `Accept`, `Income` and `Hangup` begin it (`talk`), `TellOpen`,
`TellClosed` and `TellReset` are its writes in the order of descriptors, and
`Told` is the return of the handler, after a hang-up with `disconnect_client`
and the second `remove_socket` of `process_events`. `log` is a history
variable, and the properties relate everything else to it: `FeedIsLog` says
which of its places each client has heard, in order and without a gap, and
`LogIsTruth` what its notices say of ids, of connects and disconnects, and of
the lines that clients wrote. **ChatOrder** adds the invariants these need, of
the events in the array, of the broadcast under way, and of ids.

Definitions introduced by "Mutant of" are deliberately wrong variants of the
operator that follows. No specification uses them: substituting one must make
the named property fail.

## 3. Runs

The process may end or wait for ever for an event, so deadlock is not checked.

| run (.cfg) | instance | checks | shows |
|---|---|---|---|
| `FewDescriptors` | 2 clients, 3 requests, 2 hosts, 3 links, 2 descriptors beside the server's, array of 2, interim responses | `TypeOK`, `RegistryCoherent`, `DownloadIsAwaited`, `RoutedOnce`, `TrafficInv`, `ImplementsService` | reuse, switch and loss of bridges in every order, failing connects, refused accepts and bridges, and events left for a later array keep the tables coherent and the service as promised |
| `TwoClients` | 2 clients, 3 requests, 2 hosts that always connect, 3 links, 3 descriptors beside the server's, array of 3, SIGINT | `CapturesValid`, `Inv`, `IncomeIsOneRequest`, `TrafficInv`, `HangupIsPrivate`, `ImplementsService` | clients that reuse each other's descriptors while old events are in the array do not get each other's data; refused bridges and the stop of the server change nothing of that |
| `Liveness` | 1 client, 3 requests, 2 hosts that always connect, SIGTERM | `HangupSeen`, `RequestForwarded`, `AnswerForwarded` | progress when the process is scheduled, and its writes and connects end |
| `Exchange` | 3 requests, 8 responses, chunks of 2, room for 9 symbols; `MCExchange` | `TypeOK`, `RequestIntact`, `ResponseIntact`, `NothingCarriedOver`, `Answered` | every way to cut these messages but in the status line, every choice of what follows what; see below |
| `Chat` | 3 clients, 3 lines and closings together, room for 1 notice; `MCChat` | `TypeOK`, `ClientsWatched`, `FeedIsLog`, `LogIsTruth`, `ChatInv`, `HangupIsReal`, `Attended` | broadcasts interleaved with whatever clients do |

Bounds of the proxy. `MaxRequests` bounds the requests of all clients together
and is the only bound on behaviours, the network being otherwise free; one link
per request is all the code can open. Three requests of one client are the
least with use of a bridge, a switch away and a switch back; two clients are
the least with a descriptor freed by one and taken by the other. `TwoClients`
has one descriptor less than two clients with two bridges need, so that bridges
are refused; while a client is in the listen queue it always has a descriptor for
it. `FewDescriptors` has two less: when a client and its bridge have both, the
accept of the other client fails, which ends the process. Three descriptors can be
ready at a time in both, of which the array holds all in `TwoClients`, so that an
event can be two behind, and leaves one for a later array in `FewDescriptors`. In
`Liveness` it holds all. `Symmetric` permutes clients and hosts; descriptors and
links are ordered and are not permuted.

Bounds of the exchange. `ChunkSize` is 2 for the 100 of the code, and the
chunked bodies are 0, 1, 2, 3 and 5 long, divided by the origin in one or two
chunks of other sizes, so that the encoder meets none, one and several whole
chunks with and without a rest. Bodies contain CR, LF and both together.
The requests are 15, 20 and 24 symbols long as `commit()` writes them, and `Room`
is 9, less than the head of any of them and than any response: a request is cut in
its head, in its body, at its end or not at all, and a write to a client would be
cut if it did not block.

`Cuts` says which of the cuts that the parsers do not bear are made: in the
request line and in the last chunk. A cut in the status line is in no instance:
`stoi` throws or takes a wrong number, the rest is parsed as something else, and
TLC finds responses with bytes of the body for a title. Nor is one within a chunk
size that is padded with zeros (section 5). What the run shows is therefore: **any
other cut is borne.** Of a cut in the request line only the request line (and a
header made of its rest) suffers, or the process ends; of a cut in the last chunk
the response is lost.

Bounds of the chat. Three clients and `MaxDeeds` = 3 are the least with two
observers of a third, a line merged with another in one read, hang-ups that
cross in one array, a descriptor handed on, and a second write to a client that
has left (SIGPIPE). Clients are numbered in the order in which they connect,
which loses nothing, as they are all alike. With room
for one notice every second write blocks until the client reads. `IdRange`
stands for 2^32 and `FirstId` for whatever memory `id_counter` had: the largest,
so that it overflows. `MAXEVENTS` (64) is not reached.

Fairness. `FairSpec` assumes weak fairness of `Loop` and nothing else: the
process is scheduled. Behind it stands an assumption of the actions themselves,
which are single steps: that a connect ends and that a write ends. The code writes
to a client with a blocking `write()` (`tcp_socket.cpp:161`), so the second one is
a promise of the client to read, and without it the whole process may stop.
Otherwise clients, origins and signals owe nothing. Weak fairness
is enough because the loop is one thread; which event comes first is the
kernel's choice, and in `Liveness` the array holds all that are ready. The
progress properties are conditional on what the code really offers: a request
reaches a server if its host can be connected (otherwise `proxy.cpp:109` logs
and the client waits), and everything may be cut short by the end of the
client's connection. They are checked without interim responses, since an
interim response read together with the beginning of the final one makes the
code lose the latter (`http_connection.cpp:59`).

In `Exchange` the process is scheduled, the network delivers and the origin
answers; the client need not ask again, but it reads, for the write of an answer
waits until it has. `Answered` makes two exceptions for the cuts above and one for
a request that did not fit into the bridge's socket, head or body, whose rest
nobody sends. In `Chat` clients must read (`WF` of `ClientReads`): this is
not an assumption of convenience, as one client that does not read stops all
others for ever (`tcp_socket.cpp:161`).

Seven more runs check what the source says of itself (`ProxyClaims`,
`ExchangeClaims`), and end in a counterexample:

| run | statement | what happens |
|---|---|---|
| `StaleIncome` | "data_income" (`epoll_wrapper.cpp:81`) | a client accepted on a descriptor freed within the array is read for its predecessor's event: the parser throws on nothing and the process ends. Hang-ups go astray in the same way: a client that switches hosts while the old origin's close is in the same array loses its new bridge, which got the old one's descriptor, and its own connection with it |
| `AnswerDropped` | "couldn't download" (`http_connection.cpp:74`) | an origin answers in full and closes: the close is handled first, and the answer is lost |
| `AcceptLimit` | "accept failed" (`tcp.h:134-146`) | the invalid socket is used all the same, and the exception ends the process |
| `WriteReset` | "error when writing" (`tcp_socket.cpp:162-166`) | SIGPIPE comes first |
| `ChunkCut` | "chunk hasn't arrived yet", "chunk is not here yet" (`http_response.cpp:105`, `:120`) | a read ends within the last chunk: the parser throws and the response is thrown away |
| `ChunkMultiple` | "supports chunked ... keep-alive" (`README.md:10` of the repository) | a body that is a multiple of 100 is followed by two last chunks; the second stands before the next response |
| `Sigint` | "SIGINT caught; aborting" (`proxy.cpp:28`) | the stop is lost before `start()`, or between the loop's test and `epoll_wait` |

SIGTERM is announced in the same way (`proxy.cpp:25`) and does nothing at all:
`SigTerm` changes no state of the server.

Note what the safety runs and these say together: stale events do happen, and
they close connections that were alive, but even then the tables stay coherent
and no client receives another's data. What each handler does stays with the one
connection that owns the descriptor at the visit; a stale event only makes that
the wrong one.

## 4. Proofs

Everything in this section holds for all values of the constants that satisfy
the named assumptions: any number of clients, links, hosts, descriptors and
requests, any length of the array.

| module | theorems | of |
|---|---|---|
| `ProxyProofs` | `InvHolds`, `TypeCorrect`, `RegistryStaysCoherent`, `CapturesStayValid` | `Inv` and its parts |
| `ProxyTrafficProofs` | `TrafficInvHolds`, `RoutedOnceHolds`, `IncomeIsOneRequestHolds`, `DownloadIsAwaitedHolds`, `HangupIsPrivateHolds` | `TrafficInv` and what follows from it |
| `ProxyRefinementProofs` | `ServiceImplemented` | `ImplementsService` |
| `ChatProofs` | `PlacesInvHolds`, `ChatTypeCorrect`, `ClientsStayWatched`, `HangupIsRealHolds` | `PlacesInv` |
| `ChatOrderProofs` | `ChatInvHolds`, `LogIsTruthHolds`, `FeedIsLogHolds` | `ChatInv` |
| `HttpProofs` | `AppendRequestOn`, `AppendResponseOn` and the lemmas under them | the parsers and the encoder |
| `ExchangeProofs` | `ExchangeInvariant`, `RequestsIntact`, `ResponsesIntact`, `NothingLeft`, `ExchangeTypes`, `DechunkEncoded` | `ExchangeInv` |

With them every invariant, every action property and the refinement that a
passing run checks is also proved. The inductive invariants `Inv`, `TrafficInv`
and `ChatInv` (which contains `PlacesInv`) are checked by runs too: by
`TwoClients`, by `FewDescriptors` and `TwoClients`, by `Chat`. `ExchangeInv` is not: it
speaks of all texts that might be left to read, which TLC cannot enumerate. Its
consequences are what `Exchange` checks.

**The registry.** `EpollWrapperProofs` states what the operators do to a
registry that is `Consistent` with a set of open and a set of watched
descriptors: `RemoveAbsent` (the second `remove_socket` that `process_events`
makes after each hang-up changes nothing), `RemoveWatched`, `RemoveAndClose`,
`OpenAndAdd` and `ListenAndAdd`. Both servers rest on them.

**Inv** is the conjunction of `TypeOK`, `RegistryCoherent`, `CapturesValid` and
"a client that has begun a request has asked for something". None of the first
three is inductive alone. A handler dereferences `clients` and `con_map`
through a captured descriptor, so its types need `CapturesValid`; closing a
bridge must not close somebody else's descriptor, which follows from
`CapturesValid` (two clients with the same bridge descriptor would have the
same handler, hence be the same client); and that a new descriptor is in none
of the maps is `RegistryCoherent`. `ProxyProofs` applies the registry's lemmas
to the sequences of calls in the handlers (`DropBridgeEffect`,
`DropClientEffect`), and has for each group of actions one lemma for the types
and one for the descriptors. Steps that touch none of the maps are covered by
`DescriptorsUntouched`.

**TrafficInv** adds `Traffic`. That no request is routed twice needs that a
request in an inbox is in no income (`InboxesHandedOver`); this needs that
an income is a beginning of the one request its client is sending
(`IncomeFits`), which needs that a client that sends has no answer to that
request yet (`AnswersGiven`), which needs that all that comes back on a bridge
belongs to the last request it was given and its client waits for it
(`BridgesAnswer`), which needs that a request is in one inbox only. So the parts
are proved together. Most steps do not touch what they speak of, or only take
away: `QuietTraffic` states once which changes disturb nothing, and every step
but eight is shown to be of that kind. The eight are the accept, a client's
connect, beginning and end of a request, an origin's piece of an answer, a
request that goes out on the bridge at hand or on a new one, and an answer that
is complete; each has a lemma of its own. `PeersDistinct` (a connection has one
descriptor, a client one place in the listen queue) is what makes the effect of
an event local, and so is what `HangupIsPrivate` follows from.

**The refinement.** `NextServes` shows of every step which one it is for the
service, from `TrafficInv` before the step:

| the proxy or its environment | the service |
|---|---|
| `ClientConnect`; beginning of a request | `Connect`; `Ask` |
| `RequestOnBridge`, `RequestNewBridge` | `Serve` of the request, once |
| `ResponseDone` | `Answer`, interim or final, if the client is still there; else a stutter |
| `ClientHup`, `BridgeHup`, a client's close | `Disconnect`, or a stutter if it was closed already |
| `Exit`, the death of the process | `Stop` |
| all others | a stutter |

**PlacesInv** (the chat) is `TypeOK`, `ClientsWatched` and `Places`. Here a
handler is several steps, so a broadcast must be shown to stay about an event of
the array whose descriptor is still its client's (`BroadcastCurrent`,
`EventsCurrent`): an event of an earlier connection on the same descriptor
cannot be in the array, because a descriptor is freed only by the handler of its
own hang-up event, of which there is one. This is where the chat server differs
from the proxy, whose bridges are closed by other events' handlers; and it is
why `HangupIsReal` holds of the one and stale events happen in the other.

**ChatInv** adds what stands in the log. `IdsCounted` says that `id_counter` is
`FirstId` plus the number of clients known, modulo the range, which together
with the assumption that there are fewer clients than ids gives `IdsDistinct`.
`ClientsAnnounced` (a client in the table was announced with that id, and not
yet taken back) gives `LivesInOrder`. `LinesIntact` and `FeedIsLog` are
inductive given these; the proofs restate them place by place (`LinesRelayed`,
`AllHear`) and count with `FeedCount` and `NotedFeed` how many notices a client
has to hear before and after one more.

**The parsers.** `HttpProofs` is about the operators of the text modules alone,
for every text and every cut. It begins with two facts about loops: a loop of
the shape `IF F[x] = x THEN x ELSE h[F[x]]` exists (`LoopExists`, so that the
recursive functions `Headers`, `Chunks` and `Dechunk` are what their
definitions say), and when each turn makes something smaller it ends, in every
set that is closed under a turn (`LoopEnds`). Induction is over such sets and
not over predicates, which the provers can do; `Induction` and the lemmas on
`FlattenSeq` have the same form. So everything rests on what one turn does to a
text of which a part is here and `rest` is still to come: `HeaderTurnOn` for a
header line, `ChunkStepOn` for a chunk, with `NextLine`, `NextSpace`, `NextSize`
and `NextChunk` for what `find` finds in the part that is here. The predicates
`AtHeaders`, `AtBody`, `InBody`, `AtChunks` and `Complete` say of a parser that
its fields, its unparsed text and `rest` together are the message; a turn, and
hence `AppendRequest` and `AppendResponse`, keep one of them. First lines are
apart, because the first read is parsed as if it had all of it:
`RequestTitleOn` has the outcomes of a read that ends in the request line (the
parser throws, or takes some title and leaves what remains of the line to
become a header), and `ResponseTitleOn` supposes that none ends in the status
line. `EncodeChunksText` says that what the encoder writes is the chunks of
some division of the body, a last chunk, and behind that nothing or, when the
body is a multiple of `ChunkSize`, the second one that `ChunkMultiple` shows.

**ExchangeInv** says how far each of the two messages is. The request: there is
none (`Idle`), it lies unread (`ToCome`), it is in the parser and the rest of it
unread (`Underway`, by the predicates above), the parser threw (`Thrown`, only
after a read that ended in the request line), or the origin has it and nothing
is left (`HandedOn`). The response: `Unanswered`, `Fresh`, `Coming`, `Lost` (the
parser threw at the last chunk, and what is left has no number in it, so that
every further read throws, too, and never makes up a response), or `Arrived`.
`send` leaves the flags of both sockets as it found them, so the write to the
client always blocks and is whole, and the one to the bridge never does. The
properties follow from the last phase, and from what a receiver reads in the text
that `commit()` wrote. `ReceivedWhole`: of a first line that is one line, the lines
of a map and a payload it reads just these; `SetToSeq` may put the lines into any
order (`InSomeOrder`). The status line is one line because no word of it has a CR
(`OwnLineIs`); a request line is, even when the parser took it from a read that
ended within, because none of its words has an LF (`PlainLine`; that they are
`Plain` is part of `RequestGoes`). `DechunkEncoded` and `PlainMeaning` say that the
body in the payload is the one that was parsed. `SentBeginning` says what the write
to the bridge takes: a beginning of that text, all of it or at least `Room` symbols.

**Assumptions.** Descriptors and links are numbers and the server's descriptor
is one of them; clients, links, `Listener` and `None` are different things, and
`None` is no record of a table; there is a link for each request; the array has
a place. For the chat: the clients are finitely many and fewer than the ids
(2^32 in the code). For the exchange (`RequestsAssumption`,
`ResponsesAssumption`): titles are words, a version has more than one letter,
no header name occurs twice, a Content-Length is the body's length, a request
has a body only with one, and a response is framed by a Content-Length or by
chunks (none of them empty but the last), or is empty; `Cuts` is part of
`AllCuts`. These are the messages of section 5 that the program is not known to
mishandle whatever the order of events. Bodies, the number of headers, the
division into chunks, `ChunkSize` and `Room` are arbitrary.

**Only model-checked**: all liveness (`HangupSeen`, `RequestForwarded`,
`AnswerForwarded`, `Answered`, `Attended`), which the proof system does not
reach. That a loop ends is proved, as it makes the recursive functions what they
are.

## 5. What the model leaves out

* No pipelining: a browser that sends its next request before the answer.
* In `Proxy` a read never ends inside a request line or status line, and every
  response is framed; `Exchange` has the cuts, but one connection. In neither
  does a read end inside a status line (section 3).
* Header lines are symbols: their spelling (the parsers know
  `Content-Length`, not `content-length`), lines without a value, the same name
  twice, and `Transfer-Encoding` other than chunked are not in the instances.
* Responses without a body that name its length (to HEAD, or 304), requests
  with chunked bodies, and bodies that end with the connection: the parsers
  lose these, whatever the order of events.
* `int_to_hex` writes chunk sizes as `0x00000064`; receivers are taken to read
  them, as this program does, with `stoul`. A read that ends within a padded size
  is in no instance: the parser does not wait for the rest of the number
  (`http_response.cpp:108`), takes zeros alone for the last chunk, so that the
  client gets part of a body for all of it, and zeros with some of the digits for
  a smaller chunk, so that the padding may become data. Without padding it is
  harmless: what is there of the size is never 0, and the chunk not here yet.
* In `Proxy` the rest of an answer whose beginning was lost (`Garbled`) makes the
  response parser throw, as a body without a number for its second word does. One
  that has a number there is taken for a status line, and something is parsed as a
  response; no property of `Proxy` speaks of such a text.
* Peers close both directions, and the proxy's kernel learns of it as
  EPOLLRDHUP; a RST comes only in answer to a write.
* In `Proxy` writes and connects end, and writes are whole; `Exchange` has
  partial writes of requests, and `Chat` blocking ones.
* A signal is handled between two steps of the loop, not inside a handler,
  and each signal comes at most once.
* Memory: a response holder that is leaked is modelled as gone.

## 6. Plan

1. *(done)* `EpollWrapper`, `Network`, `Proxy`, its refinement, liveness and
   claims; `EpollWrapperProofs`, `ProxyProofs`.
2. *(done)* The parsers, the serializers and the socket flag in `Exchange`.
3. *(done)* `Chat`.
4. Not planned: the signal handler at a finer grain (`stop` interrupting
   `remove_socket` is undefined behaviour whose outcomes depend on the
   allocator), `main`'s exit in the middle of a handler.
5. *(done)* Proofs: every safety property of the proxy, of the chat server and
   of the exchange, and the refinement.
6. Left: an abstract specification of an exchange (a message is handed on or
   lost, each once) that `Exchange` implements, by the phases of `ExchangeInv`;
   responses that are not framed, in `ResponsesAssumption` and the instances.
