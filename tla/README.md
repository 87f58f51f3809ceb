# A formal model of Navar

Navar is an HTTP client in Rust whose transport (TCP, TLS, Iroh/QUIC),
application protocol (HTTP/1.1 and HTTP/2 through Hyper, HTTP/3 through `h3`) and
async runtime are plugins. This directory holds TLA+ models of the parts that
have state, the TLC configurations that check them, and proofs for TLAPS.

## 1. The system

| Component | Source | State it keeps | Operations | What makes it hard |
|---|---|---|---|---|
| Session pool | `src/base_service.rs` | a `DashMap` from authority to session, the drivers it spawned | `handle` | shard locks that block threads and are held across awaits; failures and dropped futures between miss and insert; sessions that die |
| SSE stream | `src/response_helpers/sse.rs` | ring buffer, pending event, ready events, last id | `poll_next` | lines cut anywhere by frames, wake-ups |
| NDJSON stream | `src/response_helpers/ndjson.rs` | ring buffer, queue of items | `poll_next` | the same |
| Hyper application | `navar-hyper/src/lib.rs` | an HTTP/1.1 sender behind an async `Mutex`, or an HTTP/2 sender | `handshake`, `send_request` | callers cancelled in the queue, with the lock or in flight; one exchange at a time; a request that fails alone, or takes the connection with it |
| HTTP/3 application | `navar-h3/src/lib.rs` | one request stream per request | `handshake`, `send_request`, `poll_frame` | bodies in frames, partial failure, the end of a stream |
| HTTP/3 adapter | `navar-h3/src/adapter.rs` | cached futures, send buffers | `poll_open_*`, `poll_accept_*`, `poll_ready`, `poll_data`, `poll_finish`, `split` | partial writes, futures kept between polls, cloned handles |
| Tokio transport | `navar-tokio/src/lib.rs` | address and TLS configuration | `connect`, `open_bidirectional`, I/O | almost none: it hands over to Tokio |
| Iroh transport | `navar-iroh/src/lib.rs` | a QUIC connection | the same | almost none |
| Client, pipeline, middleware | `src/lib.rs`, `src/service.rs` | a shared handler | `send` | none alone: what its parts do to each other |
| Request builder | `src/bound_request.rs`, `json.rs` | one `http::Request`, or the first error | `header`, `body`, `text`, `json`, ... | errors that are kept for later; a header set twice; bodies made lazily, that fail when polled |
| Traits | `src/transport.rs`, `src/application.rs` | - | signatures | the contracts in their comments |
| Response helpers | `src/response_helpers.rs` | what was read so far | `bytes`, `text`, `json`, `bytes_stream` | bodies that end too early |
| Mocks | `navar-mocks/` | - | a transport, session and runtime that never fail | as a client like the others |
| Tests, examples | `tests/`, `examples/` | - | - | the example makes the clients that the model has |

How they interact: `Client::send` boxes the body and calls the pipeline, whose
innermost service is `BaseService`. `handle` looks for a session under the URI's
authority; when there is none it awaits `TransportPlugin::connect` and
`ApplicationPlugin::handshake`, spawns the driver that the handshake returned,
stores the session, and calls `Session::send_request` on a clone of it. All
requests for an authority share the session and its driver. A response body
pulls its frames from the session; the SSE and NDJSON streams parse them.

What makes each component correct, in short: the pool connects once per authority, never loses a
lock, and serves a request over a session made for its peer; every request ends. The streams
give the same items however the bytes are cut, and never sleep on something that is ready. A
session gives each caller its own response, whoever is cancelled, fails a request only for a
reason of its connection or its own, and lets everyone return. The data of an HTTP/3 request
leaves whole, in order, and its response arrives whole or fails. A client keeps authorities
apart, sends what was asked for to the peer it was asked of, as far as the key of the pool
tells, and gives a whole response or an error. The exact statements are the properties at the
end of each module; `PROJECT.json` lists the hazards behind them with the line where each one
bites.

## 2. The modules

| Module | Models | Notes |
|---|---|---|
| `SharedSession` | the promise of the pool | abstract: keys, sessions, requests; no locks |
| `ItemStream` | the promise of the SSE and NDJSON streams | abstract: lines and items; no bytes, frames or wakers |
| `OneSession` | the promise of the trait `Session` | abstract: one connection and its callers' requests; no bytes, no Mutex |
| `SessionPool` | `BaseService::handle` | the detailed specification, implements `SharedSession` |
| `Endpoint` | authority and dialled peer of a URI, for both transports | pure; used by `MCSessionPool` and `Client` |
| `MCSessionPool` | instances for TLC | |
| `SessionPoolProofs` | theorems about `SessionPool` | |
| `LineStream` | `append_frame` and `poll_next`, common to both streams | parameter `OnLine`, the parser of a line; implements `ItemStream` |
| `SseParser`, `NdjsonParser` | `process_line`; `from_slice` and the queue | pure |
| `SseStream` | `LineStream` with `SseParser`, and what the SSE specification asks of it | |
| `MCSse`, `MCNdjson` | instances for TLC | |
| `LineStreamProofs` | theorems about `LineStream`, for any parser, and about both parsers | |
| `Negotiation` | ALPNs offered and reported, and which HTTP version is spoken | pure |
| `HyperSession` | `HyperSender::send_request` | with hyper's connection, external; implements `OneSession` |
| `HyperSessionProofs` | whose lock and whose response it is | |
| `HyperPromiseProofs` | turns, reasons to fail, the refinement | |
| `RequestBody` | what the request builder attaches | pure; gives `H3Exchange` its bodies |
| `H3Exchange`, `MCH3` | one HTTP/3 request and its response | with the server and transport, external |
| `H3ExchangeProofs` | theorems about `H3Exchange` | |
| `H3Streams` | `H3Connection`'s cached futures | with the transport, external |
| `H3StreamsProofs` | theorems about `H3Streams` | |
| `RequestBuilder` | `BoundRequestBuilder` | pure |
| `Client`, `MCClient` | a request from the builder to the response helper | composes the parts; implements `OneSession` for each authority, and `SharedSession` |
| `ClientProofs` | theorems about `Client` | |
| `SequenceFolds` | theorems about `FoldLeft`, for any operator | the induction over data that the other proofs use |

An operator whose name has an underscore (`Insert_Connection`) is a faulty
variant of the one after it. The models never use them; they are there to show
which mistake each property catches.

### SessionPool

One request is a task that runs `handle` once. `pc` is where it is: `new`,
`entry` (at the call of `pool.entry`), `connect`, `handshake` and `send` (at the
three awaits), and the three ways it ends. `polling` is the set of tasks that
occupy one of the executor's `Threads`. There are two ways to wait, and the
difference is what the model is about: a task at a pending await leaves its
thread (`Yield`) and comes back when it is woken (`Resume`); a task at `entry`
whose shard is locked stays on its thread, because DashMap's locks block it.
`lock` is the holder of each shard's write lock, which the `Vacant` entry keeps
over both awaits. `EntryOccupied` takes and gives back the lock in one step, as
there is no await in between. `EstablishFailed` and `Cancel` drop the `Vacant`
entry. `HandshakeDone` spawns, inserts and unlocks in one step: nothing can run
between these lines that could tell (the shard's lock is held). `DriverEnds` is a
connection that closes; it does not touch the pool, and neither does anything
else. A future is dropped by the task that owns it, so `Cancel` needs a free
thread and never happens while the task is polled.

### LineStream

A body is a sequence of symbols, a newline among them; the parsers look into
fields no closer than "is it this name", so a symbol stands for a byte or a run
of bytes. `poll_next` has no await and is one action, with a disjunct for each
way through it. `awake` is whether the executor will poll the consumer, and
`registered` whether the body holds its waker. `append_frame` is a set of
operators: `Newlines` (the scan, which starts at the new bytes), `Processed`,
`Copied` (the copy out of the two slices of the `VecDeque`) and `Remainder`
(the pops). Where the ring buffer wraps is any place (`SliceEnds`).

### HyperSession

The tokio `Mutex` is a first-come first-served queue that its holder heads.
`ready()` of an HTTP/1.1 sender returns when the connection wants a request;
then the request goes into the channel in the same poll, so `Send` is one
action. Hyper's connection is external and modelled by what `send_request` relies
on: an HTTP/1.1 connection takes one request, wants the next one when the
exchange is over, closes when the caller of an unanswered request is gone; an
HTTP/2 connection resets that stream alone. Bodies of the responses belong to the
callers, who read or drop them; a `Hoarder` may do neither.

A request can also fail with nobody given up. `send_request(req).await?` returns the error of a
request whose own body turns out to be in error when it is polled (`BodyFails`, for the callers
of `Faulty`): over HTTP/2 that resets one stream, over HTTP/1.1 the request cannot be ended and
the connection closes, for all who wait for it. And the server may reset a single HTTP/2 stream
(`StreamReset`). `LoseStream` is what one stream leaves behind: an error if the head of the
response has not come, else a body cut short. `broken` remembers whom it happened to, and
`FailsForAReason` says that a request fails for these reasons and no other.

`OneSession` has the same in the abstract: `FailAlone` is one exchange of many that breaks off,
and `Close` by the client needs an exchange that cannot be brought to its end (`Unfinishable`),
by a caller that is gone or a faulty request.

### H3Exchange and H3Streams

`H3Exchange` follows one request through `send_request`: the head, then each
frame of the body, each written out by `poll_ready` in portions that the
transport chooses, then `finish`, then the response. Frame headers and the
padding that `h3` may send are left out. `fin` is what the server sees of the end of
the request; the code never ends the stream by itself, so only dropping it does
(QUIC ends a send stream that is dropped without a reset). The bodies come from
`RequestBody`: `text`, `bytes` and `json` give one frame in one piece, `ndjson` a frame
for each value and an error where a value cannot be serialized, `body` anything.

`H3Streams` is the cache of futures in `H3Connection`, over any number of cloned and
dropped handles, on a transport that can open and accept everything (Iroh) or errs on
all but `open_bidirectional` (Tokio). The four poll functions are one operator, for they
differ in the method they call and in nothing else.

### Client

`Client` puts the parts together, each at the level of what its own module has shown of it. The
pool is as in `SharedSession`: a request that finds no session makes it (`Miss`, `Connected`,
`Shaken`), alone in its authority, and the others wait; how they wait, and what a blocked thread
does to others, is `SessionPool`'s matter. A session is as in `OneSession`: one exchange at a
time over HTTP/1.1 (`Free`), a connection that closes (`Close`) by the server, because a caller
left its exchange (`GiveUp`) or over a request whose body is in error (`BodyBreaks`), and a
request that fails while the connection carries on (`FailsAlone`: the error returns of the two
`send_request`s, which `H3Exchange` has in detail for HTTP/3). `Faulty` is derived from what is
asked: `ndjson` serializes while it is sent, and a `body` of the caller's may fail as it likes.
Around them stand, in the order in which a request meets them: `RequestBuilder` (`Rejected` when
it holds an error), `Endpoint` (the key, and the peer that the transport makes of the URI), the
ALPNs of `Negotiation`, the streams that the handshake opens against those the transport gives
(`Unsupported`), and the response helpers, which read frame by frame (`ReadFrame`, `ReadEnd`,
`ReadError`, `DropBody`).

`setup` is the client: those that `examples/navar_fetch.rs` makes for a URI's scheme, H3 over
a Tokio transport, and the mocks. `link` is where the connection of each session leads. `Cancel` tells
apart a request dropped before it is sent (`cancelled`) from one dropped after (`abandoned`):
the first concerns nobody, the second costs an HTTP/1.1 authority its connection, which the
pool keeps.

## 3. The runs

| Run | Question | Result |
|---|---|---|
| `pool` | one connection per authority, no lock leaked, own session; does `handle` implement `SharedSession`; is a dead session final; does every request end when there are threads enough, and whom does a silent peer delay | holds; only its own shard |
| `pool_one_thread` | does every request end on one thread | **no**: deadlock |
| `pool_default_ports` | is the key the peer, ports left to the scheme | **no** |
| `ndjson` | items independent of frames, buffer, wake-ups | holds |
| `sse` | does the stream implement `ItemStream`; on tidy lines, are the events with data, their own ids and the last id the standard's | holds |
| `hyper` | own response, lock, order, reasons to fail (alone or with the connection), everyone returns; does the session implement `OneSession` | holds |
| `hyper_iroh` | is HTTP/2 spoken over Iroh when it was agreed on | **no** |
| `h3_exchange` | all data of the request and the response whole and in order, call returns | holds |
| `h3_end_of_request` | does the call return against a server that waits for the end | **no** |
| `h3_chained_body` | is a frame made of two pieces sent whole | **no** |
| `h3_streams` | is every attempt kept, ended once, and given to one; does every open end, and every accept once the connection is closed | holds |
| `client` | does each authority have a session that keeps its promise, whatever others do; does its pool implement `SharedSession`; no failure from another authority; own peer; requests as asked; responses whole or failed; what an abandoned request costs; does every request end | holds |

The runs that fail are disagreements between the code and what a comment says of
it; "findings" in `PROJECT.json` quotes both. Other differences are stated
where they are modelled and have no run:

- The SSE parser departs in four ways from the specification, which `sse.rs:5` says it follows,
  and `AsSpecified` is what is left:
  - an event whose own lines have no `id` has none, where the specification gives it the last
    one that came (`sse.rs:118-122` puts a fresh event in place of the pending one and does not
    look at `last_event_id`). `AsSpecified` asks for the specification's id where the event's
    own lines give it one (`named`) and allows it to be missing elsewhere; it never allows
    another. `last_event_id()` is the specification's;
  - a blank line with no data before it gives an event too (`sse.rs:119`). Such lines are among
    the tidy ones; the comparison is of the events with data (`Told`);
  - white space is trimmed on both sides of a line and before the value, not one space
    (`sse.rs:103`, `126`); and
  - empty data is not joined with a separator (`sse.rs:130`). `Tidy` leaves these two out.
- `navar-h3/src/lib.rs:96` discards every frame of a request's body that is not data, without an
  error: trailers never leave. `AllDataSent` is about the data, with trailers anywhere among it
  (`SkipFrame`).
- When the body of an HTTP/3 request fails half-way, the stream is dropped and so ends; the
  server cannot tell the part from the whole (`BodyFails`, `fin`).
- Ids of QUIC streams repeat between the transport's kinds, and over TCP all are 0, though
  `src/transport.rs:32` calls them unique; nothing in the code decides by them.

Note what `DeadSessionIsFinal` says: it is what the code does, and an argument
for evicting sessions. After the server has closed the connection of an
authority, every later request to it fails for the rest of the client's life.
`AbandonmentIsFinal` is its sharper form: over HTTP/1.1 it does not take the server. One
caller that drops its future after the request is sent (a timeout around `send`) makes Hyper close
the connection, and with it the authority is gone for all. A request with a body in error does the
same (`BodyBreaks`). Likewise `OwnPeer` has an exception: where http and https share an
authority, a request goes to the host it names, but to the port and over the TLS or plain connection of the
request that made the session. Two of the workloads are of this kind.

### Bounds

- Pool: three requests, so that one can establish, one block and one come when all is over;
  three threads, so that they do not run out; two authorities in two shards, one of them with a
  peer that may be silent, and a URI with no authority. Requests contend for a shard by asking
  for one authority; that different authorities in one shard contend in the same way is covered
  by the proofs, which hold for any hash. A request is a task that ends, so the state space is
  finite without any other bound.
- Streams: every body of up to four symbols over three kinds and two longer ones (NDJSON); every
  stream of up to three lines out of four kinds, or out of five with spaces, one cut off, and
  four longer ones, with an event after one that has an id or no data (SSE). Frames are cut at every place. `MaxFrames` frames may be ready at once, so that the
  body can run ahead of the consumer.
- Hyper: three callers, so that one holds the lock, one waits, and one waits behind a cancelled
  one; one may hoard its response, and another one may have a body in error (`Faulty`), so that
  the third is the one it happens to through no fault of its own. Each calls once. The protocol
  is left to ALPN over TLS, and TLC takes both outcomes.
- Client: three requests, so that one can make the session, one share it and one be left when
  another is given up; five clients and four workloads, each over at most two authorities, with a
  URI that has none, a malformed URI, a malformed header, and a host that is no public key among them. Http and https
  share an authority in two of them, with the port written out and without; requests with bodies
  that may fail (`ndjson`, `body`) are in three of them. Responses of no frame or one; one
  hoarder.
- HTTP/3: bodies of up to five bytes in up to three frames, with trailers, empty frames and an
  error among them; responses of up to three bytes; three handles, two operations, two attempts
  of each, two steps per attempt. One operation stands for both ways of opening and one for both
  ways of accepting, for the four poll functions differ in the method they call and in nothing
  else.

### Fairness

- A woken task is polled if a thread is free: `WF_vars(TaskStep(r))`, `WF_vars(PollNext)`,
  `WF_vars(CallerStep(c))`, `WF_vars(ClientStep)`. This is what an executor is.
- Weak fairness is enough for the pool's lock and the thread because a shard's waiters find the
  lock free for ever once nobody establishes, and the number of requests is finite.
- Peers answer, except those that are `Unresponsive`; drivers, being spawned tasks, need a free
  thread for it. No answer is owed to a caller when the code sets no timeout, so the silent peer
  is a case of its own and not assumed away.
- In `HyperSession`, the connection makes progress and the server answers; the owner of a body
  reads or drops it unless it is a `Hoarder`. `h3_exchange` assumes a server that answers
  without waiting for the end of the request; `h3_end_of_request` drops this assumption.
- In `Client`: tasks are polled and peers answer (`Handle`), all but the hoarders read or drop
  what they get (`Read`), and the driver of each connection makes progress (`ConnStep`).
- In `H3Streams`, the transport opens a stream in the end (`WF_vars(Progress(h, op))` for the
  opens only), and a woken attempt is polled again. A peer need not open a stream for an accept
  to take: h3 keeps an accept pending for the life of a connection, so nothing is assumed of it,
  and `AttemptsEnd` says of accepts only that they end once the connection is closed.
- Callers never have to cancel, connections never have to close, and no body or stream has to
  fail (`Mishap`, `FailsAlone`, `BodyBreaks`, `ServerCloses`): these may happen at any time, and
  nothing relies on them.

`CHECK_DEADLOCK FALSE` is set where the system may really come to rest: all callers
done (`hyper`, `hyper_iroh`, `client`), attempts used up (`h3_streams`), and in the pool when
the threads are fewer than the requests that block them (`pool_one_thread`,
`pool_default_ports`); the deadlock of `pool_one_thread` is stated as the failure of
`Completes`. The other runs check deadlock too.

## 4. What is proved

`SessionPoolProofs`, for any sets of requests, URIs, keys and shards, any hash and
any number of threads, from `PoolAssumption` alone:
type correctness, `LockHeldWhileEstablishing`, `OneEstablisher`,
`NoOrphanDriver`, `SessionOfOwnKey`, `DialedPeer` (under the hypothesis that the key
determines the peer, which `pool_default_ports` shows is not always so), that
`SessionPool` implements `SharedSession`, and `DeadSessionIsFinal`.

The argument: none of the properties is inductive alone. That an insert orphans no
driver needs the key to be still empty after two awaits. `MissStillTrue` says that
it is, because whoever is between the miss and the insert holds the shard's lock,
and inserts happen only there. Given this, `PooledIsDriven` and `SessionWhenBound` relate pool,
drivers and sessions, and the conjunction `IInv` is inductive. The refinement uses
`IInv` to show that `HandshakeDone` is an abstract `Establish` (nothing pooled yet)
and `EntryOccupied` a `Share`, and that everything else but the end of a request
stutters.

`LineStreamProofs`, for any bodies, any frames and any parser: type correctness,
`NoLineLeftInBuffer`, `BufferIsTail`, `SleepsOnlyOnBody`, and `CopiedIsSubSeq`, that
the three-way copy out of the ring buffer's slices is the stretch asked for wherever
it wraps. `NoLineLeftInBuffer` is what makes the scan's start at the new bytes
right: there was no newline in the old ones, and what `Remainder` leaves begins after
the last newline of the new ones.

`FramingIsIrrelevant` is `FramingIrrelevant` for every parser that accumulates: one that does a
line's work in the same way whatever items are ready before it (`Accumulates`). A parser that
looked at its queue, say to drop an event when one is ready, would not, and then the frames
could be told from the items. `NdjsonAccumulates` and `SseAccumulates` show that both parsers
do, for every line. The argument has two halves. `LinesJoin` is about the lines: those of the
bytes taken with one more frame are those of the bytes taken, followed by what `CutLines` cuts
out of the buffer and the frame. It compares the ends of lines, one by one (`NthOf`), and rests
on `BufferIsTail` and `NoLineLeftInBuffer`, so that its invariant `FrameInv` is inductive only
together with `IInv`. `FoldOfConcat` is about the parser: to parse the lines in two parts is to
parse them in one.

`StreamKeepsPromise` is `ImplementsItemStream`: who polls a stream sees lines that come and
items that are given, one by one and in order, and the end only when all of them are given. It
builds on `FrameInv`, by which what the lines mean is the items given followed by those ready;
giving moves one from the second to the first, and a frame adds to both sides. An error of the
body is no item, and ends the lines early.

`SseStreamIsAsSpecified` is `AsSpecified`, for every stream of any length, with the departures
of section 3 left out of the claim. By `FramingIsIrrelevant` it is enough to compare the parser
with the specification on whole lines, and this goes by induction over them, with a relation
between the two states (`Agree`): the events with data match so far; the pending event has the
type of the specification's buffers, its data without the closing `LF`, and an id exactly when
its own lines gave one, the last that came; and the last ids are the same. `Told` and
`Specified` are folds, too (`Telling`, `Meant`), so that one more line, and one more event, are
one more step of each. Tidiness is used where the two would part.

`SequenceFolds` has the induction. The provers cannot instantiate the library's induction
theorems, which take an operator; but the set of the sequences with a property is a set like any
other, and that the least counterexample has no predecessor is a theorem about sets. `FoldLeft` is
defined there as a function that exists, is unique where it matters, and takes one element after another; each
module that folds takes it with its own operator.

`HyperSessionProofs`, for any callers, any protocol configured and any ALPN: type
correctness, `OwnResponse`, `LockedByCallers`, and that over TLS HTTP/2 is preferred (`PrefersH2`,
which `hyper_iroh` shows to fail over Iroh). The argument has two
halves. `LockOrder` reads the Mutex position by position: who stands in the queue is
who is inside `send_request`, nobody twice, and all but the head are still waiting.
That it survives a caller leaving from the middle of the queue is `LeaveInOrder`, which
rests on what `RemoveFirst` does to a sequence (`RemoveFirstEffect`). `OneAtATime`
says that an HTTP/1.1 connection has the wish for a request, or one request in its
channel, or one exchange, and never two of them; a response, which is told only by its
order, can then belong to no one but that exchange. `OwnResponse` needs it, it needs
that a caller before its turn has no place in the connection (`NothingBeforeSend`),
and their conjunction `IInv` is inductive.

`HyperPromiseProofs` builds on `IInv` with two more invariants. `Turns` compares three
sequences: the queue is in the order of the calls, so are the requests handed over, and whoever
has been handed over called before all who still wait; leaving the queue only thins it
(`LeavingThins`). `FirstComeFirstServed` follows. `Reasons` says that a connection that is
closed is empty and was closed by the server, or over HTTP/1.1 by a caller that left or over a
request whose body was in error; that over HTTP/2 who is told of an error on an open connection
is in `broken`; that each request is in one place of the connection; and that a caller waiting
for an answer is in it. `FailsForAReason` follows, and so does the refinement: `Send` is an
abstract `Send` because the connection is then idle, `Answer` a `Respond` because the asker is
still there, a stream that ends is a `FailAlone` (`StreamEndKeepsPromise`), and each of hyper's
ways to close or skip is a `Close` or a `Discard` that `OneSession` allows.

`H3ExchangeProofs`, for any bodies, responses and portions: type correctness, `WritesKeepOrder`
(what the transport takes off the buffer and what stays are the same bytes in the same order,
`CutAnywhere`), and `ResponseFaithful`. `AllDataLeaves` is `AllDataSent` for any bodies whose
data frames are each in one piece: what was given to send, followed by the data of the frames
not yet polled, is always all the data of the request. `h3_chained_body` shows that it needs
this hypothesis, and `BuiltBodiesAreContiguous` that all bodies of the request builder satisfy
it; only a body that the caller hands to `body` can be otherwise. `H3StreamsProofs`, for any
handles and attempts: type correctness and `AttemptsAccountedFor`, by counting what is cached
and what was given; it needs that a handle out of use caches nothing, so that a clone takes
nothing over, and that streams are numbered without gaps.

`ClientProofs`, for any requests, workloads, clients, body sizes and public keys: type
correctness, `WholeOrError`, `SentAsAsked`, `OwnMisfortune`, `OwnPeer`, `AbandonmentIsFinal`,
that every authority's session implements `OneSession`, and that the pool implements
`SharedSession` (`ClientSharesSessions`). The invariant is a conjunction over keys (`KeyInv`: a
session is made by and leads to the peer of a request of its key, its connection is busy only
while open, with one exchange over HTTP/1.1) and over requests (`ReqInv`: a request is bound to
the session of its own key, and is in its connection while it is in flight, also when it was
given up over HTTP/1.1), with `OneMaker`, that two requests never make the session of one key.
`AbandonmentIsFinal` rests on the last part of `ReqInv`: the abandoned request stays in the
connection until this closes, and over HTTP/1.1 no other gets in.

`OwnMisfortune` needs more than `IInv`, for it looks back to how a connection came to close.
`Reasons` says for each authority that a connection closed by the client spoke HTTP/1.1 and has
a request of this authority to blame: one that was abandoned or dropped, or one whose body may
be in error and that had its turn (`Tried`). It is inductive because whoever is to blame stays
so (`BlameStays`) and because a client's close takes someone out of `busy` who is
(`BlameOfClose`).

`SentAsAsked` is by induction over the headers that the caller gave: the builder holds an error as soon as
one of them did not convert, and its Content-Types are theirs in their order; then the body adds
one if there is none, and only a builder without an error gets past `Rejected`.

`PeerFitsRequest` and `RequestsReachTheirPeers` are about the same hazard, the key that has no
scheme: the first says when a pool is safe from it, the second what it can do at most. Two
requests of one authority have one host, and one port if it is written; only where the scheme
chooses the port or TLS, and only over TokioTransport, can a request go elsewhere than its URI
says.

`PoolRefinesSharedSession` and `ClientSharesSessions` meet in `SharedSession`, which lets
several requests fail in one step, because in `Client` a connection that closes fails all that
are on their way over it.

`HyperKeepsThePromise` and `EverySessionKeepsItsPromise` meet in `OneSession`: the first says
that what `Client` assumes of a session is what `HyperSender` gives, the second that the pool,
the transports and the helpers around it use it no differently.

Every safety invariant, every action property and every refinement that the runs check has a
theorem (`DialedPeer` under the hypothesis above, `PrefersH2` for TLS, `AllDataSent` for bodies
in one piece per frame). Only model-checked is the liveness (`Completes`, `CatchesUp`,
`Returns`, `Answered`, `AttemptsEnd`, `Ends`), which is beyond TLAPS.

## 5. Not modelled

- DNS, TCP, TLS and QUIC themselves, and the poll functions of the transports, which hand over
  to Tokio and Iroh. Builds without the feature `tls`, which dial an https URI in plain text.
- `H3SendStream` and `H3RecvStream`, which `h3` uses for its control streams: their functions
  are, line for line, those of `H3BidiStream`, which `H3Exchange` has. `split`, which nothing in
  `src/` calls: it would drop the bytes left in `send_buf`. The state machine of `h3` itself,
  with its GOAWAY and its errors.
- The flow-control window of HTTP/2: a hoarded body that fills it would delay others, so
  `Returns` is about bodies that fit.
- Hyper's connection pipelines a body and a response head in ways that `send_request` cannot
  see; only what it can see is modelled. In particular the body of a request is taken to have
  ended when its response is over: a server that answers in full before it has the request
  leaves an HTTP/1.1 connection that is not idle yet, and a body that fails after that would
  cost the connection in the same way as `BodyFails`, later.
- Errors of protocol on the side of the peer (a malformed response, a violation of HTTP/2 or
  HTTP/3) are counted as connections or streams that the server ends.
- UTF-8 conversion and JSON parsing: a line, or a body, is accepted or refused.
- `Middleware::wrap`, which composes functions and of which `src/` has no instance; the
  extensions and the other headers of a request, which no part reads.
- The mock streams, which do nothing.
- `retry:` of SSE, which the code ignores like any other field.

## 6. Plan

Done: 1. `SharedSession`, `SessionPool`, `Endpoint` and their proofs. 2. `LineStream` with both
parsers and its proofs. 3. `Negotiation`, `HyperSession` and its proofs. 4. `RequestBody`,
`H3Exchange`, `H3Streams` and their proofs. 5. `OneSession`, with `HyperSession` shown to
implement it. 6. `RequestBuilder` and `Client`, the composition, with H3 over a Tokio connection
among its clients, and its proofs. 7. `SequenceFolds`, and with it the proofs about frames,
lines, whole requests and headers. 8. `ItemStream`, which `LineStream` is shown to implement,
and `SharedSession` implemented by `Client`.

Left, in this order:

1. `H3Exchange` shown to implement `OneSession` over several requests, which needs h3's
   connection as an external part; then `split` and the control streams.
2. The pool of `Client` refined by `SessionPool`, so that the shards and threads are in the
   composition too.
