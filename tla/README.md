# A TLA+ development for http2-rs

http2-rs is a Sans-I/O implementation of HTTP/2 (RFC 9113) and of WebTransport
over HTTP/2, with an async driver for tokio. This directory models it, checks
the model with TLC and proves most of the properties with TLAPS.

## The system

| Component | State | Operations | Hard behaviour |
|---|---|---|---|
| `Connection` (`src/connection.rs`) | connection state, stream map, closed-stream memory, windows, settings, identifiers, header block in progress | public API (`start_stream`, `send_data`, `reset_stream`, `send_goaway`, ...) and one handler per frame type | calls of the application between two frames of the peer; frames on streams that are gone; several ways to end a stream |
| Header blocks (`src/connection/headers.rs`) | four fields kept between HEADERS and CONTINUATION | `send_response`, `send_trailers`, `handle_headers`, `handle_continuation`, `process_headers` | decisions made at HEADERS and used at CONTINUATION |
| Stream, state machine, send buffer (`src/stream.rs`, `src/stream/`) | the RFC 9113 state, windows, queued data, pending END_STREAM, content-length, CONNECT | transitions | END_STREAM asked for while data is queued |
| Flow control (`src/flow_control.rs`) | send and receive window, `i64` | consume, update, change of the initial window | negative windows, the bound 2^31-1 |
| Closed-stream memory (`src/bounded_set.rs`) | at most 10000 identifiers | insert with eviction of the smallest | a stream forgotten too early |
| Settings, limits (`src/settings.rs`, `src/limits.rs`) | local and remote values | `apply`, builders | values that change while streams are open |
| Frame codec (`src/frame*`) | partial input, header of the frame in progress | encode, decode | input in pieces; errors that cost a stream and must leave the next frame intact |
| HPACK (`src/hpack*`) | two dynamic tables | encode, decode, size update | two tables that have to stay equal over evictions and several size changes |
| Validation (`src/validation.rs`, `src/syntax.rs`) | none | predicates on header lists | - |
| WebTransport session (`src/webtransport.rs`, `stream.rs`, `flow_control.rs`, `bounded_map.rs`) | session state, streams, absolute maxima of bytes and streams, record of closed streams | session API, one handler per capsule | capsules of both ends cross; a limit that does not grow and a capsule on a stream in the wrong state end the session |
| WebTransport wire formats (`src/webtransport/capsule.rs`, `varint.rs`, `init.rs`, `protocols.rs`, `exporter.rs`) | buffer of the decoder | encode, decode, parse | capsules cut by DATA frames, bounded buffer |
| tokio-http2 (`crates/tokio-http2/src/connection.rs`, ...) | socket, the connection | `send_data`, `flush`, `next_event` | futures dropped while they wait |
| WebTransport driver (`crates/tokio-http2/src/webtransport.rs`) | session, connection, command channel, a channel for each stream, books of streams | `accept`, commands, events, `recv` | tasks, channels, cancellation, the end of either side |
| nghttp2 crates (`crates/*nghttp2*`) | - | comparison with another implementation | - |

The library itself runs no thread. `feed` hands bytes to the decoder, `process`
decodes and handles one frame after another, every handler appends frames to
`output_buffer` and events to a queue, and the caller drains both. What is
concurrent is the world around it: the peer's frames and the application's
calls meet in any order. The driver adds tasks: one owns connection and session
and selects between commands of the others and events of the socket. Nothing is
persisted, no message is lost or reordered
(TCP) and there is no timer, so crash recovery, retransmission and timeouts do
not occur in this code.

What makes it correct, component by component: a stream ends once, is reported
once and leaves the map in the same call; queued data is sent as soon as both
windows admit it and END_STREAM follows the last octet; windows stay in range
and what is taken from the connection's window is reported; a header block is
handled as one unit whatever happens between its frames; limits and GOAWAY
promises hold for streams that were being opened when they were made. What one
end encodes the other decodes, however it is cut on the way, and their tables
agree. Two WebTransport sessions that use the API never fail each other, agree on
every credit, and give each stream to the application as a reliable pipe. The
driver loses no output while it runs, renews credit and answers every command.

## Modules

| Module | Models |
|---|---|
| `FlowControl` | window arithmetic of `flow_control.rs`; `MaxWindow` is 2^31-1 |
| `StreamState` | transitions of `stream/state.rs` |
| `ConnectionCore` | the fields of `struct Connection` and `struct Stream` as variables, `Connection::new`, stream map, closed-stream memory, reset, flush, connection errors |
| `ConnectionHeaders` | `connection/headers.rs` |
| `Connection` | the public API, the frame handlers, `Next`, `Spec`, the type invariant and the invariants of the connection |
| `ConnectionMonitor` | history variables over the frames written and the events reported, and the properties that need them |
| `ConnectionMC` | values for the runs |
| `Sums` | the sum of a sequence of numbers, for totals of events and of capsules |
| `ConnectionProofs` | types, live streams, queued data; open and closed streams, last-stream-id, the limit on streams; the events against the stream table |
| `WindowProofs` | ranges of the windows, the account of the receive window |
| `OutputProofs` | the frames against the stream table; first SETTINGS, GOAWAY, tunnels, content-length |
| `WtSessionProofs` | one session: its types, and what each call and each capsule does to a stream |
| `WtAgreementProofs` | two sessions and the capsules between them: agreement on all credit lasts, and with it neither refuses what the other sends |
| `WtPairProofs` | `WtPair`: types, StreamOpened, the refinement of `BytePipe`, agreement |
| `WtDriverProofs` | `WtDriver`: types, no capsule is lost, Close reaches the client; the books of the driver, the credit it renews |
| `SumProofs` | induction, and facts about sums |
| `Octets`, `Settings`, `FrameCodec` | numbers as octets; SETTINGS, from limits to the list that is sent and back; frames to the octet, and the decoder with its partial input |
| `Huffman`, `Hpack` | strings, integers, tables, representations, size updates |
| `CapsuleCodec` | varints and capsules to the octet |
| `Wire`, `WireMC` | one direction of a connection through all codecs |
| `WtStream`, `WtFlowControl`, `WtSession` | a WebTransport session as a record; an operation is a predicate (the call returns `Ok`) and the session it leaves |
| `WtEnds` | what `WtPair` and `WtDriver` share: identifiers, the types of capsules, events and sessions, what the ends may announce |
| `WtConfig` | SETTINGS and WebTransport-Init turned into limits, and the refusals of `accept` |
| `BytePipe` | abstract: what the application is promised of each direction of a stream |
| `WtPair`, `WtPairMC` | two sessions, two applications, the CONNECT stream between them |
| `WtDriver`, `WtDriverMC` | driver task, application tasks, a client with a `WtSession` of its own |

`Connection` and `Wire` divide `connection.rs` between them: `Connection` has streams,
windows and the order of frames, with a header block as a record; `Wire` has the
octets, with streams reduced to identifiers. `WtPair` and `WtDriver` both use
`WtSession`, and `WtDriver` uses of HTTP/2 what the driver can observe of it.

One step is one call of the public API or the handling of one frame, whole:
`process` handles a frame to its end before it returns or takes the next one.
A call that returns `Err` without having changed anything is no step, so the
conditions for `Ok` are the guards. The exceptions are modelled:
`AnnounceSettings` writes SETTINGS and then fails if the WINDOW_UPDATE is
refused, which no run reaches with its windows; that the receive window stays in range
then too is part of `WindowsStayInRange`.

A connection error sets `failed`. The documented reaction (`src/error.rs`,
`ErrorKind::ConnectionError`) is to send GOAWAY and close, so after it only
`send_goaway` happens; it reads nothing that a failing handler may have changed
half-way.

Data is abstracted to what the code tells apart. A header block is a record of
whether it has pseudo-header fields, whether validation accepts it, its method
or status class, and its content-length. The two checks of `start_stream` that look at
more than that (the size of the list, and SETTINGS_WT_ENABLED for `:protocol = webtransport`)
only refuse a request, without a change of state: the requests of the model are the ones
they let pass. The first is modelled in `Wire` (`ListFits`). Buffers are lengths. All DATA frames of
one flush are one frame. The order in which `flush_all_stream_data` visits the
`HashMap` is arbitrary; `FlushAll` allows every result such an order can have:
each stream is served fully until the connection window is used up.

In `Wire` a step sends something, or hands a chunk of octets to `feed` and runs
`process` until it needs more. The sender is this code, with every size a setup of
the run gives it; the receiver is this code or a strict implementation that
changes its table size and insists on the updates of RFC 7541 Section 4.2. A
foreign sender is a set of octet strings, each with what it has to be taken for.
Numbers above 2^31-1 are one value (`Cap`), except where the code tells them
apart (an error code of 33 bits is recognised by its octets).

In `WtPair` a step is one call of the API, one capsule handled, or one event polled.
Bytes are numbered by the writer, so that the reader's sequence can be compared
with what was written. `written`, `ended`, `read` and `seen` are what the applications
did and were told; under them `WtPair` is mapped to `BytePipe`.

In `WtDriver` a step is one turn of the loop (a command with its flush, or the DATA
of several capsules with all events and all credit that follow), one call of a
task, or one step of the client. `select!` is biased, so events are taken when no
command waits. The send buffer of the CONNECT stream and both HTTP/2 windows are
counted in capsules. A turn that fails in the middle ends the driver and leaves the streams
the packets it had dispatched until then. Dropping `next_event` while `write_all` waits is possible when
`SlowSocket` is TRUE.

### Environment

- The peer of `Connection` sends any frame on any identifier, in particular malformed blocks,
  frames the decoder refuses and frames on closed streams. The one restriction
  is on a server as the peer of a client: it uses no odd identifier the client
  has not started, since it cannot open streams.
- The application calls operations on streams it knows of, and `send_response`
  on a server only.
- `feed` gives a server's decoder nothing before the client preface is complete.
- The caller drains output and events after each call, as `tokio-http2` does. No
  operation reads either, so `VIEW View` leaves them out of the fingerprint of a
  state. The action properties that mention them are about the primed values,
  which every step determines anew.
- The applications of `WtPair` use any operation their plan has, in any order, and
  poll events late; they do not reset a stream of their own they have sent nothing
  on unless `ResetFresh`, and do not send an empty capsule without FIN unless `SendEmpty`
  (see Observations). A session that has failed is not used.
- The client of `WtDriver` keeps to the API of its session, may leave at any time,
  and returns HTTP/2 window for what it has read.

## Runs

The first five runs use `ConnectionMC` with the specification `MonitoredSpec`: `Spec`
and the history variables, which restrict no step. Windows are at most 3 and
buffers at most 2 octets, so that each window, the buffer and the difference of two
windows are at, below and above every bound within a few steps. Two streams are
enough for one to take window from the other and for one to be closed while the
other is open; three where a limit has to be passed.

TLC counts `MonitoredNext`, a conjunction, as one action. Running the passing
instances under `Spec`, whose disjuncts it counts one by one (`-coverage 1`), shows
each of them taken; the rarest, PING and the handshake, several hundred times.

| Run | Question | Instance |
|---|---|---|
| `server_flow` | Is queued data ever stranded, lost or sent after the end? | 2 streams, SETTINGS moving the initial window between 0 and 2, WINDOW_UPDATE, resets |
| `server_headers` | Do split, malformed and refused blocks leave the connection consistent? | 3 streams, limit 1, blocks of up to 3 frames, CONNECT, GOAWAY both ways |
| `server_body` | Is every octet accounted for, every stream ended once, also when closed streams are forgotten? | 2 streams, DATA of 0..2, content-length 0 or 2, a memory of one closed stream, GOAWAY sent |
| `client_streams` | What may a client start after a GOAWAY? | 2 streams, GET and CONNECT |
| `client_methods` | What may a response contain, depending on the request? | 1 stream, all methods, 1xx/200/204, PING and a second SETTINGS, a connection window that the first SETTINGS raise |
| `wt_pair` | Do two sessions ever fail each other or disagree, and is a stream a pipe? | five plans: a bidirectional stream opened by either end that both may end in every way, credit of all kinds with two streams, a unidirectional stream that may also end by a FIN without data, the end of the session; initial credit 1, grown to 2; at most 3 capsules and 3 events outstanding in a direction; limits from SETTINGS or WebTransport-Init |
| `wt_driver` | Does the driver keep its books, its output and its promises? | four plans, up to four tasks with one call each, send buffer 1, HTTP/2 window 2, initial credit 1 |
| `wire` | Does what is meant arrive? | nine setups: a table changed twice to 0 or 80 around three blocks, requests before SETTINGS, a table of 40, a list limit, blocks of two frames in chunks of 50, frames octet by octet, foreign frames, good and malformed, in pairs, among them a header block of just the size allowed and one of an octet more, WebTransport settings at their extremes, capsules in pieces of 1 and 3 with buffers of 9 and 100 |

Sizes in `wire` are scaled: a frame of 90 octets has to be accepted (16384 in the code), a
block of 200 may accumulate when no list size is set (64 MiB),
and an HPACK entry has its true size of 32 and its strings, so that 40 holds one
entry, 80 two and the longest none. Credit 1 in the WebTransport runs is the edge
of every rounding, and 2 lets a limit grow once while an older one is in flight. A
record of closed streams of 5 (6 in `wt_driver`) is never exceeded: what an eviction
there does is a known limitation of the code (`webtransport.rs:1542`).

### Properties

In `Connection`: `TypeOK`; `LiveStreams` (no Closed entry stays in the map);
`QueuedDataSendable` and `NoStalledData` (queued data is sendable and waits for
window only); `WindowsInRange`; `TableConsistent`; `ConcurrencyBound`; `GoawayCoversStreams`.

In `ConnectionMonitor`: `NoFramesAfterEnd`, `NothingAfterFinish`,
`LifecycleReported`, `StateMatchesWire` (state machine and wire agree on which
streams this side has ended), `ContentLengthHolds`, `WindowAccounting` (the
receive window is short by exactly what events reported), `TunnelCarriesData`,
`SettingsComeFirst`, `NoStreamAfterGoaway`, `NoRequestAfterGoaway`.

In `Wire`: `FramesDelivered`, `HeadersDelivered`, `TablesAgree`, `SettingsDelivered`,
`CapsulesDelivered`, and a `TypeOK` that bounds what a receiver keeps.

In `WtPair`: `NoSessionError` (no end refuses what the other may send),
`CreditAgreement` and `StreamAgreement` (the view of the sender, followed by the
announcements in flight, rises to the limit the receiver enforces; offsets differ
by what is in flight), `OpenedFirst`, `ImplementsPipe` (the refinement of `BytePipe`),
and the liveness properties `EndsSeen` and `StopAnswered`.

In `WtDriver`: `BooksAgree`, `Replenished`, `CapsulesIntact`, `PeersAgree`, `CloseDelivered`,
and the liveness properties `CommandsAnswered` and `NotStarved`.

### Fairness

`WtPair` assumes weak fairness of handling the next capsule and of polling the next
event, for each end: whoever holds a session feeds and polls it, and the CONNECT
stream delivers. Nothing is assumed of the operations of the applications.
`WtDriver` assumes that the runtime polls the driver (a command is taken; an event is
taken when no command waits), that the socket makes progress, and that the client
reads and returns HTTP/2 window. Tasks and the client's own operations are free to
stop. In both, a session that ends ends the obligation. The connection alone
promises no liveness without a peer that grants window, so its specification has no
fairness; neither has `Wire`, whose properties say what holds when everything sent
has been read.

`wt_pair`, `wt_driver` and `wire` do not check for deadlock: their applications may have
nothing left to do. Every run of `ConnectionMC` does; `send_goaway` is possible even after
a connection error.

### Where code and comments disagree

Each of these runs states what a comment says and TLC shows a behaviour of the
code against it.

| Run | What happens |
|---|---|
| `goaway_crossed` | The server sends GOAWAY, the peer's GOAWAY arrives and replaces `GoawaySent`; a new stream is accepted. |
| `trailers_length` | Trailers end a message that is shorter than its content-length. |
| `driver_recv_none` | The client resets the CONNECT stream in the middle of a stream: `recv` returns `Ok(None)`, documented as FIN. |
| `driver_cancelled` | A command arrives while `next_event` waits in `write_all`: the chunk it had taken from the output is gone and the driver goes on, inside a capsule. |

The passing runs that check the same properties leave out the one ingredient
that breaks them, and say in which circumstances the property does hold:
`server_body` has GOAWAY sent but neither received nor inside a split block;
`client_methods` has no trailers; `client_streams` has GOAWAY received but not sent;
`server_flow` sends GOAWAY in answer to an error only and has no decoder errors
inside a block; `wt_driver` has a socket that takes what it is given.

#### Observations

Met on the way, with no run of their own:

- GOAWAY received, then `send_goaway`: `start_stream` succeeds again, because one
  field records both (`NoRequestAfterGoaway` fails in `client_streams` with `"sent"` in
  `Goaways`; `connection.rs:970`).
- `send_goaway` before the peer's SETTINGS leaves `WaitingPreface`; the first frame is then
  not required to be SETTINGS (`SettingsComeFirst` fails with both kinds of GOAWAY).
- A frame the decoder refuses inside a header block leads to RST_STREAM, the block goes
  on and its CONTINUATION opens the stream (`connection.rs:446`; `StateMatchesWire` fails
  with `Fragments` and `BadFrames`).
- HEADERS, `send_goaway`, CONTINUATION: the stream is opened although the GOAWAY in
  between announced a smaller last-stream-id (`NoStreamAfterGoaway` fails in
  `server_body` as soon as `Fragments` is not empty).
- A stream evicted from the memory of closed streams while its split block is in
  progress is created anew by the CONTINUATION (`headers.rs:286`).
- The branch of `handle_continuation` for closed streams is reached with
  `connect_established_headers_received` set when the application resets a tunnel
  inside a block, although `headers.rs` (line 864) calls that unreachable. The branch
  clears the flag, so nothing follows.
- `send_response` accepts a 1xx response after the final one.
- The comment on `check_header_block_fragment_size` says that a block is not examined when
  SETTINGS_MAX_HEADER_LIST_SIZE is unset (`headers.rs:986`); the code falls back to 64 MiB,
  as line 991 has it, and so does `FragmentLimit` of `Wire`.
- The HPACK encoder starts with the local table size (`connection.rs:227`). A client
  built with a table larger than the server's decoder that sends requests before the
  server's SETTINGS refers to entries the server has evicted: the setup of `wire` with
  early requests violates `TablesAgree` when its two sizes are exchanged. Nor is the
  server's limit on header lists known by then.
- A reset of a stream nothing was sent on: the other end does not know the stream and
  `handle_capsule` refuses WT_RESET_STREAM for unknown streams, so the session fails
  (`NoSessionError` fails in `wt_pair` with `ResetFresh`; `webtransport.rs:1136`).
- `send_stream_data` with no data and no FIN after earlier data writes a capsule the
  other end refuses (`webtransport.rs:1411`); `SendEmpty` allows it, the runs do not. FIN without
  data is accepted and is in `wt_pair`.
- `WtSessionParts.driver` is documented as aborting the driver when dropped
  (`crates/tokio-http2/src/webtransport.rs:549`). Dropping a `JoinHandle` detaches the task,
  and the sender the driver keeps for new streams holds its channel open, so the driver
  runs on.
- `peer_closed_bidi_count` counts streams whose receiving direction has ended, not streams
  that are closed (`crates/tokio-http2/src/webtransport.rs:883`): a client may be allowed new
  streams while the server is still sending on the old ones.

## Proofs

Everything in this section holds for all values of the constants that satisfy the
assumptions in the modules: any number of streams, any sizes of windows, buffers and of
the memory of closed streams, any limit, any set of inputs. `SizeAssumption` and
`MaxWindowAssumption` say that sizes are naturals and that no window exceeds the positive
`MaxWindow`; `InputAssumption` gives the inputs their types.
`WtPairAssumption` and `LimitsAssumption` do the same for `WtPair`, `WtDriverAssumption` and `PlansAssumption` for
`WtDriver`: configured limits fit their SETTINGS or structured field, and the plan of a task consists of
commands. `IdsAssumption` says that the finite set of stream identifiers is closed downwards
within a type, `ExtrasAssumption` that extra capsules are padding, unknown ones and blocked notices, and
`AbsentAssumption` that the `None` of a session is no session. Some theorems have a hypothesis of
their own. The list below says what goes wrong in the code without it.

Every safety property of `Connection`, `ConnectionMonitor` and `WtPair` that a run checks is a theorem, and
all but one of those of `WtDriver`.

| Theorem | Establishes | Hypothesis |
|---|---|---|
| `TypeCorrect`, `ClosedStreamsLeave`, `QueuedDataIsSendable`, `QueuedDataAwaitsWindow` | `TypeOK`, `LiveStreams`, `QueuedDataSendable`, `NoStalledData` | |
| `TableStaysConsistent`, `GoawayCovers`, `ConcurrencyBounded` | `TableConsistent`, `GoawayCoversStreams`, `ConcurrencyBound` | |
| `WindowsStayInRange` | `WindowsInRange` | |
| `NoneIsOverpaid` | window and debt stay within the initial window, with any padding | |
| `WindowIsAccountedFor` | `WindowAccounting` | no padding |
| `LifecycleIsReported`, `NothingFollowsTheEnd` | `LifecycleReported`, `NothingAfterFinish` | `[]Remembered` |
| `StatesMatchTheWire`, `NothingIsSentAfterTheEnd` | `StateMatchesWire`, `NoFramesAfterEnd` | `[]EndsRemembered` |
| `UnsplitBlocksAreRemembered`, `UnsplitEndsAreRemembered` | the two conditions above | a server, no split header blocks |
| `FewStreamsAreRemembered`, `FewEndsAreRemembered` | the two conditions above, and that the memory is the set of ended streams | `[]FewEnded`; for the second, no decoder errors |
| `SettingsAlwaysComeFirst` | `SettingsComeFirst` | GOAWAYs do not cross |
| `OnlyTheBlockInProgress` | after GOAWAY a server opens at most the stream of the block in progress | no GOAWAY received |
| `NoStreamFollowsGoaway` | `NoStreamAfterGoaway` | no split blocks, no GOAWAY received |
| `NoRequestFollowsGoaway` | `NoRequestAfterGoaway` | GOAWAY is sent in answer to an error only, `[]FewEnded` |
| `TunnelsCarryData` | `TunnelCarriesData` | |
| `AnnouncedLengthHolds` | `ContentLengthHolds` | no trailers |
| `PairTypeCorrect` | `TypeOK` of `WtPair` | |
| `StreamsOpenedFirst` | `OpenedFirst` | `Few` |
| `PairImplementsPipes` | `ImplementsPipe` | `Few` |
| `NeitherEndFails` | `NoSessionError` | `Few`, `Courteous` |
| `EndsAgreeOnCredit`, `EndsAgreeOnStreams` | `CreditAgreement`, `StreamAgreement` | `Few`, `Courteous` |
| `DriverTypeCorrect` | `TypeOK` of `WtDriver` | |
| `NoCapsuleLost` | `CapsulesIntact` | `~SlowSocket` |
| `CloseReachesClient` | `CloseDelivered` | |
| `BooksStayInStep` | `BooksAgree` | `Few` |
| `CreditIsRenewed` | `Replenished` | `Few` |

### The hypotheses

- `Remembered` and `EndsRemembered` say that the stream a header block is for has not been
  pushed out of the memory of closed streams after its end; a stream that has been is created
  anew (`headers.rs:286`). They are conditions on the state, so the theorems come with two
  sufficient ones: a peer that does not split header blocks (then `last_recv_stream_id`
  protects a server, however small its memory), or no more ended streams than
  `CLOSED_STREAMS_MAX_SIZE` (`FewEnded`), which also covers clients and split blocks.
- `BadFrames = {}` in `FewEndsAreRemembered`: a frame the decoder refuses inside a header block is
  answered by RST_STREAM on the stream of the block, which the block then opens
  (`connection.rs:446`).
- `~GoawaysCross` and the two hypotheses on `Goaways`: GOAWAY sent and GOAWAY received share
  one field, and the later one replaces the earlier (`connection.rs:1430`, run `goaway_crossed`).
- `Fragments = {}` in `NoStreamFollowsGoaway`: `handle_continuation` does not look at the state again
  (`headers.rs:826`); `OnlyTheBlockInProgress` says exactly what is left without it.
- No trailers in `AnnouncedLengthHolds`: trailers end a message of any length
  (`headers.rs:641`, run `trailers_length`).
- `Pads \subseteq {0}` in `WindowIsAccountedFor`: `DataReceived` does not report padding
  (`connection.rs:1106`).
- `Few` in the theorems on `WtPair` and `WtDriver`: no more stream identifiers are in use than
  `STREAM_ID_RECORD_MAX_SIZE`. Beyond it the record of closed streams forgets the lowest
  identifier, and a late capsule for it, or one for a higher identifier of its type, creates
  the stream and reports it opened again. The comment at `webtransport.rs:1542` names this a
  known limitation.
  `wt_pair` and `wt_driver` satisfy `Few`.
- `Courteous`: `~ResetFresh`, `~SendEmpty`, and of the extra capsules no STREAM_DATA_BLOCKED
  and no STREAMS_BLOCKED beyond the limit. Each is something `handle_capsule` of the other end
  refuses: WT_RESET_STREAM of a stream it has not heard of (`webtransport.rs:1136`), a WT_STREAM
  with no data and no FIN after data (`webtransport.rs:1411`), WT_STREAM_DATA_BLOCKED for a
  stream it does not know; `NoSessionError` is false without it. `wt_pair` satisfies it. The other
  two theorems have it because the proof of the agreement goes through the fact that
  nothing is refused. TLC found no violation of them without it, in the part of a larger
  instance it explored, so for those two it may be more than is needed.
- `~SlowSocket` in `NoCapsuleLost`: `select!` drops `next_event` for a command while it waits in
  `write_all`, and the chunk it had taken is gone (run `driver_cancelled`).

### The argument

`ConnectionProofs`. None of `LiveStreams`, `QueuedDataSendable` and `NoStalledData` is inductive
alone. A flush leaves no Closed entry behind only if END_STREAM was pending behind sendable
data; data stays sendable when a frame arrives only if the stream's state is one of three; a
flush ends at an exhausted window only if buffer and windows are numbers. Their conjunction
with `TypeOK` is inductive. The proof writes it as `RestType /\ TableInv`, where `TableInv` says of
each record in the stream map that it is `Good`, because most actions touch one record. There
is one lemma for each kind of change of the table, one for each operation, and `NextHolds` for
a step. The heart of it is `FlushedFacts` and `FlushSizeFacts`: what a flush takes and what it
leaves. `FlushAllKeeps` does not need the order in which streams are visited, only that the
connection window is used up or every stream got what its own window admits. All other
theorems use `RestType /\ TableInv` as a known invariant.

For the stream table `ConnectionProofs` reduces each operation to its effect on two sets, the open streams and the
remembered ones, and proves `Bookkeeping` from the effects: the sets are disjoint, nothing in
them is beyond the counters, and the identifier of a block in progress is not beyond
`last_recv_stream_id`. The limit on streams needs a slot for the stream whose block is in
progress: `SlotsInv` has the cardinality of the map, the slot (`SlotReserved`), and the bound on the
memory of closed streams (`Trimmed`), whose eviction may forget that very stream.

`WindowProofs`: `WindowsInRange` is inductive relative to the types, because it bounds a stream's
send window from below by the initial window less `MaxWindow`, which a change of the initial
window moves along. The account of the receive window (`Covered`, `WindowAccounting`) follows from what
each operation consumes and what its events report. The sum over the events of a step is a
recursive function; `SumProofs` has the facts about it.

The last part of `ConnectionProofs` and the first of `OutputProofs` are about histories. `LifeInv` ties the streams whose end was
reported to the map and the memory; `WireInv` ties the streams whose END_STREAM or RST_STREAM was
written to the half-closed states. Both are proved from a summary of what each operation
reports and writes. `Numbered` (nothing was ended that was not opened), `UnsplitInv`, `UnsplitEnds` and
`EndsKnown` serve the sufficient conditions.

The second part of `OutputProofs` follows the state of the connection: `BeforeSettings` (an untouched endpoint until
the first SETTINGS), `SentPhase` and `ReceivedPhase` (which state a GOAWAY leaves), and
`AllAccounted` for a client after GOAWAY.

`WtSessionProofs` has what the three modules after it need of a session, and no specification:
`Sessions` is closed under every call and every capsule, and each is reduced to its effect on the
views below.

`WtPairProofs`. `PairType` gives every session and every capsule on the wire its type and is
inductive alone; `PairTypeCorrect` follows. The rest works per stream. A session is seen through a
few predicates on one identifier (`Sending`, `Sent`, `Receiving`, `Remembered`), and each call of the API and
each accepted capsule is reduced to its effect on them. `StepsOf` sorts every step into one of
six kinds: a call without data, data, a reset, a capsule taken, a capsule refused, an event
polled. `PairInv` adds `AllTold`: the stream of every queued event is remembered, its StreamOpened
is its first event, and a stream of the peer that is not remembered is untouched, with no
event and nothing read. That is where `Few` is needed, since a stream that can be forgotten can be
opened twice. For the refinement the bytes of a pipe are in three places: on the wire, in
the reader's events, and read. `Queue` says of the first two that each item starts where the one
before ends and that nothing follows an end; `PipeFlow` joins them to `read` and `written` while
the reader's session is alive, and `PipeBase` says what remains true when it is not. `StepPipes` maps
each kind of step to a step of `BytePipe` or to none. The numbers of bytes are sums over
sequences of capsules, and the identifiers `create_peer_streams_up_to` walks are a recursive
function; both are reasoned about by induction.

`WtAgreementProofs`. None of the three properties is inductive, and they need each other: a capsule
is accepted because the limits agree, and the limits stay in agreement because nothing was
refused. `Agreement` has one formula for a direction, `Toward(a, b, W)`, with the capsules `W` from `a` on
their way to `b`. `Always` holds even when a session is closed: what `a` goes by is within what
`b` enforces, for the session (`Bounds`) and each stream (`StreamBound`), and `b` knows no stream of `a` that
`a` has not opened. `Hears` holds while `b` is open. `Flow` and `CreditAgrees` say that the
announcements in `W` rise from the view of one end to the limit of the other; `DataAgrees` that the
bytes received and on their way are the bytes sent and within the limit, that nothing is
on its way for a direction that has ended, and that a reset carries the size the receiver
will have counted; `StopAgrees` that WT_STOP_SENDING comes once and no credit after it, which
is what keeps a late WT_MAX_STREAM_DATA from being refused; `AllNamed` that every capsule is about
a stream its sender knows. The order of data and resets on the wire comes from the pipe
invariant (`PipesInOrder`). `NothingRefused` proves acceptance from `Toward`, capsule by capsule. Each
call appends to `W` and each capsule taken removes its head, so a step is proved for an
unnamed direction, and again for the opposite one, before it is put back into the pair.
A stream that was closed and removed keeps its last send maximum, and the views cover
that case: credit may be on its way for a stream that is gone at either end.
TLC checked `Agreement` as an invariant of the instance of `wt_pair` before it was proved.

`WtDriverProofs`. A turn of the driver is a composition of loops: capsules, the events they leave,
credit for every stream, the output cut into the send buffer. Each loop is a recursive function in the model. The
proofs treat it as a sequence of states of which each is one turn after the one before
(`Processes`, `Dispatches`, `Flushes`), and an invariant of the turn becomes one of the loop by induction.
`HandleCmdCases`, `HandleDataCases` and `ClientReceiveCases` then say what a whole step may amount to, so that the
invariants are proved from a few outcomes: the driver goes on, or it ends with this or
that on its way. `TypeInv` is inductive alone. It needs more than `TypeOK`: that what waits in the queue
and on the way is made of capsules and the marks of the HTTP/2 stream, that the capsules on their way, those
the client has not returned window for and the window itself fit together (`Budget`), and that the client's session exists exactly after its response. `IntactInv`
counts capsules over the phases before there is a driver, since the session writes nothing until
it is accepted. `CloseInv` follows the answer of a Close: only a driver that ends can have given it (`NoneClosed` before),
and from then on capsule and END_STREAM are in `to_client`, in this order, until the client takes them (`Delivery`).

`BooksAgree` and `Replenished` hold between two turns, and inside a turn they do not: the session has
taken a capsule, and the driver learns of it from an event it dispatches later. `Booked(Q, s, C, S, x)` is what
holds there of stream `x`: the channels `C` and the stopped streams `S` lag behind the session
`s` by the StreamOpened, FIN and reset in the queue `Q`, and each of these is in it once and in
order. `Stocked` says the same of credit: what was received is within what was granted, and half of the
first credit is left unless data of the stream waits in `Q`. `Audit` is both for all streams. A
capsule (`AuditProcess`), an event dispatched, the credit given at the end of a turn and each command
preserve it. When the turn is over the queue is empty, the entries say exactly what the
properties say, and `Settled` adds the credit of the session and of new streams.
`Few` is needed for the order of the events: a forgotten stream could be opened and ended
a second time, out of step with what the driver has in its books.

Facts about recursive functions are proved by induction. `SetInduction` in `SumProofs` states the
principle for a set of naturals, and derives it from the well-foundedness of `<`; in this form
it has no operator parameter and the provers can use it.

### Only model-checked

- Liveness (`EndsSeen`, `StopAnswered`, `CommandsAnswered`, `NotStarved`): fairness is out of the prover's
  reach.
- `Wire`: `Huffman`, `Hpack` and `Wire` use RECURSIVE operators, for evictions and for loops over
  input.
- `PeersAgree` of `WtDriver`: it needs the agreement of `WtAgreementProofs` between the session of the driver
  and that of the client, with the capsules of one direction spread over the output of a turn,
  the send buffer, the write in progress and the socket.

## Not modelled

The character-level rules of header validation and of structured fields
(`validation.rs`, `syntax.rs`, `protocols.rs`, the grammar in `init.rs`) are pure functions
over strings: a model would repeat them. What they decide is in the models (a block
is valid or not, a key of WebTransport-Init is an integer or not). The keying
material exporter, TLS, connecting and listening are I/O or a library's. The 257
Huffman codes and 61 static entries are data of which an instance has a few. Of
the peer's SETTINGS the check that `NO_RFC7540_PRIORITIES` stays the same is left out.
The bindings to nghttp2 and the crates around them are generated or foreign code for
comparison, and the example programs show use. Error texts, builders and getters have
no behaviour of their own.

## Plan

1. Done: the endpoint, its properties, the first theorems.
2. Done: the WebTransport session, two ends of it, its refinement of a byte pipe.
3. Done: the driver with its tasks; the codecs and HPACK.
4. Done: every property of the endpoint as a theorem.
5. Done: types, StreamOpened, the refinement of `BytePipe`, agreement on credit and acceptance for
   two WebTransport sessions; types, output, Close, books and credit of the driver.
6. Two `Connection`s joined by their frames: conservation of HTTP/2 window, and liveness
   of queued data under fairness of an application that returns it.
