-------------------------------- MODULE Wire --------------------------------
(***************************************************************************)
(* One direction of a connection, from what an endpoint means to what its  *)
(* peer understands: header lists are compressed, put in frames, cut into  *)
(* the chunks of a socket, put together and expanded again; capsules take  *)
(* the same way inside DATA frames.  In the other direction only SETTINGS  *)
(* travel.  The sender is this code.  The receiver is this code too, or,   *)
(* in a setup called strict, another implementation with the same codecs   *)
(* that changes the size of its table and insists on RFC 7541 4.2.  In a   *)
(* setup called foreign the sender is another implementation: its octets   *)
(* are inputs of a run, each with what it has to be taken for.             *)
(***************************************************************************)
EXTENDS FrameCodec, Hpack, CapsuleCodec

CONSTANTS
  Setups,           \* who talks to whom: limits, sizes and how much is sent
  HeaderLists,      \* the header lists the application sends
  TableSizes,       \* the sizes a strict peer gives its table later
  Frames,           \* other frames sent through the encoder
  ForeignFrames,    \* octets of frames, what the frame decoder has to make of each,
                    \* the lists of a block, and whether it is one to refuse
  Capsules,         \* capsules sent through the encoder
  ForeignCapsules,  \* octets of a capsule, and what they have to be taken for
  MaxFragments      \* the limit of a block when no list size is set (64 MiB)

VARIABLES
  setup,      \* chosen once
  left,       \* how many operations of each kind may still happen
  sender,     \* the encoder and what is known of the peer's settings
  queue,      \* SETTINGS of the peer on their way to the sender
  out,        \* octets on their way to the receiver
  receiver,   \* decoders, settings seen, and the error that ended it all
  sent        \* what was meant, per layer

vars == << setup, left, sender, queue, out, receiver, sent >>

\* A sequence in pieces of n elements.
Pieces(s, n) ==
  [i \in 1 .. (Len(s) + n - 1) \div n |-> SubSeq(s, n * (i - 1) + 1,
                                               IF n * i < Len(s) THEN n * i ELSE Len(s))]

(***************************************************************************)
(* The sender.                                                             *)
(***************************************************************************)
HeadersFrame(id, fragment, last) ==
  [ type |-> "HEADERS", stream_id |-> id, end_stream |-> FALSE, end_headers |-> last,
    fragment |-> fragment, pad_length |-> << >> ]
ContinuationFrame(id, fragment, last) ==
  [type |-> "CONTINUATION", stream_id |-> id, end_headers |-> last, fragment |-> fragment]
DataFrame(id, data) ==
  [ type |-> "DATA", stream_id |-> id, end_stream |-> FALSE, data |-> data,
    pad_length |-> << >> ]
SettingsFrame(ack, settings) == [type |-> "SETTINGS", ack |-> ack, settings |-> settings]

\* send_frame, for each of some frames
SendFrames(frames) ==
  /\ out' = out \o FlattenSeq([i \in 1 .. Len(frames) |-> EncodeFrame(frames[i])])
  /\ sent' = [sent EXCEPT !.frames = @ \o [i \in 1 .. Len(frames) |-> Decoded(frames[i])]]

\* The size updates owed to the peer: the smallest size, and the last one.
SizeUpdates(pending) ==
  CASE pending = << >> -> << >>
    [] pending # << >> /\ pending[1] = pending[2] -> EncodeSizeUpdate(pending[2])
    [] OTHER -> EncodeSizeUpdate(pending[1]) \o EncodeSizeUpdate(pending[2])

\* send_header_block: HEADERS, and CONTINUATION when one frame is too small.
HeaderBlockFrames(id, block, max) ==
  LET p == Pieces(block, max) IN
  IF Len(block) <= max THEN << HeadersFrame(id, block, TRUE) >>
  ELSE [i \in 1 .. Len(p) |-> IF i = 1 THEN HeadersFrame(id, p[i], FALSE)
                              ELSE ContinuationFrame(id, p[i], i = Len(p))]

\* Variant: of several changes only the last one is remembered.
PendingUpdateLast(pending, old, new) == IF new = old THEN pending ELSE << new, new >>

\* The settings of the peer become known: pending_table_size_update.
PendingUpdate(pending, old, new) ==
  CASE new = old -> pending
    [] new # old /\ pending = << >> -> << new, new >>
    [] OTHER -> << IF pending[1] < new THEN pending[1] ELSE new, new >>

\* A list larger than the peer's limit, once it is known, is not sent.
ListFits(fields) ==
  LET limit == sender.remote["MaxHeaderListSize"]
  IN  limit # << >> => ListSize(fields) <= limit[1]

(***************************************************************************)
(* The receiver.                                                           *)
(***************************************************************************)
Fail(r, code) == [r EXCEPT !.failed = code]

\* check_header_block_fragment_size
FragmentLimit(r) == IF r.hpack.max_list # << >> THEN r.hpack.max_list[1] ELSE MaxFragments

\* RFC 7541 4.2, as another implementation enforces it (external): after a
\* smaller table was acknowledged a block begins with an update not above it.
UpdateMissing(r, block) ==
  LET n == DecodeInteger(block, 1, 5) IN
  /\ r.owed # << >>
  /\ block = << >> \/ block[1] \notin 32 .. 63 \/ n.value > r.owed[1]

\* The whole block is there, and d is what the decoder makes of it.
BlockComplete(r, block, d) ==
  IF d.error \/ UpdateMissing(r, block) THEN Fail(r, "COMPRESSION_ERROR")
  ELSE [r EXCEPT !.hpack.table = d.table, !.lists = Append(@, d.headers), !.owed = << >>,
                 !.block = << >>, !.continues = FALSE]

\* handle_headers and handle_continuation, as far as the block goes
HandleFragment(r, fragment, end_headers) ==
  LET block == r.block \o fragment IN
  IF (r.continues \/ ~end_headers) /\ Len(block) > FragmentLimit(r)
  THEN Fail(r, "COMPRESSION_ERROR")
  ELSE IF end_headers THEN BlockComplete(r, block, DecodeBlock(r.hpack, block))
  ELSE [r EXCEPT !.block = block, !.continues = TRUE]

\* A strict peer holds the sender to a size from its acknowledgement on
\* (external); this code has had its size from the start.
Acknowledged(r) ==
  LET size == Head(r.announced)
      least == IF r.owed # << >> /\ r.owed[1] < size THEN r.owed[1] ELSE size
      next == [r EXCEPT !.announced = Tail(@)]
  IN  IF ~setup.strict THEN next
      ELSE [next EXCEPT !.hpack.max_table_size = size,
                        !.owed = IF least < r.hpack.table.max_size THEN << least >> ELSE @]

\* WtSession::feed and process: every capsule that is complete.
RECURSIVE ReadCapsules(_, _)
ReadCapsules(r, d) ==
  LET read == [r EXCEPT !.capsules = d.decoder, !.read = Append(@, d.result)]
  IN  CASE d.result.outcome = "none" -> [r EXCEPT !.capsules = d.decoder]
        [] d.result.outcome = "capsule" -> ReadCapsules(read, DecodeCapsule(d.decoder))
        [] d.result.outcome = "error" -> [read EXCEPT !.session = "failed"]

FeedCapsules(r, data) ==
  CASE r.session # "open" -> r
    [] r.session = "open" /\ ~CanFeedCapsules(r.capsules, data) ->
         [r EXCEPT !.session = "InvalidInput"]
    [] OTHER -> LET fed == [r.capsules EXCEPT !.buffer = @ \o data]
                IN  ReadCapsules([r EXCEPT !.capsules = fed], DecodeCapsule(fed))

\* handle_frame: a block in progress is not interrupted.  What the frames do
\* to streams is the matter of Connection; what they carry goes on from here.
HandleFrame(r, f) ==
  IF \/ r.continues # (f.type = "CONTINUATION")
     \/ f.type = "CONTINUATION" /\ f.stream_id # r.last_stream
     \/ f.type = "PUSH_PROMISE"
  THEN Fail(r, "PROTOCOL_ERROR")
  ELSE
  CASE f.type \in {"HEADERS", "CONTINUATION"} ->
         HandleFragment([r EXCEPT !.last_stream = f.stream_id], f.fragment, f.end_headers)
    [] f.type = "SETTINGS" /\ f.ack -> IF r.announced = << >> THEN Fail(r, "PROTOCOL_ERROR")
                                       ELSE Acknowledged(r)
    [] f.type = "SETTINGS" /\ ~f.ack -> [r EXCEPT !.remote = FoldLeft(Apply, @, f.settings)]
    [] f.type = "DATA" -> FeedCapsules(r, f.data)
    [] OTHER -> r

\* One turn of Connection::process: a stream error ends a stream that exists
\* and the connection otherwise.
ProcessOne(r) ==
  LET d == DecodeNext(r.frames)
      next == [r EXCEPT !.frames = d.decoder]
      seen == [next EXCEPT !.outcomes = Append(@, d.result)]
      idle == d.decoder.last_decoded[1] % 2 = 0 \/ d.decoder.last_decoded[1] > r.last_stream
  IN  CASE d.result.outcome = "none" -> [next EXCEPT !.idle = TRUE]
        [] d.result.outcome = "frame" -> HandleFrame(seen, d.result.frame)
        [] d.result.outcome = "stream error" -> IF idle THEN Fail(seen, d.result.code) ELSE seen
        [] d.result.outcome = "connection error" -> Fail(seen, d.result.code)

\* process runs until the octets that are there hold no further frame.
RECURSIVE Process(_)
Process(r) == IF r.idle \/ r.failed # "none" THEN r ELSE Process(ProcessOne(r))

(***************************************************************************)
(* Init: both ends have sent their SETTINGS.  Earlier requests with an     *)
(* empty header list may have opened the streams up to setup.opened.       *)
(***************************************************************************)
LocalSettings(s) == FromLimits(s.limits)
FirstSettings(s) ==
  << [name |-> "HeaderTableSize", id |-> 1, value |-> s.peer] >>
    \o (IF s.list = << >> THEN << >>
        ELSE << [name |-> "MaxHeaderListSize", id |-> 6, value |-> s.list[1]] >>)

Init ==
  /\ setup \in {s \in Setups : CanBuild(s.limits)}
  /\ left = setup.left
  /\ sender = [ table |-> NewTable(setup.limits["HeaderTableSize"][1]),
                remote |-> DefaultSettings, pending |-> << >>,
                next_stream_id |-> setup.opened + 2,
                settled |-> FALSE ]
  /\ queue = << FirstSettings(setup) >>
  /\ LET f == SettingsFrame(FALSE, AnnouncedSettings(setup.role, LocalSettings(setup)))
     IN  /\ out = EncodeFrame(f)
         /\ sent = [ frames |-> << Decoded(f) >>, lists |-> << >>, broken |-> FALSE,
                     capsules |-> << >>, largest |-> 0 ]
  /\ receiver = [ frames |-> NewFrameDecoder(MIN_MAX_FRAME_SIZE),
                  hpack |-> NewDecoder(IF setup.strict THEN 4096 ELSE setup.peer, setup.list),
                  block |-> << >>, continues |-> FALSE, remote |-> DefaultSettings,
                  announced |-> << setup.peer >>, owed |-> << >>,
                  last_stream |-> setup.opened,
                  capsules |-> NewCapsuleDecoder(setup.buffer), session |-> "open",
                  outcomes |-> << >>, lists |-> << >>, read |-> << >>, idle |-> TRUE,
                  failed |-> "none" ]

Spend(kind) == left[kind] > 0 /\ left' = [left EXCEPT ![kind] = @ - 1]

(***************************************************************************)
(* Actions                                                                 *)
(***************************************************************************)
\* start_stream or send_response, from the size check to the frames of the block
SendHeaders ==
  /\ ~setup.foreign
  /\ Spend("lists")
  /\ sender.settled \/ setup.early
  /\ \E fields \in HeaderLists :
       LET e == Encode(sender.table, fields)
           id == sender.next_stream_id
       IN  /\ ListFits(fields)
           /\ LET frames == HeaderBlockFrames(id, SizeUpdates(sender.pending) \o e.block,
                                              sender.remote["MaxFrameSize"][1])
              IN  /\ out' = out \o FlattenSeq([i \in 1 .. Len(frames) |-> EncodeFrame(frames[i])])
                  /\ sent' = [sent EXCEPT !.lists = Append(@, fields),
                                !.frames = @ \o [i \in 1 .. Len(frames) |-> Decoded(frames[i])]]
           /\ sender' = [sender EXCEPT !.table = e.table, !.pending = << >>,
                                       !.next_stream_id = id + 2]
  /\ UNCHANGED << setup, queue, receiver >>

\* handle_settings: the table follows at once, its update with the next block.
HandleSettings ==
  /\ queue # << >>
  /\ queue' = Tail(queue)
  /\ LET remote == FoldLeft(Apply, sender.remote, Head(queue))
         new == remote["HeaderTableSize"][1]
     IN  sender' = [sender EXCEPT
                      !.remote = remote, !.settled = TRUE,
                      !.pending = PendingUpdate(@, sender.remote["HeaderTableSize"][1], new),
                      !.table = SetMaxSize(@, new)]
  /\ SendFrames(<< SettingsFrame(TRUE, << >>) >>)
  /\ UNCHANGED << setup, left, receiver >>

\* A strict peer gives its table another size (external).
PeerSettings ==
  /\ setup.strict
  /\ Spend("sizes")
  /\ \E size \in TableSizes :
       /\ queue' = Append(queue, << [name |-> "HeaderTableSize", id |-> 1, value |-> size] >>)
       /\ receiver' = [receiver EXCEPT !.announced = Append(@, size)]
  /\ UNCHANGED << setup, sender, out, sent >>

\* Any other frame, through the encoder.
SendFrame ==
  /\ ~setup.foreign
  /\ Spend("frames")
  /\ \E f \in Frames : CanEncode(f) /\ SendFrames(<< f >>)
  /\ UNCHANGED << setup, sender, queue, receiver >>

\* The octets of an encoder that is not this one.
ForeignFrame ==
  /\ setup.foreign
  /\ Spend("frames")
  /\ \E f \in ForeignFrames :
       /\ out' = out \o f.octets
       /\ sent' = [sent EXCEPT !.frames = @ \o f.expect, !.lists = @ \o f.lists,
                               !.broken = @ \/ f.broken]
  /\ UNCHANGED << setup, sender, queue, receiver >>

\* The octets of a capsule in DATA frames of any size, on the first stream.
SendCapsuleOctets(octets, expect) ==
  \E n \in setup.pieces :
    LET frames == [i \in 1 .. Len(Pieces(octets, n)) |-> DataFrame(1, Pieces(octets, n)[i])]
    IN  /\ out' = out \o FlattenSeq([i \in 1 .. Len(frames) |-> EncodeFrame(frames[i])])
        /\ sent' = [sent EXCEPT !.capsules = Append(@, expect),
                                !.largest = IF Len(octets) > @ THEN Len(octets) ELSE @,
                                !.frames = @ \o [i \in 1 .. Len(frames) |-> Decoded(frames[i])]]

SendCapsule ==
  /\ Spend("capsules")
  /\ \/ \E c \in Capsules : SendCapsuleOctets(EncodeCapsule(c), CapsuleRead(c))
     \/ \E c \in ForeignCapsules : SendCapsuleOctets(c.octets, c.expect)
  /\ UNCHANGED << setup, sender, queue, receiver >>

\* A chunk arrives: feed, then process.
Receive ==
  /\ out # << >>
  /\ receiver.failed = "none"
  /\ \E n \in setup.chunks :
       LET k == IF n < Len(out) THEN n ELSE Len(out) IN
       /\ receiver' = Process([receiver EXCEPT !.idle = FALSE,
                                   !.frames = FeedFrames(@, SubSeq(out, 1, k))])
       /\ out' = SubSeq(out, k + 1, Len(out))
  /\ UNCHANGED << setup, left, sender, queue, sent >>

Next == SendHeaders \/ HandleSettings \/ PeerSettings \/ SendFrame \/ ForeignFrame
          \/ SendCapsule \/ Receive

Spec == Init /\ [][Next]_vars

(***************************************************************************)
(* Properties                                                              *)
(***************************************************************************)
\* All that was sent has been read, and the connection stands.
Settled == out = << >> /\ receiver.failed = "none"

Table(t) ==
  /\ t.size = FoldLeft(LAMBDA n, e : n + FieldSize(e), 0, t.entries)
  /\ t.size <= t.max_size

(***************************************************************************)
(* The memory of the receiver is bounded whatever arrives: the frame       *)
(* decoder keeps less than the payload of one frame it accepted, a block   *)
(* in progress and the list made of it keep within their limits, the       *)
(* capsule decoder within its buffer (src/frame/decoder.rs:53,             *)
(* src/connection/headers.rs:977, src/webtransport/capsule.rs:353).        *)
(***************************************************************************)
TypeOK ==
  /\ setup \in Setups
  /\ \A k \in DOMAIN left : left[k] \in Nat
  /\ \A i \in 1 .. Len(out) : out[i] \in Octet
  /\ Len(receiver.frames.buf) < receiver.frames.max \/ receiver.failed # "none"
  /\ Len(receiver.block) <= FragmentLimit(receiver)
  /\ receiver.hpack.max_list # << >> =>
       \A i \in 1 .. Len(receiver.lists) :
         ListSize(receiver.lists[i]) <= receiver.hpack.max_list[1]
  /\ Len(receiver.capsules.buffer) <= receiver.capsules.max_buffer_size

(***************************************************************************)
(* Framing never loses its place: however the octets are cut into chunks,  *)
(* the decoder makes of them the frames that were meant, in order and      *)
(* unchanged, and of a malformed frame the error due; a frame that only    *)
(* costs its stream leaves the frames after it intact.                     *)
(***************************************************************************)
FramesDelivered ==
  /\ IsPrefix(receiver.outcomes, sent.frames)
  /\ Settled => receiver.outcomes = sent.frames

(***************************************************************************)
(* Header compression is lossless over the life of a connection: the lists *)
(* a receiver expands are those that were sent, in order, sensitivity      *)
(* included, across evictions, split blocks and changes of the table size, *)
(* and it objects to a block only when the block is broken                 *)
(* (src/connection.rs:1360, src/hpack/encoder.rs, src/hpack/decoder.rs).   *)
(***************************************************************************)
HeadersDelivered ==
  /\ IsPrefix(receiver.lists, sent.lists)
  /\ Settled => receiver.lists = sent.lists /\ ~sent.broken
  /\ receiver.failed = "COMPRESSION_ERROR" => sent.broken

(***************************************************************************)
(* The two dynamic tables are in step: their sizes are the sum of their    *)
(* entries and within their bounds, and when nothing is under way every    *)
(* entry the encoder may refer to is at the same index in the decoder.     *)
(***************************************************************************)
TablesAgree ==
  /\ Table(sender.table) /\ Table(receiver.hpack.table)
  /\ Settled /\ ~receiver.continues =>
       IsPrefix(sender.table.entries, receiver.hpack.table.entries)

(***************************************************************************)
(* The peer comes to know the limits this endpoint was built with, zero    *)
(* and unset values included (src/settings.rs to_settings_list, apply).    *)
(***************************************************************************)
SettingsDelivered ==
  ~setup.foreign /\ receiver.outcomes # << >> => receiver.remote = LocalSettings(setup)

(***************************************************************************)
(* Capsules survive the DATA frames and chunks they are cut into; a        *)
(* capsule in error ends the session at its place, and a session runs out  *)
(* of buffer only for a capsule larger than the buffer.                    *)
(***************************************************************************)
CapsulesDelivered ==
  /\ IsPrefix(receiver.read, sent.capsules)
  /\ Settled /\ receiver.session = "open" => receiver.read = sent.capsules
  /\ receiver.session = "failed" => Last(receiver.read).outcome = "error"
  /\ receiver.session = "InvalidInput" => sent.largest > setup.buffer
=============================================================================
