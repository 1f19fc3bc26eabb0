------------------------------- MODULE WireMC -------------------------------
(***************************************************************************)
(* Instances of Wire.  The static table has its 61 places; those a run     *)
(* does not use hold fillers.  The Huffman table has the codes of a few    *)
(* octets of RFC 7541 appendix B, the shortest and two longer than eight.  *)
(* A frame of at least 90 octets has to be accepted (16384 in the code),   *)
(* which every SETTINGS fits in and the long header of a run does not.     *)
(***************************************************************************)
EXTENDS Wire

Filler(i) == [name |-> << 0, i >>, value |-> << >>]
GET == [name |-> << 58, 109 >>, value |-> << 48 >>]      \* ":m" "0", index 2
POST == [name |-> << 58, 109 >>, value |-> << 49 >>]     \* ":m" "1", index 3
Entries == [i \in 1 .. 61 |-> CASE i = 2 -> GET [] i = 3 -> POST [] OTHER -> Filler(i)]

\* '0' '1' 'a' 'm' ':' '&' and 0, of 5, 5, 5, 6, 7, 8 and 13 bits
Codes ==
  48 :> << 0, 0, 0, 0, 0 >> @@ 49 :> << 0, 0, 0, 0, 1 >> @@ 97 :> << 0, 0, 0, 1, 1 >>
    @@ 109 :> << 1, 0, 1, 0, 0, 1 >> @@ 58 :> << 1, 0, 1, 1, 1, 0, 0 >>
    @@ 38 :> << 1, 1, 1, 1, 1, 0, 0, 0 >>
    @@ 0 :> << 1, 1, 1, 1, 1, 1, 1, 1, 1, 1, 0, 0, 0 >>

Field(n, v) == [name |-> n, value |-> v, sensitive |-> FALSE]
Secret(n, v) == [name |-> n, value |-> v, sensitive |-> TRUE]
Long == [i \in 1 .. 90 |-> 38]

\* Exact and name matches in both tables, a field that is never indexed, a
\* Huffman string, an empty one, and a field too large for a small table.
Lists == { << Field(GET.name, GET.value), Field(<< 97 >>, << 48 >>) >>,
           << Field(<< 97 >>, << 49 >>), Field(<< 97 >>, << 48 >>) >>,
           << Field(<< 0 >>, << >>), Secret(<< 97 >>, << 49, 48 >>),
              Field(GET.name, << 97, 97, 97, 97 >>) >>,
           << Field(<< 97 >>, Long), Field(<< 0 >>, Long) >> }

MCTableSizes == {0, 80}

(***************************************************************************)
(* Frames                                                                  *)
(***************************************************************************)
Code == << 0, 0, 0, 8 >>
MCFrames ==
  { [type |-> "DATA", stream_id |-> 1, end_stream |-> TRUE, data |-> << >>, pad_length |-> << 2 >>],
    [type |-> "RST_STREAM", stream_id |-> 1, error_code |-> << 255, 255, 255, 255 >>],
    [type |-> "PING", ack |-> TRUE, opaque_data |-> << 1, 2, 3, 4, 5, 6, 7, 8 >>],
    [type |-> "GOAWAY", last_stream_id |-> Cap, error_code |-> Code, debug_data |-> << 9 >>],
    [type |-> "WINDOW_UPDATE", stream_id |-> 1, increment |-> Cap],
    [type |-> "PRIORITY_UPDATE", prioritized_element_id |-> 3, priority_field_value |-> << 117 >>],
    [type |-> "Unknown", frame_type |-> 11, flags |-> 255, stream_id |-> 65536,
     payload |-> << 0, 0 >>] }

Foreign(type, flags, stream, payload, expect) ==
  [ octets |-> U24(Len(payload)) \o << type, flags >> \o stream \o payload,
    expect |-> << expect >>, lists |-> << >>, broken |-> FALSE ]
Zero == << 0, 0, 0, 0 >>
One == << 0, 0, 0, 1 >>
Reserved == << 128, 0, 0, 1 >>     \* stream 1, the reserved bit set

\* HEADERS of stream 1 that end with their frame
Block(flags, payload, fragment, pad) ==
  Foreign(1, flags, One, payload,
          Decoded([ type |-> "HEADERS", stream_id |-> 1, end_stream |-> FALSE,
                    end_headers |-> TRUE, fragment |-> fragment, pad_length |-> pad ]))
Good(fragment, list) == [Block(4, fragment, fragment, << >>) EXCEPT !.lists = << list >>]
Broken(fragment) == [Block(4, fragment, fragment, << >>) EXCEPT !.broken = TRUE]

\* A block of stream 1 in pieces that go on behind the last of them
Piece(n) == [i \in 1 .. n |-> 130]
Endless(pieces) ==
  LET frames == [i \in 1 .. Len(pieces) |-> IF i = 1 THEN HeadersFrame(1, pieces[i], FALSE)
                                            ELSE ContinuationFrame(1, pieces[i], FALSE)]
  IN  [ octets |-> FlattenSeq([i \in 1 .. Len(frames) |-> EncodeFrame(frames[i])]),
        expect |-> [i \in 1 .. Len(frames) |-> Decoded(frames[i])],
        lists |-> << >>, broken |-> FALSE ]

MCForeignFrames ==
  { \* padding and priority fields around a block
    [Block(44, << 1, 0, 0, 0, 0, 7, 130, 0 >>, << 130 >>, << 1 >>)
       EXCEPT !.lists = << << Field(GET.name, GET.value) >> >>],
    \* a literal without indexing, plain where Huffman is shorter
    Good(<< 2, 3, 97, 97, 97 >>, << Field(GET.name, << 97, 97, 97 >>) >>),
    \* an integer with a needless octet
    Good(<< 15, 128, 0, 1, 48 >>, << Field(<< 0, 15 >>, << 48 >>) >>),
    \* index 0, an index past the tables, a cut string, a bad filler, EOS,
    \* an update after a field and one above the limit, an endless integer
    Broken(<< 128 >>), Broken(<< 190 >>), Broken(<< 2, 3, 97 >>), Broken(<< 2, 129, 0 >>),
    Broken(<< 2, 132, 255, 255, 255, 255 >>), Broken(<< 130, 32 >>), Broken(<< 63, 226, 31 >>),
    Broken(<< 255, 128, 128, 128, 128, 128, 128, 128, 128, 128, 1 >>),
    \* a block as long as is allowed, and one that is an octet longer
    Endless(<< Piece(90), Piece(90), Piece(MaxFragments - 180) >>),
    [Endless(<< Piece(90), Piece(90), Piece(MaxFragments - 179) >>) EXCEPT !.broken = TRUE],
    \* stream errors
    Foreign(2, 0, One, << 0, 0, 0, 0 >>, StreamError("FRAME_SIZE_ERROR")),
    Foreign(8, 0, One, Reserved, Decoded([type |-> "WINDOW_UPDATE", stream_id |-> 1, increment |-> 1])),
    Foreign(8, 0, One, << 128, 0, 0, 0 >>, StreamError("PROTOCOL_ERROR")),
    \* connection errors
    Foreign(8, 0, Zero, Zero, ConnectionError("PROTOCOL_ERROR")),
    Foreign(8, 0, One, << 0, 0, 1 >>, ConnectionError("FRAME_SIZE_ERROR")),
    Foreign(0, 8, One, << >>, ConnectionError("FRAME_SIZE_ERROR")),
    Foreign(0, 8, One, << 3, 0, 0 >>, ConnectionError("PROTOCOL_ERROR")),
    Foreign(4, 1, Zero, << 0 >>, ConnectionError("FRAME_SIZE_ERROR")),
    Foreign(4, 0, Zero, << 0, 4, 128, 0, 0, 0 >>, ConnectionError("FLOW_CONTROL_ERROR")),
    Foreign(4, 0, Zero, << 0, 8, 0, 0, 0, 2 >>, ConnectionError("PROTOCOL_ERROR")),
    Foreign(16, 0, Zero, Zero, ConnectionError("PROTOCOL_ERROR")),
    \* longer than is allowed; the rest is still to come
    [octets |-> << 0, 1, 44, 0, 0, 0, 0, 0, 1 >> \o [i \in 1 .. 95 |-> 0],
     expect |-> << ConnectionError("FRAME_SIZE_ERROR") >>, lists |-> << >>, broken |-> FALSE],
    \* the reserved bit of a stream identifier, and frames that carry no meaning here
    Foreign(0, 0, Reserved, << >>, Decoded([type |-> "DATA", stream_id |-> 1, end_stream |-> FALSE,
                                            data |-> << >>, pad_length |-> << >>])),
    Foreign(2, 0, One, << 0, 0, 0, 0, 1 >>, Decoded([type |-> "PRIORITY", stream_id |-> 1])),
    Foreign(5, 4, One, << 0, 0, 0, 2 >>, Decoded([type |-> "PUSH_PROMISE", stream_id |-> 1])) }

(***************************************************************************)
(* Capsules                                                                *)
(***************************************************************************)
Capsule(name, numbers, data) ==
  [type |-> CapsuleType[name], numbers |-> numbers, data |-> data]
MCCapsules ==
  { Capsule("WT_STREAM", << 64 >>, << 1 >>), Capsule("WT_RESET_STREAM", << 63, 255, 16384 >>, << >>),
    Capsule("WT_MAX_DATA", << MAX_4_BYTES + 1 >>, << >>), Capsule("PADDING", << >>, << 0 >>),
    Capsule("WT_CLOSE_SESSION", << >>, << 255, 255, 255, 255, 97 >>),
    Capsule("WT_DRAIN_SESSION", << >>, << >>),
    [type |-> 63, numbers |-> << >>, data |-> << 1 >>] }

Reads(octets, name, numbers, data) ==
  [octets |-> octets, expect |-> CapsuleRead(Capsule(name, numbers, data))]
Refused(octets, kind) == [octets |-> octets, expect |-> CapsuleError(kind)]
Type(n) == EncodeVarint(CapsuleType[n])

MCForeignCapsules ==
  { \* a length in more octets than it needs, an error code of 32 bits
    Reads(Type("WT_STREAM") \o << 64, 1, 5 >>, "WT_STREAM", << 5 >>, << >>),
    Reads(Type("WT_STOP_SENDING") \o << 9, 4, 192, 0, 0, 0, 255, 255, 255, 255 >>,
          "WT_STOP_SENDING", << 4, Cap >>, << >>),
    \* one of 33 bits, octets left over, octets missing, a reason too long or not UTF-8
    Refused(Type("WT_STOP_SENDING") \o << 9, 4, 192, 0, 0, 1, 0, 0, 0, 0 >>, "SessionStateError"),
    Refused(Type("WT_MAX_DATA") \o << 2, 1, 1 >>, "CapsuleDecode"),
    Refused(Type("WT_MAX_STREAM_DATA") \o << 1, 4 >>, "Incomplete"),
    Refused(Type("WT_CLOSE_SESSION") \o << 3, 0, 0, 0 >>, "CapsuleDecode"),
    Refused(Type("WT_CLOSE_SESSION") \o << 7, 0, 0, 0, 0, 97, 97, 97 >>, "SessionStateError"),
    Refused(Type("WT_CLOSE_SESSION") \o << 5, 0, 0, 0, 0, 255 >>, "SessionStateError") }

(***************************************************************************)
(* Setups                                                                  *)
(***************************************************************************)
Limits(table) == [DefaultSettings EXCEPT !["HeaderTableSize"] = << table >>]
WtLimits ==
  [n \in DOMAIN SettingId |->
     CASE n \in WtInitial -> << SettingId[n] >>
       [] n \in Booleans -> << 1 >>
       [] n = "MaxConcurrentStreams" -> << 0 >>
       [] n = "MaxHeaderListSize" -> << Cap >>
       [] n = "MaxFrameSize" -> << MAX_MAX_FRAME_SIZE >>
       [] OTHER -> << 0 >>]
Left(lists, sizes, frames, capsules) ==
  [lists |-> lists, sizes |-> sizes, frames |-> frames, capsules |-> capsules]

Quiet == [ role |-> "client", limits |-> Limits(4096), peer |-> 4096, list |-> << >>,
           strict |-> FALSE, early |-> FALSE, foreign |-> FALSE, opened |-> 1,
           left |-> Left(0, 0, 0, 0),
           buffer |-> 100, pieces |-> {100}, chunks |-> {1000} ]

MCSetups ==
  { \* a peer that changes the size of its table twice
    [Quiet EXCEPT !.strict = TRUE, !.limits = Limits(80), !.left = Left(3, 2, 0, 0)],
    \* requests before the peer's SETTINGS are known, with the smaller table
    [Quiet EXCEPT !.early = TRUE, !.limits = Limits(40), !.peer = 80, !.left = Left(3, 0, 0, 0)],
    \* a smaller table and a list limit of the peer
    [Quiet EXCEPT !.role = "server", !.limits = Limits(4096), !.peer = 40, !.list = << 105 >>,
                  !.left = Left(3, 0, 0, 0), !.chunks = {30}],
    \* split blocks in small chunks, other frames between them
    [Quiet EXCEPT !.left = Left(2, 0, 1, 0), !.chunks = {50, 1000}],
    [Quiet EXCEPT !.limits = Limits(0), !.left = Left(0, 0, 2, 0), !.chunks = {1}],
    \* another encoder
    [Quiet EXCEPT !.foreign = TRUE, !.left = Left(0, 0, 2, 0)],
    [Quiet EXCEPT !.foreign = TRUE, !.opened = -1, !.left = Left(0, 0, 2, 0), !.chunks = {7}],
    \* WebTransport settings and capsules
    [Quiet EXCEPT !.role = "server", !.limits = WtLimits, !.left = Left(0, 0, 0, 2),
                  !.pieces = {3, 100}],
    [Quiet EXCEPT !.limits = WtLimits, !.left = Left(0, 0, 0, 2), !.buffer = 9,
                  !.pieces = {1, 100}] }
=============================================================================
