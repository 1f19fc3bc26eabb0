----------------------------- MODULE FrameCodec -----------------------------
(***************************************************************************)
(* Frames on the wire: src/frame.rs, src/frame/encoder.rs, decoder.rs,     *)
(* flags.rs.  A frame is a record; an absent padding is the empty          *)
(* sequence.  The octets are those of the code, nine of a frame header     *)
(* included.  A 32-bit error code stays four octets.                       *)
(***************************************************************************)
EXTENDS Settings

FRAME_HEADER_SIZE == 9

FrameType == [ DATA |-> 0, HEADERS |-> 1, PRIORITY |-> 2, RST_STREAM |-> 3, SETTINGS |-> 4,
               PUSH_PROMISE |-> 5, PING |-> 6, GOAWAY |-> 7, WINDOW_UPDATE |-> 8,
               CONTINUATION |-> 9, PRIORITY_UPDATE |-> 16 ]

\* FrameType::from_u8
FromU8(t) == IF \E n \in DOMAIN FrameType : FrameType[n] = t
             THEN CHOOSE n \in DOMAIN FrameType : FrameType[n] = t
             ELSE "Unknown"

END_STREAM == 1
ACK == 1
END_HEADERS == 4
PADDED == 8
PRIORITY == 32

\* FrameFlags::contains, and the flags set one by one on an empty FrameFlags.
HasFlag(flags, bit) == (flags \div bit) % 2 = 1
Flag(on, bit) == IF on THEN bit ELSE 0

(***************************************************************************)
(* FrameEncoder                                                            *)
(***************************************************************************)
EncodeHeader(length, type, flags, stream) == U24(length) \o << type, flags >> \o U32(stream)

Framed(type, flags, stream, payload) ==
  EncodeHeader(Len(payload), FrameType[type], flags, stream) \o payload

Padded(body, pad) ==
  IF pad = << >> THEN body ELSE pad \o body \o [i \in 1 .. pad[1] |-> 0]

EncodeData(f) ==
  Framed("DATA", Flag(f.end_stream, END_STREAM) + Flag(f.pad_length # << >>, PADDED),
         f.stream_id, Padded(f.data, f.pad_length))

\* priority_fields are never sent.
EncodeHeaders(f) ==
  Framed("HEADERS", Flag(f.end_stream, END_STREAM) + Flag(f.end_headers, END_HEADERS)
                      + Flag(f.pad_length # << >>, PADDED),
         f.stream_id, Padded(f.fragment, f.pad_length))

EncodeRstStream(f) == Framed("RST_STREAM", 0, f.stream_id, f.error_code)

EncodeSettings(f) ==
  Framed("SETTINGS", Flag(f.ack, ACK), 0,
         IF f.ack THEN << >>
                  ELSE FlattenSeq([i \in 1 .. Len(f.settings) |-> AsWire(f.settings[i])]))

EncodePing(f) == Framed("PING", Flag(f.ack, ACK), 0, f.opaque_data)

EncodeGoaway(f) ==
  Framed("GOAWAY", 0, 0, U32(f.last_stream_id) \o f.error_code \o f.debug_data)

EncodeWindowUpdate(f) == Framed("WINDOW_UPDATE", 0, f.stream_id, U32(f.increment))

EncodeContinuation(f) ==
  Framed("CONTINUATION", Flag(f.end_headers, END_HEADERS), f.stream_id, f.fragment)

EncodePriorityUpdate(f) ==
  Framed("PRIORITY_UPDATE", 0, 0, U32(f.prioritized_element_id) \o f.priority_field_value)

EncodeUnknown(f) ==
  EncodeHeader(Len(f.payload), f.frame_type, f.flags, f.stream_id) \o f.payload

\* encode refuses PRIORITY and PUSH_PROMISE.
CanEncode(f) == f.type \notin {"PRIORITY", "PUSH_PROMISE"}

EncodeFrame(f) ==
  CASE f.type = "DATA" -> EncodeData(f)
    [] f.type = "HEADERS" -> EncodeHeaders(f)
    [] f.type = "RST_STREAM" -> EncodeRstStream(f)
    [] f.type = "SETTINGS" -> EncodeSettings(f)
    [] f.type = "PING" -> EncodePing(f)
    [] f.type = "GOAWAY" -> EncodeGoaway(f)
    [] f.type = "WINDOW_UPDATE" -> EncodeWindowUpdate(f)
    [] f.type = "CONTINUATION" -> EncodeContinuation(f)
    [] f.type = "PRIORITY_UPDATE" -> EncodePriorityUpdate(f)
    [] f.type = "Unknown" -> EncodeUnknown(f)

(***************************************************************************)
(* decode_frame: a frame, or an error of the connection or of the stream.  *)
(***************************************************************************)
Decoded(f) == [outcome |-> "frame", frame |-> f]
ConnectionError(code) == [outcome |-> "connection error", code |-> code]
StreamError(code) == [outcome |-> "stream error", code |-> code]

DecodeHeader(o) ==
  [ length |-> o[1] * 65536 + o[2] * 256 + o[3], frame_type |-> o[4], flags |-> o[5],
    stream_id |-> U31Of(SubSeq(o, 6, 9)) ]

\* A padded payload is too short for its padding length, or for the padding.
PaddingError(h, p) ==
  CASE ~HasFlag(h.flags, PADDED) -> "none"
    [] p = << >> -> "FRAME_SIZE_ERROR"
    [] Len(p) < 1 + p[1] -> "PROTOCOL_ERROR"
    [] OTHER -> "none"

Unpadded(h, p) == IF HasFlag(h.flags, PADDED) THEN SubSeq(p, 2, Len(p) - p[1]) ELSE p
PadLength(h, p) == IF HasFlag(h.flags, PADDED) THEN << p[1] >> ELSE << >>

DecodeData(h, p) ==
  CASE h.stream_id = 0 -> ConnectionError("PROTOCOL_ERROR")
    [] PaddingError(h, p) # "none" -> ConnectionError(PaddingError(h, p))
    [] OTHER -> Decoded([ type |-> "DATA", stream_id |-> h.stream_id,
                          end_stream |-> HasFlag(h.flags, END_STREAM),
                          data |-> Unpadded(h, p), pad_length |-> PadLength(h, p) ])

\* The five octets of the priority fields are read over and forgotten.
DecodeHeaders(h, p) ==
  LET priority == HasFlag(h.flags, PRIORITY) IN
  CASE h.stream_id = 0 -> ConnectionError("PROTOCOL_ERROR")
    [] PaddingError(h, p) # "none" -> ConnectionError(PaddingError(h, p))
    [] priority /\ Len(Unpadded(h, p)) < 5 -> ConnectionError("FRAME_SIZE_ERROR")
    [] OTHER -> Decoded([ type |-> "HEADERS", stream_id |-> h.stream_id,
                          end_stream |-> HasFlag(h.flags, END_STREAM),
                          end_headers |-> HasFlag(h.flags, END_HEADERS),
                          fragment |-> SubSeq(Unpadded(h, p), IF priority THEN 6 ELSE 1,
                                              Len(Unpadded(h, p))),
                          pad_length |-> PadLength(h, p) ])

DecodePriority(h, p) ==
  CASE h.stream_id = 0 -> ConnectionError("PROTOCOL_ERROR")
    [] Len(p) # 5 -> StreamError("FRAME_SIZE_ERROR")
    [] OTHER -> Decoded([type |-> "PRIORITY", stream_id |-> h.stream_id])

DecodeRstStream(h, p) ==
  CASE h.stream_id = 0 -> ConnectionError("PROTOCOL_ERROR")
    [] Len(p) # 4 -> ConnectionError("FRAME_SIZE_ERROR")
    [] OTHER -> Decoded([type |-> "RST_STREAM", stream_id |-> h.stream_id, error_code |-> p])

\* The first parameter of a bad value decides the error.
DecodeSettings(h, p) ==
  LET ack == HasFlag(h.flags, ACK)
      n == Len(p) \div 6
      id(i) == p[6 * i - 5] * 256 + p[6 * i - 4]
      value(i) == SubSeq(p, 6 * i - 3, 6 * i)
      bad == {i \in 1 .. n : FromWireError(id(i), value(i)) # "none"}
      first == CHOOSE i \in bad : \A j \in bad : i <= j
  IN  CASE h.stream_id # 0 -> ConnectionError("PROTOCOL_ERROR")
        [] ack /\ p # << >> -> ConnectionError("FRAME_SIZE_ERROR")
        [] ~ack /\ Len(p) % 6 # 0 -> ConnectionError("FRAME_SIZE_ERROR")
        [] bad # {} -> ConnectionError(FromWireError(id(first), value(first)))
        [] OTHER -> Decoded([ type |-> "SETTINGS", ack |-> ack,
                              settings |-> [i \in 1 .. n |-> FromWire(id(i), value(i))] ])

DecodePing(h, p) ==
  CASE h.stream_id # 0 -> ConnectionError("PROTOCOL_ERROR")
    [] Len(p) # 8 -> ConnectionError("FRAME_SIZE_ERROR")
    [] OTHER -> Decoded([type |-> "PING", ack |-> HasFlag(h.flags, ACK), opaque_data |-> p])

DecodeGoaway(h, p) ==
  CASE h.stream_id # 0 -> ConnectionError("PROTOCOL_ERROR")
    [] Len(p) < 8 -> ConnectionError("FRAME_SIZE_ERROR")
    [] OTHER -> Decoded([ type |-> "GOAWAY", last_stream_id |-> U31Of(p),
                          error_code |-> SubSeq(p, 5, 8), debug_data |-> SubSeq(p, 9, Len(p)) ])

DecodeWindowUpdate(h, p) ==
  CASE Len(p) # 4 -> ConnectionError("FRAME_SIZE_ERROR")
    [] U31Of(p) = 0 /\ h.stream_id = 0 -> ConnectionError("PROTOCOL_ERROR")
    [] U31Of(p) = 0 -> StreamError("PROTOCOL_ERROR")
    [] OTHER -> Decoded([ type |-> "WINDOW_UPDATE", stream_id |-> h.stream_id,
                          increment |-> U31Of(p) ])

DecodeContinuation(h, p) ==
  IF h.stream_id = 0 THEN ConnectionError("PROTOCOL_ERROR")
  ELSE Decoded([ type |-> "CONTINUATION", stream_id |-> h.stream_id,
                 end_headers |-> HasFlag(h.flags, END_HEADERS), fragment |-> p ])

DecodePushPromise(h, p) ==
  IF h.stream_id = 0 THEN ConnectionError("PROTOCOL_ERROR")
  ELSE Decoded([type |-> "PUSH_PROMISE", stream_id |-> h.stream_id])

DecodePriorityUpdate(h, p) ==
  CASE h.stream_id # 0 -> ConnectionError("PROTOCOL_ERROR")
    [] Len(p) < 4 -> ConnectionError("FRAME_SIZE_ERROR")
    [] U31Of(p) = 0 -> ConnectionError("PROTOCOL_ERROR")
    [] OTHER -> Decoded([ type |-> "PRIORITY_UPDATE", prioritized_element_id |-> U31Of(p),
                          priority_field_value |-> SubSeq(p, 5, Len(p)) ])

DecodeUnknown(h, p) ==
  Decoded([ type |-> "Unknown", frame_type |-> h.frame_type, flags |-> h.flags,
            stream_id |-> h.stream_id, payload |-> p ])

DecodeFrame(h, p) ==
  LET type == FromU8(h.frame_type) IN
  CASE type = "DATA" -> DecodeData(h, p)
    [] type = "HEADERS" -> DecodeHeaders(h, p)
    [] type = "PRIORITY" -> DecodePriority(h, p)
    [] type = "RST_STREAM" -> DecodeRstStream(h, p)
    [] type = "SETTINGS" -> DecodeSettings(h, p)
    [] type = "PUSH_PROMISE" -> DecodePushPromise(h, p)
    [] type = "PING" -> DecodePing(h, p)
    [] type = "GOAWAY" -> DecodeGoaway(h, p)
    [] type = "WINDOW_UPDATE" -> DecodeWindowUpdate(h, p)
    [] type = "CONTINUATION" -> DecodeContinuation(h, p)
    [] type = "PRIORITY_UPDATE" -> DecodePriorityUpdate(h, p)
    [] OTHER -> DecodeUnknown(h, p)

(***************************************************************************)
(* FrameDecoder: the octets not yet decoded and, once its nine octets are  *)
(* there, the header of the frame whose payload is awaited.                *)
(***************************************************************************)
NewFrameDecoder(max) ==
  [buf |-> << >>, current_header |-> << >>, last_decoded |-> << >>, max |-> max]

FeedFrames(d, octets) == [d EXCEPT !.buf = @ \o octets]

\* The header has been read, or its octets have arrived.
HeaderKnown(d) == d.current_header # << >> \/ Len(d.buf) >= FRAME_HEADER_SIZE

NeedMore(d) == [decoder |-> d, result |-> [outcome |-> "none"]]

\* Variant: the header is read again when the payload is not there yet.
DecodePayloadForgetful(d, h) ==
  IF Len(d.buf) < h.length THEN NeedMore(d)
  ELSE [ decoder |-> [d EXCEPT !.current_header = << >>, !.last_decoded = << h.stream_id >>,
                               !.buf = SubSeq(@, h.length + 1, Len(@))],
         result |-> DecodeFrame(h, SubSeq(d.buf, 1, h.length)) ]

DecodePayload(d, h) ==
  IF Len(d.buf) < h.length
  THEN NeedMore([d EXCEPT !.current_header = << h >>])
  ELSE [ decoder |-> [d EXCEPT !.current_header = << >>, !.last_decoded = << h.stream_id >>,
                               !.buf = SubSeq(@, h.length + 1, Len(@))],
         result |-> DecodeFrame(h, SubSeq(d.buf, 1, h.length)) ]

\* Variant: a frame of any length is waited for.
DecodeNextUnlimited(d) ==
  IF d.current_header # << >> THEN DecodePayload(d, d.current_header[1])
  ELSE IF ~HeaderKnown(d) THEN NeedMore(d)
  ELSE DecodePayload([d EXCEPT !.buf = SubSeq(@, FRAME_HEADER_SIZE + 1, Len(@))],
                     DecodeHeader(SubSeq(d.buf, 1, FRAME_HEADER_SIZE)))

\* One call of decode.
DecodeNext(d) ==
  IF d.current_header # << >> THEN DecodePayload(d, d.current_header[1])
  ELSE IF ~HeaderKnown(d) THEN NeedMore(d)
  ELSE LET h == DecodeHeader(SubSeq(d.buf, 1, FRAME_HEADER_SIZE)) IN
       IF h.length > d.max
       THEN [decoder |-> d, result |-> ConnectionError("FRAME_SIZE_ERROR")]
       ELSE DecodePayload([d EXCEPT !.buf = SubSeq(@, FRAME_HEADER_SIZE + 1, Len(@))], h)
=============================================================================
