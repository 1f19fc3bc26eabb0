---------------------------- MODULE CapsuleCodec ----------------------------
(***************************************************************************)
(* Capsules on the wire: src/webtransport/capsule.rs and varint.rs.  A     *)
(* number of the code above Cap is Cap here; whether it passes 32 bits, on *)
(* which an error code depends, is read off its octets.                    *)
(***************************************************************************)
EXTENDS Octets, SequencesExt

CONSTANT MAX_CLOSE_REASON_LEN   \* 1024 in the code

(***************************************************************************)
(* varint.rs: one, two, four or eight octets, the first two bits say which. *)
(***************************************************************************)
MAX_1_BYTE == 63
MAX_2_BYTES == 16383
MAX_4_BYTES == 1073741823

EncodeVarint(n) ==
  CASE n <= MAX_1_BYTE -> << n >>
    [] n \in MAX_1_BYTE + 1 .. MAX_2_BYTES -> U16(16384 + n)
    [] n \in MAX_2_BYTES + 1 .. MAX_4_BYTES -> << 128 + U32(n)[1] >> \o Tail(U32(n))
    [] OTHER -> << 192, 0, 0, 0 >> \o U32(n)

VarintLen(first) == << 1, 2, 4, 8 >>[(first \div 64) + 1]

\* The number at an offset and the offset after it; its octets may be missing.
DecodeVarint(o, at) ==
  LET first == o[at] % 64
      len == VarintLen(o[at])
      high == len = 8 /\ (first # 0 \/ \E i \in at + 1 .. at + 3 : o[i] # 0)
  IN  IF at > Len(o) THEN [value |-> 0, next |-> at, incomplete |-> TRUE, wide |-> FALSE]
      ELSE IF Len(o) < at + len - 1
      THEN [value |-> 0, next |-> at, incomplete |-> TRUE, wide |-> FALSE]
      ELSE [ value |-> CASE len = 1 -> first
                         [] len = 2 -> first * 256 + o[at + 1]
                         [] len = 4 -> U32Of(<< first >> \o SubSeq(o, at + 1, at + 3))
                         [] OTHER -> IF high THEN Cap ELSE U32Of(SubSeq(o, at + 4, at + 7)),
             next |-> at + len, incomplete |-> FALSE, wide |-> high ]

(***************************************************************************)
(* capsule_type, and the fields that make up the value of each capsule.    *)
(***************************************************************************)
CapsuleType ==
  [ DATAGRAM |-> 0, PADDING |-> 420171064, WT_RESET_STREAM |-> 420171065,
    WT_STOP_SENDING |-> 420171066, WT_STREAM_FIN |-> 420171067, WT_STREAM |-> 420171068,
    WT_MAX_DATA |-> 420171069, WT_MAX_STREAM_DATA |-> 420171070,
    WT_MAX_STREAMS_BIDI |-> 420171071, WT_MAX_STREAMS_UNI |-> 420171072,
    WT_DATA_BLOCKED |-> 420171073, WT_STREAM_DATA_BLOCKED |-> 420171074,
    WT_STREAMS_BLOCKED_BIDI |-> 420171075, WT_STREAMS_BLOCKED_UNI |-> 420171076,
    WT_CLOSE_SESSION |-> 10307, WT_DRAIN_SESSION |-> 30894 ]

CapsuleNames == DOMAIN CapsuleType
Fields(name) ==
  CASE name = "WT_RESET_STREAM" -> << "stream_id", "error_code", "reliable_size" >>
    [] name = "WT_STOP_SENDING" -> << "stream_id", "error_code" >>
    [] name \in {"WT_MAX_STREAM_DATA", "WT_STREAM_DATA_BLOCKED"} -> << "stream_id", "maximum" >>
    [] name \in {"WT_STREAM", "WT_STREAM_FIN"} -> << "stream_id" >>
    [] name \in {"WT_MAX_DATA", "WT_MAX_STREAMS_BIDI", "WT_MAX_STREAMS_UNI", "WT_DATA_BLOCKED",
                 "WT_STREAMS_BLOCKED_BIDI", "WT_STREAMS_BLOCKED_UNI"} -> << "maximum" >>
    [] OTHER -> << >>

\* The capsules that end with octets of their own.
HasData == {"DATAGRAM", "WT_STREAM", "WT_STREAM_FIN", "Unknown"}

(***************************************************************************)
(* CapsuleEncoder::encode.  A capsule is its type, its numbers in order    *)
(* and its data; the data of WT_CLOSE_SESSION are the four octets of the   *)
(* error code and the reason, of PADDING zeros.                            *)
(***************************************************************************)
CapsulePayload(c) ==
  FlattenSeq([i \in 1 .. Len(c.numbers) |-> EncodeVarint(c.numbers[i])]) \o c.data

EncodeCapsule(c) ==
  EncodeVarint(c.type) \o EncodeVarint(Len(CapsulePayload(c))) \o CapsulePayload(c)

(***************************************************************************)
(* CapsuleDecoder                                                          *)
(***************************************************************************)
CapsuleRead(c) == [outcome |-> "capsule", capsule |-> c]
CapsuleError(kind) == [outcome |-> "error", kind |-> kind]

\* String::from_utf8, external: the reasons of a run are ASCII or not UTF-8.
IsUtf8(s) == \A i \in 1 .. Len(s) : s[i] < 128

\* The value is read field by field, and the first thing wrong with it decides.
DecodeNumbers(name, p) ==
  LET fields == Fields(name)
      step(r, field) ==
        LET n == DecodeVarint(p, r.at) IN
        CASE r.error # "none" -> r
          [] r.error = "none" /\ n.incomplete -> [r EXCEPT !.error = "Incomplete"]
          [] r.error = "none" /\ field = "error_code" /\ n.wide ->
               [r EXCEPT !.error = "SessionStateError"]
          [] OTHER -> [r EXCEPT !.numbers = Append(@, n.value), !.at = n.next]
  IN  FoldLeft(step, [numbers |-> << >>, at |-> 1, error |-> "none"], fields)

DecodeCloseSession(p) ==
  CASE Len(p) < 4 -> CapsuleError("CapsuleDecode")
    [] Len(p) >= 4 /\ Len(p) - 4 > MAX_CLOSE_REASON_LEN -> CapsuleError("SessionStateError")
    [] Len(p) > 4 /\ ~IsUtf8(SubSeq(p, 5, Len(p))) -> CapsuleError("SessionStateError")
    [] OTHER -> CapsuleRead([ type |-> CapsuleType["WT_CLOSE_SESSION"], numbers |-> << >>,
                              data |-> p ])

DecodeCapsulePayload(type, p) ==
  LET named == {n \in CapsuleNames : CapsuleType[n] = type}
      name == IF named = {} THEN "Unknown" ELSE CHOOSE n \in named : TRUE
      r == DecodeNumbers(name, p)
      rest == SubSeq(p, r.at, Len(p))
  IN  CASE name = "WT_CLOSE_SESSION" -> DecodeCloseSession(p)
        [] name = "PADDING" ->
             CapsuleRead([type |-> type, numbers |-> << >>, data |-> [i \in 1 .. Len(p) |-> 0]])
        [] name \notin {"WT_CLOSE_SESSION", "PADDING"} /\ r.error # "none" -> CapsuleError(r.error)
        [] name \notin HasData \cup {"WT_CLOSE_SESSION", "PADDING"} /\ r.error = "none"
             /\ rest # << >> -> CapsuleError("CapsuleDecode")
        [] OTHER -> CapsuleRead([type |-> type, numbers |-> r.numbers, data |-> rest])

NewCapsuleDecoder(max) == [buffer |-> << >>, max_buffer_size |-> max]

CanFeedCapsules(d, octets) == Len(octets) <= d.max_buffer_size - Len(d.buffer)

\* Variant: the type and the length are dropped before the value has come.
DecodeCapsuleEager(d) ==
  LET type == DecodeVarint(d.buffer, 1)
      length == DecodeVarint(d.buffer, type.next)
      rest == SubSeq(d.buffer, length.next, Len(d.buffer))
      more == [decoder |-> d, result |-> [outcome |-> "none"]]
  IN  IF d.buffer = << >> \/ type.incomplete \/ length.incomplete THEN more
      ELSE IF Len(rest) < length.value THEN [more EXCEPT !.decoder.buffer = rest]
      ELSE [ decoder |-> [d EXCEPT !.buffer = SubSeq(rest, length.value + 1, Len(rest))],
             result |-> DecodeCapsulePayload(type.value, SubSeq(rest, 1, length.value)) ]

\* One call of decode: an incomplete type, length or value waits for more;
\* what cannot be decoded stays in the buffer.
DecodeCapsule(d) ==
  LET type == DecodeVarint(d.buffer, 1)
      length == DecodeVarint(d.buffer, type.next)
      end == length.next + length.value - 1
      result == DecodeCapsulePayload(type.value, SubSeq(d.buffer, length.next, end))
      more == [decoder |-> d, result |-> [outcome |-> "none"]]
  IN  IF d.buffer = << >> \/ type.incomplete \/ length.incomplete THEN more
      ELSE IF Len(d.buffer) + 1 - length.next < length.value THEN more
      ELSE [ decoder |-> IF result.outcome = "error" THEN d
                         ELSE [d EXCEPT !.buffer = SubSeq(@, end + 1, Len(@))],
             result |-> result ]
=============================================================================
