------------------------------- MODULE Hpack --------------------------------
(***************************************************************************)
(* Header compression: src/hpack/{table,dynamic_table,integer,encoder,     *)
(* decoder}.rs.  A header field is a name and a value, sequences of        *)
(* octets, and whether it is sensitive.                                    *)
(***************************************************************************)
EXTENDS Huffman, FiniteSets

CONSTANTS STATIC_TABLE,   \* the static table, 61 entries of a name and a value
          IntegerCap      \* an integer above this is this one (2^64 in the code)

ASSUME IntegerCapAssumption == IntegerCap \in Nat

STATIC_TABLE_SIZE == Len(STATIC_TABLE)

FieldSize(f) == Len(f.name) + Len(f.value) + 32

\* calculate_header_list_size
ListSize(fields) == FoldLeft(LAMBDA n, f : n + FieldSize(f), 0, fields)

(***************************************************************************)
(* DynamicTable: the entries, the newest first.  The field "size" of the   *)
(* code is kept, not computed, and so it is here.                          *)
(***************************************************************************)
NewTable(max) == [entries |-> << >>, size |-> 0, max_size |-> max]

\* The oldest entries go until "room" more octets fit.
RECURSIVE EvictFor(_, _)
EvictFor(t, room) ==
  IF t.size + room <= t.max_size \/ t.entries = << >> THEN t
  ELSE EvictFor([t EXCEPT !.entries = Front(@), !.size = @ - FieldSize(Last(t.entries))], room)

SetMaxSize(t, max) == EvictFor([t EXCEPT !.max_size = max], 0)

\* insert_entry: an entry larger than the table empties it.
Insert(t, f) ==
  LET entry == [name |-> f.name, value |-> f.value] IN
  IF FieldSize(f) > t.max_size THEN [t EXCEPT !.entries = << >>, !.size = 0]
  ELSE LET evicted == EvictFor(t, FieldSize(f))
       IN  [evicted EXCEPT !.entries = << entry >> \o @, !.size = @ + FieldSize(f)]

\* find, find_static_index: the first entry equal to the field, or else the
\* first of its name.
FindIn(entries, f) ==
  LET named == {i \in 1 .. Len(entries) : entries[i].name = f.name}
      exact == {i \in named : entries[i].value = f.value}
      least(S) == CHOOSE i \in S : \A j \in S : i <= j
  IN  CASE exact # {} -> [index |-> least(exact), exact |-> TRUE]
        [] named # {} -> [index |-> least(named), exact |-> FALSE]
        [] OTHER -> [index |-> 0, exact |-> FALSE]

(***************************************************************************)
(* Integers with a prefix of some bits, and strings.                       *)
(***************************************************************************)
Continued[n \in Nat] ==
  IF n >= 128 THEN << 128 + (n % 128) >> \o Continued[n \div 128] ELSE << n >>

EncodeInteger(n, bits, pattern) ==
  LET max == (2 ^ bits) - 1
  IN  IF n < max THEN << pattern + n >> ELSE << pattern + max >> \o Continued[n - max]

Saturated(n) == IF n > IntegerCap THEN IntegerCap ELSE n

\* The value at an offset, the offset after it, and whether it was cut off or
\* too long: a tenth octet of continuation is an overflow.
DecodeInteger(o, at, bits) ==
  LET max == (2 ^ bits) - 1
      first == o[at] % (2 ^ bits)
      last == {i \in at + 1 .. Len(o) : o[i] < 128}
      end == CHOOSE i \in last : \A j \in last : i <= j
      \* the sum of the continuation octets, from the last one back to the first
      sum[i \in at + 1 .. end + 1] ==
        IF i = end + 1 THEN 0 ELSE Saturated((o[i] % 128) + 128 * sum[i + 1])
      bad == [value |-> 0, next |-> at, error |-> TRUE]
  IN  CASE at > Len(o) -> bad
        [] at <= Len(o) /\ first < max -> [value |-> first, next |-> at + 1, error |-> FALSE]
        [] at <= Len(o) /\ first = max /\ (last = {} \/ end > at + 9) -> bad
        [] OTHER -> [value |-> Saturated(max + sum[at + 1]), next |-> end + 1, error |-> FALSE]

\* encode_string: the Huffman code when it is shorter.
EncodeString(s) ==
  IF HuffmanLen(s) < Len(s) THEN EncodeInteger(HuffmanLen(s), 7, 128) \o HuffmanEncode(s)
                            ELSE EncodeInteger(Len(s), 7, 0) \o s

DecodeString(o, at) ==
  LET n == DecodeInteger(o, at, 7)
      body == SubSeq(o, n.next, n.next + n.value - 1)
      plain == [value |-> body, next |-> n.next + n.value, error |-> FALSE]
      bad == [value |-> << >>, next |-> at, error |-> TRUE]
  IN  IF at > Len(o) \/ n.error THEN bad
      ELSE IF Len(o) < n.next - 1 + n.value THEN bad
      ELSE IF o[at] < 128 THEN plain
      ELSE [plain EXCEPT !.value = HuffmanDecode(body).value, !.error = HuffmanDecode(body).error]

(***************************************************************************)
(* Encoder                                                                 *)
(***************************************************************************)
FindIndex(t, f) ==
  LET static == FindIn(STATIC_TABLE, f)
      dynamic == FindIn(t.entries, f)
      shifted == [dynamic EXCEPT !.index = STATIC_TABLE_SIZE + @]
  IN  CASE static.exact -> static
        [] dynamic.exact -> shifted
        [] static.index # 0 -> static
        [] dynamic.index # 0 -> shifted
        [] OTHER -> static

\* A literal: the index of its name, or the name itself, and the value.
Literal(f, index, bits, pattern) ==
  EncodeInteger(index, bits, pattern)
    \o (IF index = 0 THEN EncodeString(f.name) ELSE << >>)
    \o EncodeString(f.value)

\* encode_header, encode_header_sensitive
EncodeField(e, f) ==
  LET found == FindIndex(e.table, f) IN
  CASE f.sensitive -> [e EXCEPT !.block = @ \o Literal(f, found.index, 4, 16)]
    [] ~f.sensitive /\ found.exact -> [e EXCEPT !.block = @ \o EncodeInteger(found.index, 7, 128)]
    [] OTHER -> [e EXCEPT !.block = @ \o Literal(f, found.index, 6, 64),
                          !.table = Insert(@, f)]

Encode(t, fields) == FoldLeft(EncodeField, [table |-> t, block |-> << >>], fields)

EncodeSizeUpdate(n) == EncodeInteger(n, 5, 32)

(***************************************************************************)
(* Decoder: the table, the largest size its owner allows, and the largest  *)
(* header list, if there is one.                                           *)
(***************************************************************************)
NewDecoder(max, list) == [table |-> NewTable(max), max_table_size |-> max, max_list |-> list]

\* get_header_by_index
HeaderAt(t, i) ==
  IF i <= STATIC_TABLE_SIZE THEN STATIC_TABLE[i] ELSE t.entries[i - STATIC_TABLE_SIZE]
HasIndex(t, i) == i \in 1 .. STATIC_TABLE_SIZE + Len(t.entries)

Failed(r) == [r EXCEPT !.error = TRUE]

\* A field goes into the list unless the list grows too large.
AddField(r, f, next) ==
  LET size == r.list_size + FieldSize(f)
      added == [r EXCEPT !.headers = Append(@, f), !.list_size = size, !.offset = next,
                         !.seen_header = TRUE]
  IN  IF r.max_list # << >> /\ size > r.max_list[1] THEN Failed(r) ELSE added

DecodeIndexed(r, o) ==
  LET n == DecodeInteger(o, r.offset, 7)
      entry == HeaderAt(r.table, n.value)
  IN  IF n.error \/ ~HasIndex(r.table, n.value) THEN Failed(r)
      ELSE AddField(r, [name |-> entry.name, value |-> entry.value, sensitive |-> FALSE], n.next)

\* The name of a literal: a string of its own, or that of an entry.
LiteralName(r, o, n) ==
  CASE n.error \/ (n.value # 0 /\ ~HasIndex(r.table, n.value)) -> [n EXCEPT !.error = TRUE]
    [] ~n.error /\ n.value = 0 -> DecodeString(o, n.next)
    [] OTHER -> [value |-> HeaderAt(r.table, n.value).name, next |-> n.next, error |-> FALSE]

AddLiteral(r, name, value, sensitive, indexing) ==
  LET f == [name |-> name.value, value |-> value.value, sensitive |-> sensitive]
  IN  IF name.error \/ value.error THEN Failed(r)
      ELSE AddField([r EXCEPT !.table = IF indexing THEN Insert(@, f) ELSE @], f, value.next)

\* decode_literal_indexed, decode_literal, decode_literal_never_indexed
DecodeLiteral(r, o, bits, sensitive, indexing) ==
  LET With(name) == AddLiteral(r, name, DecodeString(o, name.next), sensitive, indexing)
  IN  With(LiteralName(r, o, DecodeInteger(o, r.offset, bits)))

DecodeSizeUpdate(r, o) ==
  LET n == DecodeInteger(o, r.offset, 5) IN
  IF r.seen_header \/ n.error \/ n.value > r.max_table_size THEN Failed(r)
  ELSE [r EXCEPT !.table = SetMaxSize(@, n.value), !.offset = n.next]

\* Variant: a literal that is never indexed enters the table.
DecodeItemIndexing(r, o) ==
  LET first == o[r.offset] IN
  CASE first >= 128 -> DecodeIndexed(r, o)
    [] first \in 32 .. 63 -> DecodeSizeUpdate(r, o)
    [] OTHER -> DecodeLiteral(r, o, IF first >= 64 THEN 6 ELSE 4, first \in 16 .. 31, first >= 16)

\* One turn of the loop of decode.
DecodeItem(r, o) ==
  LET first == o[r.offset] IN
  CASE first >= 128 -> DecodeIndexed(r, o)
    [] first \in 64 .. 127 -> DecodeLiteral(r, o, 6, FALSE, TRUE)
    [] first \in 32 .. 63 -> DecodeSizeUpdate(r, o)
    [] first \in 16 .. 31 -> DecodeLiteral(r, o, 4, TRUE, FALSE)
    [] OTHER -> DecodeLiteral(r, o, 4, FALSE, FALSE)

RECURSIVE DecodeItems(_, _)
DecodeItems(r, o) ==
  IF r.error \/ r.offset > Len(o) THEN r ELSE DecodeItems(DecodeItem(r, o), o)

\* decode: the table, the list and whether there was an error.
DecodeBlock(d, o) ==
  DecodeItems([ table |-> d.table, max_table_size |-> d.max_table_size,
                max_list |-> d.max_list, headers |-> << >>, list_size |-> 0,
                offset |-> 1, seen_header |-> FALSE, error |-> FALSE ], o)
=============================================================================
