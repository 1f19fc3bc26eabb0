------------------------------ MODULE Huffman -------------------------------
(***************************************************************************)
(* The Huffman code of HPACK strings: src/hpack/huffman.rs.  A code is a   *)
(* sequence of bits, the accumulator of the code the bits not yet taken.   *)
(***************************************************************************)
EXTENDS Naturals, Sequences, SequencesExt

CONSTANT HUFFMAN_TABLE   \* the codes of the octets in use; 257 in the code

EOS == 256
HuffmanCode(s) == IF s = EOS THEN [i \in 1 .. 30 |-> 1] ELSE HUFFMAN_TABLE[s]

ASSUME PrefixFree ==
  LET symbols == DOMAIN HUFFMAN_TABLE \cup {EOS} IN
  /\ DOMAIN HUFFMAN_TABLE \subseteq 0 .. 255
  /\ \A s, t \in symbols : s # t => ~IsPrefix(HuffmanCode(s), HuffmanCode(t))

OctetOf(bits) == FoldLeft(LAMBDA n, b : 2 * n + b, 0, bits)
BitsOf(octet) == [i \in 1 .. 8 |-> (octet \div 2 ^ (8 - i)) % 2]

\* encoded_len
HuffmanLen(s) ==
  LET bits[n \in 0 .. Len(s)] == IF n = 0 THEN 0 ELSE bits[n - 1] + Len(HuffmanCode(s[n]))
  IN  (bits[Len(s)] + 7) \div 8

\* encode_to_vec: the codes, filled up to an octet with ones.
HuffmanEncode(s) ==
  LET bits == FlattenSeq([i \in 1 .. Len(s) |-> HuffmanCode(s[i])])
      full == bits \o [i \in 1 .. (8 - (Len(bits) % 8)) % 8 |-> 1]
  IN  [i \in 1 .. Len(full) \div 8 |-> OctetOf(SubSeq(full, 8 * i - 7, 8 * i))]

\* The symbols taken off the accumulator, as long as a code matches.
RECURSIVE TakeSymbols(_)
TakeSymbols(d) ==
  LET match == {s \in DOMAIN HUFFMAN_TABLE \cup {EOS} : IsPrefix(HuffmanCode(s), d.acc)}
      s == CHOOSE x \in match : TRUE
  IN  IF match = {} \/ d.error THEN d
      ELSE IF s = EOS THEN [d EXCEPT !.error = TRUE]
      ELSE TakeSymbols([d EXCEPT !.result = Append(@, s),
                                 !.acc = SubSeq(@, Len(HuffmanCode(s)) + 1, Len(@))])

\* decode: the symbols, and an error unless fewer than eight ones are left.
HuffmanDecode(octets) ==
  LET bits == FlattenSeq([i \in 1 .. Len(octets) |-> BitsOf(octets[i])])
      end == TakeSymbols([acc |-> bits, result |-> << >>, error |-> FALSE])
  IN  [ value |-> end.result,
        error |-> \/ end.error
                  \/ Len(end.acc) > 7
                  \/ \E i \in 1 .. Len(end.acc) : end.acc[i] = 0 ]
=============================================================================
