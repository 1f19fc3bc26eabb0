------------------------------- MODULE Octets -------------------------------
(***************************************************************************)
(* Numbers as big-endian octets.  A 32-bit value on the wire is four       *)
(* octets; as a number it saturates at Cap, so that every value of the     *)
(* code above Cap is one value here.                                       *)
(***************************************************************************)
EXTENDS Naturals, Sequences

Octet == 0 .. 255
Cap == 2147483647

\* The big-endian octets of a 16, 24, 31 and 32 bit number (at most Cap).
U16(n) == << n \div 256, n % 256 >>
U24(n) == << n \div 65536, (n \div 256) % 256, n % 256 >>
U32(n) == << n \div 16777216, (n \div 65536) % 256, (n \div 256) % 256, n % 256 >>

\* The number four octets stand for without and with the reserved bit.
U31Of(o) == (o[1] % 128) * 16777216 + o[2] * 65536 + o[3] * 256 + o[4]
U32Of(o) == IF o[1] >= 128 THEN Cap ELSE U31Of(o)
=============================================================================
