-------------------------------- MODULE Sums --------------------------------
(* Sums of sequences of numbers, for the totals that compare what one side *)
(* has counted with what is on its way to the other.                       *)
EXTENDS Integers, Sequences

(* The sums of the first 0, 1, ..., Len(s) numbers of s.                   *)
PartialSums(s) ==
  LET sum[n \in 0 .. Len(s)] == IF n = 0 THEN 0 ELSE sum[n - 1] + s[n]
  IN  sum

SumOf(s) == PartialSums(s)[Len(s)]
=============================================================================
