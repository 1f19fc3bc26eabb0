----------------------------- MODULE SumProofs ------------------------------
(***************************************************************************)
(* What the sum of a sequence is after an element was appended or taken    *)
(* away.  SumOf is defined by a recursive function, so these are facts by  *)
(* induction.  The induction principle is stated for sets of numbers       *)
(* (SetInduction) and rests on the well-foundedness of < on the naturals:  *)
(* in that form it is first-order.                                         *)
(***************************************************************************)
EXTENDS Sums, SequenceTheorems, WellFoundedInduction, TLAPS

(* A set of naturals that contains 0 and every successor contains all.     *)
LEMMA SetInduction ==
  ASSUME NEW S, 0 \in S, \A n \in Nat : n \in S => n + 1 \in S
  PROVE  Nat \subseteq S
<1> DEFINE R == OpToRel(<, Nat)
           T == Nat \ S
<1>1. SUFFICES ASSUME T # {} PROVE FALSE
  BY DEF T
<1>2. IsWellFoundedOn(R, Nat)
  BY NatLessThanWellFounded
<1>3. T \subseteq Nat
  OBVIOUS
<1> HIDE DEF R, T
<1>4. PICK x \in T : \A y \in T : <<y, x>> \notin R
  BY <1>1, <1>2, <1>3, WFMin
<1>5. x \in Nat /\ x # 0 /\ x - 1 \in Nat /\ x - 1 \notin S
  BY <1>4 DEF T
<1>6. <<x - 1, x>> \in R
  BY <1>5 DEF R, OpToRel
<1> QED BY <1>4, <1>5, <1>6 DEF T

(* f holds the sums of the first 0, 1, ..., n numbers of s.                 *)
Accumulates(f, s, n) ==
  /\ f \in [0 .. n -> Int]
  /\ f[0] = 0
  /\ \A m \in 1 .. n : f[m] = f[m - 1] + s[m]

(* There are partial sums up to every place of a sequence.                 *)
LEMMA SumsExist ==
  ASSUME NEW s \in Seq(Int), NEW n \in 0 .. Len(s)
  PROVE  \E f : Accumulates(f, s, n)
<1> DEFINE S == {k \in Nat : k <= Len(s) => \E f : Accumulates(f, s, k)}
<1>0. Len(s) \in Nat
  OBVIOUS
<1>1. 0 \in S
  <2>1. Accumulates([m \in 0 .. 0 |-> 0], s, 0)
    BY DEF Accumulates
  <2> QED BY <2>1
<1>2. ASSUME NEW k \in Nat, k \in S PROVE k + 1 \in S
  <2>1. SUFFICES ASSUME k + 1 <= Len(s) PROVE \E f : Accumulates(f, s, k + 1)
    OBVIOUS
  <2>2. PICK f : Accumulates(f, s, k)
    BY <1>0, <1>2, <2>1
  <2> DEFINE g == [m \in 0 .. k + 1 |-> IF m = k + 1 THEN f[k] + s[k + 1] ELSE f[m]]
  <2>3. s[k + 1] \in Int /\ f[k] \in Int
    BY <1>0, <2>1, <2>2 DEF Accumulates
  <2>4. g \in [0 .. k + 1 -> Int] /\ g[0] = 0
    BY <2>2, <2>3 DEF Accumulates
  <2>5. ASSUME NEW m \in 1 .. k + 1 PROVE g[m] = g[m - 1] + s[m]
    <3>1. CASE m = k + 1
      BY <3>1
    <3>2. CASE m # k + 1
      <4>1. m \in 1 .. k /\ m \in 0 .. k + 1 /\ m - 1 \in 0 .. k + 1
        BY <3>2
      <4>2. g[m] = f[m] /\ g[m - 1] = f[m - 1]
        BY <3>2, <4>1
      <4> QED BY <2>2, <4>1, <4>2 DEF Accumulates
    <3> QED BY <3>1, <3>2
  <2>6. Accumulates(g, s, k + 1)
    BY <2>4, <2>5 DEF Accumulates
  <2> QED BY <2>6
<1> HIDE DEF S
<1>3. Nat \subseteq S
  BY <1>1, <1>2, SetInduction
<1>4. n \in Nat /\ n <= Len(s)
  BY <1>0
<1>5. n \in S
  BY <1>3, <1>4
<1> QED BY <1>4, <1>5 DEF S

(* PartialSums(s) is what its recursive equation says.                     *)
LEMMA PartialSumsFacts ==
  ASSUME NEW s \in Seq(Int)
  PROVE  Accumulates(PartialSums(s), s, Len(s))
<1> DEFINE Is(f) == f = [n \in 0 .. Len(s) |-> IF n = 0 THEN 0 ELSE f[n - 1] + s[n]]
<1>0. Len(s) \in Nat
  OBVIOUS
<1>1. PICK f : Accumulates(f, s, Len(s))
  BY <1>0, SumsExist
<1>2. Is(f)
  BY <1>0, <1>1 DEF Accumulates
<1>3. PartialSums(s) = CHOOSE g : Is(g)
  BY DEF PartialSums
<1>4. Is(PartialSums(s))
  BY <1>2, <1>3, Zenon
<1> DEFINE h == PartialSums(s)
           L == Len(s)
<1>4a. h = [n \in 0 .. L |-> IF n = 0 THEN 0 ELSE h[n - 1] + s[n]]
  BY <1>4
<1>4b. L \in Nat
  OBVIOUS
<1> HIDE DEF h, L
<1>4c. DOMAIN h = 0 .. L /\ h = [n \in 0 .. L |-> h[n]]
  BY <1>4a
<1>4d. \A n \in 0 .. L : h[n] = IF n = 0 THEN 0 ELSE h[n - 1] + s[n]
  BY <1>4a
<1>5. /\ DOMAIN h = 0 .. Len(s)
      /\ h = [n \in 0 .. Len(s) |-> h[n]]
      /\ h[0] = 0
      /\ \A m \in 1 .. Len(s) : h[m] = h[m - 1] + s[m]
  BY <1>4b, <1>4c, <1>4d DEF L
<1> DEFINE S == {k \in Nat : k <= Len(s) => h[k] \in Int}
<1>6. 0 \in S
  BY <1>5
<1>7. ASSUME NEW k \in Nat, k \in S PROVE k + 1 \in S
  <2>1. SUFFICES ASSUME k + 1 <= Len(s) PROVE h[k + 1] \in Int
    OBVIOUS
  <2>2. k + 1 \in 1 .. Len(s) /\ k + 1 - 1 = k /\ s[k + 1] \in Int /\ h[k] \in Int
    BY <1>0, <1>7, <2>1
  <2>3. \A m \in 1 .. Len(s) : h[m] = h[m - 1] + s[m]
    BY <1>5
  <2>4. h[k + 1] = h[k + 1 - 1] + s[k + 1]
    BY <2>2, <2>3
  <2> QED BY <2>2, <2>4
<1>8. Nat \subseteq S
  <2> HIDE DEF S
  <2> QED BY <1>6, <1>7, SetInduction
<1>9. \A n \in 0 .. Len(s) : h[n] \in Int
  BY <1>0, <1>8
<1> HIDE DEF S
<1>10. h \in [0 .. Len(s) -> Int]
  BY <1>5, <1>9
<1> QED BY <1>0, <1>5, <1>10 DEF Accumulates, h

(* Two sequences with the same first numbers have the same first sums.     *)
LEMMA SamePrefix ==
  ASSUME NEW s \in Seq(Int), NEW t \in Seq(Int), NEW n \in Nat, n <= Len(s), n <= Len(t),
         \A m \in 1 .. n : s[m] = t[m]
  PROVE  PartialSums(s)[n] = PartialSums(t)[n]
<1> DEFINE f == PartialSums(s)
           g == PartialSums(t)
           S == {k \in Nat : k <= n => f[k] = g[k]}
<1>0. Len(s) \in Nat /\ Len(t) \in Nat
  OBVIOUS
<1>1. Accumulates(f, s, Len(s)) /\ Accumulates(g, t, Len(t))
  BY PartialSumsFacts
<1> HIDE DEF f, g
<1>2. 0 \in S
  BY <1>1 DEF Accumulates
<1>3. ASSUME NEW k \in Nat, k \in S PROVE k + 1 \in S
  <2>1. SUFFICES ASSUME k + 1 <= n PROVE f[k + 1] = g[k + 1]
    OBVIOUS
  <2>2. k + 1 \in 1 .. n /\ k + 1 \in 1 .. Len(s) /\ k + 1 \in 1 .. Len(t) /\ k + 1 - 1 = k
    BY <1>0, <2>1
  <2>3. f[k] = g[k] /\ s[k + 1] = t[k + 1]
    BY <1>3, <2>1, <2>2
  <2> QED BY <1>1, <2>2, <2>3 DEF Accumulates
<1> HIDE DEF S
<1>4. n \in S
  BY <1>2, <1>3, SetInduction
<1> QED BY <1>4 DEF S, f, g

(* The sum of a sequence of integers is an integer.                        *)
LEMMA SumType ==
  ASSUME NEW s \in Seq(Int)
  PROVE  SumOf(s) \in Int
<1>1. Len(s) \in Nat
  OBVIOUS
<1> QED BY <1>1, PartialSumsFacts DEF Accumulates, SumOf

(* The sum of nothing is zero.                                             *)
LEMMA SumEmpty == SumOf(<< >>) = 0
<1>1. << >> \in Seq(Int) /\ Len(<< >>) = 0
  OBVIOUS
<1> QED BY <1>1, PartialSumsFacts DEF Accumulates, SumOf

(* An appended number is added.                                            *)
LEMMA SumAppend ==
  ASSUME NEW s \in Seq(Int), NEW x \in Int
  PROVE  SumOf(Append(s, x)) = SumOf(s) + x
<1> DEFINE t == Append(s, x)
           n == Len(s)
<1>1. /\ t \in Seq(Int) /\ n \in Nat /\ Len(t) = n + 1 /\ t[n + 1] = x
      /\ \A m \in 1 .. n : s[m] = t[m]
  OBVIOUS
<1> HIDE DEF t, n
<1>2. PartialSums(s)[n] = PartialSums(t)[n]
  <2>1. n <= Len(s) /\ n <= Len(t)
    BY <1>1 DEF n
  <2> QED
  BY <2>1, <1>1, SamePrefix
<1>3. Accumulates(PartialSums(t), t, n + 1)
  BY <1>1, PartialSumsFacts
<1>4. PartialSums(t)[n + 1] = PartialSums(t)[n] + x
  BY <1>1, <1>3 DEF Accumulates
<1> QED BY <1>1, <1>2, <1>4 DEF SumOf, t, n

(* The sum of one number.                                                  *)
LEMMA SumOne == ASSUME NEW x \in Int PROVE SumOf(<<x>>) = x
<1>1. <<x>> = Append(<< >>, x) /\ << >> \in Seq(Int)
  OBVIOUS
<1>2. SumOf(Append(<< >>, x)) = SumOf(<< >>) + x
  BY <1>1, SumAppend
<1> QED BY <1>1, <1>2, SumEmpty

(* The sum of two sequences joined.                                        *)
LEMMA SumConcat ==
  ASSUME NEW s \in Seq(Int), NEW t \in Seq(Int)
  PROVE  SumOf(s \o t) = SumOf(s) + SumOf(t)
<1> DEFINE S == {k \in Nat : \A u \in Seq(Int) : Len(u) = k => SumOf(s \o u) = SumOf(s) + SumOf(u)}
<1>1. 0 \in S
  <2>1. SUFFICES ASSUME NEW u \in Seq(Int), Len(u) = 0 PROVE SumOf(s \o u) = SumOf(s) + SumOf(u)
    OBVIOUS
  <2>2. u = << >> /\ s \o u = s
    BY <2>1
  <2> QED BY <2>2, SumEmpty, SumType
<1>2. ASSUME NEW k \in Nat, k \in S PROVE k + 1 \in S
  <2>1. SUFFICES ASSUME NEW u \in Seq(Int), Len(u) = k + 1 PROVE SumOf(s \o u) = SumOf(s) + SumOf(u)
    OBVIOUS
  <2> DEFINE v == SubSeq(u, 1, k)
             x == u[k + 1]
  <2>2. v \in Seq(Int) /\ Len(v) = k /\ x \in Int /\ u = Append(v, x)
    BY <2>1
  <2>3. s \o u = Append(s \o v, x) /\ s \o v \in Seq(Int)
    <3> HIDE DEF v, x
    <3>1. Append(v, x) = v \o <<x>> /\ <<x>> \in Seq(Int)
      BY <2>2, AppendIsConcat
    <3>2. s \o (v \o <<x>>) = (s \o v) \o <<x>> /\ s \o v \in Seq(Int)
      BY <2>2, <3>1, ConcatAssociative, ConcatProperties
    <3>3. (s \o v) \o <<x>> = Append(s \o v, x)
      BY <2>2, <3>2, AppendIsConcat
    <3> QED BY <2>2, <3>1, <3>2, <3>3
  <2>4. SumOf(s \o v) = SumOf(s) + SumOf(v)
    BY <1>2, <2>2
  <2> HIDE DEF v, x
  <2>5. SumOf(s \o u) = SumOf(s \o v) + x /\ SumOf(u) = SumOf(v) + x
    BY <2>2, <2>3, SumAppend
  <2> QED BY <2>2, <2>4, <2>5, SumType
<1>3. Len(t) \in Nat
  OBVIOUS
<1> HIDE DEF S
<1>4. Len(t) \in S
  BY <1>1, <1>2, <1>3, SetInduction
<1> QED BY <1>4 DEF S

(* The first number and the rest.                                          *)
LEMMA SumTail ==
  ASSUME NEW s \in Seq(Int), s # << >>
  PROVE  SumOf(s) = Head(s) + SumOf(Tail(s))
<1>1. /\ Head(s) \in Int /\ Tail(s) \in Seq(Int)
      /\ <<Head(s)>> \in Seq(Int) /\ s = <<Head(s)>> \o Tail(s)
  OBVIOUS
<1> QED BY <1>1, SumConcat, SumOne, Zenon

(* Numbers that are all zero add up to zero.                               *)
LEMMA SumZero ==
  ASSUME NEW s \in Seq(Int), \A k \in 1 .. Len(s) : s[k] = 0
  PROVE  SumOf(s) = 0
<1> DEFINE f == PartialSums(s)
           S == {k \in Nat : k <= Len(s) => f[k] = 0}
<1>0. Len(s) \in Nat
  OBVIOUS
<1>1. Accumulates(f, s, Len(s))
  BY PartialSumsFacts
<1> HIDE DEF f
<1>2. 0 \in S
  BY <1>1 DEF Accumulates
<1>3. ASSUME NEW k \in Nat, k \in S PROVE k + 1 \in S
  <2>1. SUFFICES ASSUME k + 1 <= Len(s) PROVE f[k + 1] = 0
    OBVIOUS
  <2>2. k + 1 \in 1 .. Len(s) /\ k + 1 - 1 = k /\ f[k] = 0
    BY <1>0, <1>3, <2>1
  <2>3. s[k + 1] = 0
    BY <2>2
  <2> QED BY <1>1, <2>2, <2>3 DEF Accumulates
<1> HIDE DEF S
<1>4. Len(s) \in S
  BY <1>0, <1>2, <1>3, SetInduction
<1> QED BY <1>4 DEF S, f, SumOf

(* Ones add up to their number.                                            *)
LEMMA SumOnes ==
  ASSUME NEW s \in Seq(Int), \A k \in 1 .. Len(s) : s[k] = 1
  PROVE  SumOf(s) = Len(s)
<1> DEFINE f == PartialSums(s)
           S == {k \in Nat : k <= Len(s) => f[k] = k}
<1>0. Len(s) \in Nat
  OBVIOUS
<1>1. Accumulates(f, s, Len(s))
  BY PartialSumsFacts
<1> HIDE DEF f
<1>2. 0 \in S
  BY <1>1 DEF Accumulates
<1>3. ASSUME NEW k \in Nat, k \in S PROVE k + 1 \in S
  <2>1. SUFFICES ASSUME k + 1 <= Len(s) PROVE f[k + 1] = k + 1
    OBVIOUS
  <2>2. k + 1 \in 1 .. Len(s) /\ k + 1 - 1 = k /\ f[k] = k
    BY <1>0, <1>3, <2>1
  <2>3. s[k + 1] = 1
    BY <2>2
  <2> QED BY <1>1, <2>2, <2>3 DEF Accumulates
<1> HIDE DEF S
<1>4. Len(s) \in S
  BY <1>0, <1>2, <1>3, SetInduction
<1> QED BY <1>4 DEF S, f, SumOf

(* Numbers that are not negative have sums that are not.                   *)
LEMMA SumsOfNat ==
  ASSUME NEW s \in Seq(Nat)
  PROVE  /\ s \in Seq(Int)
         /\ SumOf(s) \in Nat
         /\ \A k \in 0 .. Len(s) : PartialSums(s)[k] \in Nat
<1> DEFINE f == PartialSums(s)
           S == {k \in Nat : k <= Len(s) => f[k] \in Nat}
<1>0. Len(s) \in Nat /\ s \in Seq(Int)
  OBVIOUS
<1>1. Accumulates(f, s, Len(s))
  BY <1>0, PartialSumsFacts
<1> HIDE DEF f
<1>2. 0 \in S
  BY <1>1 DEF Accumulates
<1>3. ASSUME NEW k \in Nat, k \in S PROVE k + 1 \in S
  <2>1. SUFFICES ASSUME k + 1 <= Len(s) PROVE f[k + 1] \in Nat
    OBVIOUS
  <2>2. k + 1 \in 1 .. Len(s) /\ k + 1 - 1 = k /\ f[k] \in Nat
    BY <1>0, <1>3, <2>1
  <2>3. s[k + 1] \in Nat
    BY <2>2
  <2> QED BY <1>1, <2>2, <2>3 DEF Accumulates
<1> HIDE DEF S
<1>4. Nat \subseteq S
  BY <1>2, <1>3, SetInduction
<1>5. \A k \in 0 .. Len(s) : f[k] \in Nat
  BY <1>0, <1>4 DEF S
<1> QED BY <1>0, <1>5 DEF f, SumOf

(* The sums of what follows the first number.                              *)
LEMMA PartialSumsTail ==
  ASSUME NEW s \in Seq(Int), s # << >>
  PROVE  \A k \in 0 .. Len(s) - 1 : PartialSums(Tail(s))[k] = PartialSums(s)[k + 1] - Head(s)
<1> DEFINE f == PartialSums(s)
           g == PartialSums(Tail(s))
           n == Len(s) - 1
           t == Tail(s)
           S == {k \in Nat : k <= n => g[k] = f[k + 1] - Head(s)}
<1>0. /\ n \in Nat /\ Len(s) = n + 1 /\ Tail(s) \in Seq(Int) /\ Len(Tail(s)) = n
      /\ Head(s) = s[1] /\ Head(s) \in Int /\ \A k \in 1 .. n : Tail(s)[k] = s[k + 1]
  OBVIOUS
<1>1. Accumulates(f, s, n + 1) /\ Accumulates(g, t, n)
  BY <1>0, PartialSumsFacts
<1>a. \A k \in 1 .. n : t[k] = s[k + 1]
  BY <1>0
<1> HIDE DEF f, g, n, t
<1>2. 0 \in S
  BY <1>0, <1>1 DEF Accumulates
<1>3. ASSUME NEW k \in Nat, k \in S PROVE k + 1 \in S
  <2>1. SUFFICES ASSUME k + 1 <= n PROVE g[k + 1] = f[k + 1 + 1] - Head(s)
    OBVIOUS
  <2>2. /\ k + 1 \in 1 .. n /\ k + 1 - 1 = k /\ k + 2 \in 1 .. n + 1 /\ k + 2 - 1 = k + 1
        /\ g[k] = f[k + 1] - Head(s) /\ k + 1 + 1 = k + 2
    BY <1>0, <1>3, <2>1
  <2>3. g[k + 1] = g[k] + t[k + 1]
    BY <1>1, <2>2 DEF Accumulates
  <2>4. f[k + 2] = f[k + 1] + s[k + 2] /\ f[k + 1] \in Int
    <3>1. k + 1 \in 0 .. n + 1
      BY <1>0, <2>2
    <3> QED BY <1>1, <2>2, <3>1 DEF Accumulates
  <2>5. t[k + 1] = s[k + 2] /\ s[k + 2] \in Int
    BY <1>0, <1>a, <2>2
  <2> QED BY <1>0, <2>2, <2>3, <2>4, <2>5
<1> HIDE DEF S
<1>4. Nat \subseteq S
  BY <1>2, <1>3, SetInduction
<1>5. \A k \in 0 .. n : g[k] = f[k + 1] - Head(s)
  BY <1>0, <1>4 DEF S
<1> QED BY <1>5 DEF f, g, n
=============================================================================
