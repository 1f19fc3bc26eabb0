------------------------- MODULE WtAgreementProofs --------------------------
(***************************************************************************)
(* Proofs about two WebTransport sessions that talk to each other, for     *)
(* every value of the constants: the agreement on the credit they have     *)
(* given each other, that it lasts through every operation of either, and  *)
(* that neither refuses what the other sends while it holds.               *)
(***************************************************************************)
EXTENDS WtSessionProofs

-----------------------------------------------------------------------------
(* The invariant, for the direction from session a to session b with the   *)
(* capsules W on their way.                                                *)

StopCapsules(x)   == {c \in Capsules : c.type = "STOP_SENDING" /\ c.id = x}
CreditCapsules(x) == {c \in Capsules : c.type = "MAX_STREAM_DATA" /\ c.id = x}
AllData           == {c \in Capsules : c.type = "STREAM"}
MaxDataCapsules   == {c \in Capsules : c.type = "MAX_DATA"}
MaxStreamsCapsules(d) == {c \in Capsules : c.type = "MAX_STREAMS" /\ c.bidirectional = d}

(* The maxima of the members of S in W, 0 for everything else.             *)
Marks(W, S) == [k \in DOMAIN W |-> IF W[k] \in S THEN W[k].maximum ELSE 0]

(* The announcements in W go up, from more than view.                      *)
Climbs(view, maxima) ==
  \A k \in DOMAIN maxima : maxima[k] # 0 =>
    view < maxima[k] /\ \A j \in 1 .. k - 1 : maxima[j] < maxima[k]

(* The limits of the session that bind a are not beyond those b enforces.  *)
Bounds(a, b) ==
  /\ a.flow_control.send_offset <= a.flow_control.send_max
  /\ a.flow_control.send_max <= b.flow_control.recv_max
  /\ \A d \in BOOLEAN :
       /\ a.flow_control.opened_streams[d] <= a.flow_control.max_streams_remote[d]
       /\ a.flow_control.max_streams_remote[d] <= b.flow_control.max_streams_local[d]

(* The capsules on their way bring b to what a enforces, and what a has    *)
(* sent to b.                                                              *)
Flow(a, b, W) ==
  /\ Rising(b.flow_control.send_max, Marks(W, MaxDataCapsules), a.flow_control.recv_max)
  /\ \A d \in BOOLEAN :
       Rising(b.flow_control.max_streams_remote[d], Marks(W, MaxStreamsCapsules(d)),
              a.flow_control.max_streams_local[d])
  /\ b.flow_control.recv_offset + SumOf(Weigh(W, AllData)) = a.flow_control.send_offset

(* b knows no stream of a that a has not opened.                           *)
Knows(a, b) ==
  \A x \in Ids : IsPeerInitiated(b.role, x) /\ Remembered(b, x) => Remembered(a, x)

(* A capsule is about a stream a knows and that has the direction it is    *)
(* about.                                                                  *)
Named(a, c) ==
  /\ c.type \in {"STREAM", "RESET_STREAM"} => Remembered(a, c.id) /\ HasSendPart(a.role, c.id)
  /\ c.type \in {"STOP_SENDING", "MAX_STREAM_DATA"} =>
       Remembered(a, c.id) /\ HasRecvPart(a.role, c.id)
  /\ c.type = "STREAM" => c.size # 0 \/ c.fin
  /\ c.type # "STREAM_DATA_BLOCKED"
  /\ c.type = "STREAMS_BLOCKED" => ~(c.maximum > MaxStreamsLimit)
  /\ c.type = "MAX_DATA" => c.maximum <= MaxValue
  /\ c.type = "MAX_STREAMS" => c.maximum <= MaxStreamsLimit
  /\ c.type \in {"MAX_DATA", "MAX_STREAMS", "MAX_STREAM_DATA"} => c.maximum # 0

AllNamed(a, W) == \A k \in 1 .. Len(W) : Named(a, W[k])

(* Data of stream x.                                                       *)
Coming(b, W, x) == Received(b, x) + InWire(W, x)

DataAgrees(a, b, W, x) ==
  /\ Receiving(b, x) => Coming(b, W, x) <= SendMaxOf(a, x)
  /\ Sending(a, x) => Receiving(b, x)
  /\ (Sending(a, x) \/ Known(a, x)) /\ Receiving(b, x) => Coming(b, W, x) = Sent(a, x)
  /\ ~Receiving(b, x) => QuietWire(W, x)
  /\ \A k \in 1 .. Len(W) : W[k] \in ResetCapsules(x) => W[k].reliable_size = Coming(b, W, x)
  /\ ~IsPeerInitiated(a.role, x) /\ ~(Sending(a, x) /\ Fresh(a, x)) =>
       Remembered(b, x) \/ ~NoneOf(W, DataCapsules(x))

(* A request to stop comes once, and no credit after it.                   *)
StopAgrees(a, b, W, x) ==
  /\ Granting(a, x) => NoneOf(W, StopCapsules(x)) /\ x \notin b.stop_sending_received_ids
  /\ EndsLast(W, StopCapsules(x), StopCapsules(x) \cup CreditCapsules(x))
  /\ x \in b.stop_sending_received_ids => NoneOf(W, StopCapsules(x) \cup CreditCapsules(x))

(* Credit a gives for stream x.                                            *)
CreditAgrees(a, b, W, x) ==
  /\ Climbs(SendMaxOf(b, x), Marks(W, CreditCapsules(x)))
  /\ ~Gone(a, x) => Rising(SendMaxOf(b, x), Marks(W, CreditCapsules(x)), RecvMaxOf(a, x))

StreamBound(a, b, x) == ~Gone(b, x) => SendMaxOf(a, x) <= RecvMaxOf(b, x)

Always(a, b) ==
  /\ Bounds(a, b) /\ Knows(a, b)
  /\ \A x \in Ids : HasSendPart(a.role, x) => StreamBound(a, b, x)

Hears(a, b, W) ==
  /\ Flow(a, b, W) /\ AllNamed(a, W)
  /\ \A x \in Ids : HasSendPart(a.role, x) => DataAgrees(a, b, W, x)
  /\ \A x \in Ids : HasRecvPart(a.role, x) => StopAgrees(a, b, W, x) /\ CreditAgrees(a, b, W, x)

(* b listens to a until its session is closed.                             *)
Toward(a, b, W) == Always(a, b) /\ (b.state # "Closed" => Hears(a, b, W))

-----------------------------------------------------------------------------
(* Announcements that go up.                                               *)
Announcing(S) == S \subseteq Capsules /\ \A c \in S : c.maximum \in Nat

LEMMA MarksType ==
  ASSUME NEW S, Announcing(S), NEW W \in Seq(Capsules)
  PROVE  /\ DOMAIN Marks(W, S) = 1 .. Len(W)
         /\ \A k \in 1 .. Len(W) : /\ Marks(W, S)[k] \in Nat
                                   /\ Marks(W, S)[k] = IF W[k] \in S THEN W[k].maximum ELSE 0
BY DEF Marks, Announcing

LEMMA MarksAppend ==
  ASSUME NEW S, Announcing(S), NEW W \in Seq(Capsules), NEW c \in Capsules
  PROVE  /\ DOMAIN Marks(Append(W, c), S) = 1 .. Len(W) + 1
         /\ \A k \in 1 .. Len(W) : Marks(Append(W, c), S)[k] = Marks(W, S)[k]
         /\ Marks(Append(W, c), S)[Len(W) + 1] = IF c \in S THEN c.maximum ELSE 0
<1> DEFINE X == Append(W, c)
<1>1. X \in Seq(Capsules) /\ Len(X) = Len(W) + 1 /\ X[Len(W) + 1] = c
      /\ \A k \in 1 .. Len(W) : X[k] = W[k]
  OBVIOUS
<1>2. Len(W) \in Nat
  OBVIOUS
<1> HIDE DEF X
<1>3. /\ DOMAIN Marks(X, S) = 1 .. Len(W) + 1
      /\ \A k \in 1 .. Len(W) + 1 : Marks(X, S)[k] = IF X[k] \in S THEN X[k].maximum ELSE 0
  BY <1>1, MarksType
<1>4. \A k \in 1 .. Len(W) : Marks(X, S)[k] = Marks(W, S)[k]
  BY <1>1, <1>2, <1>3, MarksType
<1>5. Marks(X, S)[Len(W) + 1] = IF c \in S THEN c.maximum ELSE 0
  BY <1>1, <1>2, <1>3
<1> QED BY <1>3, <1>4, <1>5 DEF X

LEMMA MarksTail ==
  ASSUME NEW S, Announcing(S), NEW W \in Seq(Capsules), W # << >>
  PROVE  /\ DOMAIN Marks(Tail(W), S) = 1 .. Len(W) - 1
         /\ \A k \in 1 .. Len(W) - 1 : Marks(Tail(W), S)[k] = Marks(W, S)[k + 1]
         /\ Marks(W, S)[1] = IF Head(W) \in S THEN Head(W).maximum ELSE 0
         /\ Len(W) \in Nat /\ Len(W) >= 1 /\ Tail(W) \in Seq(Capsules)
<1> DEFINE X == Tail(W)
<1>1. X \in Seq(Capsules) /\ Len(X) = Len(W) - 1 /\ W[1] = Head(W)
      /\ \A k \in 1 .. Len(W) - 1 : X[k] = W[k + 1]
  OBVIOUS
<1>2. Len(W) \in Nat /\ Len(W) >= 1
  OBVIOUS
<1> HIDE DEF X
<1>3. /\ DOMAIN Marks(X, S) = 1 .. Len(W) - 1
      /\ \A k \in 1 .. Len(W) - 1 : Marks(X, S)[k] = IF X[k] \in S THEN X[k].maximum ELSE 0
  BY <1>1, MarksType
<1>4. \A k \in 1 .. Len(W) - 1 : Marks(X, S)[k] = Marks(W, S)[k + 1]
  <2> TAKE k \in 1 .. Len(W) - 1
  <2>1. k + 1 \in 1 .. Len(W) /\ X[k] = W[k + 1]
    BY <1>1, <1>2
  <2>2. Marks(W, S)[k + 1] = IF W[k + 1] \in S THEN W[k + 1].maximum ELSE 0
    BY <2>1, MarksType
  <2> QED BY <2>1, <2>2, <1>3
<1>5. Marks(W, S)[1] = IF Head(W) \in S THEN Head(W).maximum ELSE 0
  BY <1>1, <1>2, MarksType
<1> QED BY <1>1, <1>2, <1>3, <1>4, <1>5 DEF X

(* A capsule that announces nothing of the kind.                           *)
LEMMA RisingOther ==
  ASSUME NEW S, Announcing(S), NEW W \in Seq(Capsules), NEW c \in Capsules, c \notin S,
         NEW v \in Nat, NEW g \in Nat
  PROVE  /\ Rising(v, Marks(W, S), g) => Rising(v, Marks(Append(W, c), S), g)
         /\ Climbs(v, Marks(W, S)) => Climbs(v, Marks(Append(W, c), S))
<1> DEFINE m == Marks(W, S)
           n == Marks(Append(W, c), S)
<1>1. /\ DOMAIN m = 1 .. Len(W) /\ DOMAIN n = 1 .. Len(W) + 1 /\ Len(W) \in Nat
      /\ \A k \in 1 .. Len(W) : n[k] = m[k] /\ m[k] \in Nat
      /\ n[Len(W) + 1] = 0
  BY MarksType, MarksAppend
<1> HIDE DEF m, n
<1> QED BY <1>1 DEF Rising, Climbs, m, n

(* A new announcement, above what was given.                               *)
LEMMA RisingMore ==
  ASSUME NEW S, Announcing(S), NEW W \in Seq(Capsules), NEW c \in S,
         NEW v \in Nat, NEW g \in Nat, g < c.maximum, Rising(v, Marks(W, S), g)
  PROVE  Rising(v, Marks(Append(W, c), S), c.maximum)
<1> DEFINE m == Marks(W, S)
           n == Marks(Append(W, c), S)
<1>0. c \in Capsules /\ c.maximum \in Nat
  BY DEF Announcing
<1>1. /\ DOMAIN m = 1 .. Len(W) /\ DOMAIN n = 1 .. Len(W) + 1 /\ Len(W) \in Nat
      /\ \A k \in 1 .. Len(W) : n[k] = m[k] /\ m[k] \in Nat
      /\ n[Len(W) + 1] = c.maximum
  BY <1>0, MarksType, MarksAppend
<1>2. v <= g /\ \A k \in 1 .. Len(W) : m[k] <= g
  BY <1>1 DEF Rising
<1>3. Rising(v, m, g)
  BY DEF m
<1> HIDE DEF m, n
<1>4. ASSUME NEW k \in DOMAIN n, n[k] # 0
      PROVE  v < n[k] /\ n[k] <= c.maximum /\ \A j \in 1 .. k - 1 : n[j] < n[k]
  <2>1. CASE k = Len(W) + 1
    BY <2>1, <1>0, <1>1, <1>2
  <2>2. CASE k # Len(W) + 1
    <3>1. k \in 1 .. Len(W) /\ m[k] # 0
      BY <2>2, <1>4, <1>1
    <3>2. v < m[k] /\ m[k] <= g /\ \A j \in 1 .. k - 1 : m[j] < m[k]
      BY <3>1, <1>1, <1>3 DEF Rising
    <3> QED BY <3>1, <3>2, <1>0, <1>1
  <2> QED BY <2>1, <2>2
<1>5. \E k \in DOMAIN n : n[k] # 0 /\ n[k] = c.maximum
  BY <1>0, <1>1
<1> QED BY <1>4, <1>5 DEF Rising, n

(* The first capsule announces nothing of the kind, or the next maximum.   *)
LEMMA RisingTail ==
  ASSUME NEW S, Announcing(S), NEW W \in Seq(Capsules), W # << >>, NEW v \in Nat, NEW g \in Nat
  PROVE  /\ Head(W) \notin S =>
              /\ Rising(v, Marks(W, S), g) => Rising(v, Marks(Tail(W), S), g)
              /\ Climbs(v, Marks(W, S)) => Climbs(v, Marks(Tail(W), S))
         /\ Head(W) \in S /\ Head(W).maximum # 0 =>
              /\ Rising(v, Marks(W, S), g) =>
                   /\ Rising(Head(W).maximum, Marks(Tail(W), S), g)
                   /\ Head(W).maximum <= g
              /\ Climbs(v, Marks(W, S)) =>
                   v < Head(W).maximum /\ Climbs(Head(W).maximum, Marks(Tail(W), S))
<1> DEFINE m == Marks(W, S)
           n == Marks(Tail(W), S)
           h == IF Head(W) \in S THEN Head(W).maximum ELSE 0
<1>1. /\ DOMAIN m = 1 .. Len(W) /\ DOMAIN n = 1 .. Len(W) - 1 /\ Len(W) \in Nat /\ Len(W) >= 1
      /\ \A k \in 1 .. Len(W) : m[k] \in Nat
      /\ \A k \in 1 .. Len(W) - 1 : n[k] = m[k + 1]
      /\ m[1] = h
  BY MarksType, MarksTail
<1>2. h \in Nat
  BY <1>1
<1> HIDE DEF m, n, h
<1>3. ASSUME Climbs(v, m), h = 0
      PROVE  Climbs(v, n)
  <2> SUFFICES ASSUME NEW k \in DOMAIN n, n[k] # 0
               PROVE  v < n[k] /\ \A j \in 1 .. k - 1 : n[j] < n[k]
    BY DEF Climbs
  <2>1. k + 1 \in DOMAIN m /\ m[k + 1] = n[k] /\ k \in Nat
    BY <1>1
  <2>2. v < m[k + 1] /\ \A j \in 1 .. k : m[j] < m[k + 1]
    BY <2>1, <1>3 DEF Climbs
  <2> QED BY <2>1, <2>2, <1>1
<1>4. ASSUME Climbs(v, m), h # 0
      PROVE  v < h /\ Climbs(h, n)
  <2>1. v < h
    BY <1>1, <1>4 DEF Climbs
  <2>2. ASSUME NEW k \in DOMAIN n, n[k] # 0
        PROVE  h < n[k] /\ \A j \in 1 .. k - 1 : n[j] < n[k]
    <3>1. k + 1 \in DOMAIN m /\ m[k + 1] = n[k] /\ k \in Nat /\ k >= 1
      BY <1>1
    <3>2. \A j \in 1 .. k : m[j] < m[k + 1]
      BY <2>2, <3>1, <1>4 DEF Climbs
    <3> QED BY <3>1, <3>2, <1>1
  <2> QED BY <2>1, <2>2 DEF Climbs
<1>5. Rising(v, m, g) => Climbs(v, m) /\ \A k \in DOMAIN m : m[k] <= g
  BY <1>1 DEF Rising, Climbs
<1>6. ASSUME Rising(v, m, g), h = 0
      PROVE  Rising(v, n, g)
  <2>1. Climbs(v, n)
    BY <1>3, <1>5, <1>6
  <2>2. \A k \in DOMAIN n : n[k] <= g
    <3>1. \A k \in DOMAIN m : m[k] <= g
      BY <1>5, <1>6
    <3>2. \A k \in DOMAIN n : k + 1 \in DOMAIN m /\ n[k] = m[k + 1]
      BY <1>1
    <3> QED BY <3>1, <3>2
  <2>3. v = g \/ \E k \in DOMAIN n : n[k] # 0 /\ n[k] = g
    <3>1. CASE v = g
      BY <3>1
    <3>2. CASE v # g
      <4>1. PICK k \in DOMAIN m : m[k] # 0 /\ m[k] = g
        BY <3>2, <1>6 DEF Rising
      <4>2. k # 1
        BY <4>1, <1>1, <1>6
      <4>3. k - 1 \in DOMAIN n /\ n[k - 1] = m[k]
        BY <4>1, <4>2, <1>1
      <4> QED BY <4>1, <4>3
    <3> QED BY <3>1, <3>2
  <2> QED BY <2>1, <2>2, <2>3 DEF Rising, Climbs
<1>7. ASSUME Rising(v, m, g), h # 0
      PROVE  Rising(h, n, g) /\ h <= g
  <2>1. Climbs(h, n)
    BY <1>4, <1>5, <1>7
  <2>2. h <= g /\ \A k \in DOMAIN n : n[k] <= g
    <3>1. \A k \in DOMAIN m : m[k] <= g
      BY <1>5, <1>7
    <3>2. \A k \in DOMAIN n : k + 1 \in DOMAIN m /\ n[k] = m[k + 1]
      BY <1>1
    <3>3. 1 \in DOMAIN m
      BY <1>1
    <3> QED BY <3>1, <3>2, <3>3, <1>1
  <2>3. h = g \/ \E k \in DOMAIN n : n[k] # 0 /\ n[k] = g
    <3>1. PICK k \in DOMAIN m : m[k] = g
      <4>1. CASE v # g
        BY <4>1, <1>7 DEF Rising
      <4>2. CASE v = g
        BY <4>2, <1>4, <1>5, <1>7, <2>2, <1>1, <1>2
      <4> QED BY <4>1, <4>2
    <3>2. CASE k = 1
      BY <3>1, <3>2, <1>1
    <3>3. CASE k # 1
      <4>1. k - 1 \in DOMAIN n /\ n[k - 1] = m[k]
        BY <3>1, <3>3, <1>1
      <4>2. g # 0
        BY <2>2, <1>2, <1>7
      <4> QED BY <3>1, <4>1, <4>2
    <3> QED BY <3>2, <3>3
  <2> QED BY <2>1, <2>2, <2>3 DEF Rising, Climbs
<1>8. Head(W) \notin S => h = 0
  BY DEF h
<1>9. Head(W) \in S => h = Head(W).maximum
  BY DEF h
<1>10. Head(W) \notin S =>
              /\ Rising(v, m, g) => Rising(v, n, g)
              /\ Climbs(v, m) => Climbs(v, n)
  BY <1>8, <1>3, <1>6
<1>11. Head(W) \in S /\ Head(W).maximum # 0 =>
              /\ Rising(v, m, g) => Rising(Head(W).maximum, n, g) /\ Head(W).maximum <= g
              /\ Climbs(v, m) => v < Head(W).maximum /\ Climbs(Head(W).maximum, n)
  BY <1>9, <1>4, <1>7
<1> QED BY <1>10, <1>11 DEF m, n

LEMMA RisingBound ==
  ASSUME NEW S, Announcing(S), NEW W \in Seq(Capsules), NEW v \in Nat, NEW g \in Nat,
         Rising(v, Marks(W, S), g)
  PROVE  v <= g /\ Climbs(v, Marks(W, S))
BY MarksType DEF Rising, Climbs

LEMMA RisingStart ==
  ASSUME NEW S, NEW v
  PROVE  Rising(v, Marks(<< >>, S), v) /\ Climbs(v, Marks(<< >>, S))
BY DEF Rising, Climbs, Marks

LEMMA Announcements ==
  ASSUME TRUE
  PROVE  /\ Announcing(MaxDataCapsules)
         /\ \A d \in BOOLEAN : Announcing(MaxStreamsCapsules(d))
         /\ \A x \in Ids : Announcing(CreditCapsules(x))
BY CapsuleFields DEF Announcing, MaxDataCapsules, MaxStreamsCapsules, CreditCapsules

-----------------------------------------------------------------------------
(* A capsule more or one less.                                             *)
LEMMA PlacesAppend ==
  ASSUME NEW W \in Seq(Capsules), NEW c \in Capsules
  PROVE  /\ Append(W, c) \in Seq(Capsules) /\ Len(W) \in Nat /\ Len(Append(W, c)) = Len(W) + 1
         /\ \A k \in 1 .. Len(W) : Append(W, c)[k] = W[k]
         /\ Append(W, c)[Len(W) + 1] = c
OBVIOUS

LEMMA PlacesTail ==
  ASSUME NEW W \in Seq(Capsules), W # << >>
  PROVE  /\ Tail(W) \in Seq(Capsules) /\ Len(W) \in Nat /\ Len(W) >= 1 /\ Len(Tail(W)) = Len(W) - 1
         /\ \A k \in 1 .. Len(W) - 1 : k + 1 \in 1 .. Len(W) /\ Tail(W)[k] = W[k + 1]
         /\ W[1] = Head(W) /\ Head(W) \in Capsules
OBVIOUS

LEMMA NoneAppend ==
  ASSUME NEW W \in Seq(Capsules), NEW c \in Capsules, NEW I
  PROVE  NoneOf(Append(W, c), I) <=> NoneOf(W, I) /\ c \notin I
<1> DEFINE X == Append(W, c)
<1>1. /\ Len(W) \in Nat /\ Len(X) = Len(W) + 1
      /\ \A k \in 1 .. Len(W) : X[k] = W[k]
      /\ X[Len(W) + 1] = c
  BY PlacesAppend
<1> HIDE DEF X
<1>2. NoneOf(X, I) <=> NoneOf(W, I) /\ c \notin I
  BY <1>1 DEF NoneOf
<1> QED BY <1>2 DEF X

LEMMA NoneTail ==
  ASSUME NEW W \in Seq(Capsules), W # << >>, NEW I
  PROVE  NoneOf(W, I) <=> Head(W) \notin I /\ NoneOf(Tail(W), I)
<1> DEFINE X == Tail(W)
           h == Head(W)
<1>1. /\ Len(W) \in Nat /\ Len(W) >= 1 /\ Len(X) = Len(W) - 1
      /\ \A k \in 1 .. Len(W) - 1 : k + 1 \in 1 .. Len(W) /\ X[k] = W[k + 1]
      /\ W[1] = h
  BY PlacesTail
<1> HIDE DEF X, h
<1>2. NoneOf(W, I) => h \notin I /\ NoneOf(X, I)
  BY <1>1 DEF NoneOf
<1>3. ASSUME h \notin I, NoneOf(X, I), NEW k \in 1 .. Len(W)
      PROVE  W[k] \notin I
  <2>1. CASE k = 1
    BY <2>1, <1>1, <1>3
  <2>2. CASE k # 1
    <3>1. k - 1 \in 1 .. Len(W) - 1 /\ (k - 1) + 1 = k
      BY <2>2, <1>1
    <3>2. X[k - 1] = W[k]
      BY <3>1, <1>1
    <3>3. k - 1 \in 1 .. Len(X)
      BY <3>1, <1>1
    <3> QED BY <3>2, <3>3, <1>3 DEF NoneOf
  <2> QED BY <2>1, <2>2
<1>4. NoneOf(W, I) <=> h \notin I /\ NoneOf(X, I)
  BY <1>2, <1>3 DEF NoneOf
<1> QED BY <1>4 DEF X, h

LEMMA EndsAppend ==
  ASSUME NEW W \in Seq(Capsules), NEW c \in Capsules, NEW T, NEW I, EndsLast(W, T, I),
         c \notin I \/ NoneOf(W, T)
  PROVE  EndsLast(Append(W, c), T, I)
<1> DEFINE X == Append(W, c)
<1>1. /\ Len(W) \in Nat /\ Len(X) = Len(W) + 1
      /\ \A k \in 1 .. Len(W) : X[k] = W[k]
      /\ X[Len(W) + 1] = c
  BY PlacesAppend
<1> HIDE DEF X
<1>2. EndsLast(X, T, I)
  <2> SUFFICES ASSUME NEW k \in 1 .. Len(X), X[k] \in T, NEW j \in k + 1 .. Len(X)
               PROVE  X[j] \notin I
    BY DEF EndsLast
  <2>1. k \in 1 .. Len(W) /\ W[k] \in T
    BY <1>1
  <2>2. CASE j = Len(W) + 1
    <3>1. c \notin I
      BY <2>1 DEF NoneOf
    <3> QED BY <3>1, <2>2, <1>1
  <2>3. CASE j # Len(W) + 1
    <3>1. j \in k + 1 .. Len(W) /\ X[j] = W[j]
      BY <2>1, <2>3, <1>1
    <3> QED BY <3>1, <2>1 DEF EndsLast
  <2> QED BY <2>2, <2>3
<1> QED BY <1>2 DEF X

LEMMA EndsTail ==
  ASSUME NEW W \in Seq(Capsules), W # << >>, NEW T, NEW I, EndsLast(W, T, I)
  PROVE  EndsLast(Tail(W), T, I) /\ (Head(W) \in T => NoneOf(Tail(W), I))
<1> DEFINE X == Tail(W)
           h == Head(W)
<1>1. /\ Len(W) \in Nat /\ Len(W) >= 1 /\ Len(X) = Len(W) - 1
      /\ \A k \in 1 .. Len(W) - 1 : k + 1 \in 1 .. Len(W) /\ X[k] = W[k + 1]
      /\ W[1] = h
  BY PlacesTail
<1> HIDE DEF X, h
<1>2. EndsLast(X, T, I)
  <2> SUFFICES ASSUME NEW k \in 1 .. Len(X), X[k] \in T, NEW j \in k + 1 .. Len(X)
               PROVE  X[j] \notin I
    BY DEF EndsLast
  <2>1. k + 1 \in 1 .. Len(W) /\ W[k + 1] \in T
    BY <1>1
  <2>2. j + 1 \in (k + 1) + 1 .. Len(W) /\ X[j] = W[j + 1]
    BY <1>1
  <2> QED BY <2>1, <2>2 DEF EndsLast
<1>3. ASSUME h \in T, NEW j \in 1 .. Len(X)
      PROVE  X[j] \notin I
  <2>1. 1 \in 1 .. Len(W) /\ W[1] \in T /\ j + 1 \in 1 + 1 .. Len(W) /\ X[j] = W[j + 1]
    BY <1>1, <1>3
  <2> QED BY <2>1 DEF EndsLast
<1> QED BY <1>2, <1>3 DEF X, h, NoneOf

(* The kinds of capsules.                                                  *)
LEMMA WireKinds ==
  ASSUME NEW x
  PROVE  /\ Weighable(Capsules, DataCapsules(x)) /\ Weighable(Capsules, AllData)
         /\ \A c \in DataCapsules(x) : c \in Capsules /\ c.type = "STREAM" /\ c.id = x /\ c.size \in Nat
         /\ \A c \in ResetCapsules(x) : c \in Capsules /\ c.type = "RESET_STREAM" /\ c.id = x
         /\ \A c \in StopCapsules(x) : c \in Capsules /\ c.type = "STOP_SENDING" /\ c.id = x
         /\ \A c \in CreditCapsules(x) : c \in Capsules /\ c.type = "MAX_STREAM_DATA" /\ c.id = x
BY CapsuleFields DEF Weighable, DataCapsules, AllData, ResetCapsules, StopCapsules, CreditCapsules

LEMMA InWireAppend ==
  ASSUME NEW x, NEW W \in Seq(Capsules), NEW c \in Capsules
  PROVE  /\ InWire(W, x) \in Nat /\ InWire(Append(W, c), x) \in Nat
         /\ c \in DataCapsules(x) => InWire(Append(W, c), x) = InWire(W, x) + c.size
         /\ c \notin DataCapsules(x) => InWire(Append(W, c), x) = InWire(W, x)
<1>1. Weighable(Capsules, DataCapsules(x)) /\ (c \in DataCapsules(x) => c.size \in Nat)
  BY WireKinds
<1>2. Append(W, c) \in Seq(Capsules)
  OBVIOUS
<1>3. InWire(W, x) \in Nat /\ InWire(Append(W, c), x) \in Nat
  BY <1>1, <1>2, WeighType DEF InWire
<1>4. InWire(Append(W, c), x) = InWire(W, x) + IF c \in DataCapsules(x) THEN c.size ELSE 0
  BY <1>1, WeighAppend DEF InWire
<1> QED BY <1>1, <1>3, <1>4

LEMMA InWireTail ==
  ASSUME NEW x, NEW W \in Seq(Capsules), W # << >>
  PROVE  /\ InWire(W, x) \in Nat /\ InWire(Tail(W), x) \in Nat
         /\ Head(W) \in DataCapsules(x) =>
              Head(W).size \in Nat /\ InWire(W, x) = Head(W).size + InWire(Tail(W), x)
         /\ Head(W) \notin DataCapsules(x) => InWire(W, x) = InWire(Tail(W), x)
<1>1. Weighable(Capsules, DataCapsules(x)) /\ (Head(W) \in DataCapsules(x) => Head(W).size \in Nat)
  BY WireKinds
<1>2. Tail(W) \in Seq(Capsules)
  OBVIOUS
<1>3. InWire(W, x) \in Nat /\ InWire(Tail(W), x) \in Nat
  BY <1>1, <1>2, WeighType DEF InWire
<1>4. InWire(W, x) = (IF Head(W) \in DataCapsules(x) THEN Head(W).size ELSE 0) + InWire(Tail(W), x)
  BY <1>1, WeighTail DEF InWire
<1> QED BY <1>1, <1>3, <1>4

LEMMA ViewTypes ==
  ASSUME NEW s \in Sessions, NEW x \in Ids
  PROVE  /\ Sent(s, x) \in Nat /\ Received(s, x) \in Nat
         /\ SendMaxOf(s, x) \in 0 .. MaxValue /\ RecvMaxOf(s, x) \in 0 .. MaxValue
         /\ SendMaxOf(s, x) \in Nat /\ RecvMaxOf(s, x) \in Nat
<1>1. s.streams \in Maps(WtStreams) /\ s.closed_stream_send_max \in Maps(0 .. MaxValue)
      /\ s.config \in Configs /\ s.peer_config \in Configs
  BY DEF Sessions
<1>2. Known(s, x) => s.streams[x] \in WtStreams
  BY <1>1, MapFacts DEF Known
<1>3. Gone(s, x) => s.closed_stream_send_max[x] \in 0 .. MaxValue
  BY <1>1, MapFacts DEF Gone
<1>4. FirstSendMax(s, x) \in 0 .. MaxValue /\ InitialRecvMax(s, x) \in 0 .. MaxValue
  BY <1>1 DEF FirstSendMax, InitialRecvMax, Configs
<1>5. SendMaxOf(s, x) \in 0 .. MaxValue
  BY <1>2, <1>3, <1>4 DEF SendMaxOf, WtStreams
<1>6. RecvMaxOf(s, x) \in 0 .. MaxValue
  BY <1>2, <1>4 DEF RecvMaxOf, WtStreams
<1>7. Sent(s, x) \in Nat /\ Received(s, x) \in Nat
  BY <1>2, MaxValueAssumption DEF Sent, Received, WtStreams
<1> QED BY <1>5, <1>6, <1>7

-----------------------------------------------------------------------------
(* What a step of the sender a, which leaves t, keeps.                     *)

(* The sending direction is as before; it may have more credit.            *)
SendKeeps(a, t, x) ==
  /\ Sending(t, x) <=> Sending(a, x)
  /\ Sending(a, x) => Sent(t, x) = Sent(a, x) /\ (Fresh(t, x) <=> Fresh(a, x))
  /\ SendMaxOf(t, x) >= SendMaxOf(a, x)
  /\ SentKept(a, t, x)

(* x is a direction from a to b, which are sessions, with W on the way.    *)
Ends(a, b, W) ==
  /\ a \in Sessions /\ b \in Sessions /\ W \in Seq(Capsules)
  /\ a.role = Peer(b.role) /\ SessionOK(a) /\ SessionOK(b)

LEMMA DataKept ==
  ASSUME NEW a, NEW b, NEW W, Ends(a, b, W), NEW x \in Ids, NEW t \in Sessions, t.role = a.role,
         SendKeeps(a, t, x), DataAgrees(a, b, W, x)
  PROVE  /\ DataAgrees(t, b, W, x)
         /\ \A c \in Capsules : c \notin DataCapsules(x) \cup ResetCapsules(x) =>
              DataAgrees(t, b, Append(W, c), x)
<1>1. /\ Received(b, x) \in Nat /\ SendMaxOf(a, x) \in Nat /\ SendMaxOf(t, x) \in Nat
      /\ W \in Seq(Capsules)
  BY ViewTypes DEF Ends
<1>2. InWire(W, x) \in Nat
  BY <1>1, WireKinds, WeighType DEF InWire
<1>3. DataAgrees(t, b, W, x)
  BY <1>1, <1>2, SMT DEF DataAgrees, SendKeeps, SentKept, Coming
<1>4. ASSUME NEW c \in Capsules, c \notin DataCapsules(x), c \notin ResetCapsules(x)
      PROVE  DataAgrees(t, b, Append(W, c), x)
  <2>1. Coming(b, Append(W, c), x) = Coming(b, W, x)
    BY <1>1, <1>4, InWireAppend DEF Coming
  <2>2. QuietWire(W, x) => QuietWire(Append(W, c), x)
    BY <1>1, <1>4, NoneAppend DEF QuietWire
  <2>3. ~NoneOf(W, DataCapsules(x)) => ~NoneOf(Append(W, c), DataCapsules(x))
    BY <1>1, NoneAppend
  <2>4. \A k \in 1 .. Len(Append(W, c)) : Append(W, c)[k] \in ResetCapsules(x) =>
          k \in 1 .. Len(W) /\ Append(W, c)[k] = W[k]
    BY <1>1, <1>4, PlacesAppend
  <2> QED BY <2>1, <2>2, <2>3, <2>4, <1>3, Zenon DEF DataAgrees
<1> QED BY <1>3, <1>4

LEMMA DataMore ==
  ASSUME NEW a, NEW b, NEW W, Ends(a, b, W), NEW x \in Ids, NEW t \in Sessions, t.role = a.role,
         DataAgrees(a, b, W, x), Sending(a, x),
         NoneOf(W, Final(DataCapsules(x), ResetCapsules(x))),
         NEW c \in DataCapsules(x),
         Sending(t, x) \/ Known(t, x) => Sent(t, x) = Sent(a, x) + c.size,
         SendMaxOf(t, x) >= Sent(a, x) + c.size
  PROVE  DataAgrees(t, b, Append(W, c), x)
<1>1. /\ Received(b, x) \in Nat /\ SendMaxOf(t, x) \in Nat /\ Sent(a, x) \in Nat
      /\ W \in Seq(Capsules) /\ c \in Capsules /\ c.size \in Nat /\ c.type = "STREAM"
  BY ViewTypes, WireKinds DEF Ends
<1>2. InWire(Append(W, c), x) = InWire(W, x) + c.size /\ InWire(W, x) \in Nat
  BY <1>1, InWireAppend
<1>3. Receiving(b, x) /\ Coming(b, W, x) = Sent(a, x)
  BY DEF DataAgrees
<1>4. Coming(b, Append(W, c), x) = Sent(a, x) + c.size
  BY <1>1, <1>2, <1>3 DEF Coming
<1>5. ~NoneOf(Append(W, c), DataCapsules(x))
  BY <1>1, NoneAppend
<1>6. NoneOf(Append(W, c), ResetCapsules(x))
  <2>1. NoneOf(W, ResetCapsules(x))
    BY DEF NoneOf, Final
  <2>2. c \notin ResetCapsules(x)
    BY <1>1 DEF ResetCapsules
  <2> QED BY <1>1, <2>1, <2>2, NoneAppend
<1>7. \A k \in 1 .. Len(Append(W, c)) : Append(W, c)[k] \notin ResetCapsules(x)
  BY <1>6 DEF NoneOf
<1> QED BY <1>3, <1>4, <1>5, <1>7 DEF DataAgrees

LEMMA DataReset ==
  ASSUME NEW a, NEW b, NEW W, Ends(a, b, W), NEW x \in Ids, NEW t \in Sessions, t.role = a.role,
         DataAgrees(a, b, W, x), Sending(a, x), ~Sending(t, x),
         NoneOf(W, Final(DataCapsules(x), ResetCapsules(x))),
         NEW c \in ResetCapsules(x), c.reliable_size = Sent(a, x),
         SendMaxOf(t, x) = SendMaxOf(a, x), SentKept(a, t, x),
         ~IsPeerInitiated(a.role, x) => Remembered(b, x) \/ ~NoneOf(W, DataCapsules(x))
  PROVE  DataAgrees(t, b, Append(W, c), x)
<1>1. /\ Received(b, x) \in Nat /\ SendMaxOf(t, x) \in Nat /\ Sent(a, x) \in Nat
      /\ W \in Seq(Capsules) /\ c \in Capsules /\ c.type = "RESET_STREAM"
  BY ViewTypes, WireKinds DEF Ends
<1>2. c \notin DataCapsules(x)
  BY <1>1 DEF DataCapsules
<1>3. InWire(Append(W, c), x) = InWire(W, x) /\ InWire(W, x) \in Nat
  BY <1>1, <1>2, InWireAppend
<1>4. Receiving(b, x) /\ Coming(b, W, x) = Sent(a, x) /\ Coming(b, W, x) <= SendMaxOf(a, x)
  BY DEF DataAgrees
<1>5. Coming(b, Append(W, c), x) = Sent(a, x)
  BY <1>1, <1>3, <1>4 DEF Coming
<1>6. ~NoneOf(W, DataCapsules(x)) => ~NoneOf(Append(W, c), DataCapsules(x))
  BY <1>1, NoneAppend
<1>7. ASSUME NEW k \in 1 .. Len(Append(W, c)), Append(W, c)[k] \in ResetCapsules(x)
      PROVE  Append(W, c)[k] = c
  <2>1. \A j \in 1 .. Len(W) : W[j] \notin ResetCapsules(x)
    BY DEF NoneOf, Final
  <2> QED BY <1>1, <1>7, <2>1, PlacesAppend
<1>8. \A k \in 1 .. Len(Append(W, c)) : Append(W, c)[k] \in ResetCapsules(x) =>
         Append(W, c)[k].reliable_size = Coming(b, Append(W, c), x)
  BY <1>5, <1>7
<1>9. Coming(b, Append(W, c), x) <= SendMaxOf(t, x)
  BY <1>4, <1>5
<1>10. Known(t, x) => Sent(t, x) = Sent(a, x)
  BY DEF SentKept
<1> QED BY <1>4, <1>5, <1>6, <1>8, <1>9, <1>10 DEF DataAgrees

LEMMA StopKept ==
  ASSUME NEW a, NEW b, NEW W, Ends(a, b, W), NEW x \in Ids, NEW t, StopAgrees(a, b, W, x),
         Granting(t, x) => Granting(a, x)
  PROVE  /\ StopAgrees(t, b, W, x)
         /\ \A c \in Capsules : c \notin StopCapsules(x) \cup CreditCapsules(x) =>
              StopAgrees(t, b, Append(W, c), x)
<1>1. W \in Seq(Capsules)
  BY DEF Ends
<1>2. StopAgrees(t, b, W, x)
  BY DEF StopAgrees
<1>3. ASSUME NEW c \in Capsules, c \notin StopCapsules(x) \cup CreditCapsules(x)
      PROVE  StopAgrees(t, b, Append(W, c), x)
  <2>1. EndsLast(Append(W, c), StopCapsules(x), StopCapsules(x) \cup CreditCapsules(x))
    BY <1>1, <1>2, <1>3, EndsAppend DEF StopAgrees
  <2>2. /\ NoneOf(W, StopCapsules(x)) => NoneOf(Append(W, c), StopCapsules(x))
        /\ NoneOf(W, StopCapsules(x) \cup CreditCapsules(x)) =>
             NoneOf(Append(W, c), StopCapsules(x) \cup CreditCapsules(x))
    BY <1>1, <1>3, NoneAppend
  <2> QED BY <1>2, <2>1, <2>2 DEF StopAgrees
<1> QED BY <1>2, <1>3

LEMMA StopSent ==
  ASSUME NEW a, NEW b, NEW W, Ends(a, b, W), NEW x \in Ids, NEW t, StopAgrees(a, b, W, x),
         Granting(a, x),
         NEW c \in StopCapsules(x) \cup CreditCapsules(x), c \in StopCapsules(x) => ~Granting(t, x)
  PROVE  StopAgrees(t, b, Append(W, c), x)
<1>1. W \in Seq(Capsules) /\ c \in Capsules
  BY WireKinds DEF Ends
<1>2. NoneOf(W, StopCapsules(x)) /\ x \notin b.stop_sending_received_ids
  BY DEF StopAgrees
<1>3. EndsLast(Append(W, c), StopCapsules(x), StopCapsules(x) \cup CreditCapsules(x))
  BY <1>1, <1>2, EndsAppend DEF StopAgrees
<1>4. Granting(t, x) => NoneOf(Append(W, c), StopCapsules(x))
  BY <1>1, <1>2, NoneAppend
<1> QED BY <1>2, <1>3, <1>4 DEF StopAgrees

LEMMA CreditKept ==
  ASSUME NEW a, NEW b, NEW W, Ends(a, b, W), NEW x \in Ids, NEW t \in Sessions,
         CreditAgrees(a, b, W, x),
         Gone(t, x) \/ (~Gone(a, x) /\ RecvMaxOf(t, x) = RecvMaxOf(a, x))
  PROVE  /\ CreditAgrees(t, b, W, x)
         /\ \A c \in Capsules : c \notin CreditCapsules(x) => CreditAgrees(t, b, Append(W, c), x)
<1>1. W \in Seq(Capsules) /\ SendMaxOf(b, x) \in Nat /\ RecvMaxOf(t, x) \in Nat
  BY ViewTypes DEF Ends
<1>2. CreditAgrees(t, b, W, x)
  BY DEF CreditAgrees
<1>3. ASSUME NEW c \in Capsules, c \notin CreditCapsules(x)
      PROVE  CreditAgrees(t, b, Append(W, c), x)
  BY <1>1, <1>2, <1>3, RisingOther, Announcements DEF CreditAgrees
<1> QED BY <1>2, <1>3

LEMMA CreditSent ==
  ASSUME NEW a, NEW b, NEW W, Ends(a, b, W), NEW x \in Ids, NEW t \in Sessions,
         CreditAgrees(a, b, W, x), ~Gone(a, x), NEW c \in CreditCapsules(x),
         RecvMaxOf(a, x) < c.maximum, Gone(t, x) \/ RecvMaxOf(t, x) = c.maximum
  PROVE  CreditAgrees(t, b, Append(W, c), x)
<1>1. W \in Seq(Capsules) /\ SendMaxOf(b, x) \in Nat /\ RecvMaxOf(a, x) \in Nat
  BY ViewTypes DEF Ends
<1>2. Announcing(CreditCapsules(x)) /\ c.maximum \in Nat /\ c \in Capsules
  BY Announcements DEF Announcing
<1>3. Rising(SendMaxOf(b, x), Marks(Append(W, c), CreditCapsules(x)), c.maximum)
  BY <1>1, <1>2, RisingMore DEF CreditAgrees
<1>4. Append(W, c) \in Seq(Capsules)
  BY <1>1, <1>2
<1>5. Climbs(SendMaxOf(b, x), Marks(Append(W, c), CreditCapsules(x)))
  BY <1>1, <1>2, <1>3, <1>4, RisingBound
<1> QED BY <1>3, <1>5 DEF CreditAgrees

LEMMA NamedKept ==
  ASSUME NEW a, NEW t, NEW W \in Seq(Capsules), AllNamed(a, W), t.role = a.role,
         \A x : Remembered(a, x) => Remembered(t, x)
  PROVE  /\ AllNamed(t, W)
         /\ \A c \in Capsules : Named(t, c) => AllNamed(t, Append(W, c))
<1>1. AllNamed(t, W)
  BY DEF AllNamed, Named
<1>2. ASSUME NEW c \in Capsules, Named(t, c)
      PROVE  AllNamed(t, Append(W, c))
  BY <1>1, <1>2, PlacesAppend DEF AllNamed
<1> QED BY <1>1, <1>2

-----------------------------------------------------------------------------
(* What a step of the receiver b, which leaves u, keeps: it takes the      *)
(* first capsule of W, or none.                                            *)

(* The receiving direction is as before.                                   *)
ReceiveKeeps(b, u, x) ==
  /\ Receiving(u, x) <=> Receiving(b, x)
  /\ Receiving(b, x) => Received(u, x) = Received(b, x)
  /\ Remembered(b, x) => Remembered(u, x)

LEMMA DataUntaken ==
  ASSUME NEW a, NEW b, NEW W, Ends(a, b, W), NEW x \in Ids, NEW u \in Sessions,
         ReceiveKeeps(b, u, x), DataAgrees(a, b, W, x)
  PROVE  /\ DataAgrees(a, u, W, x)
         /\ W # << >> /\ Head(W) \notin DataCapsules(x) \cup ResetCapsules(x) =>
              DataAgrees(a, u, Tail(W), x)
<1>1. W \in Seq(Capsules)
  BY DEF Ends
<1>2. Receiving(b, x) => Coming(u, W, x) = Coming(b, W, x)
  BY DEF Coming, ReceiveKeeps
<1>3. \A k \in 1 .. Len(W) : W[k] \in ResetCapsules(x) => Receiving(b, x)
  BY DEF DataAgrees, QuietWire, NoneOf
<1>4. DataAgrees(a, u, W, x)
  BY <1>2, <1>3 DEF DataAgrees, ReceiveKeeps
<1>5. ASSUME W # << >>, Head(W) \notin DataCapsules(x) \cup ResetCapsules(x)
      PROVE  DataAgrees(a, u, Tail(W), x)
  <2>1. Coming(u, Tail(W), x) = Coming(u, W, x)
    BY <1>1, <1>5, InWireTail DEF Coming
  <2>2. QuietWire(W, x) => QuietWire(Tail(W), x)
    BY <1>1, <1>5, NoneTail DEF QuietWire
  <2>3. ~NoneOf(W, DataCapsules(x)) => ~NoneOf(Tail(W), DataCapsules(x))
    BY <1>1, <1>5, NoneTail
  <2>4. \A k \in 1 .. Len(Tail(W)) : k + 1 \in 1 .. Len(W) /\ Tail(W)[k] = W[k + 1]
    BY <1>1, <1>5, PlacesTail
  <2> QED BY <2>1, <2>2, <2>3, <2>4, <1>4, Zenon DEF DataAgrees
<1> QED BY <1>4, <1>5

(* The order of data and resets on the wire, as the pipes have it.         *)
InOrder(a, W, x) ==
  LET D == DataCapsules(x)
      R == ResetCapsules(x)
  IN  EndsLast(W, Final(D, R), D \cup R) /\ (Sending(a, x) => NoneOf(W, Final(D, R)))

LEMMA DataTaken ==
  ASSUME NEW a, NEW b, NEW W, Ends(a, b, W), NEW x \in Ids, NEW u \in Sessions,
         DataAgrees(a, b, W, x), InOrder(a, W, x), W # << >>, Head(W) \in DataCapsules(x),
         Receiving(b, x), Receiving(u, x) <=> ~Head(W).fin,
         ~Head(W).fin => Received(u, x) = Received(b, x) + Head(W).size,
         Remembered(u, x)
  PROVE  DataAgrees(a, u, Tail(W), x)
<1> DEFINE c == Head(W)
           X == Tail(W)
<1>1. /\ W \in Seq(Capsules) /\ Received(b, x) \in Nat /\ Received(u, x) \in Nat
      /\ c.size \in Nat /\ c.type = "STREAM"
  BY ViewTypes, WireKinds DEF Ends
<1>2. InWire(W, x) = c.size + InWire(X, x) /\ InWire(X, x) \in Nat
  BY <1>1, InWireTail
<1>3. \A k \in 1 .. Len(X) : k + 1 \in 1 .. Len(W) /\ X[k] = W[k + 1]
  BY <1>1, PlacesTail
<1>4. c.fin => QuietWire(X, x) /\ ~Sending(a, x)
  <2>1. c.fin => c \in Final(DataCapsules(x), ResetCapsules(x))
    BY DEF Final
  <2>2. c.fin => QuietWire(X, x)
    BY <1>1, <2>1, EndsTail DEF InOrder, QuietWire
  <2>3. c.fin => ~Sending(a, x)
    BY <1>1, <2>1, NoneTail DEF InOrder
  <2> QED BY <2>2, <2>3
<1>5. ~c.fin => Coming(u, X, x) = Coming(b, W, x)
  BY <1>1, <1>2 DEF Coming
<1>6. c.fin => \A k \in 1 .. Len(X) : X[k] \notin ResetCapsules(x)
  BY <1>4 DEF QuietWire, NoneOf
<1> HIDE DEF c, X
<1>7. DataAgrees(a, u, X, x)
  <2>1. Receiving(u, x) <=> ~c.fin
    BY DEF c
  <2>2. CASE c.fin
    BY <1>4, <1>6, <2>1, <2>2 DEF DataAgrees
  <2>3. CASE ~c.fin
    BY <1>3, <1>5, <2>1, <2>3 DEF DataAgrees
  <2> QED BY <2>2, <2>3
<1> QED BY <1>7 DEF X

LEMMA ResetTaken ==
  ASSUME NEW a, NEW b, NEW W, Ends(a, b, W), NEW x \in Ids, NEW u,
         DataAgrees(a, b, W, x), InOrder(a, W, x), W # << >>, Head(W) \in ResetCapsules(x),
         ~Receiving(u, x), Remembered(u, x)
  PROVE  DataAgrees(a, u, Tail(W), x)
<1>1. W \in Seq(Capsules)
  BY DEF Ends
<1>2. Head(W) \in Final(DataCapsules(x), ResetCapsules(x))
  BY DEF Final
<1>3. QuietWire(Tail(W), x)
  BY <1>1, <1>2, EndsTail DEF InOrder, QuietWire
<1>4. ~Sending(a, x)
  BY <1>1, <1>2, NoneTail DEF InOrder
<1>5. \A k \in 1 .. Len(Tail(W)) : Tail(W)[k] \notin ResetCapsules(x)
  BY <1>3 DEF QuietWire, NoneOf
<1> QED BY <1>3, <1>4, <1>5 DEF DataAgrees

LEMMA StopUntaken ==
  ASSUME NEW a, NEW b, NEW W, Ends(a, b, W), NEW x \in Ids, NEW u,
         StopAgrees(a, b, W, x),
         x \in u.stop_sending_received_ids <=> x \in b.stop_sending_received_ids
  PROVE  /\ StopAgrees(a, u, W, x)
         /\ W # << >> => StopAgrees(a, u, Tail(W), x)
<1>1. W \in Seq(Capsules)
  BY DEF Ends
<1>2. StopAgrees(a, u, W, x)
  BY DEF StopAgrees
<1>3. ASSUME W # << >>
      PROVE  StopAgrees(a, u, Tail(W), x)
  <2>1. EndsLast(Tail(W), StopCapsules(x), StopCapsules(x) \cup CreditCapsules(x))
    BY <1>1, <1>2, <1>3, EndsTail DEF StopAgrees
  <2>2. /\ NoneOf(W, StopCapsules(x)) => NoneOf(Tail(W), StopCapsules(x))
        /\ NoneOf(W, StopCapsules(x) \cup CreditCapsules(x)) =>
             NoneOf(Tail(W), StopCapsules(x) \cup CreditCapsules(x))
    BY <1>1, <1>3, NoneTail
  <2> QED BY <1>2, <2>1, <2>2 DEF StopAgrees
<1> QED BY <1>2, <1>3

LEMMA StopTaken ==
  ASSUME NEW a, NEW b, NEW W, Ends(a, b, W), NEW x \in Ids, NEW u,
         StopAgrees(a, b, W, x), W # << >>, Head(W) \in StopCapsules(x)
  PROVE  StopAgrees(a, u, Tail(W), x)
<1>1. W \in Seq(Capsules)
  BY DEF Ends
<1>2. /\ EndsLast(Tail(W), StopCapsules(x), StopCapsules(x) \cup CreditCapsules(x))
      /\ NoneOf(Tail(W), StopCapsules(x) \cup CreditCapsules(x))
  BY <1>1, EndsTail DEF StopAgrees
<1>3. ~Granting(a, x)
  BY <1>1, NoneTail DEF StopAgrees
<1> QED BY <1>2, <1>3 DEF StopAgrees

LEMMA CreditUntaken ==
  ASSUME NEW a, NEW b, NEW W, Ends(a, b, W), NEW x \in Ids, NEW u,
         CreditAgrees(a, b, W, x), SendMaxOf(u, x) = SendMaxOf(b, x)
  PROVE  /\ CreditAgrees(a, u, W, x)
         /\ W # << >> /\ Head(W) \notin CreditCapsules(x) => CreditAgrees(a, u, Tail(W), x)
<1>1. W \in Seq(Capsules) /\ SendMaxOf(b, x) \in Nat /\ RecvMaxOf(a, x) \in Nat
  BY ViewTypes DEF Ends
<1>2. CreditAgrees(a, u, W, x)
  BY DEF CreditAgrees
<1>3. ASSUME W # << >>, Head(W) \notin CreditCapsules(x)
      PROVE  CreditAgrees(a, u, Tail(W), x)
  <2>1. Announcing(CreditCapsules(x))
    BY Announcements
  <2> QED BY <1>1, <1>3, <2>1, RisingTail DEF CreditAgrees
<1> QED BY <1>2, <1>3

LEMMA CreditTaken ==
  ASSUME NEW a, NEW b, NEW W, Ends(a, b, W), NEW x \in Ids, NEW u,
         CreditAgrees(a, b, W, x), W # << >>, Head(W) \in CreditCapsules(x),
         Head(W).maximum # 0, SendMaxOf(u, x) = Head(W).maximum
  PROVE  /\ CreditAgrees(a, u, Tail(W), x)
         /\ SendMaxOf(b, x) < Head(W).maximum
         /\ ~Gone(a, x) => Head(W).maximum <= RecvMaxOf(a, x)
<1>1. W \in Seq(Capsules) /\ SendMaxOf(b, x) \in Nat /\ RecvMaxOf(a, x) \in Nat
  BY ViewTypes DEF Ends
<1>2. Announcing(CreditCapsules(x))
  BY Announcements
<1> QED BY <1>1, <1>2, RisingTail DEF CreditAgrees

LEMMA NamedTail ==
  ASSUME NEW a, NEW W \in Seq(Capsules), AllNamed(a, W), W # << >>
  PROVE  AllNamed(a, Tail(W)) /\ Named(a, Head(W)) /\ Head(W) \in Capsules
<1>1. /\ \A k \in 1 .. Len(Tail(W)) : k + 1 \in 1 .. Len(W) /\ Tail(W)[k] = W[k + 1]
      /\ 1 \in 1 .. Len(W) /\ W[1] = Head(W) /\ Head(W) \in Capsules
  BY PlacesTail
<1> QED BY <1>1 DEF AllNamed

-----------------------------------------------------------------------------
(* What b is sent, it accepts.                                             *)
LEMMA RolesFlip ==
  ASSUME NEW a, NEW b, NEW W, Ends(a, b, W), NEW x \in Ids
  PROVE  /\ x \in Nat /\ a.role \in Roles /\ b.role \in Roles /\ b.role = Peer(a.role)
         /\ IsPeerInitiated(a.role, x) <=> ~IsPeerInitiated(b.role, x)
         /\ HasSendPart(a.role, x) <=> HasRecvPart(b.role, x)
         /\ HasRecvPart(a.role, x) <=> HasSendPart(b.role, x)
<1>1. a.role \in Roles /\ b.role \in Roles /\ a.role = Peer(b.role)
  BY DEF Ends, Sessions
<1>2. b.role = Peer(a.role) /\ (a.role = "client" <=> b.role # "client")
  BY <1>1 DEF Roles, Peer
<1>3. IsPeerInitiated(a.role, x) <=> ~IsPeerInitiated(b.role, x)
  <2>1. x \in Nat
    BY IdsAssumption
  <2>2. /\ ~IsPeerInitiated(a.role, x) <=> x % 2 = (IF a.role = "client" THEN 0 ELSE 1)
        /\ ~IsPeerInitiated(b.role, x) <=> x % 2 = (IF b.role = "client" THEN 0 ELSE 1)
    BY <1>1, <2>1, LocalIds
  <2>3. x % 2 = 0 \/ x % 2 = 1
    BY <2>1
  <2> QED BY <2>2, <2>3, <1>2
<1> QED BY <1>1, <1>2, <1>3, IdsAssumption DEF HasSendPart, HasRecvPart

(* A stream a has opened is within the limit b has announced.              *)
LEMMA WithinLimit ==
  ASSUME NEW a, NEW b, NEW W, Ends(a, b, W), Bounds(a, b), NEW x \in Ids,
         ~IsPeerInitiated(a.role, x), Remembered(a, x)
  PROVE  CanAcceptStream(b.flow_control, x)
<1> DEFINE d == IsBidirectional(x)
<1>1. x \in Nat /\ a.role \in Roles /\ d \in BOOLEAN
  BY RolesFlip DEF IsBidirectional
<1>2. x % 4 = FirstId(a.role, d)
  BY <1>1, LocalIds
<1>3. /\ x < a.next_stream_id[d]
      /\ a.next_stream_id[d] = FirstId(a.role, d) + 4 * a.flow_control.opened_streams[d]
  BY <1>1 DEF Ends, SessionOK
<1>4. a.flow_control \in WtFlowControls /\ b.flow_control \in WtFlowControls
  BY DEF Ends, Sessions
<1>5. /\ a.flow_control.opened_streams[d] \in Nat /\ a.flow_control.max_streams_remote[d] \in Nat
      /\ b.flow_control.max_streams_local[d] \in Nat
  BY <1>1, <1>4, MaxStreamsAssumption DEF WtFlowControls
<1>6. a.flow_control.opened_streams[d] <= b.flow_control.max_streams_local[d]
  BY <1>1, <1>5 DEF Bounds
<1>7. FirstId(a.role, d) \in Nat
  BY <1>1, LocalIds
<1> HIDE DEF d
<1>8. x < b.flow_control.max_streams_local[d] * 4 + (x % 4)
  BY <1>1, <1>2, <1>3, <1>5, <1>6, <1>7
<1> QED BY <1>8 DEF CanAcceptStream, d

(* The hypotheses of what follows: b has not closed, and takes the first.  *)
Next1(a, b, W) ==
  /\ Ends(a, b, W) /\ Always(a, b) /\ Always(b, a) /\ Hears(a, b, W)
  /\ \A x \in Ids : HasSendPart(a.role, x) => InOrder(a, W, x)
  /\ W # << >>

LEMMA FirstOf ==
  ASSUME NEW a, NEW b, NEW W, Next1(a, b, W)
  PROVE  Head(W) \in Capsules /\ Named(a, Head(W)) /\ W \in Seq(Capsules)
BY NamedTail DEF Next1, Ends, Hears

LEMMA FirstAtWork ==
  ASSUME NEW W \in Seq(Capsules), W # << >>, NEW I, Head(W) \in I
  PROVE  ~NoneOf(W, I)
BY NoneTail

LEMMA AcceptsData ==
  ASSUME NEW a, NEW b, NEW W, Next1(a, b, W), Head(W).type = "STREAM"
  PROVE  ~StreamDataRefused(b, Head(W))
<1> DEFINE c == Head(W)
           x == c.id
           t == WithStream(b, x)
<1>1. /\ c \in Capsules /\ x \in Ids /\ c.size \in Nat /\ (c.size # 0 \/ c.fin) /\ c.type = "STREAM"
      /\ Remembered(a, x) /\ HasSendPart(a.role, x) /\ W \in Seq(Capsules)
  BY FirstOf, CapsuleFields DEF Named
<1>2. Ends(a, b, W) /\ W # << >> /\ b \in Sessions /\ a \in Sessions /\ SessionOK(b)
  BY DEF Next1, Ends
<1>3. /\ IsPeerInitiated(a.role, x) <=> ~IsPeerInitiated(b.role, x)
      /\ HasRecvPart(b.role, x)
  BY <1>1, <1>2, RolesFlip
<1>4. DataAgrees(a, b, W, x) /\ StreamBound(a, b, x)
  BY <1>1 DEF Next1, Hears, Always
<1>5. c \in DataCapsules(x)
  BY <1>1 DEF DataCapsules
<1>6. Receiving(b, x)
  <2>1. ~QuietWire(W, x)
    BY <1>1, <1>2, <1>5, FirstAtWork DEF QuietWire
  <2> QED BY <2>1, <1>4 DEF DataAgrees
<1>7. ~Gone(b, x) /\ (Known(b, x) \/ ~Remembered(b, x))
  BY <1>2, <1>6 DEF Receiving, SessionOK, Remembered, Gone, Known
<1>8. ~Known(b, x) => IsPeerInitiated(b.role, x) /\ CanAcceptStream(b.flow_control, x)
  <2> SUFFICES ASSUME ~Known(b, x)
               PROVE  IsPeerInitiated(b.role, x) /\ CanAcceptStream(b.flow_control, x)
    OBVIOUS
  <2>1. IsPeerInitiated(b.role, x)
    <3>1. IsPeerInitiated(a.role, x) => Remembered(b, x)
      BY <1>1 DEF Next1, Always, Knows
    <3> QED BY <3>1, <1>3, <1>7
  <2>2. Bounds(a, b)
    BY DEF Next1, Always
  <2> QED BY <2>1, <2>2, <1>1, <1>2, <1>3, WithinLimit
<1>9. /\ t \in Sessions /\ SessionOK(t) /\ Known(t, x) /\ ~Gone(t, x)
      /\ t.streams[x] = CreatePeerStreamsUpTo(b, x).streams[x]
      /\ Receiving(t, x) /\ Received(t, x) = Received(b, x) /\ RecvMaxOf(t, x) = RecvMaxOf(b, x)
  <2>1. t \in Sessions /\ Known(t, x) /\ t.streams[x] = CreatePeerStreamsUpTo(b, x).streams[x]
    BY <1>1, <1>2, <1>7, WithStreamType
  <2>2. SessionOK(t) /\ Alike(b, t, x)
    <3>1. CASE Known(b, x)
      BY <3>1, <1>2, AlikeRefl DEF WithStream
    <3>2. CASE ~Known(b, x)
      BY <3>2, <1>1, <1>2, <1>8, CreateViews DEF WithStream, AllAlike
    <3> QED BY <3>1, <3>2
  <2>3. RecvAlike(b, t, x)
    BY <2>2, <1>3 DEF Alike
  <2>4. ~Gone(t, x)
    BY <2>1, <2>2 DEF SessionOK, Gone, Known
  <2> QED BY <2>1, <2>2, <2>3, <2>4, <1>6, <1>7 DEF RecvAlike
<1>10. CanRecv(t.streams[x]) /\ t.streams[x].recv_offset = Received(b, x)
       /\ t.streams[x].recv_max = RecvMaxOf(b, x)
  BY <1>9, KnownViews
<1>11. Received(b, x) + c.size <= RecvMaxOf(b, x)
  <2>1. Coming(b, W, x) <= SendMaxOf(a, x) /\ SendMaxOf(a, x) <= RecvMaxOf(b, x)
    BY <1>4, <1>6, <1>7 DEF DataAgrees, StreamBound
  <2>2. InWire(W, x) = c.size + InWire(Tail(W), x) /\ InWire(Tail(W), x) \in Nat
    BY <1>1, <1>2, <1>5, InWireTail
  <2>3. Received(b, x) \in Nat /\ SendMaxOf(a, x) \in Nat /\ RecvMaxOf(b, x) \in Nat
    BY <1>1, <1>2, ViewTypes
  <2> QED BY <2>1, <2>2, <2>3, <1>1 DEF Coming
<1>12. CanRecvDataOf(CreatePeerStreamsUpTo(b, x).streams[x], c.size)
  BY <1>9, <1>10, <1>11 DEF CanRecvDataOf
<1>13. CanConsumeRecv(b.flow_control, c.size)
  <2>1. c \in AllData
    BY <1>1 DEF AllData
  <2>2. Weighable(Capsules, AllData) /\ Tail(W) \in Seq(Capsules)
    BY <1>1, <1>2, WireKinds
  <2>3. /\ SumOf(Weigh(W, AllData)) = c.size + SumOf(Weigh(Tail(W), AllData))
        /\ SumOf(Weigh(Tail(W), AllData)) \in Nat
    BY <2>1, <2>2, <1>1, <1>2, WeighTail, WeighType
  <2>4. /\ b.flow_control.recv_offset + SumOf(Weigh(W, AllData)) = a.flow_control.send_offset
        /\ a.flow_control.send_offset <= a.flow_control.send_max
        /\ a.flow_control.send_max <= b.flow_control.recv_max
    BY DEF Next1, Always, Bounds, Hears, Flow
  <2>5. /\ b.flow_control.recv_offset \in Nat /\ a.flow_control.send_offset \in Nat
        /\ a.flow_control.send_max \in Nat /\ b.flow_control.recv_max \in Nat
    BY <1>2 DEF Sessions, WtFlowControls
  <2> QED BY <2>3, <2>4, <2>5, <1>1 DEF CanConsumeRecv
<1> HIDE DEF c, t
<1> QED BY <1>1, <1>3, <1>7, <1>8, <1>12, <1>13 DEF StreamDataRefused, Gone, c

LEMMA AcceptsReset ==
  ASSUME NEW a, NEW b, NEW W, Next1(a, b, W), Head(W).type = "RESET_STREAM"
  PROVE  ~ResetStreamRefused(b, Head(W))
<1> DEFINE c == Head(W)
           x == c.id
<1>1. /\ c \in Capsules /\ x \in Ids /\ c.type = "RESET_STREAM"
      /\ Remembered(a, x) /\ HasSendPart(a.role, x) /\ W \in Seq(Capsules)
  BY FirstOf, CapsuleFields DEF Named
<1>2. Ends(a, b, W) /\ W # << >> /\ b \in Sessions /\ a \in Sessions /\ SessionOK(b)
  BY DEF Next1, Ends
<1>3. /\ IsPeerInitiated(a.role, x) <=> ~IsPeerInitiated(b.role, x)
      /\ HasRecvPart(b.role, x)
  BY <1>1, <1>2, RolesFlip
<1>4. DataAgrees(a, b, W, x) /\ InOrder(a, W, x)
  BY <1>1 DEF Next1, Hears
<1>5. c \in ResetCapsules(x) /\ c \in Final(DataCapsules(x), ResetCapsules(x))
  BY <1>1 DEF ResetCapsules, Final
<1>6. Receiving(b, x)
  <2>1. ~QuietWire(W, x)
    BY <1>1, <1>2, <1>5, FirstAtWork DEF QuietWire
  <2> QED BY <2>1, <1>4 DEF DataAgrees
<1>7. ~Sending(a, x)
  BY <1>1, <1>2, <1>4, <1>5, FirstAtWork DEF InOrder
<1>8. NoneOf(Tail(W), DataCapsules(x) \cup ResetCapsules(x))
  BY <1>1, <1>2, <1>4, <1>5, EndsTail DEF InOrder
<1>9. c \notin DataCapsules(x)
  BY <1>1 DEF DataCapsules
<1>10. NoneOf(W, DataCapsules(x))
  <2>1. NoneOf(Tail(W), DataCapsules(x))
    BY <1>8 DEF NoneOf
  <2> QED BY <2>1, <1>1, <1>2, <1>9, NoneTail
<1>11. Remembered(b, x)
  <2>1. CASE IsPeerInitiated(a.role, x)
    BY <2>1, <1>1 DEF Next1, Always, Knows
  <2>2. CASE ~IsPeerInitiated(a.role, x)
    BY <2>2, <1>4, <1>7, <1>10 DEF DataAgrees
  <2> QED BY <2>1, <2>2
<1>12. Known(b, x) /\ CanRecv(b.streams[x])
  BY <1>6, <1>11 DEF Receiving
<1>13. c.reliable_size = b.streams[x].recv_offset
  <2>1. c.reliable_size = Coming(b, W, x)
    <3>1. 1 \in 1 .. Len(W) /\ W[1] = c
      BY <1>1, <1>2, PlacesTail
    <3> QED BY <3>1, <1>4, <1>5 DEF DataAgrees
  <2>2. InWire(W, x) = 0
    <3>1. Items(Capsules, DataCapsules(x), ResetCapsules(x)) /\ Tail(W) \in Seq(Capsules)
      BY <1>1, <1>2, PipeItems
    <3>2. InWire(Tail(W), x) = 0
      BY <3>1, <1>8, NoneSum DEF InWire
    <3> QED BY <3>2, <1>1, <1>2, <1>9, InWireTail
  <2>3. Received(b, x) \in Nat /\ Received(b, x) = b.streams[x].recv_offset
    BY <1>1, <1>2, <1>12, ViewTypes, KnownViews
  <2> QED BY <2>1, <2>2, <2>3 DEF Coming
<1> HIDE DEF c
<1> QED BY <1>3, <1>12, <1>13 DEF ResetStreamRefused, ReceivesOn, c

(* A capsule about the sending direction of b: the stream is known to b,   *)
(* or may be created.                                                      *)
LEMMA AboutSending ==
  ASSUME NEW a, NEW b, NEW W, Next1(a, b, W), Head(W).type \in {"STOP_SENDING", "MAX_STREAM_DATA"}
  PROVE  LET x == Head(W).id
         IN  /\ Head(W) \in Capsules /\ x \in Ids /\ HasRecvPart(a.role, x) /\ HasSendPart(b.role, x)
             /\ ~IsReceiveOnly(b, x) /\ ~IsUncreatedLocal(b, x)
             /\ ~StopSendingReceived(b, x) /\ ~ImplicitRefused(b, x)
<1> DEFINE c == Head(W)
           x == c.id
<1>1. /\ c \in Capsules /\ x \in Ids /\ Remembered(a, x) /\ HasRecvPart(a.role, x)
      /\ W \in Seq(Capsules)
  BY FirstOf, CapsuleFields DEF Named
<1>2. Ends(a, b, W) /\ W # << >> /\ b \in Sessions /\ a \in Sessions /\ SessionOK(b)
  BY DEF Next1, Ends
<1>3. /\ IsPeerInitiated(a.role, x) <=> ~IsPeerInitiated(b.role, x)
      /\ HasSendPart(b.role, x) /\ b.role \in Roles
  BY <1>1, <1>2, RolesFlip
<1>4. ~IsReceiveOnly(b, x)
  BY <1>3 DEF IsReceiveOnly, HasSendPart
<1>5. ~IsUncreatedLocal(b, x)
  <2> SUFFICES ASSUME ~IsPeerInitiated(b.role, x), x >= b.next_stream_id[IsBidirectional(x)]
               PROVE  FALSE
    BY DEF IsUncreatedLocal
  <2>1. Remembered(b, x)
    BY <1>1, <1>3 DEF Next1, Always, Knows
  <2>2. x < b.next_stream_id[IsBidirectional(x)]
    BY <2>1, <1>1, <1>2 DEF SessionOK
  <2>3. IsBidirectional(x) \in BOOLEAN
    BY DEF IsBidirectional
  <2>4. b.next_stream_id[IsBidirectional(x)] \in Nat /\ x \in Nat
    BY <2>3, <1>1, <1>2, IdsAssumption DEF Sessions
  <2> QED BY <2>2, <2>4
<1>6. ~StopSendingReceived(b, x)
  <2>1. c \in StopCapsules(x) \cup CreditCapsules(x)
    BY <1>1 DEF StopCapsules, CreditCapsules
  <2>2. ~NoneOf(W, StopCapsules(x) \cup CreditCapsules(x))
    BY <2>1, <1>1, <1>2, FirstAtWork
  <2>3. x \notin b.stop_sending_received_ids
    BY <2>2, <1>1 DEF Next1, Hears, StopAgrees
  <2> QED BY <2>3, <1>2, StopKnown
<1>7. ~ImplicitRefused(b, x)
  <2> SUFFICES ASSUME CreatesImplicitly(b, x)
               PROVE  CanAcceptStream(b.flow_control, x)
    BY DEF ImplicitRefused
  <2>1. ~IsPeerInitiated(a.role, x)
    BY <1>3 DEF CreatesImplicitly
  <2>2. Bounds(a, b)
    BY DEF Next1, Always
  <2> QED BY <2>1, <2>2, <1>1, <1>2, WithinLimit
<1> QED BY <1>1, <1>3, <1>4, <1>5, <1>6, <1>7

LEMMA AcceptsStop ==
  ASSUME NEW a, NEW b, NEW W, Next1(a, b, W), Head(W).type = "STOP_SENDING"
  PROVE  ~StopSendingRefused(b, Head(W))
BY AboutSending DEF StopSendingRefused

(* The credit in a capsule is news.                                        *)
LEMMA CreditIsNews ==
  ASSUME NEW a, NEW b, NEW W, Next1(a, b, W)
  PROVE  LET c == Head(W)
         IN  /\ c.type = "MAX_STREAM_DATA" =>
                  /\ c.id \in Ids /\ c.maximum \in Nat /\ c.maximum # 0
                  /\ SendMaxOf(b, c.id) < c.maximum
                  /\ ~Gone(a, c.id) => c.maximum <= RecvMaxOf(a, c.id)
             /\ c.type = "MAX_DATA" =>
                  /\ c.maximum \in Nat /\ c.maximum # 0
                  /\ b.flow_control.send_max < c.maximum /\ c.maximum <= a.flow_control.recv_max
             /\ c.type = "MAX_STREAMS" =>
                  /\ c.bidirectional \in BOOLEAN /\ c.maximum \in Nat /\ c.maximum # 0
                  /\ b.flow_control.max_streams_remote[c.bidirectional] < c.maximum
                  /\ c.maximum <= a.flow_control.max_streams_local[c.bidirectional]
<1> DEFINE c == Head(W)
<1>1. c \in Capsules /\ Named(a, c) /\ W \in Seq(Capsules)
  BY FirstOf
<1>2. Ends(a, b, W) /\ W # << >> /\ b \in Sessions /\ a \in Sessions
  BY DEF Next1, Ends
<1>3. a.flow_control \in WtFlowControls /\ b.flow_control \in WtFlowControls
  BY <1>2 DEF Sessions
<1>4. ASSUME c.type = "MAX_STREAM_DATA"
      PROVE  /\ c.id \in Ids /\ c.maximum \in Nat /\ c.maximum # 0
             /\ SendMaxOf(b, c.id) < c.maximum
             /\ ~Gone(a, c.id) => c.maximum <= RecvMaxOf(a, c.id)
  <2>1. c.id \in Ids /\ c.maximum \in Nat /\ c.maximum # 0 /\ HasRecvPart(a.role, c.id)
    BY <1>1, <1>4, CapsuleFields DEF Named
  <2>2. c \in CreditCapsules(c.id)
    BY <1>1, <1>4 DEF CreditCapsules
  <2>3. CreditAgrees(a, b, W, c.id)
    BY <2>1 DEF Next1, Hears
  <2>4. SendMaxOf(b, c.id) \in Nat /\ RecvMaxOf(a, c.id) \in Nat /\ Announcing(CreditCapsules(c.id))
    BY <2>1, <1>2, ViewTypes, Announcements
  <2>5. /\ Climbs(SendMaxOf(b, c.id), Marks(W, CreditCapsules(c.id)))
        /\ ~Gone(a, c.id) => Rising(SendMaxOf(b, c.id), Marks(W, CreditCapsules(c.id)),
                                    RecvMaxOf(a, c.id))
    BY <2>3 DEF CreditAgrees
  <2> HIDE DEF c
  <2>6. SendMaxOf(b, c.id) < c.maximum
    BY <2>1, <2>2, <2>4, <2>5, <1>1, <1>2, RisingTail DEF c
  <2>7. ~Gone(a, c.id) => c.maximum <= RecvMaxOf(a, c.id)
    BY <2>1, <2>2, <2>4, <2>5, <1>1, <1>2, RisingTail DEF c
  <2> QED BY <2>1, <2>6, <2>7
<1>5. ASSUME c.type = "MAX_DATA"
      PROVE  /\ c.maximum \in Nat /\ c.maximum # 0
             /\ b.flow_control.send_max < c.maximum /\ c.maximum <= a.flow_control.recv_max
  <2>1. c.maximum \in Nat /\ c.maximum # 0
    BY <1>1, <1>5, CapsuleFields DEF Named
  <2>2. c \in MaxDataCapsules /\ Announcing(MaxDataCapsules)
    BY <1>1, <1>5, Announcements DEF MaxDataCapsules
  <2>3. b.flow_control.send_max \in Nat /\ a.flow_control.recv_max \in Nat
    BY <1>3 DEF WtFlowControls
  <2>4. Rising(b.flow_control.send_max, Marks(W, MaxDataCapsules), a.flow_control.recv_max)
    BY DEF Next1, Hears, Flow
  <2>5. Climbs(b.flow_control.send_max, Marks(W, MaxDataCapsules))
    BY <2>2, <2>3, <2>4, <1>1, RisingBound
  <2> HIDE DEF c
  <2> QED BY <2>1, <2>2, <2>3, <2>4, <2>5, <1>1, <1>2, RisingTail DEF c
<1>6. ASSUME c.type = "MAX_STREAMS"
      PROVE  /\ c.bidirectional \in BOOLEAN /\ c.maximum \in Nat /\ c.maximum # 0
             /\ b.flow_control.max_streams_remote[c.bidirectional] < c.maximum
             /\ c.maximum <= a.flow_control.max_streams_local[c.bidirectional]
  <2> DEFINE d == c.bidirectional
             v == b.flow_control.max_streams_remote[d]
             g == a.flow_control.max_streams_local[d]
             S == MaxStreamsCapsules(d)
  <2>1. d \in BOOLEAN /\ c.maximum \in Nat /\ c.maximum # 0
    BY <1>1, <1>6, CapsuleFields DEF Named
  <2>2. c \in S /\ Announcing(S)
    BY <1>1, <1>6, <2>1, Announcements DEF MaxStreamsCapsules
  <2>3. v \in Nat /\ g \in Nat
    BY <1>3, <2>1, MaxStreamsAssumption DEF WtFlowControls
  <2>4. Rising(v, Marks(W, S), g)
    BY <2>1 DEF Next1, Hears, Flow
  <2> HIDE DEF c, d, v, g, S
  <2>5. Climbs(v, Marks(W, S))
    BY <2>2, <2>3, <2>4, <1>1, RisingBound
  <2>6. v < c.maximum /\ c.maximum <= g
    BY <2>1, <2>2, <2>3, <2>4, <2>5, <1>1, <1>2, RisingTail DEF c
  <2> QED BY <2>1, <2>6 DEF d, v, g
<1> QED BY <1>4, <1>5, <1>6

LEMMA AcceptsCredit ==
  ASSUME NEW a, NEW b, NEW W, Next1(a, b, W), Head(W).type = "MAX_STREAM_DATA"
  PROVE  ~MaxStreamDataRefused(b, Head(W))
<1> DEFINE c == Head(W)
           x == c.id
<1>1. /\ c \in Capsules /\ x \in Ids /\ HasSendPart(b.role, x)
      /\ ~IsReceiveOnly(b, x) /\ ~IsUncreatedLocal(b, x)
      /\ ~StopSendingReceived(b, x) /\ ~ImplicitRefused(b, x)
  BY AboutSending
<1>2. b \in Sessions /\ SessionOK(b)
  BY DEF Next1, Ends
<1>3. SendMaxOf(b, x) < c.maximum /\ SendMaxOf(b, x) \in Nat /\ c.maximum \in 0 .. MaxValue
  BY <1>1, <1>2, CreditIsNews, ViewTypes, CapsuleFields
<1>4. CreatesImplicitly(b, x) => SendMaxOf(b, x) = InitialSendMax(b, TRUE)
  BY DEF CreatesImplicitly, SendMaxOf, FirstSendMax, InitialSendMax, Remembered, Gone
<1>5. ~Known(b, x) /\ x \in DOMAIN b.closed_stream_send_max =>
        SendMaxOf(b, x) = b.closed_stream_send_max[x]
  BY DEF SendMaxOf, Gone
<1>6. Known(b, x) => SendMaxOf(b, x) = b.streams[x].send_max
  BY DEF SendMaxOf
<1> HIDE DEF c
<1>7. ~(SendMaxOf(b, x) >= c.maximum) /\ c.maximum <= MaxValue /\ c.maximum > SendMaxOf(b, x)
      /\ ~(c.maximum <= SendMaxOf(b, x))
  BY <1>3, MaxValueAssumption
<1>8. ~(CreatesImplicitly(b, x) /\ c.maximum <= InitialSendMax(b, TRUE))
  BY <1>4, <1>7
<1>9. ~(~Known(b, x) /\ x \in DOMAIN b.closed_stream_send_max
          /\ c.maximum <= b.closed_stream_send_max[x])
  BY <1>5, <1>7
<1>10. ~(Known(b, x) /\ ~CanUpdateSendMax(b.streams[x], c.maximum))
  BY <1>6, <1>7 DEF CanUpdateSendMax
<1> QED BY <1>1, <1>8, <1>9, <1>10 DEF MaxStreamDataRefused, c

(* What a sends is accepted.                                               *)
LEMMA NothingRefused ==
  ASSUME NEW a, NEW b, NEW W, Next1(a, b, W)
  PROVE  ~Refused(b, Head(W))
<1> DEFINE c == Head(W)
<1>1. c \in Capsules /\ Named(a, c)
  BY FirstOf
<1>2. c.type = "STREAM" => ~StreamDataRefused(b, c)
  BY AcceptsData
<1>3. c.type = "RESET_STREAM" => ~ResetStreamRefused(b, c)
  BY AcceptsReset
<1>4. c.type = "STOP_SENDING" => ~StopSendingRefused(b, c)
  BY AcceptsStop
<1>5. c.type = "MAX_DATA" => CanRaiseSendMax(b.flow_control, c.maximum)
  BY <1>1, CreditIsNews DEF CanRaiseSendMax, Named
<1>6. c.type = "MAX_STREAM_DATA" => ~MaxStreamDataRefused(b, c)
  BY AcceptsCredit
<1>7. c.type = "MAX_STREAMS" => CanRaiseMaxStreams(b.flow_control, c.maximum, c.bidirectional)
  BY <1>1, CreditIsNews DEF CanRaiseMaxStreams, MaxStreamsIncrease, Named
<1>8. /\ c.type # "STREAM_DATA_BLOCKED"
      /\ c.type = "STREAMS_BLOCKED" => ~(c.maximum > MaxStreamsLimit)
  BY <1>1 DEF Named
<1> HIDE DEF c
<1>9. ~Refused(b, c)
  BY <1>2, <1>3, <1>4, <1>5, <1>6, <1>7, <1>8, Zenon DEF Refused
<1> QED BY <1>9 DEF c

-----------------------------------------------------------------------------
(* A step of end s, which leaves u: what the other end o hears.            *)

(* The receiving direction is as before; it may be granted less.           *)
GrantKeeps(s, u, x) ==
  /\ Granting(u, x) => Granting(s, x)
  /\ Gone(u, x) \/ (~Gone(s, x) /\ RecvMaxOf(u, x) = RecvMaxOf(s, x))

(* The limits of the session s enforces, and what it has sent, follow the  *)
(* capsule c it writes.                                                    *)
Charges(s, u, c) ==
  /\ IF c.type = "MAX_DATA"
     THEN s.flow_control.recv_max < c.maximum /\ u.flow_control.recv_max = c.maximum
     ELSE u.flow_control.recv_max = s.flow_control.recv_max
  /\ \A d \in BOOLEAN :
       IF c.type = "MAX_STREAMS" /\ c.bidirectional = d
       THEN /\ s.flow_control.max_streams_local[d] < c.maximum
            /\ u.flow_control.max_streams_local[d] = c.maximum
       ELSE u.flow_control.max_streams_local[d] = s.flow_control.max_streams_local[d]
  /\ u.flow_control.send_offset =
       s.flow_control.send_offset + (IF c.type = "STREAM" THEN c.size ELSE 0)

LEMMA FlowTypes ==
  ASSUME NEW s \in Sessions
  PROVE  /\ s.flow_control.send_max \in Nat /\ s.flow_control.send_offset \in Nat
         /\ s.flow_control.recv_max \in Nat /\ s.flow_control.recv_offset \in Nat
         /\ \A d \in BOOLEAN : /\ s.flow_control.max_streams_local[d] \in Nat
                               /\ s.flow_control.max_streams_remote[d] \in Nat
                               /\ s.flow_control.opened_streams[d] \in Nat
BY MaxValueAssumption, MaxStreamsAssumption DEF Sessions, WtFlowControls

LEMMA FlowAppend ==
  ASSUME NEW s, NEW o, NEW W, Ends(s, o, W), Flow(s, o, W), NEW u \in Sessions,
         NEW c \in Capsules, Charges(s, u, c)
  PROVE  Flow(u, o, Append(W, c))
<1>1. /\ s \in Sessions /\ o \in Sessions /\ W \in Seq(Capsules)
  BY DEF Ends
<1>2. Rising(o.flow_control.send_max, Marks(Append(W, c), MaxDataCapsules), u.flow_control.recv_max)
  <2> DEFINE v == o.flow_control.send_max
             g == s.flow_control.recv_max
             h == u.flow_control.recv_max
             S == MaxDataCapsules
  <2>1. v \in Nat /\ g \in Nat /\ h \in Nat /\ Announcing(S) /\ Rising(v, Marks(W, S), g)
    BY <1>1, FlowTypes, Announcements DEF Flow
  <2>2. CASE c.type = "MAX_DATA"
    <3>1. c \in S /\ g < c.maximum /\ h = c.maximum
      BY <2>2 DEF Charges, MaxDataCapsules
    <3> HIDE DEF v, g, h, S
    <3> QED BY <3>1, <2>1, <1>1, RisingMore DEF v, g, h, S
  <2>3. CASE c.type # "MAX_DATA"
    <3>1. c \notin S /\ h = g
      BY <2>3 DEF Charges, MaxDataCapsules
    <3> HIDE DEF v, g, h, S
    <3> QED BY <3>1, <2>1, <1>1, RisingOther DEF v, g, h, S
  <2> QED BY <2>2, <2>3
<1>3. ASSUME NEW d \in BOOLEAN
      PROVE  Rising(o.flow_control.max_streams_remote[d], Marks(Append(W, c), MaxStreamsCapsules(d)),
                    u.flow_control.max_streams_local[d])
  <2> DEFINE v == o.flow_control.max_streams_remote[d]
             g == s.flow_control.max_streams_local[d]
             h == u.flow_control.max_streams_local[d]
             S == MaxStreamsCapsules(d)
  <2>1. v \in Nat /\ g \in Nat /\ h \in Nat /\ Announcing(S) /\ Rising(v, Marks(W, S), g)
    BY <1>1, FlowTypes, Announcements DEF Flow
  <2>2. CASE c.type = "MAX_STREAMS" /\ c.bidirectional = d
    <3>1. c \in S /\ g < c.maximum /\ h = c.maximum
      BY <2>2 DEF Charges, MaxStreamsCapsules
    <3> HIDE DEF v, g, h, S
    <3> QED BY <3>1, <2>1, <1>1, RisingMore DEF v, g, h, S
  <2>3. CASE ~(c.type = "MAX_STREAMS" /\ c.bidirectional = d)
    <3>1. c \notin S /\ h = g
      BY <2>3 DEF Charges, MaxStreamsCapsules
    <3> HIDE DEF v, g, h, S
    <3> QED BY <3>1, <2>1, <1>1, RisingOther DEF v, g, h, S
  <2> QED BY <2>2, <2>3
<1>4. o.flow_control.recv_offset + SumOf(Weigh(Append(W, c), AllData)) = u.flow_control.send_offset
  <2> DEFINE w == IF c \in AllData THEN c.size ELSE 0
             n == SumOf(Weigh(W, AllData))
  <2>1. SumOf(Weigh(Append(W, c), AllData)) = n + w
    BY <1>1, WireKinds, WeighAppend
  <2>2. n \in Nat /\ w \in Nat
    BY <1>1, WireKinds, WeighType DEF Weighable
  <2>3. w = IF c.type = "STREAM" THEN c.size ELSE 0
    BY DEF AllData
  <2>4. o.flow_control.recv_offset + n = s.flow_control.send_offset
    BY DEF Flow
  <2>5. u.flow_control.send_offset = s.flow_control.send_offset + w
    BY <2>3 DEF Charges
  <2> HIDE DEF w, n
  <2> QED BY <2>1, <2>2, <2>4, <2>5, <1>1, FlowTypes
<1> QED BY <1>2, <1>3, <1>4 DEF Flow

(* Nothing is written.                                                     *)
LEMMA FlowSilent ==
  ASSUME NEW s, NEW o, NEW W, Flow(s, o, W), NEW u,
         u.flow_control.recv_max = s.flow_control.recv_max,
         u.flow_control.max_streams_local = s.flow_control.max_streams_local,
         u.flow_control.send_offset = s.flow_control.send_offset
  PROVE  Flow(u, o, W)
BY DEF Flow

LEMMA HearsSilent ==
  ASSUME NEW s, NEW o, NEW W, Ends(s, o, W), Hears(s, o, W), NEW u \in Sessions, u.role = s.role,
         u.flow_control.recv_max = s.flow_control.recv_max,
         u.flow_control.max_streams_local = s.flow_control.max_streams_local,
         u.flow_control.send_offset = s.flow_control.send_offset,
         \A x : Remembered(s, x) => Remembered(u, x),
         \A x \in Ids : HasSendPart(s.role, x) => SendKeeps(s, u, x),
         \A x \in Ids : HasRecvPart(s.role, x) => GrantKeeps(s, u, x)
  PROVE  Hears(u, o, W)
<1>1. Flow(u, o, W)
  BY FlowSilent DEF Hears
<1>2. AllNamed(u, W)
  BY NamedKept DEF Hears, Ends
<1>3. \A x \in Ids : HasSendPart(s.role, x) => DataAgrees(u, o, W, x)
  BY DataKept DEF Hears
<1>4. \A x \in Ids : HasRecvPart(s.role, x) => StopAgrees(u, o, W, x)
  BY StopKept DEF Hears, GrantKeeps
<1>5. \A x \in Ids : HasRecvPart(s.role, x) => CreditAgrees(u, o, W, x)
  BY CreditKept DEF Hears, GrantKeeps
<1> QED BY <1>1, <1>2, <1>3, <1>4, <1>5 DEF Hears

LEMMA HearsAppend ==
  ASSUME NEW s, NEW o, NEW W, Ends(s, o, W), Hears(s, o, W), NEW u \in Sessions, u.role = s.role,
         NEW c \in Capsules, Named(u, c), Charges(s, u, c),
         \A x : Remembered(s, x) => Remembered(u, x),
         \A x \in Ids : HasSendPart(s.role, x) =>
           \/ SendKeeps(s, u, x) /\ c \notin DataCapsules(x) \cup ResetCapsules(x)
           \/ DataAgrees(u, o, Append(W, c), x),
         \A x \in Ids : HasRecvPart(s.role, x) =>
           \/ GrantKeeps(s, u, x) /\ c \notin StopCapsules(x) \cup CreditCapsules(x)
           \/ StopAgrees(u, o, Append(W, c), x) /\ CreditAgrees(u, o, Append(W, c), x)
  PROVE  Hears(u, o, Append(W, c))
<1>1. Flow(u, o, Append(W, c))
  BY FlowAppend DEF Hears
<1>2. AllNamed(u, Append(W, c))
  BY NamedKept DEF Hears, Ends
<1>3. ASSUME NEW x \in Ids, HasSendPart(s.role, x) PROVE DataAgrees(u, o, Append(W, c), x)
  <2>1. CASE SendKeeps(s, u, x) /\ c \notin DataCapsules(x) \cup ResetCapsules(x)
    BY <1>3, <2>1, DataKept DEF Hears
  <2> QED BY <1>3, <2>1
<1>4. ASSUME NEW x \in Ids, HasRecvPart(s.role, x)
      PROVE  StopAgrees(u, o, Append(W, c), x) /\ CreditAgrees(u, o, Append(W, c), x)
  <2>1. CASE GrantKeeps(s, u, x) /\ c \notin StopCapsules(x) \cup CreditCapsules(x)
    <3>1. StopAgrees(u, o, Append(W, c), x)
      BY <1>4, <2>1, StopKept DEF Hears, GrantKeeps
    <3>2. CreditAgrees(u, o, Append(W, c), x)
      BY <1>4, <2>1, CreditKept DEF Hears, GrantKeeps
    <3> QED BY <3>1, <3>2
  <2> QED BY <1>4, <2>1
<1> QED BY <1>1, <1>2, <1>3, <1>4 DEF Hears

LEMMA AlwaysSpeaks ==
  ASSUME NEW s, NEW o, Always(s, o), NEW u, u.role = s.role, Bounds(u, o),
         \A x : Remembered(s, x) => Remembered(u, x),
         \A x \in Ids : HasSendPart(s.role, x) =>
           SendMaxOf(u, x) = SendMaxOf(s, x) \/ StreamBound(u, o, x)
  PROVE  Always(u, o)
<1>1. Knows(u, o)
  BY DEF Always, Knows
<1>2. \A x \in Ids : HasSendPart(s.role, x) => StreamBound(u, o, x)
  BY DEF Always, StreamBound
<1> QED BY <1>1, <1>2 DEF Always

-----------------------------------------------------------------------------
(* A step of end s, which leaves u: what it hears of the other end o.      *)

(* The limits of the session that bind s, and what it has received, follow *)
(* the capsule c it takes.                                                 *)
Credits(s, u, c) ==
  /\ u.flow_control.send_max =
       IF c.type = "MAX_DATA" THEN c.maximum ELSE s.flow_control.send_max
  /\ \A d \in BOOLEAN :
       u.flow_control.max_streams_remote[d] =
         IF c.type = "MAX_STREAMS" /\ c.bidirectional = d THEN c.maximum
         ELSE s.flow_control.max_streams_remote[d]
  /\ u.flow_control.recv_offset =
       s.flow_control.recv_offset + (IF c.type = "STREAM" THEN c.size ELSE 0)

LEMMA FlowTail ==
  ASSUME NEW o, NEW s, NEW W, Ends(o, s, W), Flow(o, s, W), W # << >>, Named(o, Head(W)),
         NEW u \in Sessions, Credits(s, u, Head(W))
  PROVE  Flow(o, u, Tail(W))
<1> DEFINE c == Head(W)
<1>1. /\ s \in Sessions /\ o \in Sessions /\ W \in Seq(Capsules) /\ c \in Capsules
  BY DEF Ends
<1>2. Rising(u.flow_control.send_max, Marks(Tail(W), MaxDataCapsules), o.flow_control.recv_max)
  <2> DEFINE v == s.flow_control.send_max
             h == u.flow_control.send_max
             g == o.flow_control.recv_max
             S == MaxDataCapsules
  <2>1. v \in Nat /\ g \in Nat /\ h \in Nat /\ Announcing(S) /\ Rising(v, Marks(W, S), g)
    BY <1>1, FlowTypes, Announcements DEF Flow
  <2>2. CASE c.type = "MAX_DATA"
    <3>1. c \in S /\ c.maximum # 0 /\ h = c.maximum
      BY <1>1, <2>2 DEF Credits, MaxDataCapsules, Named
    <3> HIDE DEF v, g, h, S
    <3> QED BY <3>1, <2>1, <1>1, RisingTail DEF v, g, h, S
  <2>3. CASE c.type # "MAX_DATA"
    <3>1. c \notin S /\ h = v
      BY <2>3 DEF Credits, MaxDataCapsules
    <3> HIDE DEF v, g, h, S
    <3> QED BY <3>1, <2>1, <1>1, RisingTail DEF v, g, h, S
  <2> QED BY <2>2, <2>3
<1>3. ASSUME NEW d \in BOOLEAN
      PROVE  Rising(u.flow_control.max_streams_remote[d], Marks(Tail(W), MaxStreamsCapsules(d)),
                    o.flow_control.max_streams_local[d])
  <2> DEFINE v == s.flow_control.max_streams_remote[d]
             h == u.flow_control.max_streams_remote[d]
             g == o.flow_control.max_streams_local[d]
             S == MaxStreamsCapsules(d)
  <2>1. v \in Nat /\ g \in Nat /\ h \in Nat /\ Announcing(S) /\ Rising(v, Marks(W, S), g)
    BY <1>1, FlowTypes, Announcements DEF Flow
  <2>2. CASE c.type = "MAX_STREAMS" /\ c.bidirectional = d
    <3>1. c \in S /\ c.maximum # 0 /\ h = c.maximum
      BY <1>1, <2>2 DEF Credits, MaxStreamsCapsules, Named
    <3> HIDE DEF v, g, h, S
    <3> QED BY <3>1, <2>1, <1>1, RisingTail DEF v, g, h, S
  <2>3. CASE ~(c.type = "MAX_STREAMS" /\ c.bidirectional = d)
    <3>1. c \notin S /\ h = v
      BY <2>3 DEF Credits, MaxStreamsCapsules
    <3> HIDE DEF v, g, h, S
    <3> QED BY <3>1, <2>1, <1>1, RisingTail DEF v, g, h, S
  <2> QED BY <2>2, <2>3
<1>4. u.flow_control.recv_offset + SumOf(Weigh(Tail(W), AllData)) = o.flow_control.send_offset
  <2> DEFINE w == IF c \in AllData THEN c.size ELSE 0
             n == SumOf(Weigh(W, AllData))
             m == SumOf(Weigh(Tail(W), AllData))
  <2>1. n = w + m
    BY <1>1, WireKinds, WeighTail
  <2>2. n \in Nat /\ w \in Nat /\ m \in Nat
    <3>1. Tail(W) \in Seq(Capsules)
      BY <1>1, PlacesTail
    <3> QED BY <1>1, <3>1, WireKinds, WeighType DEF Weighable
  <2>3. w = IF c.type = "STREAM" THEN c.size ELSE 0
    BY <1>1 DEF AllData
  <2>4. s.flow_control.recv_offset + n = o.flow_control.send_offset
    BY DEF Flow
  <2>5. u.flow_control.recv_offset = s.flow_control.recv_offset + w
    BY <2>3 DEF Credits
  <2> HIDE DEF w, n, m
  <2> QED BY <2>1, <2>2, <2>4, <2>5, <1>1, FlowTypes DEF m
<1> QED BY <1>2, <1>3, <1>4 DEF Flow

LEMMA HearsTail ==
  ASSUME NEW o, NEW s, NEW W, Ends(o, s, W), Hears(o, s, W), W # << >>,
         NEW u \in Sessions, Credits(s, u, Head(W)),
         \A x \in Ids : HasSendPart(o.role, x) =>
           \/ ReceiveKeeps(s, u, x) /\ Head(W) \notin DataCapsules(x) \cup ResetCapsules(x)
           \/ DataAgrees(o, u, Tail(W), x),
         \A x \in Ids : HasRecvPart(o.role, x) =>
           \/ x \in u.stop_sending_received_ids <=> x \in s.stop_sending_received_ids
           \/ Head(W) \in StopCapsules(x),
         \A x \in Ids : HasRecvPart(o.role, x) =>
           IF Head(W) \in CreditCapsules(x) THEN SendMaxOf(u, x) = Head(W).maximum
           ELSE SendMaxOf(u, x) = SendMaxOf(s, x)
  PROVE  Hears(o, u, Tail(W))
<1>1. AllNamed(o, Tail(W)) /\ Named(o, Head(W)) /\ Head(W) \in Capsules
  BY NamedTail DEF Hears, Ends
<1>2. Flow(o, u, Tail(W))
  BY <1>1, FlowTail DEF Hears
<1>3. ASSUME NEW x \in Ids, HasSendPart(o.role, x) PROVE DataAgrees(o, u, Tail(W), x)
  <2>1. CASE ReceiveKeeps(s, u, x) /\ Head(W) \notin DataCapsules(x) \cup ResetCapsules(x)
    BY <1>3, <2>1, DataUntaken DEF Hears
  <2> QED BY <1>3, <2>1
<1>4. ASSUME NEW x \in Ids, HasRecvPart(o.role, x) PROVE StopAgrees(o, u, Tail(W), x)
  <2>1. CASE x \in u.stop_sending_received_ids <=> x \in s.stop_sending_received_ids
    BY <1>4, <2>1, StopUntaken DEF Hears
  <2>2. CASE Head(W) \in StopCapsules(x)
    BY <1>4, <2>2, StopTaken DEF Hears
  <2> QED BY <1>4, <2>1, <2>2
<1>5. ASSUME NEW x \in Ids, HasRecvPart(o.role, x) PROVE CreditAgrees(o, u, Tail(W), x)
  <2>1. CASE Head(W) \in CreditCapsules(x)
    <3>1. Head(W).maximum # 0
      BY <1>1, <2>1 DEF Named, CreditCapsules
    <3> QED BY <1>5, <2>1, <3>1, CreditTaken DEF Hears
  <2>2. CASE Head(W) \notin CreditCapsules(x)
    BY <1>5, <2>2, CreditUntaken DEF Hears
  <2> QED BY <2>1, <2>2
<1> QED BY <1>1, <1>2, <1>3, <1>4, <1>5 DEF Hears

(* A call of s: nothing is taken.                                          *)
LEMMA HearsStill ==
  ASSUME NEW o, NEW s, NEW W, Ends(o, s, W), Hears(o, s, W), NEW u \in Sessions,
         u.flow_control.send_max = s.flow_control.send_max,
         u.flow_control.max_streams_remote = s.flow_control.max_streams_remote,
         u.flow_control.recv_offset = s.flow_control.recv_offset,
         u.stop_sending_received_ids = s.stop_sending_received_ids,
         \A x \in Ids : HasSendPart(o.role, x) => ReceiveKeeps(s, u, x),
         \A x \in Ids : HasRecvPart(o.role, x) => SendMaxOf(u, x) = SendMaxOf(s, x)
  PROVE  Hears(o, u, W)
<1>1. Flow(o, u, W)
  BY DEF Hears, Flow
<1>2. \A x \in Ids : HasSendPart(o.role, x) => DataAgrees(o, u, W, x)
  BY DataUntaken DEF Hears
<1>3. \A x \in Ids : HasRecvPart(o.role, x) => StopAgrees(o, u, W, x)
  BY StopUntaken DEF Hears
<1>4. \A x \in Ids : HasRecvPart(o.role, x) => CreditAgrees(o, u, W, x)
  BY CreditUntaken DEF Hears
<1> QED BY <1>1, <1>2, <1>3, <1>4 DEF Hears

LEMMA AlwaysListens ==
  ASSUME NEW o \in Sessions, NEW s \in Sessions, Always(o, s), NEW u \in Sessions, u.role = s.role,
         u.flow_control.recv_max >= s.flow_control.recv_max,
         \A d \in BOOLEAN :
           u.flow_control.max_streams_local[d] >= s.flow_control.max_streams_local[d],
         \A x \in Ids : IsPeerInitiated(s.role, x) /\ Remembered(u, x) =>
           Remembered(s, x) \/ Remembered(o, x),
         \A x \in Ids : HasSendPart(o.role, x) =>
           Gone(u, x) \/ (~Gone(s, x) /\ RecvMaxOf(u, x) >= RecvMaxOf(s, x))
  PROVE  Always(o, u)
<1>1. Bounds(o, u)
  <2>1. /\ o.flow_control.send_offset <= o.flow_control.send_max
        /\ o.flow_control.send_max <= s.flow_control.recv_max
        /\ \A d \in BOOLEAN :
             /\ o.flow_control.opened_streams[d] <= o.flow_control.max_streams_remote[d]
             /\ o.flow_control.max_streams_remote[d] <= s.flow_control.max_streams_local[d]
    BY DEF Always, Bounds
  <2>2. o.flow_control.send_max <= u.flow_control.recv_max
    BY <2>1, FlowTypes
  <2>3. \A d \in BOOLEAN : o.flow_control.max_streams_remote[d] <= u.flow_control.max_streams_local[d]
    BY <2>1, FlowTypes
  <2> QED BY <2>1, <2>2, <2>3 DEF Bounds
<1>2. Knows(o, u)
  BY DEF Always, Knows
<1>3. ASSUME NEW x \in Ids, HasSendPart(o.role, x) PROVE StreamBound(o, u, x)
  <2> SUFFICES ASSUME ~Gone(u, x) PROVE SendMaxOf(o, x) <= RecvMaxOf(u, x)
    BY DEF StreamBound
  <2>1. ~Gone(s, x) /\ RecvMaxOf(u, x) >= RecvMaxOf(s, x)
    BY <1>3
  <2>2. SendMaxOf(o, x) <= RecvMaxOf(s, x)
    BY <1>3, <2>1 DEF Always, StreamBound
  <2> QED BY <2>1, <2>2, ViewTypes
<1> QED BY <1>1, <1>2, <1>3 DEF Always

-----------------------------------------------------------------------------
(* Calls of end s, which leave t, with the other end o.                    *)
Talking(s, o, Wo, Wi) ==
  /\ Ends(s, o, Wo) /\ Toward(s, o, Wo)
  /\ Ends(o, s, Wi) /\ Toward(o, s, Wi)

(* What a call leaves alone, as far as s listens to o.                     *)
CallKeeps(s, t) ==
  /\ t \in Sessions /\ Kept(s, t) /\ (t.state # "Closed" => s.state # "Closed")
  /\ t.flow_control.send_max = s.flow_control.send_max
  /\ t.flow_control.max_streams_remote = s.flow_control.max_streams_remote
  /\ t.flow_control.recv_offset = s.flow_control.recv_offset
  /\ t.flow_control.recv_max >= s.flow_control.recv_max
  /\ \A d \in BOOLEAN :
       t.flow_control.max_streams_local[d] >= s.flow_control.max_streams_local[d]
  /\ t.stop_sending_received_ids = s.stop_sending_received_ids
  /\ \A x : Remembered(s, x) => Remembered(t, x)
  /\ \A x \in Ids : IsPeerInitiated(s.role, x) /\ Remembered(t, x) => Remembered(s, x)
  /\ \A x \in Ids : HasRecvPart(s.role, x) =>
       /\ Receiving(t, x) <=> Receiving(s, x)
       /\ Receiving(s, x) => Received(t, x) = Received(s, x)
       /\ Gone(t, x) \/ (~Gone(s, x) /\ RecvMaxOf(t, x) >= RecvMaxOf(s, x))
  /\ \A x \in Ids : HasSendPart(s.role, x) => SendMaxOf(t, x) = SendMaxOf(s, x)

LEMMA CallListens ==
  ASSUME NEW s, NEW o, NEW Wo, NEW Wi, Talking(s, o, Wo, Wi), NEW t, CallKeeps(s, t)
  PROVE  Toward(o, t, Wi)
<1>1. /\ Ends(o, s, Wi) /\ Always(o, s) /\ o \in Sessions /\ s \in Sessions
      /\ t \in Sessions /\ t.role = s.role
  BY DEF Talking, Ends, Toward, CallKeeps, Kept
<1>2. \A x \in Ids : /\ HasSendPart(o.role, x) <=> HasRecvPart(s.role, x)
                     /\ HasRecvPart(o.role, x) <=> HasSendPart(s.role, x)
  BY <1>1, RolesFlip
<1>3. Always(o, t)
  BY <1>1, <1>2, AlwaysListens DEF CallKeeps
<1>4. ASSUME t.state # "Closed" PROVE Hears(o, t, Wi)
  <2>1. Hears(o, s, Wi)
    BY <1>4 DEF CallKeeps, Talking, Toward
  <2>2. \A x \in Ids : HasSendPart(o.role, x) => ReceiveKeeps(s, t, x)
    BY <1>2 DEF CallKeeps, ReceiveKeeps
  <2> QED BY <1>1, <1>2, <2>1, <2>2, HearsStill DEF CallKeeps
<1> QED BY <1>3, <1>4 DEF Toward

LEMMA AlikeKeeps ==
  ASSUME NEW s \in Sessions, NEW t \in Sessions, NEW x \in Ids, Alike(s, t, x)
  PROVE  /\ HasSendPart(s.role, x) => SendKeeps(s, t, x) /\ SendMaxOf(t, x) = SendMaxOf(s, x)
         /\ HasRecvPart(s.role, x) =>
              /\ GrantKeeps(s, t, x)
              /\ Receiving(t, x) <=> Receiving(s, x)
              /\ Receiving(s, x) => Received(t, x) = Received(s, x)
              /\ Gone(t, x) \/ (~Gone(s, x) /\ RecvMaxOf(t, x) >= RecvMaxOf(s, x))
<1>1. SendMaxOf(s, x) \in Nat /\ RecvMaxOf(s, x) \in Nat
  BY ViewTypes
<1>2. HasSendPart(s.role, x) => SendKeeps(s, t, x) /\ SendMaxOf(t, x) = SendMaxOf(s, x)
  BY <1>1 DEF Alike, SendAlike, SentKept, SendKeeps
<1>3. HasRecvPart(s.role, x) => RecvAlike(s, t, x)
  BY DEF Alike
<1>4. RecvAlike(s, t, x) => GrantKeeps(s, t, x)
  BY DEF RecvAlike, GrantKeeps
<1>5. RecvAlike(s, t, x) =>
        /\ Receiving(t, x) <=> Receiving(s, x)
        /\ Receiving(s, x) => Received(t, x) = Received(s, x)
        /\ Gone(t, x) \/ (~Gone(s, x) /\ RecvMaxOf(t, x) >= RecvMaxOf(s, x))
  BY <1>1 DEF RecvAlike
<1> QED BY <1>2, <1>3, <1>4, <1>5

(* A call that changes no stream in the eyes of the other end.             *)
LEMMA AlikeCall ==
  ASSUME NEW s \in Sessions, NEW t \in Sessions, Kept(s, t), AllAlike(s, t),
         t.state # "Closed" => s.state # "Closed",
         t.flow_control.send_max = s.flow_control.send_max,
         t.flow_control.max_streams_remote = s.flow_control.max_streams_remote,
         t.flow_control.recv_offset = s.flow_control.recv_offset,
         t.flow_control.recv_max >= s.flow_control.recv_max,
         \A d \in BOOLEAN :
           t.flow_control.max_streams_local[d] >= s.flow_control.max_streams_local[d],
         t.stop_sending_received_ids = s.stop_sending_received_ids,
         \A x : Remembered(s, x) => Remembered(t, x),
         \A x \in Ids : IsPeerInitiated(s.role, x) /\ Remembered(t, x) => Remembered(s, x)
  PROVE  CallKeeps(s, t)
<1>1. \A x \in Ids : Alike(s, t, x)
  BY DEF AllAlike
<1> QED BY <1>1, AlikeKeeps DEF CallKeeps

(* A call that writes nothing: initiate, open_stream, poll_event.          *)
LEMMA SilentCall ==
  ASSUME NEW s, NEW o, NEW Wo, NEW Wi, Talking(s, o, Wo, Wi), NEW t, CallKeeps(s, t),
         AllAlike(s, t), Bounds(t, o),
         t.flow_control.recv_max = s.flow_control.recv_max,
         t.flow_control.max_streams_local = s.flow_control.max_streams_local,
         t.flow_control.send_offset = s.flow_control.send_offset
  PROVE  Toward(t, o, Wo) /\ Toward(o, t, Wi)
<1>1. /\ Ends(s, o, Wo) /\ Always(s, o) /\ s \in Sessions /\ t \in Sessions /\ t.role = s.role
      /\ \A x \in Ids : Alike(s, t, x)
      /\ \A x : Remembered(s, x) => Remembered(t, x)
  BY DEF Talking, Ends, Toward, CallKeeps, Kept, AllAlike
<1>2. /\ \A x \in Ids : HasSendPart(s.role, x) => SendKeeps(s, t, x) /\ SendMaxOf(t, x) = SendMaxOf(s, x)
      /\ \A x \in Ids : HasRecvPart(s.role, x) => GrantKeeps(s, t, x)
  BY <1>1, AlikeKeeps
<1>3. Always(t, o)
  BY <1>1, <1>2, AlwaysSpeaks
<1>4. ASSUME o.state # "Closed" PROVE Hears(t, o, Wo)
  <2>1. Hears(s, o, Wo)
    BY <1>4 DEF Talking, Toward
  <2> QED BY <1>1, <1>2, <2>1, HearsSilent
<1>5. Toward(o, t, Wi)
  BY CallListens
<1> QED BY <1>3, <1>4, <1>5 DEF Toward

(* A call that writes a capsule about no stream.                           *)
LEMMA QuietCall ==
  ASSUME NEW s, NEW o, NEW Wo, NEW Wi, Talking(s, o, Wo, Wi), NEW t, CallKeeps(s, t),
         AllAlike(s, t), Bounds(t, o), NEW c \in QuietCapsules, Named(t, c), Charges(s, t, c)
  PROVE  Toward(t, o, Append(Wo, c)) /\ Toward(o, t, Wi)
<1>1. /\ Ends(s, o, Wo) /\ Always(s, o) /\ s \in Sessions /\ t \in Sessions /\ t.role = s.role
      /\ \A x \in Ids : Alike(s, t, x)
      /\ \A x : Remembered(s, x) => Remembered(t, x)
  BY DEF Talking, Ends, Toward, CallKeeps, Kept, AllAlike
<1>2. /\ \A x \in Ids : HasSendPart(s.role, x) => SendKeeps(s, t, x) /\ SendMaxOf(t, x) = SendMaxOf(s, x)
      /\ \A x \in Ids : HasRecvPart(s.role, x) => GrantKeeps(s, t, x)
  BY <1>1, AlikeKeeps
<1>3. Always(t, o)
  BY <1>1, <1>2, AlwaysSpeaks
<1>4. /\ c \in Capsules
      /\ \A x : /\ c \notin DataCapsules(x) \cup ResetCapsules(x)
                /\ c \notin StopCapsules(x) \cup CreditCapsules(x)
  BY DEF QuietCapsules, DataCapsules, ResetCapsules, StopCapsules, CreditCapsules
<1>5. ASSUME o.state # "Closed" PROVE Hears(t, o, Append(Wo, c))
  <2>1. Hears(s, o, Wo)
    BY <1>5 DEF Talking, Toward
  <2> QED BY <1>1, <1>2, <1>4, <2>1, HearsAppend
<1>6. Toward(o, t, Wi)
  BY CallListens
<1> QED BY <1>3, <1>5, <1>6 DEF Toward

(* A call on stream id, which leaves it as st.                             *)
LEMMA StreamCall ==
  ASSUME NEW s \in Sessions, SessionOK(s), NEW id \in Ids, Known(s, id), NEW t, NEW st \in WtStreams,
         OnlyStream(s, t, id, st),
         st.send_max = s.streams[id].send_max,
         CanRecv(st) <=> CanRecv(s.streams[id]),
         st.recv_offset = s.streams[id].recv_offset,
         st.recv_max >= s.streams[id].recv_max,
         t.flow_control.send_max = s.flow_control.send_max,
         t.flow_control.max_streams_remote = s.flow_control.max_streams_remote,
         t.flow_control.recv_offset = s.flow_control.recv_offset,
         t.flow_control.recv_max = s.flow_control.recv_max,
         t.flow_control.max_streams_local = s.flow_control.max_streams_local,
         t.stop_sending_received_ids = s.stop_sending_received_ids
  PROVE  CallKeeps(s, t)
<1>1. /\ t \in Sessions /\ Kept(s, t) /\ Became(s, t, id, st) /\ t.state = s.state
  BY DEF OnlyStream
<1>2. \A x : Remembered(t, x) <=> Remembered(s, x)
  BY <1>1 DEF Became
<1>3. /\ t.flow_control.recv_max >= s.flow_control.recv_max
      /\ \A d \in BOOLEAN :
           t.flow_control.max_streams_local[d] >= s.flow_control.max_streams_local[d]
  BY FlowTypes
<1>4. ASSUME NEW x \in Ids, HasRecvPart(s.role, x)
      PROVE  /\ Receiving(t, x) <=> Receiving(s, x)
             /\ Receiving(s, x) => Received(t, x) = Received(s, x)
             /\ Gone(t, x) \/ (~Gone(s, x) /\ RecvMaxOf(t, x) >= RecvMaxOf(s, x))
  <2>1. CASE x = id
    BY <1>1, <1>4, <2>1, KnownViews DEF Became
  <2>2. CASE x # id
    <3>1. Alike(s, t, x)
      BY <1>1, <2>2 DEF Became
    <3> QED BY <1>1, <1>4, <3>1, AlikeKeeps
  <2> QED BY <2>1, <2>2
<1>5. ASSUME NEW x \in Ids, HasSendPart(s.role, x) PROVE SendMaxOf(t, x) = SendMaxOf(s, x)
  <2>1. CASE x = id
    BY <1>1, <1>5, <2>1, KnownViews DEF Became
  <2>2. CASE x # id
    <3>1. Alike(s, t, x)
      BY <1>1, <2>2 DEF Became
    <3> QED BY <1>1, <1>5, <3>1, AlikeKeeps
  <2> QED BY <2>1, <2>2
<1> QED BY <1>1, <1>2, <1>3, <1>4, <1>5 DEF CallKeeps

(* The parts of the stream a call does not use.                            *)
LEMMA StreamParts ==
  ASSUME NEW s \in Sessions, SessionOK(s), NEW id \in Ids, Known(s, id), NEW t, NEW st \in WtStreams,
         OnlyStream(s, t, id, st)
  PROVE  /\ /\ HasSendPart(s.role, id) /\ st.send_max = s.streams[id].send_max
            /\ st.send_offset = s.streams[id].send_offset /\ st.send_state = s.streams[id].send_state
            => SendKeeps(s, t, id)
         /\ /\ HasRecvPart(s.role, id) /\ st.recv_max = s.streams[id].recv_max
            /\ st.stop_sending_sent = s.streams[id].stop_sending_sent
            => GrantKeeps(s, t, id)
<1>1. Became(s, t, id, st)
  BY DEF OnlyStream
<1>2. SendMaxOf(s, id) \in Nat
  BY ViewTypes
<1>3. ASSUME HasSendPart(s.role, id), st.send_max = s.streams[id].send_max,
             st.send_offset = s.streams[id].send_offset, st.send_state = s.streams[id].send_state
      PROVE  SendKeeps(s, t, id)
  <2>1. CanSend(st) <=> CanSend(s.streams[id])
    BY <1>3 DEF CanSend
  <2> QED BY <1>1, <1>2, <1>3, <2>1, KnownViews DEF Became, SendKeeps, SentKept
<1>4. ASSUME HasRecvPart(s.role, id), st.recv_max = s.streams[id].recv_max,
             st.stop_sending_sent = s.streams[id].stop_sending_sent
      PROVE  GrantKeeps(s, t, id)
  BY <1>1, <1>4, KnownViews DEF Became, GrantKeeps
<1> QED BY <1>3, <1>4

(* The capsule of such a call.                                             *)
LEMMA StreamSpeaks ==
  ASSUME NEW s, NEW o, NEW Wo, NEW Wi, Talking(s, o, Wo, Wi), NEW t, CallKeeps(s, t), NEW id \in Ids,
         \A x \in Ids \ {id} : Alike(s, t, x), Bounds(t, o),
         NEW c \in Capsules, c.type \in {"STREAM", "RESET_STREAM", "STOP_SENDING", "MAX_STREAM_DATA"},
         c.id = id, Named(t, c), Charges(s, t, c),
         HasSendPart(s.role, id) =>
           \/ SendKeeps(s, t, id) /\ c.type \in {"STOP_SENDING", "MAX_STREAM_DATA"}
           \/ Hears(s, o, Wo) => DataAgrees(t, o, Append(Wo, c), id),
         HasRecvPart(s.role, id) =>
           \/ GrantKeeps(s, t, id) /\ c.type \in {"STREAM", "RESET_STREAM"}
           \/ Hears(s, o, Wo) => StopAgrees(t, o, Append(Wo, c), id) /\ CreditAgrees(t, o, Append(Wo, c), id)
  PROVE  Toward(t, o, Append(Wo, c)) /\ Toward(o, t, Wi)
<1>1. /\ Ends(s, o, Wo) /\ Always(s, o) /\ s \in Sessions /\ t \in Sessions /\ t.role = s.role
      /\ \A x : Remembered(s, x) => Remembered(t, x)
      /\ \A x \in Ids : HasSendPart(s.role, x) => SendMaxOf(t, x) = SendMaxOf(s, x)
  BY DEF Talking, Ends, Toward, CallKeeps, Kept
<1>2. Always(t, o)
  BY <1>1, AlwaysSpeaks
<1>3. ASSUME o.state # "Closed" PROVE Hears(t, o, Append(Wo, c))
  <2>1. Hears(s, o, Wo)
    BY <1>3 DEF Talking, Toward
  <2>2. ASSUME NEW x \in Ids, HasSendPart(s.role, x)
        PROVE  \/ SendKeeps(s, t, x) /\ c \notin DataCapsules(x) \cup ResetCapsules(x)
               \/ DataAgrees(t, o, Append(Wo, c), x)
    <3>1. CASE x = id
      BY <2>1, <2>2, <3>1 DEF DataCapsules, ResetCapsules
    <3>2. CASE x # id
      <4>1. SendKeeps(s, t, x)
        BY <1>1, <2>2, <3>2, AlikeKeeps
      <4> QED BY <3>2, <4>1 DEF DataCapsules, ResetCapsules
    <3> QED BY <3>1, <3>2
  <2>3. ASSUME NEW x \in Ids, HasRecvPart(s.role, x)
        PROVE  \/ GrantKeeps(s, t, x) /\ c \notin StopCapsules(x) \cup CreditCapsules(x)
               \/ StopAgrees(t, o, Append(Wo, c), x) /\ CreditAgrees(t, o, Append(Wo, c), x)
    <3>1. CASE x = id
      BY <2>1, <2>3, <3>1 DEF StopCapsules, CreditCapsules
    <3>2. CASE x # id
      <4>1. GrantKeeps(s, t, x)
        BY <1>1, <2>3, <3>2, AlikeKeeps
      <4> QED BY <3>2, <4>1 DEF StopCapsules, CreditCapsules
    <3> QED BY <3>1, <3>2
  <2> QED BY <1>1, <2>1, <2>2, <2>3, HearsAppend
<1>4. Toward(o, t, Wi)
  BY CallListens
<1> QED BY <1>2, <1>3, <1>4 DEF Toward

-----------------------------------------------------------------------------
(* The four calls on a stream.                                             *)
LEMMA DataCall ==
  ASSUME Few, NEW s, NEW o, NEW Wo, NEW Wi, Talking(s, o, Wo, Wi), s.output = << >>,
         \A x \in Ids : HasSendPart(s.role, x) => InOrder(s, Wo, x),
         NEW id \in Ids, NEW size \in Nat, NEW fin \in BOOLEAN, CanSendStreamData(s, id, size),
         size # 0 \/ fin
  PROVE  LET t == SendStreamData(s, id, size, fin)
         IN  Toward(t, o, Wo \o t.output) /\ Toward(o, t, Wi)
<1> DEFINE t  == SendStreamData(s, id, size, fin)
           c  == StreamCapsule(s, id, size, fin)
           st == AfterSendData(s.streams[id], size, fin)
<1>1. /\ s \in Sessions /\ SessionOK(s) /\ o \in Sessions /\ Ends(s, o, Wo) /\ Always(s, o)
      /\ Wo \in Seq(Capsules)
  BY DEF Talking, Ends, Toward
<1>2. SendsData(s, t, id, size, fin) /\ c \in Capsules
  BY <1>1, DataEffect, SendStreamDataType
<1>3. /\ Known(s, id) /\ HasSendPart(s.role, id) /\ CanSend(s.streams[id])
      /\ s.flow_control.send_offset + size <= s.flow_control.send_max
      /\ s.streams[id].send_offset + size <= s.streams[id].send_max
  BY DEF CanSendStreamData, CanConsumeSend, CanSendDataOf
<1> HIDE DEF t
<1>4. /\ OnlyStream(s, t, id, st) /\ st \in WtStreams /\ s.streams[id] \in WtStreams
      /\ t.output = <<c>> /\ t.stop_sending_received_ids = s.stop_sending_received_ids
      /\ t.flow_control = [s.flow_control EXCEPT !.send_offset = @ + size]
  BY <1>2 DEF SendsData
<1>5. /\ st.send_max = s.streams[id].send_max /\ st.recv_state = s.streams[id].recv_state
      /\ st.recv_offset = s.streams[id].recv_offset /\ st.recv_max = s.streams[id].recv_max
      /\ st.stop_sending_sent = s.streams[id].stop_sending_sent
      /\ st.send_offset = s.streams[id].send_offset + size
      /\ s.streams[id].recv_max \in Nat /\ s.streams[id].send_offset \in Nat
      /\ s.streams[id].send_max \in Nat
  BY <1>4, MaxValueAssumption DEF AfterSendData, WtStreams
<1>6. /\ t.flow_control.send_offset = s.flow_control.send_offset + size
      /\ t.flow_control.send_max = s.flow_control.send_max
      /\ t.flow_control.recv_max = s.flow_control.recv_max
      /\ t.flow_control.recv_offset = s.flow_control.recv_offset
      /\ t.flow_control.max_streams_local = s.flow_control.max_streams_local
      /\ t.flow_control.max_streams_remote = s.flow_control.max_streams_remote
      /\ t.flow_control.opened_streams = s.flow_control.opened_streams
  BY <1>1, <1>4 DEF Sessions, WtFlowControls
<1>7. c.type = "STREAM" /\ c.id = id /\ c.size = size /\ c.fin = fin /\ c \in DataCapsules(id)
  BY <1>2 DEF StreamCapsule, DataCapsules
<1> HIDE DEF c, st
<1>8. CallKeeps(s, t)
  <2>1. CanRecv(st) <=> CanRecv(s.streams[id])
    BY <1>5 DEF CanRecv
  <2>2. st.recv_max >= s.streams[id].recv_max
    BY <1>5
  <2> QED BY <1>1, <1>3, <1>4, <1>5, <1>6, <2>1, <2>2, StreamCall
<1>9. Bounds(t, o)
  BY <1>1, <1>3, <1>6 DEF Always, Bounds
<1>10. /\ t.role = s.role /\ t \in Sessions /\ \A x \in Ids \ {id} : Alike(s, t, x)
       /\ \A x : Remembered(t, x) <=> Remembered(s, x)
  BY <1>4 DEF OnlyStream, Became, Kept
<1>11. Named(t, c)
  BY <1>3, <1>7, <1>10 DEF Named, Remembered
<1>12. Charges(s, t, c)
  BY <1>6, <1>7 DEF Charges
<1>13. HasRecvPart(s.role, id) => GrantKeeps(s, t, id)
  BY <1>1, <1>3, <1>4, <1>5, StreamParts
<1>14. Hears(s, o, Wo) => DataAgrees(t, o, Append(Wo, c), id)
  <2> SUFFICES ASSUME Hears(s, o, Wo) PROVE DataAgrees(t, o, Append(Wo, c), id)
    OBVIOUS
  <2>1. Sending(s, id) /\ Sent(s, id) = s.streams[id].send_offset
    BY <1>1, <1>3, KnownViews
  <2>2. DataAgrees(s, o, Wo, id) /\ NoneOf(Wo, Final(DataCapsules(id), ResetCapsules(id)))
    BY <1>3, <2>1 DEF Hears, InOrder
  <2>3. Sending(t, id) \/ Known(t, id) => Sent(t, id) = Sent(s, id) + c.size
    BY <1>3, <1>4, <1>5, <1>7, <2>1 DEF OnlyStream, Became
  <2>4. SendMaxOf(t, id) = s.streams[id].send_max
    BY <1>3, <1>4, <1>5 DEF OnlyStream, Became
  <2>5. SendMaxOf(t, id) >= Sent(s, id) + c.size
    BY <1>3, <1>5, <1>7, <2>1, <2>4
  <2> QED BY <1>1, <1>7, <1>10, <2>1, <2>2, <2>3, <2>5, DataMore
<1>15. Toward(t, o, Append(Wo, c)) /\ Toward(o, t, Wi)
  BY <1>2, <1>7, <1>8, <1>9, <1>10, <1>11, <1>12, <1>13, <1>14, StreamSpeaks
<1>16. Wo \o t.output = Append(Wo, c)
  BY <1>1, <1>4, JoinOne
<1> QED BY <1>15, <1>16 DEF t

(* A reset is of a stream the other end knows, or has data coming of.      *)
LEMMA ResetSpeaks ==
  ASSUME NEW s, NEW o, NEW Wo, Ends(s, o, Wo), Hears(s, o, Wo),
         NEW id \in Ids, HasSendPart(s.role, id), InOrder(s, Wo, id), Sending(s, id),
         NEW t \in Sessions, t.role = s.role, ~Sending(t, id), SendMaxOf(t, id) = SendMaxOf(s, id),
         SentKept(s, t, id),
         NEW c \in ResetCapsules(id), c.reliable_size = Sent(s, id),
         IsPeerInitiated(s.role, id) \/ ~Fresh(s, id)
  PROVE  DataAgrees(t, o, Append(Wo, c), id)
<1>1. DataAgrees(s, o, Wo, id) /\ NoneOf(Wo, Final(DataCapsules(id), ResetCapsules(id)))
  BY DEF Hears, InOrder
<1>2. ~IsPeerInitiated(s.role, id) => Remembered(o, id) \/ ~NoneOf(Wo, DataCapsules(id))
  BY <1>1 DEF DataAgrees
<1> QED BY <1>1, <1>2, DataReset

LEMMA ResetCall ==
  ASSUME Few, NEW s, NEW o, NEW Wo, NEW Wi, Talking(s, o, Wo, Wi), s.output = << >>,
         \A x \in Ids : HasSendPart(s.role, x) => InOrder(s, Wo, x),
         NEW id \in Ids, CanResetStream(s, id),
         IsPeerInitiated(s.role, id) \/ s.streams[id].send_state # "Ready"
  PROVE  LET t == ResetStream(s, id)
         IN  Toward(t, o, Wo \o t.output) /\ Toward(o, t, Wi)
<1> DEFINE t  == ResetStream(s, id)
           c  == ResetCapsule(s, id)
           st == AfterSendReset(s.streams[id])
<1>1. /\ s \in Sessions /\ SessionOK(s) /\ o \in Sessions /\ Ends(s, o, Wo) /\ Always(s, o)
      /\ Wo \in Seq(Capsules)
  BY DEF Talking, Ends, Toward
<1>2. /\ OnlyStream(s, t, id, st) /\ st \in WtStreams /\ s.streams[id] \in WtStreams
      /\ t.output = <<c>> /\ t.stop_sending_received_ids = s.stop_sending_received_ids
      /\ t.flow_control = s.flow_control /\ c \in Capsules
  BY <1>1, ResetEffect, ResetStreamType
<1>3. /\ Known(s, id) /\ HasSendPart(s.role, id) /\ CanSend(s.streams[id])
  BY DEF CanResetStream
<1> HIDE DEF t
<1>5. /\ st.send_max = s.streams[id].send_max /\ st.recv_state = s.streams[id].recv_state
      /\ st.recv_offset = s.streams[id].recv_offset /\ st.recv_max = s.streams[id].recv_max
      /\ st.stop_sending_sent = s.streams[id].stop_sending_sent
      /\ s.streams[id].recv_max \in Nat /\ ~CanSend(st)
      /\ st.send_offset = s.streams[id].send_offset
  BY <1>2, MaxValueAssumption DEF AfterSendReset, WtStreams, CanSend
<1>7. /\ c.type = "RESET_STREAM" /\ c.id = id /\ c.reliable_size = s.streams[id].send_offset
      /\ c \in ResetCapsules(id)
  BY <1>2 DEF ResetCapsule, ResetCapsules
<1> HIDE DEF c, st
<1>8. CallKeeps(s, t)
  <2>1. CanRecv(st) <=> CanRecv(s.streams[id])
    BY <1>5 DEF CanRecv
  <2>2. st.recv_max >= s.streams[id].recv_max
    BY <1>5
  <2> QED BY <1>1, <1>2, <1>3, <1>5, <2>1, <2>2, StreamCall
<1>9. Bounds(t, o)
  BY <1>1, <1>2 DEF Always, Bounds
<1>10. /\ t.role = s.role /\ t \in Sessions /\ \A x \in Ids \ {id} : Alike(s, t, x)
       /\ \A x : Remembered(t, x) <=> Remembered(s, x)
  BY <1>2 DEF OnlyStream, Became, Kept
<1>11. Named(t, c)
  BY <1>3, <1>7, <1>10 DEF Named, Remembered
<1>12. Charges(s, t, c)
  BY <1>1, <1>2, <1>7, FlowTypes DEF Charges
<1>13. HasRecvPart(s.role, id) => GrantKeeps(s, t, id)
  BY <1>1, <1>2, <1>3, <1>5, StreamParts
<1>14. Hears(s, o, Wo) => DataAgrees(t, o, Append(Wo, c), id)
  <2>1. /\ Sending(s, id) /\ Sent(s, id) = s.streams[id].send_offset
        /\ (Fresh(s, id) <=> s.streams[id].send_state = "Ready")
        /\ SendMaxOf(s, id) = s.streams[id].send_max
    BY <1>1, <1>3, KnownViews
  <2>2. ~Sending(t, id) /\ SendMaxOf(t, id) = SendMaxOf(s, id)
    BY <1>2, <1>3, <1>5, <2>1 DEF OnlyStream, Became
  <2>3. SentKept(s, t, id)
    BY <1>2, <1>3, <1>5, <2>1 DEF OnlyStream, Became, SentKept
  <2> QED BY <1>1, <1>3, <1>7, <1>10, <2>1, <2>2, <2>3, ResetSpeaks
<1>15. Toward(t, o, Append(Wo, c)) /\ Toward(o, t, Wi)
  BY <1>2, <1>7, <1>8, <1>9, <1>10, <1>11, <1>12, <1>13, <1>14, StreamSpeaks
<1>16. Wo \o t.output = Append(Wo, c)
  BY <1>1, <1>2, JoinOne
<1> QED BY <1>15, <1>16 DEF t

LEMMA StopCall ==
  ASSUME NEW s, NEW o, NEW Wo, NEW Wi, Talking(s, o, Wo, Wi), s.output = << >>,
         NEW id \in Ids, CanStopSending(s, id)
  PROVE  LET t == StopSending(s, id)
         IN  Toward(t, o, Wo \o t.output) /\ Toward(o, t, Wi)
<1> DEFINE t  == StopSending(s, id)
           c  == [type |-> "STOP_SENDING", id |-> id]
           st == [s.streams[id] EXCEPT !.stop_sending_sent = TRUE]
<1>1. /\ s \in Sessions /\ SessionOK(s) /\ o \in Sessions /\ Ends(s, o, Wo) /\ Always(s, o)
      /\ Wo \in Seq(Capsules)
  BY DEF Talking, Ends, Toward
<1>2. /\ OnlyStream(s, t, id, st) /\ st \in WtStreams /\ s.streams[id] \in WtStreams
      /\ t.output = <<c>> /\ t.stop_sending_received_ids = s.stop_sending_received_ids
      /\ t.flow_control = s.flow_control /\ c \in Capsules
  BY <1>1, StopEffect, StopSendingType
<1>3. /\ Known(s, id) /\ HasRecvPart(s.role, id) /\ ~s.streams[id].stop_sending_sent
  BY DEF CanStopSending
<1> HIDE DEF t
<1>5. /\ st.send_max = s.streams[id].send_max /\ st.recv_state = s.streams[id].recv_state
      /\ st.recv_offset = s.streams[id].recv_offset /\ st.recv_max = s.streams[id].recv_max
      /\ st.send_offset = s.streams[id].send_offset /\ st.send_state = s.streams[id].send_state
      /\ s.streams[id].recv_max \in Nat /\ st.stop_sending_sent = TRUE
  BY <1>2, MaxValueAssumption DEF WtStreams
<1>7. c.type = "STOP_SENDING" /\ c.id = id /\ c \in StopCapsules(id) /\ c \notin CreditCapsules(id)
  BY <1>2 DEF StopCapsules, CreditCapsules
<1> HIDE DEF c, st
<1>8. CallKeeps(s, t)
  <2>1. CanRecv(st) <=> CanRecv(s.streams[id])
    BY <1>5 DEF CanRecv
  <2>2. st.recv_max >= s.streams[id].recv_max
    BY <1>5
  <2> QED BY <1>1, <1>2, <1>3, <1>5, <2>1, <2>2, StreamCall
<1>9. Bounds(t, o)
  BY <1>1, <1>2 DEF Always, Bounds
<1>10. /\ t.role = s.role /\ t \in Sessions /\ \A x \in Ids \ {id} : Alike(s, t, x)
       /\ \A x : Remembered(t, x) <=> Remembered(s, x)
  BY <1>2 DEF OnlyStream, Became, Kept
<1>11. Named(t, c)
  BY <1>3, <1>7, <1>10 DEF Named, Remembered
<1>12. Charges(s, t, c)
  BY <1>1, <1>2, <1>7, FlowTypes DEF Charges
<1>13. HasSendPart(s.role, id) => SendKeeps(s, t, id)
  BY <1>1, <1>2, <1>3, <1>5, StreamParts
<1>14. Hears(s, o, Wo) => StopAgrees(t, o, Append(Wo, c), id) /\ CreditAgrees(t, o, Append(Wo, c), id)
  <2> SUFFICES ASSUME Hears(s, o, Wo)
               PROVE  StopAgrees(t, o, Append(Wo, c), id) /\ CreditAgrees(t, o, Append(Wo, c), id)
    OBVIOUS
  <2>1. Granting(s, id) /\ ~Gone(s, id) /\ RecvMaxOf(s, id) = s.streams[id].recv_max
    BY <1>1, <1>3, KnownViews
  <2>2. ~Granting(t, id) /\ (Gone(t, id) \/ RecvMaxOf(t, id) = st.recv_max)
    BY <1>2, <1>3, <1>5 DEF OnlyStream, Became
  <2>3. StopAgrees(s, o, Wo, id) /\ CreditAgrees(s, o, Wo, id)
    BY <1>3 DEF Hears
  <2>4. StopAgrees(t, o, Append(Wo, c), id)
    BY <1>1, <1>7, <2>1, <2>2, <2>3, StopSent
  <2>5. Gone(t, id) \/ (~Gone(s, id) /\ RecvMaxOf(t, id) = RecvMaxOf(s, id))
    BY <1>5, <2>1, <2>2
  <2>6. CreditAgrees(t, o, Append(Wo, c), id)
    BY <1>1, <1>2, <1>7, <1>10, <2>3, <2>5, CreditKept
  <2> QED BY <2>4, <2>6
<1>15. Toward(t, o, Append(Wo, c)) /\ Toward(o, t, Wi)
  BY <1>2, <1>7, <1>8, <1>9, <1>10, <1>11, <1>12, <1>13, <1>14, StreamSpeaks
<1>16. Wo \o t.output = Append(Wo, c)
  BY <1>1, <1>2, JoinOne
<1> QED BY <1>15, <1>16 DEF t

LEMMA GrowStreamCall ==
  ASSUME NEW s, NEW o, NEW Wo, NEW Wi, Talking(s, o, Wo, Wi), s.output = << >>,
         NEW id \in Ids, NEW m \in Nat, CanSendMaxStreamData(s, id, m)
  PROVE  LET t == SendMaxStreamData(s, id, m)
         IN  Toward(t, o, Wo \o t.output) /\ Toward(o, t, Wi)
<1> DEFINE t  == SendMaxStreamData(s, id, m)
           c  == [type |-> "MAX_STREAM_DATA", id |-> id, maximum |-> m]
           st == AfterUpdateRecvMax(s.streams[id], m)
<1>1. /\ s \in Sessions /\ SessionOK(s) /\ o \in Sessions /\ Ends(s, o, Wo) /\ Always(s, o)
      /\ Wo \in Seq(Capsules)
  BY DEF Talking, Ends, Toward
<1>2. /\ OnlyStream(s, t, id, st) /\ st \in WtStreams /\ s.streams[id] \in WtStreams
      /\ t.output = <<c>> /\ t.stop_sending_received_ids = s.stop_sending_received_ids
      /\ t.flow_control = s.flow_control /\ c \in Capsules
  BY <1>1, GrowStreamEffect, SendMaxStreamDataType
<1>3. /\ Known(s, id) /\ HasRecvPart(s.role, id) /\ ~s.streams[id].stop_sending_sent
      /\ m > s.streams[id].recv_max
  BY DEF CanSendMaxStreamData
<1> HIDE DEF t
<1>5. /\ st.send_max = s.streams[id].send_max /\ st.recv_state = s.streams[id].recv_state
      /\ st.recv_offset = s.streams[id].recv_offset /\ st.recv_max = m
      /\ st.send_offset = s.streams[id].send_offset /\ st.send_state = s.streams[id].send_state
      /\ s.streams[id].recv_max \in Nat
  BY <1>2, <1>3, MaxValueAssumption DEF WtStreams, AfterUpdateRecvMax
<1>7. /\ c.type = "MAX_STREAM_DATA" /\ c.id = id /\ c \notin StopCapsules(id)
      /\ c \in CreditCapsules(id) /\ c.maximum = m
  BY <1>2 DEF StopCapsules, CreditCapsules
<1> HIDE DEF c, st
<1>8. CallKeeps(s, t)
  <2>1. CanRecv(st) <=> CanRecv(s.streams[id])
    BY <1>5 DEF CanRecv
  <2>2. st.recv_max >= s.streams[id].recv_max
    BY <1>3, <1>5
  <2> QED BY <1>1, <1>2, <1>3, <1>5, <2>1, <2>2, StreamCall
<1>9. Bounds(t, o)
  BY <1>1, <1>2 DEF Always, Bounds
<1>10. /\ t.role = s.role /\ t \in Sessions /\ \A x \in Ids \ {id} : Alike(s, t, x)
       /\ \A x : Remembered(t, x) <=> Remembered(s, x)
  BY <1>2 DEF OnlyStream, Became, Kept
<1>11. Named(t, c)
  BY <1>3, <1>5, <1>7, <1>10 DEF Named, Remembered
<1>12. Charges(s, t, c)
  BY <1>1, <1>2, <1>7, FlowTypes DEF Charges
<1>13. HasSendPart(s.role, id) => SendKeeps(s, t, id)
  BY <1>1, <1>2, <1>3, <1>5, StreamParts
<1>14. Hears(s, o, Wo) => StopAgrees(t, o, Append(Wo, c), id) /\ CreditAgrees(t, o, Append(Wo, c), id)
  <2> SUFFICES ASSUME Hears(s, o, Wo)
               PROVE  StopAgrees(t, o, Append(Wo, c), id) /\ CreditAgrees(t, o, Append(Wo, c), id)
    OBVIOUS
  <2>1. Granting(s, id) /\ ~Gone(s, id) /\ RecvMaxOf(s, id) = s.streams[id].recv_max
    BY <1>1, <1>3, KnownViews
  <2>2. Gone(t, id) \/ RecvMaxOf(t, id) = m
    BY <1>2, <1>3, <1>5 DEF OnlyStream, Became
  <2>3. StopAgrees(s, o, Wo, id) /\ CreditAgrees(s, o, Wo, id)
    BY <1>3 DEF Hears
  <2>4. StopAgrees(t, o, Append(Wo, c), id)
    BY <1>1, <1>7, <2>1, <2>2, <2>3, StopSent
  <2>5. RecvMaxOf(s, id) < c.maximum /\ (Gone(t, id) \/ RecvMaxOf(t, id) = c.maximum)
    BY <1>3, <1>5, <1>7, <2>1, <2>2
  <2>6. CreditAgrees(t, o, Append(Wo, c), id)
    BY <1>1, <1>7, <1>10, <2>1, <2>3, <2>5, CreditSent
  <2> QED BY <2>4, <2>6
<1>15. Toward(t, o, Append(Wo, c)) /\ Toward(o, t, Wi)
  BY <1>2, <1>7, <1>8, <1>9, <1>10, <1>11, <1>12, <1>13, <1>14, StreamSpeaks
<1>16. Wo \o t.output = Append(Wo, c)
  BY <1>1, <1>2, JoinOne
<1> QED BY <1>15, <1>16 DEF t

-----------------------------------------------------------------------------
(* The calls on the session.                                               *)
LEMMA SameCall ==
  ASSUME NEW s, NEW o, NEW Wo, NEW Wi, Talking(s, o, Wo, Wi), NEW t \in Sessions, SameMaps(s, t),
         t.flow_control = s.flow_control, t.state # "Closed" => s.state # "Closed"
  PROVE  CallKeeps(s, t) /\ AllAlike(s, t) /\ Bounds(t, o)
<1>1. s \in Sessions /\ Kept(s, t) /\ Always(s, o)
      /\ t.stop_sending_received_ids = s.stop_sending_received_ids
  BY DEF Talking, Ends, SameMaps, Toward
<1>2. AllAlike(s, t) /\ \A x : Remembered(t, x) <=> Remembered(s, x)
  BY SameViews DEF SameRemembered
<1>3. /\ t.flow_control.recv_max >= s.flow_control.recv_max
      /\ \A d \in BOOLEAN :
           t.flow_control.max_streams_local[d] >= s.flow_control.max_streams_local[d]
  BY <1>1, FlowTypes
<1>4. CallKeeps(s, t)
  BY <1>1, <1>2, <1>3, AlikeCall
<1>5. Bounds(t, o)
  BY <1>1 DEF Always, Bounds
<1> QED BY <1>2, <1>4, <1>5

(* Capsules without content.                                               *)
Plain == {c \in QuietCapsules : c.type \notin {"MAX_DATA", "MAX_STREAMS"}}

LEMMA PlainCall ==
  ASSUME NEW s, NEW o, NEW Wo, NEW Wi, Talking(s, o, Wo, Wi), NEW t \in Sessions, SameMaps(s, t),
         t.flow_control = s.flow_control, t.state # "Closed" => s.state # "Closed"
  PROVE  /\ Toward(t, o, Wo) /\ Toward(o, t, Wi)
         /\ \A c \in Plain : Named(t, c) => Toward(t, o, Append(Wo, c))
<1>1. CallKeeps(s, t) /\ AllAlike(s, t) /\ Bounds(t, o)
  BY SameCall
<1>2. Toward(t, o, Wo) /\ Toward(o, t, Wi)
  BY <1>1, SilentCall
<1>3. ASSUME NEW c \in Plain, Named(t, c) PROVE Toward(t, o, Append(Wo, c))
  <2>1. c \in QuietCapsules /\ c.type \notin {"MAX_DATA", "MAX_STREAMS", "STREAM"}
    BY DEF Plain, QuietCapsules
  <2>2. Charges(s, t, c)
    BY <2>1, FlowTypes DEF Charges, Talking, Ends
  <2> QED BY <1>1, <1>3, <2>1, <2>2, QuietCall
<1> QED BY <1>2, <1>3

(* initiate, send_datagram, close and drain.                               *)
PlainOutput(s, t) ==
  /\ t \in Sessions /\ SameMaps(s, t) /\ t.flow_control = s.flow_control
  /\ t.output = << >> \/ \E c \in Plain : Named(t, c) /\ t.output = <<c>>

LEMMA PlainCalls ==
  ASSUME NEW s \in Sessions, s.output = << >>
  PROVE  /\ PlainOutput(s, Initiated(s)) /\ PlainOutput(s, SendDatagram(s))
         /\ PlainOutput(s, Close(s)) /\ PlainOutput(s, Drain(s))
<1>1. /\ [type |-> "DATAGRAM"] \in Capsules /\ [type |-> "CLOSE_SESSION"] \in Capsules
      /\ [type |-> "DRAIN_SESSION"] \in Capsules
  BY DEF Capsules
<1>2. \A c \in Capsules : c.type \in {"DATAGRAM", "CLOSE_SESSION", "DRAIN_SESSION"} =>
        c \in Plain /\ \A t : Named(t, c)
  BY DEF Plain, QuietCapsules, Named
<1>3. /\ SameMaps(s, Initiated(s)) /\ SameMaps(s, SendDatagram(s))
      /\ SameMaps(s, Close(s)) /\ SameMaps(s, Drain(s))
  BY QuietEffect DEF QuietCalls
<1>4. PlainOutput(s, Initiated(s))
  BY <1>3 DEF PlainOutput, Initiated, Sessions, SessionStates
<1>5. PlainOutput(s, SendDatagram(s))
  <2>1. /\ SendDatagram(s) \in Sessions /\ SendDatagram(s).flow_control = s.flow_control
        /\ SendDatagram(s).output = <<[type |-> "DATAGRAM"]>>
    BY <1>1, EmitType, EmitOutput DEF SendDatagram, Emit, Sessions
  <2> QED BY <1>1, <1>2, <1>3, <2>1 DEF PlainOutput
<1>6. PlainOutput(s, Close(s))
  <2>1. [s EXCEPT !.state = "Closed"] \in Sessions /\ [s EXCEPT !.state = "Closed"].output = << >>
    BY DEF Sessions, SessionStates
  <2>2. /\ Close(s) \in Sessions /\ Close(s).output = <<[type |-> "CLOSE_SESSION"]>>
    BY <1>1, <2>1, EmitType, EmitOutput DEF Close, Sessions
  <2>3. Close(s).flow_control = s.flow_control
    BY DEF Close, Emit, Sessions
  <2> QED BY <1>1, <1>2, <1>3, <2>2, <2>3 DEF PlainOutput
<1>7. PlainOutput(s, Drain(s))
  <2>1. [s EXCEPT !.state = "Draining"] \in Sessions /\ [s EXCEPT !.state = "Draining"].output = << >>
    BY DEF Sessions, SessionStates
  <2>2. /\ Drain(s) \in Sessions /\ Drain(s).output = <<[type |-> "DRAIN_SESSION"]>>
    BY <1>1, <2>1, EmitType, EmitOutput DEF Drain, Sessions
  <2>3. Drain(s).flow_control = s.flow_control
    BY DEF Drain, Emit, Sessions
  <2> QED BY <1>1, <1>2, <1>3, <2>2, <2>3 DEF PlainOutput
<1> QED BY <1>4, <1>5, <1>6, <1>7

LEMMA PlainTalk ==
  ASSUME NEW s, NEW o, NEW Wo, NEW Wi, Talking(s, o, Wo, Wi), NEW t, PlainOutput(s, t),
         t.state # "Closed" => s.state # "Closed"
  PROVE  Toward(t, o, Wo \o t.output) /\ Toward(o, t, Wi)
<1>1. Wo \in Seq(Capsules)
  BY DEF Talking, Ends
<1>2. /\ Toward(t, o, Wo) /\ Toward(o, t, Wi)
      /\ \A c \in Plain : Named(t, c) => Toward(t, o, Append(Wo, c))
  BY PlainCall DEF PlainOutput
<1>3. CASE t.output = << >>
  BY <1>1, <1>2, <1>3, JoinOne
<1>4. CASE t.output # << >>
  <2>1. PICK c \in Plain : Named(t, c) /\ t.output = <<c>>
    BY <1>4 DEF PlainOutput
  <2> QED BY <1>1, <1>2, <2>1, JoinOne
<1> QED BY <1>3, <1>4

(* send_max_data and send_max_streams.                                     *)
LEMMA MaxDataCall ==
  ASSUME NEW s, NEW o, NEW Wo, NEW Wi, Talking(s, o, Wo, Wi), s.output = << >>,
         NEW m \in Nat, CanSendMaxData(s, m)
  PROVE  LET t == SendMaxData(s, m)
         IN  Toward(t, o, Wo \o t.output) /\ Toward(o, t, Wi)
<1> DEFINE t == SendMaxData(s, m)
           c == [type |-> "MAX_DATA", maximum |-> m]
<1>1. /\ s \in Sessions /\ o \in Sessions /\ Always(s, o) /\ Wo \in Seq(Capsules)
  BY DEF Talking, Ends, Toward
<1>2. t \in Sessions /\ c \in Capsules /\ SameMaps(s, t)
  <2>1. t \in QuietCalls(s)
    BY DEF QuietCalls
  <2> QED BY <1>1, <2>1, CreditType, QuietEffect
<1>3. /\ t.output = <<c>> /\ t.state = s.state
      /\ t.flow_control = [s.flow_control EXCEPT !.recv_max = m]
  <2> DEFINE v == [s EXCEPT !.flow_control.recv_max = m]
  <2>1. /\ "output" \in DOMAIN v /\ v.output = << >> /\ v.state = s.state
        /\ v.flow_control = [s.flow_control EXCEPT !.recv_max = m]
        /\ "state" \in DOMAIN v /\ "flow_control" \in DOMAIN v
    BY <1>1 DEF Sessions
  <2>2. t = Emit(v, c)
    BY DEF SendMaxData
  <2> HIDE DEF v, t, c
  <2>3. t.output = <<c>>
    BY <2>1, <2>2, EmitOutput
  <2>4. t.state = v.state /\ t.flow_control = v.flow_control
    BY <2>1, <2>2 DEF Emit
  <2> QED BY <2>1, <2>3, <2>4
<1>4. m <= MaxValue /\ m > s.flow_control.recv_max
  BY DEF CanSendMaxData, CanRaiseRecvMax
<1>5. c.type = "MAX_DATA" /\ c.maximum = m /\ c \in QuietCapsules
  BY <1>2 DEF QuietCapsules
<1> HIDE DEF t, c
<1>6. /\ t.flow_control.send_offset = s.flow_control.send_offset
      /\ t.flow_control.send_max = s.flow_control.send_max
      /\ t.flow_control.recv_max = m
      /\ t.flow_control.recv_offset = s.flow_control.recv_offset
      /\ t.flow_control.max_streams_local = s.flow_control.max_streams_local
      /\ t.flow_control.max_streams_remote = s.flow_control.max_streams_remote
      /\ t.flow_control.opened_streams = s.flow_control.opened_streams
  BY <1>1, <1>3 DEF Sessions, WtFlowControls
<1>7. AllAlike(s, t) /\ \A x : Remembered(t, x) <=> Remembered(s, x)
  BY <1>2, SameViews DEF SameRemembered
<1>8. /\ t.flow_control.recv_max >= s.flow_control.recv_max /\ m # 0
      /\ \A d \in BOOLEAN :
           t.flow_control.max_streams_local[d] >= s.flow_control.max_streams_local[d]
  BY <1>1, <1>4, <1>6, FlowTypes
<1>9. CallKeeps(s, t)
  BY <1>1, <1>2, <1>3, <1>6, <1>7, <1>8, AlikeCall DEF SameMaps
<1>10. Bounds(t, o)
  BY <1>1, <1>6 DEF Always, Bounds
<1>11. Named(t, c)
  BY <1>4, <1>5, <1>8 DEF Named
<1>12. Charges(s, t, c)
  BY <1>1, <1>4, <1>5, <1>6, FlowTypes DEF Charges
<1>13. Toward(t, o, Append(Wo, c)) /\ Toward(o, t, Wi)
  BY <1>5, <1>7, <1>9, <1>10, <1>11, <1>12, QuietCall
<1>14. Wo \o t.output = Append(Wo, c)
  BY <1>1, <1>3, JoinOne
<1> QED BY <1>13, <1>14 DEF t

LEMMA MaxStreamsCall ==
  ASSUME NEW s, NEW o, NEW Wo, NEW Wi, Talking(s, o, Wo, Wi), s.output = << >>,
         NEW m \in Nat, NEW b \in BOOLEAN, CanSendMaxStreams(s, m, b)
  PROVE  LET t == SendMaxStreams(s, m, b)
         IN  Toward(t, o, Wo \o t.output) /\ Toward(o, t, Wi)
<1> DEFINE t == SendMaxStreams(s, m, b)
           c == [type |-> "MAX_STREAMS", bidirectional |-> b, maximum |-> m]
<1>1. /\ s \in Sessions /\ o \in Sessions /\ Always(s, o) /\ Wo \in Seq(Capsules)
  BY DEF Talking, Ends, Toward
<1>2. t \in Sessions /\ c \in Capsules /\ SameMaps(s, t)
  <2>1. t \in QuietCalls(s)
    BY DEF QuietCalls
  <2> QED BY <1>1, <2>1, CreditType, QuietEffect
<1>3. /\ t.output = <<c>> /\ t.state = s.state
      /\ t.flow_control = [s.flow_control EXCEPT !.max_streams_local[b] = m]
  <2> DEFINE v == [s EXCEPT !.flow_control.max_streams_local[b] = m]
  <2>1. /\ "output" \in DOMAIN v /\ v.output = << >> /\ v.state = s.state
        /\ v.flow_control = [s.flow_control EXCEPT !.max_streams_local[b] = m]
        /\ "state" \in DOMAIN v /\ "flow_control" \in DOMAIN v
    BY <1>1 DEF Sessions
  <2>2. t = Emit(v, c)
    BY DEF SendMaxStreams
  <2> HIDE DEF v, t, c
  <2>3. t.output = <<c>>
    BY <2>1, <2>2, EmitOutput
  <2>4. t.state = v.state /\ t.flow_control = v.flow_control
    BY <2>1, <2>2 DEF Emit
  <2> QED BY <2>1, <2>3, <2>4
<1>4. m <= MaxStreamsLimit /\ m > s.flow_control.max_streams_local[b]
  BY DEF CanSendMaxStreams, CanRaiseMaxStreamsLocal, MaxStreamsIncrease
<1>5. c.type = "MAX_STREAMS" /\ c.maximum = m /\ c.bidirectional = b /\ c \in QuietCapsules
  BY <1>2 DEF QuietCapsules
<1> HIDE DEF t, c
<1>6. /\ t.flow_control.send_offset = s.flow_control.send_offset
      /\ t.flow_control.send_max = s.flow_control.send_max
      /\ t.flow_control.recv_max = s.flow_control.recv_max
      /\ t.flow_control.recv_offset = s.flow_control.recv_offset
      /\ t.flow_control.max_streams_local = [s.flow_control.max_streams_local EXCEPT ![b] = m]
      /\ t.flow_control.max_streams_remote = s.flow_control.max_streams_remote
      /\ t.flow_control.opened_streams = s.flow_control.opened_streams
      /\ DOMAIN s.flow_control.max_streams_local = BOOLEAN
  BY <1>1, <1>3 DEF Sessions, WtFlowControls
<1>7. AllAlike(s, t) /\ \A x : Remembered(t, x) <=> Remembered(s, x)
  BY <1>2, SameViews DEF SameRemembered
<1>8. /\ t.flow_control.recv_max >= s.flow_control.recv_max /\ m # 0
      /\ \A d \in BOOLEAN :
           /\ t.flow_control.max_streams_local[d] =
                IF d = b THEN m ELSE s.flow_control.max_streams_local[d]
           /\ t.flow_control.max_streams_local[d] >= s.flow_control.max_streams_local[d]
  BY <1>1, <1>4, <1>6, FlowTypes
<1>9. CallKeeps(s, t)
  BY <1>1, <1>2, <1>3, <1>6, <1>7, <1>8, AlikeCall DEF SameMaps
<1>10. Bounds(t, o)
  BY <1>1, <1>6 DEF Always, Bounds
<1>11. Named(t, c)
  BY <1>4, <1>5, <1>8 DEF Named
<1>12. Charges(s, t, c)
  BY <1>1, <1>4, <1>5, <1>6, <1>8, FlowTypes DEF Charges
<1>13. Toward(t, o, Append(Wo, c)) /\ Toward(o, t, Wi)
  BY <1>5, <1>7, <1>9, <1>10, <1>11, <1>12, QuietCall
<1>14. Wo \o t.output = Append(Wo, c)
  BY <1>1, <1>3, JoinOne
<1> QED BY <1>13, <1>14 DEF t

(* open_bidi_stream and open_uni_stream.                                   *)
LEMMA OpenCall ==
  ASSUME NEW s, NEW o, NEW Wo, NEW Wi, Talking(s, o, Wo, Wi), s.output = << >>,
         NEW b \in BOOLEAN, CanOpen(s, b), s.next_stream_id[b] \in Ids
  PROVE  LET t == OpenStream(s, b)
         IN  Toward(t, o, Wo \o t.output) /\ Toward(o, t, Wi)
<1> DEFINE t  == OpenStream(s, b)
           id == s.next_stream_id[b]
<1>1. /\ s \in Sessions /\ SessionOK(s) /\ o \in Sessions /\ Always(s, o) /\ Wo \in Seq(Capsules)
  BY DEF Talking, Ends, Toward
<1>2. /\ t \in Sessions /\ Kept(s, t) /\ AllAlike(s, t)
      /\ \A x : Remembered(t, x) <=> Remembered(s, x) \/ x = id
      /\ ~IsPeerInitiated(s.role, id)
      /\ t.output = s.output /\ t.state = s.state
      /\ t.stop_sending_received_ids = s.stop_sending_received_ids
      /\ t.flow_control = [s.flow_control EXCEPT !.opened_streams[b] = @ + 1]
  <2>1. /\ t \in Sessions /\ SessionOK(t) /\ Kept(s, t)
        /\ AllAlike(s, t)
        /\ \A x : Remembered(t, x) <=> Remembered(s, x) \/ x = id
        /\ id % 4 = FirstId(s.role, b) /\ ~IsPeerInitiated(s.role, id)
        /\ (IsBidirectional(id) <=> b) /\ ~Remembered(s, id)
        /\ t.events = s.events /\ t.output = s.output /\ t.state = s.state
        /\ t.stop_sending_received_ids = s.stop_sending_received_ids
        /\ t.flow_control = [s.flow_control EXCEPT !.opened_streams[b] = @ + 1]
    BY <1>1, OpenEffect, Zenon
  <2> QED BY <2>1, Zenon
<1>3. s.flow_control.opened_streams[b] < s.flow_control.max_streams_remote[b]
  BY DEF CanOpen, CanOpenStream
<1> HIDE DEF t, id
<1>4. /\ t.flow_control.send_offset = s.flow_control.send_offset
      /\ t.flow_control.send_max = s.flow_control.send_max
      /\ t.flow_control.recv_max = s.flow_control.recv_max
      /\ t.flow_control.recv_offset = s.flow_control.recv_offset
      /\ t.flow_control.max_streams_local = s.flow_control.max_streams_local
      /\ t.flow_control.max_streams_remote = s.flow_control.max_streams_remote
      /\ \A d \in BOOLEAN : t.flow_control.opened_streams[d] =
           IF d = b THEN s.flow_control.opened_streams[b] + 1 ELSE s.flow_control.opened_streams[d]
  BY <1>1, <1>2 DEF Sessions, WtFlowControls
<1>5. /\ t.flow_control.recv_max >= s.flow_control.recv_max
      /\ \A d \in BOOLEAN :
           t.flow_control.max_streams_local[d] >= s.flow_control.max_streams_local[d]
  BY <1>1, <1>4, FlowTypes
<1>6. CallKeeps(s, t)
  BY <1>1, <1>2, <1>4, <1>5, AlikeCall
<1>7. Bounds(t, o)
  <2>1. ASSUME NEW d \in BOOLEAN
        PROVE  t.flow_control.opened_streams[d] <= t.flow_control.max_streams_remote[d]
    <3>1. s.flow_control.opened_streams[d] <= s.flow_control.max_streams_remote[d]
      BY <1>1 DEF Always, Bounds
    <3> QED BY <1>1, <1>3, <1>4, <3>1, FlowTypes
  <2> QED BY <1>1, <1>4, <2>1 DEF Always, Bounds
<1>8. Toward(t, o, Wo) /\ Toward(o, t, Wi)
  BY <1>2, <1>4, <1>6, <1>7, SilentCall
<1>9. Wo \o t.output = Wo
  BY <1>1, <1>2, JoinOne
<1> QED BY <1>8, <1>9 DEF t

(* poll_event.                                                             *)
LEMMA PollCall ==
  ASSUME Few, NEW s, NEW o, NEW Wo, NEW Wi, Talking(s, o, Wo, Wi), s.output = << >>, s.events # << >>
  PROVE  LET t == PollEvent(s)
         IN  Toward(t, o, Wo \o t.output) /\ Toward(o, t, Wi)
<1> DEFINE t  == PollEvent(s)
<1>1. /\ s \in Sessions /\ SessionOK(s) /\ o \in Sessions /\ Always(s, o) /\ Wo \in Seq(Capsules)
  BY DEF Talking, Ends, Toward
<1>2. /\ t \in Sessions /\ Kept(s, t) /\ AllAlike(s, t) /\ SameRemembered(s, t)
      /\ t.output = s.output /\ t.state = s.state
      /\ t.stop_sending_received_ids = s.stop_sending_received_ids
      /\ t.flow_control = s.flow_control
  BY <1>1, PollEffect
<1> HIDE DEF t
<1>3. /\ t.flow_control.recv_max >= s.flow_control.recv_max
      /\ \A d \in BOOLEAN :
           t.flow_control.max_streams_local[d] >= s.flow_control.max_streams_local[d]
  BY <1>1, <1>2, FlowTypes
<1>4. CallKeeps(s, t)
  BY <1>1, <1>2, <1>3, AlikeCall DEF SameRemembered
<1>5. Bounds(t, o)
  BY <1>1, <1>2 DEF Always, Bounds
<1>6. Toward(t, o, Wo) /\ Toward(o, t, Wi)
  BY <1>2, <1>4, <1>5, SilentCall
<1>7. Wo \o t.output = Wo
  BY <1>1, <1>2, JoinOne
<1> QED BY <1>6, <1>7 DEF t

(* Padding, unknown capsules and notices.                                  *)
LEMMA ExtraCall ==
  ASSUME NEW s, NEW o, NEW Wo, NEW Wi, Talking(s, o, Wo, Wi), NEW c \in NoticeCapsules,
         c.type # "STREAM_DATA_BLOCKED", c.type = "STREAMS_BLOCKED" => ~(c.maximum > MaxStreamsLimit)
  PROVE  Toward(s, o, Append(Wo, c)) /\ Toward(o, s, Wi)
<1>1. s \in Sessions /\ SameMaps(s, s)
  BY DEF Talking, Ends, SameMaps, Kept
<1>2. c \in Capsules /\ c.type \notin {"STREAM", "RESET_STREAM", "STOP_SENDING", "MAX_DATA",
                                       "MAX_STREAM_DATA", "MAX_STREAMS"}
  <2>1. c \in Capsules
    BY DEF Capsules
  <2> QED BY <2>1, CapsuleFields
<1>3. c \in Plain /\ Named(s, c)
  BY <1>2 DEF Plain, QuietCapsules, Named
<1> QED BY <1>1, <1>3, PlainCall

(* poll_output takes what was written: nothing anybody can tell.           *)
LEMMA FlushedToward ==
  ASSUME NEW t \in Sessions, NEW o, NEW W
  PROVE  /\ Toward(t, o, W) => Toward(Flushed(t), o, W)
         /\ Toward(o, t, W) => Toward(o, Flushed(t), W)
<1> DEFINE u == Flushed(t)
<1>1. /\ u.flow_control = t.flow_control /\ u.state = t.state /\ u.role = t.role
      /\ u.config = t.config /\ u.peer_config = t.peer_config
      /\ u.streams = t.streams /\ u.closed_stream_send_max = t.closed_stream_send_max
      /\ u.stop_sending_received_ids = t.stop_sending_received_ids
  BY FlushedMaps DEF SameMaps, Kept
<1> HIDE DEF u
<1>2. \A x : /\ Known(u, x) <=> Known(t, x)
             /\ Remembered(u, x) <=> Remembered(t, x)
             /\ Gone(u, x) <=> Gone(t, x)
  BY <1>1 DEF Known, Remembered, Gone
<1>3. \A x : /\ Sending(u, x) <=> Sending(t, x)
             /\ Fresh(u, x) <=> Fresh(t, x)
             /\ Receiving(u, x) <=> Receiving(t, x)
             /\ Granting(u, x) <=> Granting(t, x)
  BY <1>1, <1>2 DEF Sending, Fresh, Receiving, Granting
<1>4. \A x : Sent(u, x) = Sent(t, x) /\ Received(u, x) = Received(t, x)
  BY <1>1, <1>2 DEF Sent, Received
<1>5. \A x : SendMaxOf(u, x) = SendMaxOf(t, x)
  BY <1>1, <1>2 DEF SendMaxOf, FirstSendMax
<1>6. \A x : RecvMaxOf(u, x) = RecvMaxOf(t, x)
  BY <1>1, <1>2 DEF RecvMaxOf, InitialRecvMax
<1>7. Always(t, o) => Always(u, o)
  BY <1>1, <1>2, <1>5 DEF Always, Bounds, Knows, StreamBound
<1>8. Always(o, t) => Always(o, u)
  BY <1>1, <1>2, <1>6 DEF Always, Bounds, Knows, StreamBound
<1>9. ASSUME Hears(t, o, W) PROVE Hears(u, o, W)
  <2>1. Flow(u, o, W)
    BY <1>1, <1>9 DEF Hears, Flow
  <2>2. AllNamed(u, W)
    BY <1>1, <1>2, <1>9 DEF Hears, AllNamed, Named
  <2>3. ASSUME NEW x \in Ids, HasSendPart(u.role, x) PROVE DataAgrees(u, o, W, x)
    <3>1. DataAgrees(t, o, W, x)
      BY <1>1, <1>9, <2>3 DEF Hears
    <3> QED BY <3>1, <1>1, <1>2, <1>3, <1>4, <1>5 DEF DataAgrees
  <2>4. ASSUME NEW x \in Ids, HasRecvPart(u.role, x)
        PROVE  StopAgrees(u, o, W, x) /\ CreditAgrees(u, o, W, x)
    <3>1. StopAgrees(t, o, W, x) /\ CreditAgrees(t, o, W, x)
      BY <1>1, <1>9, <2>4 DEF Hears
    <3> QED BY <3>1, <1>2, <1>3, <1>6 DEF StopAgrees, CreditAgrees
  <2> QED BY <2>1, <2>2, <2>3, <2>4 DEF Hears
<1>10. ASSUME Hears(o, t, W) PROVE Hears(o, u, W)
  <2>1. Flow(o, u, W) /\ AllNamed(o, W)
    BY <1>1, <1>10 DEF Hears, Flow
  <2>3. ASSUME NEW x \in Ids, HasSendPart(o.role, x) PROVE DataAgrees(o, u, W, x)
    <3>1. DataAgrees(o, t, W, x)
      BY <1>10, <2>3 DEF Hears
    <3>2. Coming(u, W, x) = Coming(t, W, x)
      BY <1>4 DEF Coming
    <3> QED BY <3>1, <3>2, <1>2, <1>3 DEF DataAgrees
  <2>4. ASSUME NEW x \in Ids, HasRecvPart(o.role, x)
        PROVE  StopAgrees(o, u, W, x) /\ CreditAgrees(o, u, W, x)
    <3>1. StopAgrees(o, t, W, x) /\ CreditAgrees(o, t, W, x)
      BY <1>10, <2>4 DEF Hears
    <3> QED BY <3>1, <1>1, <1>5 DEF StopAgrees, CreditAgrees
  <2> QED BY <2>1, <2>3, <2>4 DEF Hears
<1> QED BY <1>1, <1>7, <1>8, <1>9, <1>10 DEF Toward, u

-----------------------------------------------------------------------------
(* End s processes the first capsule of W, from o, and becomes t.          *)

(* The streams it creates are streams o has opened.                        *)
LEMMA MadeLearns ==
  ASSUME NEW o, NEW s, NEW W, Next1(o, s, W),
         Head(W).type \in {"STREAM", "RESET_STREAM", "STOP_SENDING", "MAX_STREAM_DATA"},
         NEW x \in MadeIds(s, Head(W).id)
  PROVE  x \in Ids /\ Remembered(o, x)
<1> DEFINE id == Head(W).id
<1>1. /\ Ends(o, s, W) /\ SessionOK(o) /\ o \in Sessions
      /\ Head(W) \in Capsules /\ Named(o, Head(W))
  BY FirstOf DEF Next1, Ends
<1>2. id \in Ids /\ Remembered(o, id)
  BY <1>1, CapsuleFields DEF Named
<1> HIDE DEF id
<1>3. IsPeerInitiated(s.role, id) /\ x \in NewIds(s, id)
  BY DEF MadeIds, CreatesFor, id
<1>4. ~IsPeerInitiated(o.role, id)
  BY <1>1, <1>2, <1>3, RolesFlip
<1>5. x \in Nat /\ id \in Nat /\ x <= id /\ x % 4 = id % 4
  BY <1>2, <1>3, IdsAssumption DEF NewIds
<1>6. x \in Ids
  BY <1>2, <1>5, IdsAssumption
<1>7. ~IsPeerInitiated(o.role, x) /\ (IsBidirectional(x) <=> IsBidirectional(id))
  BY <1>4, <1>5, SameType
<1>8. IsBidirectional(x) = IsBidirectional(id)
  BY <1>7 DEF IsBidirectional
<1>9. id < o.next_stream_id[IsBidirectional(id)]
  BY <1>1, <1>2, <1>4 DEF SessionOK
<1>10. o.next_stream_id[IsBidirectional(id)] \in Nat
  <2>1. IsBidirectional(id) \in BOOLEAN
    BY DEF IsBidirectional
  <2> QED BY <1>1, <2>1 DEF Sessions
<1>11. x < o.next_stream_id[IsBidirectional(x)]
  BY <1>5, <1>8, <1>9, <1>10
<1> QED BY <1>1, <1>6, <1>7, <1>11 DEF SessionOK

(* Taking a capsule neither sends nor opens nor announces anything.        *)
TakesFlow(s, t) ==
  /\ t.flow_control.recv_max = s.flow_control.recv_max
  /\ t.flow_control.max_streams_local = s.flow_control.max_streams_local
  /\ t.flow_control.send_offset = s.flow_control.send_offset
  /\ t.flow_control.opened_streams = s.flow_control.opened_streams

LEMMA CreditedBounds ==
  ASSUME NEW o, NEW s, NEW W, Next1(o, s, W), NEW t \in Sessions, Credits(s, t, Head(W)),
         TakesFlow(s, t)
  PROVE  Bounds(t, o)
<1> DEFINE c == Head(W)
<1>1. /\ s \in Sessions /\ o \in Sessions /\ Bounds(s, o)
  BY DEF Next1, Ends, Always
<1>2. t.flow_control.send_offset <= t.flow_control.send_max
      /\ t.flow_control.send_max <= o.flow_control.recv_max
  <2>1. /\ s.flow_control.send_offset <= s.flow_control.send_max
        /\ s.flow_control.send_max <= o.flow_control.recv_max
    BY <1>1 DEF Bounds
  <2>2. CASE c.type = "MAX_DATA"
    <3>1. /\ c.maximum \in Nat /\ s.flow_control.send_max < c.maximum
          /\ c.maximum <= o.flow_control.recv_max
      BY <2>2, CreditIsNews
    <3>2. t.flow_control.send_max = c.maximum
      BY <2>2 DEF Credits
    <3> QED BY <1>1, <2>1, <3>1, <3>2, FlowTypes DEF TakesFlow
  <2>3. CASE c.type # "MAX_DATA"
    BY <2>1, <2>3 DEF Credits, TakesFlow
  <2> QED BY <2>2, <2>3
<1>3. ASSUME NEW d \in BOOLEAN
      PROVE  /\ t.flow_control.opened_streams[d] <= t.flow_control.max_streams_remote[d]
             /\ t.flow_control.max_streams_remote[d] <= o.flow_control.max_streams_local[d]
  <2>1. /\ s.flow_control.opened_streams[d] <= s.flow_control.max_streams_remote[d]
        /\ s.flow_control.max_streams_remote[d] <= o.flow_control.max_streams_local[d]
    BY <1>1 DEF Bounds
  <2>2. CASE c.type = "MAX_STREAMS" /\ c.bidirectional = d
    <3>1. /\ c.maximum \in Nat /\ s.flow_control.max_streams_remote[d] < c.maximum
          /\ c.maximum <= o.flow_control.max_streams_local[d]
      BY <2>2, CreditIsNews
    <3>2. t.flow_control.max_streams_remote[d] = c.maximum
      BY <2>2 DEF Credits
    <3> QED BY <1>1, <2>1, <3>1, <3>2, FlowTypes DEF TakesFlow
  <2>3. CASE ~(c.type = "MAX_STREAMS" /\ c.bidirectional = d)
    BY <2>1, <2>3 DEF Credits, TakesFlow
  <2> QED BY <2>2, <2>3
<1> QED BY <1>2, <1>3 DEF Bounds

(* What every capsule that is taken leaves alone.                          *)
TakeKeeps(o, s, t, W) ==
  /\ t \in Sessions /\ Kept(s, t) /\ Credits(s, t, Head(W)) /\ TakesFlow(s, t)
  /\ \A x : Remembered(s, x) => Remembered(t, x)
  /\ \A x \in Ids : Remembered(t, x) => Remembered(s, x) \/ Remembered(o, x)
  /\ \A x \in Ids : HasSendPart(o.role, x) =>
       Gone(t, x) \/ (~Gone(s, x) /\ RecvMaxOf(t, x) = RecvMaxOf(s, x))
  /\ \A x \in Ids : HasRecvPart(o.role, x) =>
       IF Head(W) \in CreditCapsules(x) THEN SendMaxOf(t, x) = Head(W).maximum
       ELSE SendMaxOf(t, x) = SendMaxOf(s, x)

LEMMA TakeAlways ==
  ASSUME NEW o, NEW s, NEW W, Next1(o, s, W), NEW t, TakeKeeps(o, s, t, W)
  PROVE  Always(o, t) /\ Always(t, o)
<1>1. /\ s \in Sessions /\ o \in Sessions /\ t \in Sessions /\ t.role = s.role /\ Ends(o, s, W)
      /\ Always(o, s) /\ Always(s, o)
  BY DEF Next1, Ends, TakeKeeps, Kept
<1>2. Bounds(t, o)
  BY CreditedBounds DEF TakeKeeps
<1>3. Always(o, t)
  <2>1. /\ t.flow_control.recv_max >= s.flow_control.recv_max
        /\ \A d \in BOOLEAN :
             t.flow_control.max_streams_local[d] >= s.flow_control.max_streams_local[d]
    BY <1>1, FlowTypes DEF TakeKeeps, TakesFlow
  <2>2. \A x \in Ids : HasSendPart(o.role, x) =>
          Gone(t, x) \/ (~Gone(s, x) /\ RecvMaxOf(t, x) >= RecvMaxOf(s, x))
    BY <1>1, ViewTypes DEF TakeKeeps
  <2> QED BY <1>1, <2>1, <2>2, AlwaysListens DEF TakeKeeps
<1>4. ASSUME NEW x \in Ids, HasSendPart(s.role, x)
      PROVE  SendMaxOf(t, x) = SendMaxOf(s, x) \/ StreamBound(t, o, x)
  <2>1. HasRecvPart(o.role, x)
    BY <1>1, <1>4, RolesFlip
  <2>2. CASE Head(W) \in CreditCapsules(x)
    <3>1. Head(W).type = "MAX_STREAM_DATA" /\ Head(W).id = x
      BY <2>2 DEF CreditCapsules
    <3>2. ~Gone(o, x) => Head(W).maximum <= RecvMaxOf(o, x)
      BY <3>1, CreditIsNews
    <3>3. SendMaxOf(t, x) = Head(W).maximum
      BY <2>1, <2>2 DEF TakeKeeps
    <3> QED BY <3>2, <3>3 DEF StreamBound
  <2>3. CASE Head(W) \notin CreditCapsules(x)
    BY <2>1, <2>3 DEF TakeKeeps
  <2> QED BY <2>2, <2>3
<1>5. Always(t, o)
  BY <1>1, <1>2, <1>4, AlwaysSpeaks DEF TakeKeeps
<1> QED BY <1>3, <1>5

(* What s says does not change, but for the answer to STOP_SENDING.        *)
LEMMA TakeSilent ==
  ASSUME NEW o, NEW s, NEW W, Next1(o, s, W), NEW t, TakeKeeps(o, s, t, W),
         NEW Wo, Ends(s, o, Wo), Toward(s, o, Wo),
         \A x \in Ids : HasSendPart(s.role, x) => SendKeeps(s, t, x),
         \A x \in Ids : HasRecvPart(s.role, x) => GrantKeeps(s, t, x)
  PROVE  Toward(t, o, Wo)
<1>1. Always(t, o)
  BY TakeAlways
<1>2. ASSUME o.state # "Closed" PROVE Hears(t, o, Wo)
  <2>1. Hears(s, o, Wo)
    BY <1>2 DEF Toward
  <2> QED BY <2>1, HearsSilent DEF TakeKeeps, Kept, TakesFlow
<1> QED BY <1>1, <1>2 DEF Toward

LEMMA TakeHears ==
  ASSUME NEW o, NEW s, NEW W, Next1(o, s, W), NEW t, TakeKeeps(o, s, t, W),
         \A x \in Ids : HasSendPart(o.role, x) =>
           \/ ReceiveKeeps(s, t, x) /\ Head(W) \notin DataCapsules(x) \cup ResetCapsules(x)
           \/ DataAgrees(o, t, Tail(W), x),
         \A x \in Ids : HasRecvPart(o.role, x) =>
           \/ x \in t.stop_sending_received_ids <=> x \in s.stop_sending_received_ids
           \/ Head(W) \in StopCapsules(x)
  PROVE  Toward(o, t, Tail(W))
<1>1. Always(o, t)
  BY TakeAlways
<1>2. Hears(o, t, Tail(W))
  BY HearsTail DEF Next1, TakeKeeps
<1> QED BY <1>1, <1>2 DEF Toward

(* A stream a capsule is not about.                                        *)
LEMMA TakeOther ==
  ASSUME NEW o, NEW s, NEW W, Ends(o, s, W), NEW t \in Sessions, NEW x \in Ids, Alike(s, t, x)
  PROVE  /\ HasSendPart(s.role, x) <=> HasRecvPart(o.role, x)
         /\ HasRecvPart(s.role, x) <=> HasSendPart(o.role, x)
         /\ HasSendPart(s.role, x) => SendKeeps(s, t, x) /\ SendMaxOf(t, x) = SendMaxOf(s, x)
         /\ HasRecvPart(s.role, x) =>
              /\ GrantKeeps(s, t, x)
              /\ Receiving(t, x) <=> Receiving(s, x)
              /\ Receiving(s, x) => Received(t, x) = Received(s, x)
BY AlikeKeeps, RolesFlip DEF Ends

LEMMA TakeDataKeeps ==
  ASSUME NEW o, NEW s, NEW W, Next1(o, s, W), Head(W).type = "STREAM",
         NEW t, TakesData(s, t, Head(W))
  PROVE  /\ TakeKeeps(o, s, t, W)
         /\ \A x \in Ids : HasSendPart(s.role, x) => SendKeeps(s, t, x)
         /\ \A x \in Ids : HasRecvPart(s.role, x) => GrantKeeps(s, t, x)
<1> DEFINE c == Head(W)
           id == c.id
<1>1. /\ Ends(o, s, W) /\ s \in Sessions /\ o \in Sessions /\ c \in Capsules
      /\ c.size \in Nat
  BY FirstOf, CapsuleFields DEF Next1, Ends
<1>2. /\ t \in Sessions /\ Kept(s, t) /\ id \in Ids /\ OthersAlike(s, t, id)
      /\ HasSendPart(s.role, id) => SendAlike(s, t, id)
      /\ Granting(t, id) => Granting(s, id)
      /\ ~Gone(s, id) /\ RecvMaxOf(t, id) = RecvMaxOf(s, id)
      /\ \A x : Remembered(t, x) <=> Remembered(s, x) \/ x \in MadeIds(s, id)
  BY DEF TakesData
<1>3. t.flow_control = [s.flow_control EXCEPT !.recv_offset = @ + c.size]
  BY DEF TakesData
<1>4. /\ t.flow_control.send_offset = s.flow_control.send_offset
      /\ t.flow_control.send_max = s.flow_control.send_max
      /\ t.flow_control.recv_max = s.flow_control.recv_max
      /\ t.flow_control.recv_offset = s.flow_control.recv_offset + c.size
      /\ t.flow_control.max_streams_local = s.flow_control.max_streams_local
      /\ t.flow_control.max_streams_remote = s.flow_control.max_streams_remote
      /\ t.flow_control.opened_streams = s.flow_control.opened_streams
  BY <1>1, <1>3 DEF Sessions, WtFlowControls
<1>5. Credits(s, t, c) /\ TakesFlow(s, t)
  BY <1>4 DEF Credits, TakesFlow
<1>6. \A x \in MadeIds(s, id) : Remembered(o, x)
  BY MadeLearns
<1>7. \A x \in Ids : c \notin CreditCapsules(x)
  BY DEF CreditCapsules
<1>8. /\ HasSendPart(s.role, id) => SendKeeps(s, t, id) /\ SendMaxOf(t, id) = SendMaxOf(s, id)
      /\ GrantKeeps(s, t, id)
  BY <1>1, <1>2, ViewTypes DEF SendAlike, SentKept, SendKeeps, GrantKeeps
<1> HIDE DEF c, id
<1>9. ASSUME NEW x \in Ids
      PROVE  /\ HasSendPart(s.role, x) <=> HasRecvPart(o.role, x)
             /\ HasRecvPart(s.role, x) <=> HasSendPart(o.role, x)
             /\ HasSendPart(s.role, x) => SendKeeps(s, t, x) /\ SendMaxOf(t, x) = SendMaxOf(s, x)
             /\ HasRecvPart(s.role, x) => GrantKeeps(s, t, x)
  <2>1. CASE x = id
    BY <1>1, <1>8, <2>1, RolesFlip
  <2>2. CASE x # id
    <3>1. Alike(s, t, x)
      BY <1>2, <2>2 DEF OthersAlike
    <3> QED BY <1>1, <1>2, <3>1, TakeOther
  <2> QED BY <2>1, <2>2
<1>10. TakeKeeps(o, s, t, W)
  BY <1>2, <1>5, <1>6, <1>7, <1>9 DEF TakeKeeps, GrantKeeps, c, id
<1> QED BY <1>9, <1>10

LEMMA TakeData ==
  ASSUME NEW o, NEW s, NEW W, Next1(o, s, W), Head(W).type = "STREAM",
         NEW t, TakesData(s, t, Head(W)), NEW Wo, Ends(s, o, Wo), Toward(s, o, Wo)
  PROVE  Toward(o, t, Tail(W)) /\ Toward(t, o, Wo)
<1> DEFINE c == Head(W)
           id == c.id
<1>1. /\ TakeKeeps(o, s, t, W)
      /\ \A x \in Ids : HasSendPart(s.role, x) => SendKeeps(s, t, x)
      /\ \A x \in Ids : HasRecvPart(s.role, x) => GrantKeeps(s, t, x)
  BY TakeDataKeeps
<1>2. Toward(t, o, Wo)
  BY <1>1, TakeSilent
<1>3. /\ Ends(o, s, W) /\ Hears(o, s, W) /\ t \in Sessions /\ c \in Capsules /\ W # << >>
      /\ \A x \in Ids : HasSendPart(o.role, x) => InOrder(o, W, x)
      /\ \A x : Remembered(s, x) => Remembered(t, x)
  BY <1>1, FirstOf DEF Next1, TakeKeeps
<1>4. /\ id \in Ids /\ HasRecvPart(s.role, id) /\ OthersAlike(s, t, id)
      /\ Receiving(s, id) /\ (Receiving(t, id) <=> ~c.fin)
      /\ ~c.fin => Received(t, id) = Received(s, id) + c.size
      /\ Remembered(t, id) /\ t.stop_sending_received_ids = s.stop_sending_received_ids
  BY DEF TakesData
<1>5. ASSUME NEW x \in Ids, HasSendPart(o.role, x)
      PROVE  \/ ReceiveKeeps(s, t, x) /\ c \notin DataCapsules(x) \cup ResetCapsules(x)
             \/ DataAgrees(o, t, Tail(W), x)
  <2>1. CASE x = id
    <3>1. c \in DataCapsules(id)
      BY <1>3 DEF DataCapsules
    <3>2. DataAgrees(o, s, W, id) /\ InOrder(o, W, id)
      BY <1>3, <1>5, <2>1 DEF Hears
    <3>3. DataAgrees(o, t, Tail(W), id)
      BY <1>3, <1>4, <3>1, <3>2, DataTaken
    <3> QED BY <2>1, <3>3
  <2>2. CASE x # id
    <3>1. Alike(s, t, x)
      BY <1>4, <2>2 DEF OthersAlike
    <3>2. ReceiveKeeps(s, t, x)
      BY <1>3, <1>5, <3>1, TakeOther DEF ReceiveKeeps
    <3> QED BY <2>2, <3>2 DEF DataCapsules, ResetCapsules
  <2> QED BY <2>1, <2>2
<1>6. Toward(o, t, Tail(W))
  BY <1>1, <1>4, <1>5, TakeHears
<1> QED BY <1>2, <1>6

LEMMA TakeReset ==
  ASSUME NEW o, NEW s, NEW W, Next1(o, s, W), Head(W).type = "RESET_STREAM",
         NEW t, TakesReset(s, t, Head(W)), NEW Wo, Ends(s, o, Wo), Toward(s, o, Wo)
  PROVE  Toward(o, t, Tail(W)) /\ Toward(t, o, Wo)
<1> DEFINE c == Head(W)
           id == c.id
<1>1. /\ Ends(o, s, W) /\ Hears(o, s, W) /\ c \in Capsules /\ W # << >>
      /\ s \in Sessions /\ o \in Sessions
      /\ \A x \in Ids : HasSendPart(o.role, x) => InOrder(o, W, x)
  BY FirstOf DEF Next1, Ends
<1>2. /\ t \in Sessions /\ Kept(s, t) /\ id \in Ids /\ OthersAlike(s, t, id)
      /\ HasSendPart(s.role, id) => SendAlike(s, t, id)
      /\ Granting(t, id) => Granting(s, id)
      /\ ~Gone(s, id) /\ (Gone(t, id) \/ RecvMaxOf(t, id) = RecvMaxOf(s, id))
      /\ ~Receiving(t, id) /\ Remembered(t, id)
      /\ \A x : Remembered(t, x) <=> Remembered(s, x)
      /\ t.flow_control = s.flow_control
      /\ t.stop_sending_received_ids = s.stop_sending_received_ids
  BY DEF TakesReset, SameRemembered
<1>3. Credits(s, t, c) /\ TakesFlow(s, t)
  BY <1>1, <1>2, FlowTypes DEF Credits, TakesFlow
<1>4. \A x \in Ids : c \notin CreditCapsules(x)
  BY DEF CreditCapsules
<1>5. /\ HasSendPart(s.role, id) => SendKeeps(s, t, id) /\ SendMaxOf(t, id) = SendMaxOf(s, id)
      /\ GrantKeeps(s, t, id)
  BY <1>1, <1>2, ViewTypes DEF SendAlike, SentKept, SendKeeps, GrantKeeps
<1> HIDE DEF c, id
<1>6. ASSUME NEW x \in Ids
      PROVE  /\ HasSendPart(s.role, x) <=> HasRecvPart(o.role, x)
             /\ HasRecvPart(s.role, x) <=> HasSendPart(o.role, x)
             /\ HasSendPart(s.role, x) => SendKeeps(s, t, x) /\ SendMaxOf(t, x) = SendMaxOf(s, x)
             /\ HasRecvPart(s.role, x) => GrantKeeps(s, t, x)
  <2>1. CASE x = id
    BY <1>1, <1>2, <1>5, <2>1, RolesFlip
  <2>2. CASE x # id
    <3>1. Alike(s, t, x)
      BY <1>2, <2>2 DEF OthersAlike
    <3> QED BY <1>1, <1>2, <3>1, TakeOther
  <2> QED BY <2>1, <2>2
<1>7. TakeKeeps(o, s, t, W)
  BY <1>2, <1>3, <1>4, <1>6 DEF TakeKeeps, GrantKeeps, c
<1>8. Toward(t, o, Wo)
  BY <1>6, <1>7, TakeSilent
<1>9. ASSUME NEW x \in Ids, HasSendPart(o.role, x)
      PROVE  \/ ReceiveKeeps(s, t, x) /\ c \notin DataCapsules(x) \cup ResetCapsules(x)
             \/ DataAgrees(o, t, Tail(W), x)
  <2>1. CASE x = id
    <3>1. Head(W) \in ResetCapsules(id)
      BY <1>1 DEF ResetCapsules, c, id
    <3>2. DataAgrees(o, s, W, id) /\ InOrder(o, W, id)
      BY <1>1, <1>9, <2>1 DEF Hears
    <3>3. DataAgrees(o, t, Tail(W), id)
      BY <1>1, <1>2, <3>1, <3>2, ResetTaken
    <3> QED BY <2>1, <3>3
  <2>2. CASE x # id
    <3>1. Alike(s, t, x)
      BY <1>2, <2>2 DEF OthersAlike
    <3>2. ReceiveKeeps(s, t, x)
      BY <1>1, <1>2, <1>9, <3>1, TakeOther DEF ReceiveKeeps
    <3> QED BY <2>2, <3>2 DEF DataCapsules, ResetCapsules, id
  <2> QED BY <2>1, <2>2
<1>10. Toward(o, t, Tail(W))
  BY <1>2, <1>7, <1>9, TakeHears DEF c
<1> QED BY <1>8, <1>10

(* A stream whose receiving direction a capsule leaves alone.              *)
LEMMA TakeReceive ==
  ASSUME NEW o, NEW s, NEW W, Ends(o, s, W), NEW t \in Sessions, NEW id \in Ids,
         OthersAlike(s, t, id), HasRecvPart(s.role, id) => RecvAlike(s, t, id),
         NEW x \in Ids
  PROVE  /\ HasSendPart(s.role, x) <=> HasRecvPart(o.role, x)
         /\ HasRecvPart(s.role, x) <=> HasSendPart(o.role, x)
         /\ HasSendPart(s.role, x) /\ x # id =>
              SendKeeps(s, t, x) /\ SendMaxOf(t, x) = SendMaxOf(s, x)
         /\ HasRecvPart(s.role, x) =>
              /\ GrantKeeps(s, t, x)
              /\ Receiving(t, x) <=> Receiving(s, x)
              /\ Receiving(s, x) => Received(t, x) = Received(s, x)
<1>1. CASE x = id
  BY <1>1, RolesFlip DEF RecvAlike, GrantKeeps
<1>2. CASE x # id
  <2>1. Alike(s, t, x)
    BY <1>2 DEF OthersAlike
  <2> QED BY <1>2, <2>1, TakeOther
<1> QED BY <1>1, <1>2

LEMMA TakeCredit ==
  ASSUME NEW o, NEW s, NEW W, Next1(o, s, W), Head(W).type = "MAX_STREAM_DATA",
         NEW t, TakesCredit(s, t, Head(W)), NEW Wo, Ends(s, o, Wo), Toward(s, o, Wo)
  PROVE  Toward(o, t, Tail(W)) /\ Toward(t, o, Wo)
<1> DEFINE c == Head(W)
           id == c.id
<1>1. /\ Ends(o, s, W) /\ Hears(o, s, W) /\ c \in Capsules
      /\ s \in Sessions /\ o \in Sessions
  BY FirstOf DEF Next1, Ends
<1>2. /\ t \in Sessions /\ Kept(s, t) /\ id \in Ids /\ OthersAlike(s, t, id)
      /\ HasRecvPart(s.role, id) => RecvAlike(s, t, id)
      /\ Sending(t, id) <=> Sending(s, id)
      /\ Sending(s, id) => Sent(t, id) = Sent(s, id) /\ (Fresh(t, id) <=> Fresh(s, id))
      /\ SendMaxOf(t, id) = c.maximum /\ SentKept(s, t, id)
      /\ \A x : Remembered(t, x) <=> Remembered(s, x) \/ x \in MadeIds(s, id)
      /\ t.flow_control = s.flow_control
      /\ t.stop_sending_received_ids = s.stop_sending_received_ids
  BY DEF TakesCredit
<1>3. Credits(s, t, c) /\ TakesFlow(s, t)
  BY <1>1, <1>2, FlowTypes DEF Credits, TakesFlow
<1>4. SendMaxOf(s, id) < c.maximum /\ c.maximum \in Nat
  BY CreditIsNews
<1>5. SendKeeps(s, t, id)
  BY <1>1, <1>2, <1>4, ViewTypes DEF SendKeeps
<1>6. \A x \in MadeIds(s, id) : Remembered(o, x)
  BY MadeLearns
<1>7. \A x \in Ids : /\ c \in CreditCapsules(x) <=> x = id
                     /\ c \notin DataCapsules(x) \cup ResetCapsules(x)
  BY <1>1 DEF CreditCapsules, DataCapsules, ResetCapsules
<1> HIDE DEF c, id
<1>8. ASSUME NEW x \in Ids
      PROVE  /\ HasSendPart(s.role, x) <=> HasRecvPart(o.role, x)
             /\ HasRecvPart(s.role, x) <=> HasSendPart(o.role, x)
             /\ HasSendPart(s.role, x) /\ x # id =>
                  SendKeeps(s, t, x) /\ SendMaxOf(t, x) = SendMaxOf(s, x)
             /\ HasRecvPart(s.role, x) =>
                  /\ GrantKeeps(s, t, x)
                  /\ Receiving(t, x) <=> Receiving(s, x)
                  /\ Receiving(s, x) => Received(t, x) = Received(s, x)
  BY <1>1, <1>2, TakeReceive
<1>9. TakeKeeps(o, s, t, W)
  BY <1>2, <1>3, <1>6, <1>7, <1>8 DEF TakeKeeps, GrantKeeps, c
<1>10. \A x \in Ids : HasSendPart(s.role, x) => SendKeeps(s, t, x)
  BY <1>5, <1>8
<1>11. Toward(t, o, Wo)
  BY <1>8, <1>9, <1>10, TakeSilent
<1>12. \A x \in Ids : HasSendPart(o.role, x) => ReceiveKeeps(s, t, x)
  BY <1>2, <1>8 DEF ReceiveKeeps
<1>13. Toward(o, t, Tail(W))
  BY <1>2, <1>7, <1>9, <1>12, TakeHears DEF c
<1> QED BY <1>11, <1>13

LEMMA TakeStop ==
  ASSUME NEW o, NEW s, NEW W, Next1(o, s, W), Head(W).type = "STOP_SENDING",
         NEW t, TakesStop(s, t, Head(W)), NEW Wo, Ends(s, o, Wo), Toward(s, o, Wo),
         \A x \in Ids : HasSendPart(s.role, x) => InOrder(s, Wo, x)
  PROVE  Toward(o, t, Tail(W)) /\ Toward(t, o, Wo \o t.output)
<1> DEFINE c == Head(W)
           id == c.id
           answer == [type |-> "RESET_STREAM", id |-> id, reliable_size |-> Sent(s, id)]
<1>1. /\ Ends(o, s, W) /\ Hears(o, s, W) /\ c \in Capsules /\ Wo \in Seq(Capsules)
      /\ s \in Sessions /\ o \in Sessions
  BY FirstOf DEF Next1, Ends
<1>2. /\ t \in Sessions /\ Kept(s, t) /\ id \in Ids /\ OthersAlike(s, t, id)
      /\ HasSendPart(s.role, id)
      /\ HasRecvPart(s.role, id) => RecvAlike(s, t, id)
      /\ ~Sending(t, id) /\ SendMaxOf(t, id) = SendMaxOf(s, id) /\ SentKept(s, t, id)
      /\ \A x : Remembered(t, x) <=> Remembered(s, x) \/ x \in MadeIds(s, id)
      /\ Remembered(t, id)
      /\ t.flow_control = s.flow_control
      /\ t.stop_sending_received_ids = s.stop_sending_received_ids \cup {id}
  BY DEF TakesStop
<1>3. t.output = IF Sending(s, id) THEN <<answer>> ELSE << >>
  BY DEF TakesStop
<1>4. Credits(s, t, c) /\ TakesFlow(s, t)
  BY <1>1, <1>2, FlowTypes DEF Credits, TakesFlow
<1>5. \A x \in MadeIds(s, id) : Remembered(o, x)
  BY MadeLearns
<1>6. \A x \in Ids : /\ c \in StopCapsules(x) <=> x = id
                     /\ c \notin CreditCapsules(x)
                     /\ c \notin DataCapsules(x) \cup ResetCapsules(x)
  BY <1>1 DEF StopCapsules, CreditCapsules, DataCapsules, ResetCapsules
<1>7. Remembered(o, id)
  BY FirstOf DEF Named
<1>8. answer \in Capsules /\ answer.type = "RESET_STREAM" /\ answer.id = id
      /\ answer.reliable_size = Sent(s, id)
  BY <1>1, <1>2, ViewTypes DEF Capsules
<1> HIDE DEF c, id, answer
<1>9. ASSUME NEW x \in Ids
      PROVE  /\ HasSendPart(s.role, x) <=> HasRecvPart(o.role, x)
             /\ HasRecvPart(s.role, x) <=> HasSendPart(o.role, x)
             /\ HasSendPart(s.role, x) /\ x # id =>
                  SendKeeps(s, t, x) /\ SendMaxOf(t, x) = SendMaxOf(s, x)
             /\ HasRecvPart(s.role, x) =>
                  /\ GrantKeeps(s, t, x)
                  /\ Receiving(t, x) <=> Receiving(s, x)
                  /\ Receiving(s, x) => Received(t, x) = Received(s, x)
  BY <1>1, <1>2, TakeReceive
<1>10. TakeKeeps(o, s, t, W)
  BY <1>2, <1>4, <1>5, <1>6, <1>9 DEF TakeKeeps, GrantKeeps, c
<1>11. \A x \in Ids : HasSendPart(o.role, x) => ReceiveKeeps(s, t, x)
  BY <1>2, <1>9 DEF ReceiveKeeps
<1>12. ASSUME NEW x \in Ids
       PROVE  \/ x \in t.stop_sending_received_ids <=> x \in s.stop_sending_received_ids
              \/ Head(W) \in StopCapsules(x)
  BY <1>2, <1>6 DEF c
<1>13. Toward(o, t, Tail(W))
  BY <1>6, <1>10, <1>11, <1>12, TakeHears DEF c
<1>14. CASE ~Sending(s, id)
  <2>1. SendKeeps(s, t, id)
    BY <1>1, <1>2, <1>14, ViewTypes DEF SendKeeps
  <2>2. Toward(t, o, Wo)
    BY <1>9, <1>10, <2>1, TakeSilent
  <2>3. Wo \o t.output = Wo
    BY <1>1, <1>3, <1>14
  <2> QED BY <1>13, <2>2, <2>3
<1>15. CASE Sending(s, id)
  <2>1. Always(t, o)
    BY <1>10, TakeAlways
  <2>2. ASSUME o.state # "Closed" PROVE Hears(t, o, Append(Wo, answer))
    <3>1. Hears(s, o, Wo) /\ t.role = s.role
      BY <1>2, <2>2 DEF Toward, Kept
    <3>2. Named(t, answer)
      BY <1>2, <1>8, <3>1 DEF Named
    <3>3. Charges(s, t, answer)
      BY <1>1, <1>2, <1>8, FlowTypes DEF Charges
    <3>4. answer \in ResetCapsules(id)
      BY <1>8 DEF ResetCapsules
    <3>5. DataAgrees(s, o, Wo, id) /\ InOrder(s, Wo, id)
      BY <1>2, <3>1 DEF Hears
    <3>6. NoneOf(Wo, Final(DataCapsules(id), ResetCapsules(id)))
      BY <1>15, <3>5 DEF InOrder
    <3>7. DataAgrees(t, o, Append(Wo, answer), id)
      BY <1>2, <1>7, <1>8, <1>15, <3>1, <3>4, <3>5, <3>6, DataReset
    <3>8. ASSUME NEW x \in Ids
          PROVE  /\ x # id => answer \notin DataCapsules(x) \cup ResetCapsules(x)
                 /\ answer \notin StopCapsules(x) \cup CreditCapsules(x)
      BY <1>8 DEF DataCapsules, ResetCapsules, StopCapsules, CreditCapsules
    <3>9. ASSUME NEW x \in Ids, HasSendPart(s.role, x)
          PROVE  \/ SendKeeps(s, t, x) /\ answer \notin DataCapsules(x) \cup ResetCapsules(x)
                 \/ DataAgrees(t, o, Append(Wo, answer), x)
      BY <1>9, <3>7, <3>8, <3>9
    <3> QED BY <1>2, <1>8, <1>9, <3>1, <3>2, <3>3, <3>8, <3>9, HearsAppend
  <2>3. Wo \o t.output = Append(Wo, answer)
    BY <1>1, <1>3, <1>8, <1>15
  <2> QED BY <1>13, <2>1, <2>2, <2>3 DEF Toward
<1> QED BY <1>14, <1>15

LEMMA TakeQuiet ==
  ASSUME NEW o, NEW s, NEW W, Next1(o, s, W), Head(W) \in QuietCapsules,
         NEW t, TakesQuiet(s, t, Head(W)), NEW Wo, Ends(s, o, Wo), Toward(s, o, Wo)
  PROVE  Toward(o, t, Tail(W)) /\ Toward(t, o, Wo)
<1> DEFINE c == Head(W)
<1>1. /\ Ends(o, s, W) /\ Hears(o, s, W) /\ c \in Capsules
      /\ s \in Sessions /\ o \in Sessions
  BY FirstOf DEF Next1, Ends
<1>2. /\ t \in Sessions /\ SameMaps(s, t) /\ Kept(s, t)
      /\ t.stop_sending_received_ids = s.stop_sending_received_ids
  BY DEF TakesQuiet, SameMaps
<1>3. t.flow_control =
        CASE c.type = "MAX_DATA" -> [s.flow_control EXCEPT !.send_max = c.maximum]
          [] c.type = "MAX_STREAMS" ->
               [s.flow_control EXCEPT !.max_streams_remote[c.bidirectional] = c.maximum]
          [] OTHER -> s.flow_control
  BY DEF TakesQuiet
<1>4. /\ c.type \notin {"STREAM", "RESET_STREAM", "STOP_SENDING", "MAX_STREAM_DATA"}
      /\ c.type = "MAX_STREAMS" => c.bidirectional \in BOOLEAN
  BY <1>1, CapsuleFields DEF QuietCapsules
<1> HIDE DEF c
<1>5. s.flow_control \in WtFlowControls
  BY <1>1 DEF Sessions
<1>6. Credits(s, t, c) /\ TakesFlow(s, t)
  <2>1. CASE c.type = "MAX_DATA"
    <3>1. t.flow_control = [s.flow_control EXCEPT !.send_max = c.maximum]
      BY <1>3, <2>1
    <3> QED BY <1>1, <1>5, <2>1, <3>1, FlowTypes DEF Credits, TakesFlow, WtFlowControls
  <2>2. CASE c.type = "MAX_STREAMS"
    <3>1. t.flow_control =
            [s.flow_control EXCEPT !.max_streams_remote[c.bidirectional] = c.maximum]
      BY <1>3, <2>2
    <3> QED BY <1>1, <1>4, <1>5, <2>2, <3>1, FlowTypes DEF Credits, TakesFlow, WtFlowControls
  <2>3. CASE c.type \notin {"MAX_DATA", "MAX_STREAMS"}
    <3>1. t.flow_control = s.flow_control
      BY <1>3, <2>3
    <3> QED BY <1>1, <1>4, <2>3, <3>1, FlowTypes DEF Credits, TakesFlow
  <2> QED BY <2>1, <2>2, <2>3
<1>7. /\ AllAlike(s, t)
      /\ \A x : Remembered(t, x) <=> Remembered(s, x)
  BY <1>2, SameViews DEF SameRemembered
<1>8. \A x \in Ids : /\ c \notin CreditCapsules(x)
                     /\ c \notin DataCapsules(x) \cup ResetCapsules(x)
  BY <1>4 DEF CreditCapsules, DataCapsules, ResetCapsules
<1>9. ASSUME NEW x \in Ids
      PROVE  /\ HasSendPart(s.role, x) <=> HasRecvPart(o.role, x)
             /\ HasRecvPart(s.role, x) <=> HasSendPart(o.role, x)
             /\ HasSendPart(s.role, x) => SendKeeps(s, t, x) /\ SendMaxOf(t, x) = SendMaxOf(s, x)
             /\ HasRecvPart(s.role, x) =>
                  /\ GrantKeeps(s, t, x)
                  /\ Receiving(t, x) <=> Receiving(s, x)
                  /\ Receiving(s, x) => Received(t, x) = Received(s, x)
  <2>1. Alike(s, t, x)
    BY <1>7 DEF AllAlike
  <2> QED BY <1>1, <1>2, <2>1, TakeOther
<1>10. TakeKeeps(o, s, t, W)
  BY <1>2, <1>6, <1>7, <1>8, <1>9 DEF TakeKeeps, GrantKeeps, c
<1>11. Toward(t, o, Wo)
  BY <1>9, <1>10, TakeSilent
<1>12. \A x \in Ids : HasSendPart(o.role, x) => ReceiveKeeps(s, t, x)
  BY <1>7, <1>9 DEF ReceiveKeeps
<1>13. Toward(o, t, Tail(W))
  BY <1>2, <1>8, <1>10, <1>12, TakeHears DEF c
<1> QED BY <1>11, <1>13

(* Whatever the capsule is.  A session that is closed takes no notice.     *)
LEMMA TakeAny ==
  ASSUME NEW o, NEW s, NEW W, W # << >>, NEW Wo, Talking(s, o, Wo, W), s.output = << >>,
         \A x \in Ids : HasSendPart(o.role, x) => InOrder(o, W, x),
         \A x \in Ids : HasSendPart(s.role, x) => InOrder(s, Wo, x),
         NEW t, Takes(s, t, Head(W))
  PROVE  Toward(o, t, Tail(W)) /\ Toward(t, o, Wo \o t.output)
<1>1. /\ Ends(s, o, Wo) /\ Toward(s, o, Wo) /\ Ends(o, s, W) /\ Toward(o, s, W)
      /\ Wo \in Seq(Capsules)
  BY DEF Talking, Ends
<1>2. CASE s.state = "Closed"
  <2>1. t = s
    BY <1>2 DEF Takes
  <2>2. Wo \o t.output = Wo
    BY <1>1, <2>1
  <2> QED BY <1>1, <1>2, <2>1, <2>2 DEF Toward
<1>3. CASE s.state # "Closed"
  <2>1. Next1(o, s, W)
    BY <1>1, <1>3 DEF Next1, Toward
  <2>2. ASSUME t.output = << >> PROVE Wo \o t.output = Wo
    BY <1>1, <2>2
  <2>3. CASE Head(W).type = "STREAM" /\ TakesData(s, t, Head(W))
    <3>1. t.output = << >>
      BY <2>3 DEF TakesData
    <3> QED BY <1>1, <2>1, <2>2, <2>3, <3>1, TakeData
  <2>4. CASE Head(W).type = "RESET_STREAM" /\ TakesReset(s, t, Head(W))
    <3>1. t.output = << >>
      BY <2>4 DEF TakesReset
    <3> QED BY <1>1, <2>1, <2>2, <2>4, <3>1, TakeReset
  <2>5. CASE Head(W).type = "STOP_SENDING" /\ TakesStop(s, t, Head(W))
    BY <1>1, <2>1, <2>5, TakeStop
  <2>6. CASE Head(W).type = "MAX_STREAM_DATA" /\ TakesCredit(s, t, Head(W))
    <3>1. t.output = << >>
      BY <2>6 DEF TakesCredit
    <3> QED BY <1>1, <2>1, <2>2, <2>6, <3>1, TakeCredit
  <2>7. CASE Head(W) \in QuietCapsules /\ TakesQuiet(s, t, Head(W))
    <3>1. t.output = << >>
      BY <2>7 DEF TakesQuiet
    <3> QED BY <1>1, <2>1, <2>2, <2>7, <3>1, TakeQuiet
  <2> QED BY <1>3, <2>3, <2>4, <2>5, <2>6, <2>7 DEF Takes
<1> QED BY <1>2, <1>3

(* A capsule added.                                                        *)
LEMMA FlushedSame ==
  ASSUME NEW s \in Sessions, s.output = << >>
  PROVE  Flushed(s) = s /\ Kept(s, s)
BY DEF Flushed, Sessions, Kept

(* At the start: nothing is on its way, and each end was told the limits   *)
(* of the other.                                                           *)
LEMMA StartToward ==
  ASSUME NEW a, NEW b, Ends(a, b, << >>),
         DOMAIN a.streams = {}, DOMAIN a.closed_stream_send_max = {},
         DOMAIN b.streams = {}, DOMAIN b.closed_stream_send_max = {},
         b.stop_sending_received_ids = {},
         a.flow_control = NewFlowControl(a.config, a.peer_config),
         b.flow_control = NewFlowControl(b.config, b.peer_config),
         a.peer_config = b.config, b.peer_config = a.config
  PROVE  Toward(a, b, << >>)
<1>1. a.config \in Configs /\ b.config \in Configs /\ a \in Sessions /\ b \in Sessions
  BY DEF Ends, Sessions
<1>2. ASSUME NEW x
      PROVE  /\ ~Known(a, x) /\ ~Known(b, x) /\ ~Gone(a, x) /\ ~Gone(b, x)
             /\ ~Remembered(a, x) /\ ~Remembered(b, x)
  BY DEF Known, Gone, Remembered
<1>3. ASSUME NEW x
      PROVE  /\ Sending(a, x) /\ Fresh(a, x) /\ Sent(a, x) = 0 /\ SendMaxOf(a, x) = FirstSendMax(a, x)
             /\ SendMaxOf(b, x) = FirstSendMax(b, x)
             /\ Receiving(b, x) /\ Received(b, x) = 0
             /\ RecvMaxOf(a, x) = InitialRecvMax(a, x) /\ RecvMaxOf(b, x) = InitialRecvMax(b, x)
  BY <1>2 DEF Sending, Fresh, Sent, SendMaxOf, Receiving, Received, RecvMaxOf
<1>4. ASSUME NEW x \in Ids
      PROVE  FirstSendMax(a, x) = InitialRecvMax(b, x) /\ FirstSendMax(b, x) = InitialRecvMax(a, x)
  <2>1. IsPeerInitiated(a.role, x) <=> ~IsPeerInitiated(b.role, x)
    BY RolesFlip
  <2> QED BY <2>1 DEF FirstSendMax, InitialRecvMax
<1>5. \A S : Weigh(<< >>, S) = << >>
  BY DEF Weigh
<1>6. SumOf(Weigh(<< >>, AllData)) = 0 /\ \A x : InWire(<< >>, x) = 0
  BY <1>5, SumEmpty DEF InWire
<1>7. \A I : NoneOf(<< >>, I) /\ \A T : EndsLast(<< >>, T, I)
  BY DEF NoneOf, EndsLast
<1>8. Bounds(a, b)
  BY <1>1 DEF Bounds, NewFlowControl, Configs
<1>9. Always(a, b)
  <2>1. ASSUME NEW x \in Ids PROVE StreamBound(a, b, x)
    <3>1. SendMaxOf(a, x) = RecvMaxOf(b, x) /\ SendMaxOf(a, x) \in Nat
      BY <1>1, <1>3, <1>4, ViewTypes
    <3> QED BY <3>1 DEF StreamBound
  <2> QED BY <1>2, <1>8, <2>1 DEF Always, Knows
<1>10. Flow(a, b, << >>)
  BY <1>6, RisingStart DEF Flow, NewFlowControl
<1>11. AllNamed(a, << >>)
  BY DEF AllNamed
<1>12. ASSUME NEW x \in Ids PROVE DataAgrees(a, b, << >>, x)
  <2>1. SendMaxOf(a, x) \in Nat
    BY <1>1, ViewTypes
  <2>2. Coming(b, << >>, x) = 0
    BY <1>3, <1>6 DEF Coming
  <2> QED BY <1>3, <2>1, <2>2 DEF DataAgrees
<1>13. ASSUME NEW x \in Ids PROVE StopAgrees(a, b, << >>, x) /\ CreditAgrees(a, b, << >>, x)
  <2>1. StopAgrees(a, b, << >>, x)
    BY <1>7 DEF StopAgrees
  <2>2. CreditAgrees(a, b, << >>, x)
    BY <1>3, <1>4, RisingStart DEF CreditAgrees
  <2> QED BY <2>1, <2>2
<1> QED BY <1>9, <1>10, <1>11, <1>12, <1>13 DEF Toward, Hears

(* The sums and the maxima of the properties are those of the invariant.   *)
LEMMA WireReadings ==
  ASSUME NEW W \in Seq(Capsules)
  PROVE  /\ [k \in DOMAIN W |-> IF W[k].type = "MAX_DATA" THEN W[k].maximum ELSE 0] =
              Marks(W, MaxDataCapsules)
         /\ \A d \in BOOLEAN :
              [k \in DOMAIN W |-> IF W[k].type = "MAX_STREAMS" /\ W[k].bidirectional = d
                                  THEN W[k].maximum ELSE 0] = Marks(W, MaxStreamsCapsules(d))
         /\ \A x : [k \in DOMAIN W |-> IF W[k].type = "MAX_STREAM_DATA" /\ W[k].id = x
                                       THEN W[k].maximum ELSE 0] = Marks(W, CreditCapsules(x))
         /\ [k \in DOMAIN W |-> IF W[k].type = "STREAM" THEN W[k].size ELSE 0] = Weigh(W, AllData)
         /\ \A x : [k \in DOMAIN W |-> IF W[k].type = "STREAM" /\ W[k].id = x
                                       THEN W[k].size ELSE 0] = Weigh(W, DataCapsules(x))
<1>1. \A k \in DOMAIN W : W[k] \in Capsules
  OBVIOUS
<1> QED BY <1>1 DEF Marks, Weigh, MaxDataCapsules, MaxStreamsCapsules, CreditCapsules, AllData,
                    DataCapsules
=============================================================================
