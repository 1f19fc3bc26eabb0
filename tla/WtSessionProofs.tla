-------------------------- MODULE WtSessionProofs ---------------------------
(***************************************************************************)
(* Proofs about one WebTransport session, for every value of the           *)
(* constants: the types its operations keep, and what each of them does to *)
(* the two directions of a stream as the peer can tell.                    *)
(***************************************************************************)
EXTENDS WtEnds, SumProofs, FiniteSetTheorems

-----------------------------------------------------------------------------
(* The maps of a session, keyed by stream identifiers.                     *)
LEMMA MapFacts ==
  ASSUME NEW V, NEW f \in Maps(V)
  PROVE  /\ DOMAIN f \subseteq Ids
         /\ f = [x \in DOMAIN f |-> f[x]]
         /\ \A x \in DOMAIN f : f[x] \in V
BY DEF Maps

LEMMA MapIntro ==
  ASSUME NEW V, NEW D \in SUBSET Ids, NEW f \in [D -> V]
  PROVE  f \in Maps(V) /\ DOMAIN f = D
BY DEF Maps

LEMMA WithFacts ==
  ASSUME NEW V, NEW f \in Maps(V), NEW k \in Ids, NEW v \in V
  PROVE  /\ With(f, k, v) \in Maps(V)
         /\ DOMAIN With(f, k, v) = DOMAIN f \cup {k}
         /\ With(f, k, v)[k] = v
         /\ \A x \in DOMAIN f : x # k => With(f, k, v)[x] = f[x]
<1>1. With(f, k, v) \in [DOMAIN f \cup {k} -> V]
  BY MapFacts DEF With
<1>2. DOMAIN f \cup {k} \in SUBSET Ids
  BY MapFacts
<1> QED BY <1>1, <1>2, MapIntro DEF With

LEMMA WithoutFacts ==
  ASSUME NEW V, NEW f \in Maps(V), NEW k
  PROVE  /\ Without(f, k) \in Maps(V)
         /\ DOMAIN Without(f, k) = DOMAIN f \ {k}
         /\ \A x \in DOMAIN f : x # k => Without(f, k)[x] = f[x]
<1>1. Without(f, k) \in [DOMAIN f \ {k} -> V]
  BY MapFacts DEF Without
<1>2. DOMAIN f \ {k} \in SUBSET Ids
  BY MapFacts
<1> QED BY <1>1, <1>2, MapIntro DEF Without

LEMMA ExceptFacts ==
  ASSUME NEW V, NEW f \in Maps(V), NEW k \in DOMAIN f, NEW v \in V
  PROVE  /\ [f EXCEPT ![k] = v] \in Maps(V)
         /\ DOMAIN [f EXCEPT ![k] = v] = DOMAIN f
         /\ [f EXCEPT ![k] = v][k] = v
         /\ \A x \in DOMAIN f : x # k => [f EXCEPT ![k] = v][x] = f[x]
<1>1. [f EXCEPT ![k] = v] \in [DOMAIN f -> V]
  BY MapFacts
<1>2. DOMAIN f \in SUBSET Ids
  BY MapFacts
<1> QED BY <1>1, <1>2, MapIntro

LEMMA EmptyMap ==
  ASSUME NEW V
  PROVE  \A f : DOMAIN f = {} /\ f = [x \in {} |-> f[x]] => f \in Maps(V)
<1> SUFFICES ASSUME NEW f, DOMAIN f = {}, f = [x \in {} |-> f[x]] PROVE f \in Maps(V)
  OBVIOUS
<1>1. f \in [{} -> V] /\ {} \in SUBSET Ids
  OBVIOUS
<1> QED BY <1>1, MapIntro

(* An insertion drops an entry only where the map is full.                 *)
LEMMA MapInsertFacts ==
  ASSUME NEW V, NEW m \in Maps(V), NEW k \in Ids, NEW v \in V
  PROVE  MapInsert(m, k, v) \in Maps(V)
BY WithFacts, WithoutFacts DEF MapInsert

LEMMA MapInsertKeeps ==
  ASSUME Cardinality(Ids) <= RecordMax, NEW V, NEW m \in Maps(V), NEW k \in Ids, NEW v \in V
  PROVE  MapInsert(m, k, v) = With(m, k, v)
<1> DEFINE n == With(m, k, v)
<1>1. DOMAIN n \subseteq Ids
  BY WithFacts, MapFacts
<1>2. Cardinality(DOMAIN n) <= Cardinality(Ids) /\ Cardinality(DOMAIN n) \in Nat
      /\ Cardinality(Ids) \in Nat
  BY <1>1, FS_Subset, FS_CardinalityType, IdsAssumption
<1> QED BY <1>2, RecordAssumption DEF MapInsert

-----------------------------------------------------------------------------
(* The fields of capsules and of events.                                   *)
LEMMA CapsuleFields ==
  ASSUME NEW c \in Capsules
  PROVE  /\ c.type = "STREAM" => c.id \in Ids /\ c.from \in Nat /\ c.size \in Nat /\ c.fin \in BOOLEAN
         /\ c.type = "RESET_STREAM" => c.id \in Ids /\ c.reliable_size \in Nat
         /\ c.type = "STOP_SENDING" => c.id \in Ids
         /\ c.type = "MAX_DATA" => c.maximum \in Nat
         /\ c.type = "MAX_STREAM_DATA" => c.id \in Ids /\ c.maximum \in 0 .. MaxValue
         /\ c.type = "MAX_STREAMS" => c.bidirectional \in BOOLEAN /\ c.maximum \in Nat
         /\ c \in NoticeCapsules => c.type \notin {"STREAM", "RESET_STREAM", "STOP_SENDING", "MAX_DATA",
                                           "MAX_STREAM_DATA", "MAX_STREAMS", "DATAGRAM",
                                           "CLOSE_SESSION", "DRAIN_SESSION"}
BY DEF Capsules, NoticeCapsules

LEMMA EventFields ==
  ASSUME NEW e \in Events
  PROVE  /\ e.type = "StreamData" => e.id \in Ids /\ e.from \in Nat /\ e.size \in Nat /\ e.fin \in BOOLEAN
         /\ e.type = "StreamReset" => e.id \in Ids
         /\ e.type = "StreamOpened" => e.id \in Ids
         /\ "id" \in DOMAIN e => e.id \in Ids
BY DEF Events

(* The limits of streams and what the methods of a stream leave.           *)
LEMMA NewStreamType ==
  ASSUME NEW a \in 0 .. MaxValue, NEW b \in 0 .. MaxValue
  PROVE  NewWtStream(a, b) \in WtStreams
BY MaxValueAssumption DEF NewWtStream, WtStreams, SendStates, RecvStates

LEMMA StreamMethods ==
  ASSUME NEW st \in WtStreams
  PROVE  /\ \A size \in Nat, fin \in BOOLEAN :
              /\ CanSendDataOf(st, size) => AfterSendData(st, size, fin) \in WtStreams
              /\ CanRecvDataOf(st, size) => AfterRecvData(st, size, fin) \in WtStreams
         /\ AfterSendReset(st) \in WtStreams
         /\ AfterRecvReset(st) \in WtStreams
         /\ MarkDataRead(st) \in WtStreams
         /\ \A m \in 0 .. MaxValue :
              AfterUpdateRecvMax(st, m) \in WtStreams /\ [st EXCEPT !.send_max = m] \in WtStreams
         /\ [st EXCEPT !.stop_sending_sent = TRUE] \in WtStreams
         /\ [st EXCEPT !.stop_sending_received = TRUE] \in WtStreams
<1> USE MaxValueAssumption
<1>1. ASSUME NEW size \in Nat, NEW fin \in BOOLEAN, CanSendDataOf(st, size)
      PROVE  AfterSendData(st, size, fin) \in WtStreams
  <2>1. st.send_offset + size \in 0 .. MaxValue
    BY <1>1 DEF CanSendDataOf, WtStreams
  <2>2. (IF fin THEN "DataRecvd" ELSE "Send") \in SendStates
    BY DEF SendStates
  <2> QED BY <2>1, <2>2 DEF AfterSendData, WtStreams
<1>2. ASSUME NEW size \in Nat, NEW fin \in BOOLEAN, CanRecvDataOf(st, size)
      PROVE  AfterRecvData(st, size, fin) \in WtStreams
  <2>1. st.recv_offset + size \in 0 .. MaxValue
    BY <1>2 DEF CanRecvDataOf, WtStreams
  <2>2. (IF fin THEN "DataRecvd" ELSE st.recv_state) \in RecvStates
    BY DEF WtStreams, RecvStates
  <2>3. (st.has_received_data \/ size > 0) \in BOOLEAN
    OBVIOUS
  <2> QED BY <2>1, <2>2, <2>3 DEF AfterRecvData, WtStreams
<1>3. /\ AfterSendReset(st) \in WtStreams /\ AfterRecvReset(st) \in WtStreams
      /\ MarkDataRead(st) \in WtStreams
  BY DEF AfterSendReset, AfterRecvReset, MarkDataRead, WtStreams, SendStates, RecvStates
<1>4. \A m \in 0 .. MaxValue :
        AfterUpdateRecvMax(st, m) \in WtStreams /\ [st EXCEPT !.send_max = m] \in WtStreams
  BY DEF AfterUpdateRecvMax, WtStreams
<1>5. /\ [st EXCEPT !.stop_sending_sent = TRUE] \in WtStreams
      /\ [st EXCEPT !.stop_sending_received = TRUE] \in WtStreams
  BY DEF WtStreams
<1> QED BY <1>1, <1>2, <1>3, <1>4, <1>5, Zenon

LEMMA RemoveIfClosedType ==
  ASSUME NEW s \in Sessions, NEW id \in Ids
  PROVE  RemoveIfClosed(s, id) \in Sessions
<1>1. CASE Known(s, id) /\ IsClosed(s.role, id, s.streams[id])
  <2>1. s.streams \in Maps(WtStreams) /\ s.closed_stream_send_max \in Maps(0 .. MaxValue)
    BY DEF Sessions
  <2>2. s.streams[id].send_max \in 0 .. MaxValue
    <3>1. s.streams[id] \in WtStreams
      BY <1>1, <2>1, MapFacts DEF Known
    <3> QED BY <3>1 DEF WtStreams
  <2>3. /\ Without(s.streams, id) \in Maps(WtStreams)
        /\ MapInsert(s.closed_stream_send_max, id, s.streams[id].send_max) \in Maps(0 .. MaxValue)
    BY <2>1, <2>2, WithoutFacts, MapInsertFacts
  <2> QED BY <1>1, <2>3 DEF RemoveIfClosed, Sessions
<1>2. CASE ~(Known(s, id) /\ IsClosed(s.role, id, s.streams[id]))
  BY <1>2 DEF RemoveIfClosed
<1> QED BY <1>1, <1>2

-----------------------------------------------------------------------------
(* The streams create_peer_streams_up_to creates.                          *)

(* f is the list of MissingUpTo after 0, 1, ..., n turns of the loop, for  *)
(* identifiers of type t.                                                  *)
Walks(f, s, t, n) ==
  /\ f \in [0 .. n -> Seq(Nat)]
  /\ f[0] = << >>
  /\ \A m \in 1 .. n :
       f[m] = IF Remembered(s, t + 4 * (m - 1)) THEN f[m - 1]
              ELSE Append(f[m - 1], t + 4 * (m - 1))

LEMMA WalkExists ==
  ASSUME NEW s, NEW t \in Nat, NEW n \in Nat
  PROVE  \E f : Walks(f, s, t, n)
<1> DEFINE S == {k \in Nat : \E f : Walks(f, s, t, k)}
<1>1. 0 \in S
  <2>1. Walks([m \in 0 .. 0 |-> << >>], s, t, 0)
    BY DEF Walks
  <2> QED BY <2>1
<1>2. ASSUME NEW k \in Nat, k \in S PROVE k + 1 \in S
  <2>1. PICK f : Walks(f, s, t, k)
    BY <1>2
  <2> DEFINE i == t + 4 * k
             x == IF Remembered(s, i) THEN f[k] ELSE Append(f[k], i)
             g == [m \in 0 .. k + 1 |-> IF m = k + 1 THEN x ELSE f[m]]
  <2>2. f[k] \in Seq(Nat) /\ i \in Nat
    BY <2>1 DEF Walks
  <2>3. x \in Seq(Nat)
    BY <2>2
  <2> HIDE DEF x
  <2>4. g \in [0 .. k + 1 -> Seq(Nat)] /\ g[0] = << >>
    BY <2>1, <2>3 DEF Walks
  <2>5. ASSUME NEW m \in 1 .. k + 1
        PROVE  g[m] = IF Remembered(s, t + 4 * (m - 1)) THEN g[m - 1]
                      ELSE Append(g[m - 1], t + 4 * (m - 1))
    <3>1. CASE m = k + 1
      <4>1. m - 1 = k /\ k \in 0 .. k + 1 /\ k # k + 1 /\ t + 4 * (m - 1) = i
        BY <3>1
      <4>2. g[m] = x /\ g[m - 1] = f[k]
        BY <3>1, <4>1
      <4> QED BY <4>1, <4>2 DEF x
    <3>2. CASE m # k + 1
      <4>1. m \in 1 .. k /\ m \in 0 .. k + 1 /\ m - 1 \in 0 .. k + 1 /\ m - 1 # k + 1
        BY <3>2
      <4>2. g[m] = f[m] /\ g[m - 1] = f[m - 1]
        BY <3>2, <4>1
      <4> QED BY <2>1, <4>1, <4>2 DEF Walks
    <3> QED BY <3>1, <3>2
  <2>6. Walks(g, s, t, k + 1)
    BY <2>4, <2>5 DEF Walks
  <2> QED BY <2>6
<1> HIDE DEF S
<1>3. Nat \subseteq S
  BY <1>1, <1>2, SetInduction
<1> QED BY <1>3 DEF S

(* m lists what is missing among the first n identifiers of type t.        *)
Lists(m, s, t, n) ==
  /\ m \in Seq(Nat)
  /\ \A k \in 1 .. Len(m) :
       ~Remembered(s, m[k]) /\ \E j \in 1 .. n : m[k] = t + 4 * (j - 1)
  /\ \A j \in 1 .. n :
       ~Remembered(s, t + 4 * (j - 1)) => \E k \in 1 .. Len(m) : m[k] = t + 4 * (j - 1)
  /\ \A k \in 1 .. Len(m) : \A j \in 1 .. k - 1 : m[j] < m[k]

LEMMA WalkLists ==
  ASSUME NEW s, NEW t \in Nat, NEW n \in Nat, NEW f, Walks(f, s, t, n)
  PROVE  Lists(f[n], s, t, n)
<1> DEFINE S == {k \in Nat : k <= n => Lists(f[k], s, t, k)}
<1>1. 0 \in S
  BY DEF Lists, Walks
<1>2. ASSUME NEW k \in Nat, k \in S PROVE k + 1 \in S
  <2>1. SUFFICES ASSUME k + 1 <= n PROVE Lists(f[k + 1], s, t, k + 1)
    OBVIOUS
  <2> DEFINE i == t + 4 * k
             m == f[k]
  <2>2. Lists(m, s, t, k)
    BY <1>2, <2>1
  <2>3. /\ i \in Nat /\ m \in Seq(Nat) /\ Len(m) \in Nat
        /\ \A x \in 1 .. Len(m) : m[x] \in Nat /\ m[x] < i
    BY <2>2 DEF Lists
  <2>4. f[k + 1] = IF Remembered(s, i) THEN m ELSE Append(m, i)
    <3>1. k + 1 \in 1 .. n /\ k + 1 - 1 = k
      BY <2>1
    <3> QED BY <3>1 DEF Walks
  <2>5. CASE Remembered(s, i)
    <3>1. \A j \in 1 .. k + 1 : j \in 1 .. k \/ (j = k + 1 /\ t + 4 * (j - 1) = i)
      OBVIOUS
    <3>2. \A j \in 1 .. k : j \in 1 .. k + 1
      OBVIOUS
    <3> HIDE DEF i, m
    <3> QED BY <2>2, <2>4, <2>5, <3>1, <3>2 DEF Lists
  <2>6. CASE ~Remembered(s, i)
    <3> DEFINE l == Append(m, i)
    <3>1. /\ l \in Seq(Nat) /\ Len(l) = Len(m) + 1 /\ l[Len(m) + 1] = i
          /\ \A x \in 1 .. Len(m) : l[x] = m[x]
      BY <2>3
    <3>2. i = t + 4 * (k + 1 - 1) /\ k + 1 \in 1 .. k + 1
      OBVIOUS
    <3>a. Len(m) \in Nat /\ Len(l) = Len(m) + 1 /\ Len(m) + 1 \in 1 .. Len(l)
      BY <2>3, <3>1
    <3> HIDE DEF i, m, l
    <3>3. ASSUME NEW x \in 1 .. Len(l)
          PROVE  ~Remembered(s, l[x]) /\ \E j \in 1 .. k + 1 : l[x] = t + 4 * (j - 1)
      <4>1. CASE x = Len(m) + 1
        BY <2>6, <3>1, <3>2, <4>1
      <4>2. CASE x # Len(m) + 1
        <5>1. x \in 1 .. Len(m)
          BY <2>3, <3>1, <4>2
        <5>2. PICK j \in 1 .. k : m[x] = t + 4 * (j - 1)
          BY <2>2, <5>1 DEF Lists
        <5>3. j \in 1 .. k + 1
          OBVIOUS
        <5> QED BY <2>2, <3>1, <5>1, <5>2, <5>3 DEF Lists
      <4> QED BY <4>1, <4>2
    <3>4. ASSUME NEW j \in 1 .. k + 1, ~Remembered(s, t + 4 * (j - 1))
          PROVE  \E x \in 1 .. Len(l) : l[x] = t + 4 * (j - 1)
      <4>1. CASE j = k + 1
        <5>1. l[Len(m) + 1] = t + 4 * (j - 1)
          BY <3>1, <3>2, <4>1
        <5> QED BY <3>a, <5>1
      <4>2. CASE j # k + 1
        <5>1. j \in 1 .. k
          BY <4>2
        <5>2. PICK x \in 1 .. Len(m) : m[x] = t + 4 * (j - 1)
          BY <2>2, <3>4, <5>1 DEF Lists
        <5>3. x \in 1 .. Len(l)
          BY <2>3, <3>1
        <5> QED BY <3>1, <5>2, <5>3
      <4> QED BY <4>1, <4>2
    <3>5. ASSUME NEW x \in 1 .. Len(l), NEW j \in 1 .. x - 1 PROVE l[j] < l[x]
      <4>1. CASE x = Len(m) + 1
        <5>1. j \in 1 .. Len(m)
          BY <2>3, <4>1
        <5> QED BY <2>3, <3>1, <4>1, <5>1
      <4>2. CASE x # Len(m) + 1
        <5>1. x \in 1 .. Len(m) /\ j \in 1 .. Len(m)
          BY <3>a, <4>2
        <5> QED BY <2>2, <3>1, <5>1 DEF Lists
      <4> QED BY <4>1, <4>2
    <3>6. f[k + 1] = l
      BY <2>4, <2>6 DEF l
    <3> QED BY <3>1, <3>3, <3>4, <3>5, <3>6 DEF Lists
  <2> QED BY <2>5, <2>6
<1> HIDE DEF S
<1>3. Nat \subseteq S
  BY <1>1, <1>2, SetInduction
<1> QED BY <1>3 DEF S

LEMMA MissingLists ==
  ASSUME NEW s, NEW id \in Nat
  PROVE  Lists(MissingUpTo(s, id), s, id % 4, (id \div 4) + 1)
<1> DEFINE N == (id \div 4) + 1
           t == id % 4
           Is(f) == f = [n \in 0 .. N |->
                           LET i == t + 4 * (n - 1)
                           IN  IF n = 0 THEN << >>
                               ELSE IF Remembered(s, i) THEN f[n - 1]
                               ELSE Append(f[n - 1], i)]
<1>0. N \in Nat /\ t \in Nat
  OBVIOUS
<1>1. MissingUpTo(s, id) = (CHOOSE f : Is(f))[N]
  BY DEF MissingUpTo
<1> HIDE DEF N, t
<1>2. PICK f : Walks(f, s, t, N)
  BY <1>0, WalkExists
<1>3. Is(f)
  <2> DEFINE F(n) == IF n = 0 THEN << >>
                     ELSE IF Remembered(s, t + 4 * (n - 1)) THEN f[n - 1]
                     ELSE Append(f[n - 1], t + 4 * (n - 1))
  <2>1. f = [n \in 0 .. N |-> f[n]]
    BY <1>2 DEF Walks
  <2>2. ASSUME NEW n \in 0 .. N PROVE f[n] = F(n)
    <3>1. n = 0 \/ n \in 1 .. N
      BY <1>0
    <3> QED BY <1>2, <3>1 DEF Walks
  <2> HIDE DEF F
  <2>3. f = [n \in 0 .. N |-> F(n)]
    BY <2>1, <2>2
  <2> QED BY <2>3 DEF F
<1> DEFINE h == CHOOSE g : Is(g)
<1>4. Is(h)
  BY <1>3, Zenon
<1> HIDE DEF h
<1> DEFINE F(n) == IF n = 0 THEN << >>
                   ELSE IF Remembered(s, t + 4 * (n - 1)) THEN h[n - 1]
                   ELSE Append(h[n - 1], t + 4 * (n - 1))
<1>a. h = [n \in 0 .. N |-> F(n)]
  BY <1>4
<1> HIDE DEF F
<1>b. DOMAIN h = 0 .. N /\ h = [n \in 0 .. N |-> h[n]] /\ \A n \in 0 .. N : h[n] = F(n)
  BY <1>a
<1>c. \A m \in 1 .. N : m \in 0 .. N /\ m # 0
  BY <1>0
<1>5. /\ DOMAIN h = 0 .. N
      /\ h[0] = << >>
      /\ \A m \in 1 .. N :
           h[m] = IF Remembered(s, t + 4 * (m - 1)) THEN h[m - 1]
                  ELSE Append(h[m - 1], t + 4 * (m - 1))
      /\ h = [n \in 0 .. N |-> h[n]]
  BY <1>0, <1>b, <1>c DEF F
<1> DEFINE S == {k \in Nat : k <= N => h[k] \in Seq(Nat)}
<1>6. 0 \in S
  <2>1. h[0] \in Seq(Nat)
    BY <1>5
  <2> QED BY <2>1
<1>7. ASSUME NEW k \in Nat, k \in S PROVE k + 1 \in S
  <2>1. SUFFICES ASSUME k + 1 <= N PROVE h[k + 1] \in Seq(Nat)
    OBVIOUS
  <2>2. k + 1 \in 1 .. N /\ k + 1 - 1 = k /\ h[k] \in Seq(Nat) /\ t + 4 * k \in Nat
    BY <1>0, <1>7, <2>1
  <2>3. h[k + 1] = IF Remembered(s, t + 4 * k) THEN h[k] ELSE Append(h[k], t + 4 * k)
    <3>1. k + 1 \in 0 .. N /\ k + 1 # 0
      BY <1>0, <2>2
    <3>2. h[k + 1] = F(k + 1)
      BY <1>b, <3>1
    <3> QED BY <2>2, <3>1, <3>2 DEF F
  <2> QED BY <2>2, <2>3
<1> HIDE DEF S
<1>8. Nat \subseteq S
  BY <1>6, <1>7, SetInduction
<1>9. h \in [0 .. N -> Seq(Nat)]
  BY <1>0, <1>5, <1>8 DEF S
<1>10. Walks(h, s, t, N)
  BY <1>5, <1>9 DEF Walks
<1>11. Lists(h[N], s, t, N)
  BY <1>0, <1>10, WalkLists
<1> QED BY <1>1, <1>11 DEF h, N, t

NewIds(s, id) == {i \in 0 .. id : i % 4 = id % 4 /\ ~Remembered(s, i)}

LEMMA MissingFacts ==
  ASSUME NEW s, NEW id \in Ids
  PROVE  /\ MissingUpTo(s, id) \in Seq(Ids)
         /\ {MissingUpTo(s, id)[k] : k \in DOMAIN MissingUpTo(s, id)} = NewIds(s, id)
         /\ \A k \in DOMAIN MissingUpTo(s, id) : MissingUpTo(s, id)[k] \in NewIds(s, id)
         /\ \A k \in DOMAIN MissingUpTo(s, id) : \A j \in 1 .. k - 1 :
              MissingUpTo(s, id)[j] < MissingUpTo(s, id)[k]
         /\ NewIds(s, id) \subseteq Ids
<1> DEFINE m == MissingUpTo(s, id)
           t == id % 4
           N == (id \div 4) + 1
<1>1. id \in Nat /\ N \in Nat /\ t \in Nat
  BY IdsAssumption
<1>2. Lists(m, s, t, N)
  BY <1>1, MissingLists
<1>3. m \in Seq(Nat) /\ DOMAIN m = 1 .. Len(m)
  BY <1>2 DEF Lists
<1>4. \A j \in 1 .. N : t + 4 * (j - 1) \in 0 .. id /\ (t + 4 * (j - 1)) % 4 = t
  <2> SUFFICES ASSUME NEW j \in 1 .. N
               PROVE  t + 4 * (j - 1) \in 0 .. id /\ (t + 4 * (j - 1)) % 4 = t
    OBVIOUS
  <2> QED BY <1>1
<1>5. \A i \in 0 .. id : i % 4 = t => \E j \in 1 .. N : i = t + 4 * (j - 1)
  <2> SUFFICES ASSUME NEW i \in 0 .. id, i % 4 = t PROVE \E j \in 1 .. N : i = t + 4 * (j - 1)
    OBVIOUS
  <2>1. (i \div 4) + 1 \in 1 .. N /\ i = t + 4 * ((i \div 4) + 1 - 1)
    BY <1>1
  <2> QED BY <2>1
<1>6. NewIds(s, id) \subseteq Ids
  BY IdsAssumption DEF NewIds
<1> HIDE DEF m, N, t
<1>7. \A k \in 1 .. Len(m) : m[k] \in NewIds(s, id)
  <2> SUFFICES ASSUME NEW k \in 1 .. Len(m) PROVE m[k] \in NewIds(s, id)
    OBVIOUS
  <2>1. PICK j \in 1 .. N : m[k] = t + 4 * (j - 1)
    BY <1>2 DEF Lists
  <2>2. ~Remembered(s, m[k])
    BY <1>2 DEF Lists
  <2> QED BY <1>4, <2>1, <2>2 DEF NewIds, t
<1>8. \A i \in NewIds(s, id) : \E k \in 1 .. Len(m) : m[k] = i
  <2> SUFFICES ASSUME NEW i \in NewIds(s, id) PROVE \E k \in 1 .. Len(m) : m[k] = i
    OBVIOUS
  <2>1. i \in 0 .. id /\ i % 4 = t /\ ~Remembered(s, i)
    BY DEF NewIds, t
  <2>2. PICK j \in 1 .. N : i = t + 4 * (j - 1)
    BY <1>5, <2>1
  <2> QED BY <1>2, <2>1, <2>2 DEF Lists
<1>9. m \in Seq(Ids)
  BY <1>3, <1>6, <1>7
<1>10. {m[k] : k \in DOMAIN m} = NewIds(s, id)
  BY <1>3, <1>7, <1>8
<1>11. \A k \in 1 .. Len(m) : \A j \in 1 .. k - 1 : m[j] < m[k]
  BY <1>2 DEF Lists
<1> QED BY <1>3, <1>6, <1>7, <1>9, <1>10, <1>11 DEF m

OpenedEvents(s, id) ==
  [k \in DOMAIN MissingUpTo(s, id) |-> [type |-> "StreamOpened", id |-> MissingUpTo(s, id)[k]]]

FreshStream(s, id) ==
  NewWtStream(InitialSendMax(s, IsBidirectional(id)),
              IF IsBidirectional(id) THEN s.config.bidi_remote ELSE s.config.uni)

LEMMA OpenedEventsType ==
  ASSUME NEW s, NEW id \in Ids
  PROVE  /\ OpenedEvents(s, id) \in Seq(Events)
         /\ DOMAIN OpenedEvents(s, id) = DOMAIN MissingUpTo(s, id)
         /\ \A k \in DOMAIN OpenedEvents(s, id) :
              /\ OpenedEvents(s, id)[k].type = "StreamOpened"
              /\ OpenedEvents(s, id)[k].id = MissingUpTo(s, id)[k]
              /\ OpenedEvents(s, id)[k].id \in NewIds(s, id)
<1> DEFINE m == MissingUpTo(s, id)
<1>1. m \in Seq(Ids) /\ \A k \in DOMAIN m : m[k] \in NewIds(s, id)
  BY MissingFacts
<1>2. DOMAIN m = 1 .. Len(m) /\ Len(m) \in Nat /\ \A k \in DOMAIN m : m[k] \in Ids
  BY <1>1
<1>3. OpenedEvents(s, id) = [k \in DOMAIN m |-> [type |-> "StreamOpened", id |-> m[k]]]
  BY DEF OpenedEvents
<1> HIDE DEF m
<1>4. \A k \in DOMAIN m : [type |-> "StreamOpened", id |-> m[k]] \in Events
  BY <1>2 DEF Events
<1>5. OpenedEvents(s, id) \in [1 .. Len(m) -> Events]
  BY <1>2, <1>3, <1>4
<1>6. OpenedEvents(s, id) \in Seq(Events)
  BY <1>2, <1>5
<1> QED BY <1>1, <1>3, <1>6 DEF m

LEMMA CreateFacts ==
  ASSUME NEW s \in Sessions, NEW id \in Ids
  PROVE  LET t == CreatePeerStreamsUpTo(s, id)
         IN  /\ t \in Sessions
             /\ t = [s EXCEPT !.streams = t.streams, !.events = t.events]
             /\ t.events = s.events \o OpenedEvents(s, id)
             /\ DOMAIN t.streams = DOMAIN s.streams \cup NewIds(s, id)
             /\ \A i \in NewIds(s, id) : t.streams[i] = FreshStream(s, id)
             /\ \A i \in DOMAIN s.streams : t.streams[i] = s.streams[i]
             /\ FreshStream(s, id) \in WtStreams
<1> DEFINE t == CreatePeerStreamsUpTo(s, id)
           new == NewIds(s, id)
           fresh == FreshStream(s, id)
           map == [i \in DOMAIN s.streams \cup new |-> IF i \in new THEN fresh ELSE s.streams[i]]
           evs == s.events \o OpenedEvents(s, id)
<1>1. {MissingUpTo(s, id)[k] : k \in DOMAIN MissingUpTo(s, id)} = new /\ new \subseteq Ids
  BY MissingFacts
<1>2. t = [s EXCEPT !.streams = map, !.events = evs]
  BY <1>1, Zenon DEF CreatePeerStreamsUpTo, OpenedEvents, FreshStream
<1>3. fresh \in WtStreams
  <2>1. s.config \in Configs /\ s.peer_config \in Configs
    BY DEF Sessions
  <2>2. /\ InitialSendMax(s, IsBidirectional(id)) \in 0 .. MaxValue
        /\ (IF IsBidirectional(id) THEN s.config.bidi_remote ELSE s.config.uni) \in 0 .. MaxValue
    BY <2>1 DEF InitialSendMax, Configs
  <2> QED BY <2>2, NewStreamType DEF FreshStream
<1>4. evs \in Seq(Events)
  <2>1. s.events \in Seq(Events) /\ OpenedEvents(s, id) \in Seq(Events)
    BY OpenedEventsType DEF Sessions
  <2> QED BY <2>1
<1>5. \A i \in new : i \notin DOMAIN s.streams
  BY DEF NewIds, Remembered, Known
<1>6. map \in Maps(WtStreams)
  <2>1. s.streams \in Maps(WtStreams)
    BY DEF Sessions
  <2>2. DOMAIN s.streams \subseteq Ids /\ \A x \in DOMAIN s.streams : s.streams[x] \in WtStreams
    BY <2>1, MapFacts
  <2>3. map \in [DOMAIN s.streams \cup new -> WtStreams] /\ DOMAIN s.streams \cup new \in SUBSET Ids
    BY <1>1, <1>3, <2>2
  <2> QED BY <2>3, MapIntro
<1> HIDE DEF t, new, fresh, evs
<1>7. /\ DOMAIN map = DOMAIN s.streams \cup new
      /\ \A i \in new : map[i] = fresh
      /\ \A i \in DOMAIN s.streams : map[i] = s.streams[i]
  BY <1>5
<1> HIDE DEF map
<1>8. t \in Sessions /\ t.streams = map /\ t.events = evs
      /\ t = [s EXCEPT !.streams = t.streams, !.events = t.events]
  BY <1>2, <1>4, <1>6 DEF Sessions
<1> QED BY <1>3, <1>7, <1>8 DEF t, new, fresh, evs

-----------------------------------------------------------------------------
(* A session as its peer can tell: views of the two directions of a stream *)
(* that do not change when the stream is created or removed.               *)
Gone(s, x)     == x \in DOMAIN s.closed_stream_send_max

InitialRecvMax(s, x) ==
  IF ~IsBidirectional(x) THEN s.config.uni
  ELSE IF IsPeerInitiated(s.role, x) THEN s.config.bidi_remote ELSE s.config.bidi_local

FirstSendMax(s, x) ==
  IF ~IsBidirectional(x) THEN s.peer_config.uni
  ELSE IF IsPeerInitiated(s.role, x) THEN s.peer_config.bidi_local ELSE s.peer_config.bidi_remote

(* The sending direction: whether it may still be used, how much was sent, *)
(* whether nothing was, and the limit.                                     *)
Sending(s, x)  == ~Remembered(s, x) \/ (Known(s, x) /\ CanSend(s.streams[x]))
Sent(s, x)     == IF Known(s, x) THEN s.streams[x].send_offset ELSE 0
Fresh(s, x)    == Known(s, x) => s.streams[x].send_state = "Ready"
SendMaxOf(s, x) ==
  IF Known(s, x) THEN s.streams[x].send_max
  ELSE IF Gone(s, x) THEN s.closed_stream_send_max[x] ELSE FirstSendMax(s, x)

(* The receiving direction: whether more is expected, how much there was,  *)
(* whether credit may still be given, and the limit.                       *)
Receiving(s, x) == ~Remembered(s, x) \/ (Known(s, x) /\ CanRecv(s.streams[x]))
Received(s, x)  == IF Known(s, x) THEN s.streams[x].recv_offset ELSE 0
Granting(s, x)  == ~Remembered(s, x) \/ (Known(s, x) /\ ~s.streams[x].stop_sending_sent)
RecvMaxOf(s, x) == IF Known(s, x) THEN s.streams[x].recv_max ELSE InitialRecvMax(s, x)

(* What was sent on a stream the session holds is what it was, also when   *)
(* no more may be sent.                                                    *)
SentKept(s, t, x) ==
  Known(t, x) => Sent(t, x) = Sent(s, x) /\ (Known(s, x) \/ Sending(s, x))

SendAlike(s, t, x) ==
  /\ Sending(t, x) <=> Sending(s, x)
  /\ Sending(s, x) => Sent(t, x) = Sent(s, x) /\ (Fresh(t, x) <=> Fresh(s, x))
  /\ SendMaxOf(t, x) = SendMaxOf(s, x)
  /\ SentKept(s, t, x)

RecvAlike(s, t, x) ==
  /\ Receiving(t, x) <=> Receiving(s, x)
  /\ Receiving(s, x) => Received(t, x) = Received(s, x)
  /\ Granting(t, x) => Granting(s, x)
  /\ Gone(t, x) \/ (~Gone(s, x) /\ RecvMaxOf(t, x) = RecvMaxOf(s, x))

Alike(s, t, x) ==
  /\ HasSendPart(s.role, x) => SendAlike(s, t, x)
  /\ HasRecvPart(s.role, x) => RecvAlike(s, t, x)

AllAlike(s, t) == \A x \in Ids : Alike(s, t, x)

LEMMA AlikeRefl == \A s, x : Alike(s, s, x)
BY DEF Alike, SendAlike, SentKept, RecvAlike

LEMMA AlikeTrans ==
  ASSUME NEW s, NEW t, NEW u, NEW x, Alike(s, t, x), Alike(t, u, x), s.role = t.role
  PROVE  Alike(s, u, x)
BY DEF Alike, SendAlike, SentKept, RecvAlike

(* What the session remembers of streams is consistent.                    *)
SessionOK(s) ==
  /\ \A x \in DOMAIN s.streams :
       /\ x \notin DOMAIN s.closed_stream_send_max
       /\ s.streams[x].stop_sending_received => x \in s.stop_sending_received_ids
  /\ \A x \in Ids : ~IsPeerInitiated(s.role, x) =>
       (Remembered(s, x) <=> x < s.next_stream_id[IsBidirectional(x)])
  /\ \A b \in BOOLEAN :
       s.next_stream_id[b] = FirstId(s.role, b) + 4 * s.flow_control.opened_streams[b]

(* Everything but the maps of streams is as it was.                         *)
RestFields(s, t) ==
  /\ t.role = s.role /\ t.config = s.config /\ t.peer_config = s.peer_config
  /\ t.state = s.state /\ t.flow_control = s.flow_control
  /\ t.stop_sending_received_ids = s.stop_sending_received_ids
  /\ t.next_stream_id = s.next_stream_id
  /\ t.events = s.events /\ t.output = s.output

(* No more identifiers than the record of closed streams has room for: a   *)
(* stream once known stays known.                                          *)
Few == Cardinality(Ids) <= RecordMax

LEMMA RemoveFacts ==
  ASSUME Few, NEW s \in Sessions, SessionOK(s), NEW id \in Ids
  PROVE  LET t == RemoveIfClosed(s, id)
         IN  /\ RestFields(s, t)
             /\ \A x : Remembered(t, x) <=> Remembered(s, x)
             /\ \A x : Known(t, x) => Known(s, x) /\ t.streams[x] = s.streams[x]
             /\ AllAlike(s, t)
             /\ SessionOK(t)
<1> DEFINE t == RemoveIfClosed(s, id)
<1>1. CASE ~(Known(s, id) /\ IsClosed(s.role, id, s.streams[id]))
  <2>1. t = s
    BY <1>1 DEF RemoveIfClosed
  <2> QED BY <2>1, AlikeRefl DEF RestFields, AllAlike
<1>2. CASE Known(s, id) /\ IsClosed(s.role, id, s.streams[id])
  <2> DEFINE m == s.closed_stream_send_max
             v == s.streams[id].send_max
             f == Without(s.streams, id)
             g == With(m, id, v)
  <2>1. s.streams \in Maps(WtStreams) /\ m \in Maps(0 .. MaxValue)
    BY DEF Sessions
  <2>2. v \in 0 .. MaxValue
    <3>1. s.streams[id] \in WtStreams
      BY <1>2, <2>1, MapFacts DEF Known
    <3> QED BY <3>1 DEF WtStreams
  <2>3. /\ DOMAIN f = DOMAIN s.streams \ {id}
        /\ \A x \in DOMAIN s.streams : x # id => f[x] = s.streams[x]
    BY <2>1, WithoutFacts
  <2>4. /\ DOMAIN g = DOMAIN m \cup {id} /\ g[id] = v
        /\ \A x \in DOMAIN m : x # id => g[x] = m[x]
    BY DEF With
  <2>5. t = [s EXCEPT !.streams = f, !.closed_stream_send_max = g]
    BY <1>2, <2>1, <2>2, MapInsertKeeps DEF RemoveIfClosed, Few
  <2> HIDE DEF f, g, t
  <2>6. RestFields(s, t) /\ t.streams = f /\ t.closed_stream_send_max = g
    BY <2>5 DEF Sessions, RestFields
  <2>7. \A x : Remembered(t, x) <=> Remembered(s, x)
    BY <1>2, <2>3, <2>4, <2>6 DEF Remembered, Known
  <2>8. \A x : Known(t, x) => Known(s, x) /\ t.streams[x] = s.streams[x]
    BY <2>3, <2>6 DEF Known
  <2>9. ASSUME NEW x \in Ids PROVE Alike(s, t, x)
    <3>1. CASE x # id
      <4>1. /\ Known(t, x) <=> Known(s, x)
            /\ Gone(t, x) <=> Gone(s, x)
            /\ Known(s, x) => t.streams[x] = s.streams[x]
            /\ Gone(s, x) => t.closed_stream_send_max[x] = s.closed_stream_send_max[x]
        BY <2>3, <2>4, <2>6, <3>1 DEF Known, Gone
      <4>2. /\ InitialRecvMax(t, x) = InitialRecvMax(s, x)
            /\ FirstSendMax(t, x) = FirstSendMax(s, x)
        BY <2>6 DEF RestFields, InitialRecvMax, FirstSendMax
      <4> QED BY <4>1, <4>2, <2>7
              DEF Alike, SendAlike, SentKept, RecvAlike, Sending, Sent, Fresh, SendMaxOf, Receiving,
                  Received, Granting, RecvMaxOf
    <3>2. CASE x = id
      <4>1. /\ ~Known(t, id) /\ Gone(t, id) /\ t.closed_stream_send_max[id] = v
            /\ Remembered(t, id) /\ Remembered(s, id) /\ Known(s, id)
        BY <1>2, <2>3, <2>4, <2>6 DEF Known, Gone, Remembered
      <4>2. HasSendPart(s.role, id) => ~CanSend(s.streams[id])
        BY <1>2 DEF IsClosed, SendTerminal, CanSend
      <4>3. HasRecvPart(s.role, id) => ~CanRecv(s.streams[id])
        BY <1>2 DEF IsClosed, RecvTerminal, CanRecv
      <4> QED BY <3>2, <4>1, <4>2, <4>3
              DEF Alike, SendAlike, SentKept, RecvAlike, Sending, SendMaxOf, Receiving, Granting
    <3> QED BY <3>1, <3>2
  <2>10. SessionOK(t)
    <3>1. \A x \in DOMAIN t.streams :
            /\ x \notin DOMAIN t.closed_stream_send_max
            /\ t.streams[x].stop_sending_received => x \in t.stop_sending_received_ids
      BY <2>3, <2>4, <2>6 DEF SessionOK, RestFields
    <3> QED BY <2>6, <2>7, <3>1 DEF SessionOK, RestFields
  <2> QED BY <2>6, <2>7, <2>8, <2>9, <2>10 DEF t, AllAlike
<1> QED BY <1>1, <1>2

(* Direction and initiator are decided by the two low bits.                *)
LEMMA SameType ==
  ASSUME NEW a \in Nat, NEW b \in Nat, a % 4 = b % 4
  PROVE  /\ IsBidirectional(a) <=> IsBidirectional(b)
         /\ \A r : IsPeerInitiated(r, a) <=> IsPeerInitiated(r, b)
         /\ \A r : HasSendPart(r, a) <=> HasSendPart(r, b)
         /\ \A r : HasRecvPart(r, a) <=> HasRecvPart(r, b)
<1>1. a % 2 = b % 2 /\ (a \div 2) % 2 = (b \div 2) % 2
  OBVIOUS
<1>2. (IsBidirectional(a) <=> IsBidirectional(b)) /\ IsClientInitiated(a) = IsClientInitiated(b)
  BY <1>1 DEF IsBidirectional, IsClientInitiated
<1>3. \A r : IsPeerInitiated(r, a) <=> IsPeerInitiated(r, b)
  BY <1>2 DEF IsPeerInitiated
<1> QED BY <1>2, <1>3 DEF HasSendPart, HasRecvPart

(* The fields a step leaves alone when it creates streams of the peer.     *)
CreatedFields(s, t, id) ==
  /\ t.role = s.role /\ t.config = s.config /\ t.peer_config = s.peer_config
  /\ t.state = s.state /\ t.flow_control = s.flow_control
  /\ t.closed_stream_send_max = s.closed_stream_send_max
  /\ t.stop_sending_received_ids = s.stop_sending_received_ids
  /\ t.next_stream_id = s.next_stream_id
  /\ t.output = s.output
  /\ t.events = s.events \o OpenedEvents(s, id)

LEMMA CreateViews ==
  ASSUME NEW s \in Sessions, SessionOK(s), NEW id \in Ids, IsPeerInitiated(s.role, id)
  PROVE  LET t == CreatePeerStreamsUpTo(s, id)
         IN  /\ t \in Sessions
             /\ CreatedFields(s, t, id)
             /\ \A x : Remembered(t, x) <=> Remembered(s, x) \/ x \in NewIds(s, id)
             /\ \A x : Known(t, x) <=> Known(s, x) \/ x \in NewIds(s, id)
             /\ \A x : Known(s, x) => t.streams[x] = s.streams[x]
             /\ \A x \in NewIds(s, id) : t.streams[x] = FreshStream(s, id)
             /\ Remembered(s, id) \/ id \in NewIds(s, id)
             /\ AllAlike(s, t)
             /\ SessionOK(t)
<1> DEFINE t == CreatePeerStreamsUpTo(s, id)
           new == NewIds(s, id)
           fresh == FreshStream(s, id)
<1>1. /\ t \in Sessions
      /\ t = [s EXCEPT !.streams = t.streams, !.events = t.events]
      /\ t.events = s.events \o OpenedEvents(s, id)
      /\ DOMAIN t.streams = DOMAIN s.streams \cup new
      /\ \A i \in new : t.streams[i] = fresh
      /\ \A i \in DOMAIN s.streams : t.streams[i] = s.streams[i]
  BY CreateFacts
<1>2. /\ new \subseteq Ids /\ id \in Nat
      /\ \A x \in new : x \in Nat /\ x % 4 = id % 4 /\ ~Remembered(s, x)
  BY IdsAssumption, MissingFacts DEF NewIds
<1>a. Remembered(s, id) \/ id \in new
  BY <1>2 DEF NewIds
<1> HIDE DEF t, new
<1>3. CreatedFields(s, t, id)
  BY <1>1 DEF Sessions, CreatedFields
<1>4. /\ \A x : Known(t, x) <=> Known(s, x) \/ x \in new
      /\ \A x : Known(s, x) => t.streams[x] = s.streams[x]
  BY <1>1 DEF Known
<1>5. \A x : Remembered(t, x) <=> Remembered(s, x) \/ x \in new
  BY <1>3, <1>4 DEF Remembered, CreatedFields
<1>6. \A x \in new : /\ IsBidirectional(x) <=> IsBidirectional(id)
                     /\ IsPeerInitiated(s.role, x)
  BY <1>2, SameType
<1>7. ASSUME NEW x \in Ids PROVE Alike(s, t, x)
  <2>0. /\ InitialRecvMax(t, x) = InitialRecvMax(s, x)
        /\ FirstSendMax(t, x) = FirstSendMax(s, x)
        /\ Gone(t, x) <=> Gone(s, x)
        /\ t.closed_stream_send_max = s.closed_stream_send_max
    BY <1>3 DEF CreatedFields, InitialRecvMax, FirstSendMax, Gone
  <2>1. CASE x \notin new
    <3>1. /\ Known(t, x) <=> Known(s, x)
          /\ Remembered(t, x) <=> Remembered(s, x)
          /\ Known(s, x) => t.streams[x] = s.streams[x]
      BY <1>4, <1>5, <2>1
    <3> QED BY <2>0, <3>1
            DEF Alike, SendAlike, SentKept, RecvAlike, Sending, Sent, Fresh, SendMaxOf, Receiving,
                Received, Granting, RecvMaxOf
  <2>2. CASE x \in new
    <3>1. /\ Known(t, x) /\ ~Known(s, x) /\ ~Remembered(s, x) /\ ~Gone(s, x) /\ Remembered(t, x)
          /\ t.streams[x] = fresh
      BY <1>1, <1>2, <1>4, <1>5, <2>2 DEF Remembered, Gone
    <3>2. /\ fresh.send_state = "Ready" /\ fresh.recv_state = "Recv"
          /\ fresh.send_offset = 0 /\ fresh.recv_offset = 0
          /\ ~fresh.stop_sending_sent
          /\ fresh.send_max = FirstSendMax(s, x)
          /\ fresh.recv_max = InitialRecvMax(s, x)
      BY <1>6, <2>2 DEF FreshStream, NewWtStream, FirstSendMax, InitialRecvMax, InitialSendMax
    <3> HIDE DEF fresh
    <3> QED BY <2>0, <3>1, <3>2
            DEF Alike, SendAlike, SentKept, RecvAlike, Sending, Sent, Fresh, SendMaxOf, Receiving,
                Received, Granting, RecvMaxOf, CanSend, CanRecv
  <2> QED BY <2>1, <2>2
<1>8. SessionOK(t)
  <2>1. ASSUME NEW x \in DOMAIN t.streams
        PROVE  /\ x \notin DOMAIN t.closed_stream_send_max
               /\ t.streams[x].stop_sending_received => x \in t.stop_sending_received_ids
    <3>1. CASE x \in DOMAIN s.streams
      BY <1>1, <1>3, <3>1 DEF SessionOK, CreatedFields
    <3>2. CASE x \in new
      BY <1>1, <1>2, <1>3, <3>2 DEF CreatedFields, FreshStream, NewWtStream, Remembered
    <3> QED BY <1>1, <2>1, <3>1, <3>2
  <2>2. ASSUME NEW x \in Ids, ~IsPeerInitiated(t.role, x)
        PROVE  Remembered(t, x) <=> x < t.next_stream_id[IsBidirectional(x)]
    <3>1. x \notin new /\ ~IsPeerInitiated(s.role, x)
      BY <1>3, <1>6, <2>2 DEF CreatedFields
    <3> QED BY <1>3, <1>5, <3>1 DEF SessionOK, CreatedFields
  <2>3. \A b \in BOOLEAN :
          t.next_stream_id[b] = FirstId(t.role, b) + 4 * t.flow_control.opened_streams[b]
    BY <1>3 DEF SessionOK, CreatedFields
  <2> QED BY <2>1, <2>2, <2>3 DEF SessionOK
<1> QED BY <1>1, <1>a, <1>3, <1>4, <1>5, <1>7, <1>8 DEF t, new, AllAlike

(* Stream id of session s has become st in session t, which may have been  *)
(* the end of it; other streams look as before.                            *)
Became(s, t, id, st) ==
  /\ \A x : Remembered(t, x) <=> Remembered(s, x)
  /\ \A x \in Ids \ {id} : Alike(s, t, x)
  /\ HasSendPart(s.role, id) =>
       /\ Sending(t, id) <=> CanSend(st)
       /\ CanSend(st) => Sent(t, id) = st.send_offset /\ (Fresh(t, id) <=> st.send_state = "Ready")
       /\ SendMaxOf(t, id) = st.send_max
       /\ Known(t, id) => Sent(t, id) = st.send_offset
  /\ HasRecvPart(s.role, id) =>
       /\ Receiving(t, id) <=> CanRecv(st)
       /\ CanRecv(st) => Received(t, id) = st.recv_offset
       /\ Granting(t, id) => ~st.stop_sending_sent
       /\ Gone(t, id) \/ RecvMaxOf(t, id) = st.recv_max

(* u is s but for the record of stream id.                                 *)
Stores(s, u, id, st) ==
  /\ u \in Sessions
  /\ u.streams = [s.streams EXCEPT ![id] = st]
  /\ u.closed_stream_send_max = s.closed_stream_send_max
  /\ u.role = s.role /\ u.config = s.config /\ u.peer_config = s.peer_config
  /\ u.next_stream_id = s.next_stream_id
  /\ u.flow_control.opened_streams = s.flow_control.opened_streams
  /\ s.stop_sending_received_ids \subseteq u.stop_sending_received_ids
  /\ st.stop_sending_received => id \in u.stop_sending_received_ids

LEMMA StoreViews ==
  ASSUME NEW s \in Sessions, SessionOK(s), NEW id \in Ids, Known(s, id), NEW st \in WtStreams,
         NEW u, Stores(s, u, id, st)
  PROVE  Became(s, u, id, st) /\ SessionOK(u)
<1>1. s.streams \in Maps(WtStreams) /\ id \in DOMAIN s.streams
  BY DEF Sessions, Known
<1>2. /\ DOMAIN u.streams = DOMAIN s.streams /\ u.streams[id] = st
      /\ \A x \in DOMAIN s.streams : x # id => u.streams[x] = s.streams[x]
  BY <1>1, ExceptFacts DEF Stores
<1>3. /\ \A x : Known(u, x) <=> Known(s, x)
      /\ \A x : Gone(u, x) <=> Gone(s, x)
      /\ \A x : Remembered(u, x) <=> Remembered(s, x)
  BY <1>2 DEF Known, Gone, Remembered, Stores
<1>4. ASSUME NEW x \in Ids \ {id} PROVE Alike(s, u, x)
  <2>1. /\ InitialRecvMax(u, x) = InitialRecvMax(s, x)
        /\ FirstSendMax(u, x) = FirstSendMax(s, x)
        /\ u.closed_stream_send_max = s.closed_stream_send_max
    BY DEF Stores, InitialRecvMax, FirstSendMax
  <2>2. Known(s, x) => u.streams[x] = s.streams[x]
    BY <1>2 DEF Known
  <2> QED BY <1>3, <2>1, <2>2
          DEF Alike, SendAlike, SentKept, RecvAlike, Sending, Sent, Fresh, SendMaxOf, Receiving,
              Received, Granting, RecvMaxOf
<1>5. SessionOK(u)
  <2>1. \A x \in DOMAIN u.streams :
          /\ x \notin DOMAIN u.closed_stream_send_max
          /\ u.streams[x].stop_sending_received => x \in u.stop_sending_received_ids
    BY <1>2 DEF SessionOK, Stores
  <2> QED BY <1>3, <2>1 DEF SessionOK, Stores
<1>6. Known(u, id) /\ u.streams[id] = st /\ Remembered(u, id)
  BY <1>2, <1>3 DEF Remembered
<1> QED BY <1>3, <1>4, <1>5, <1>6
        DEF Became, Sending, Sent, Fresh, SendMaxOf, Receiving, Received, Granting, RecvMaxOf

LEMMA RemoveViews ==
  ASSUME Few, NEW s \in Sessions, SessionOK(s), NEW id \in Ids, Known(s, id), NEW st \in WtStreams,
         NEW u, Stores(s, u, id, st)
  PROVE  LET t == RemoveIfClosed(u, id)
         IN  /\ t \in Sessions /\ RestFields(u, t)
             /\ Became(s, t, id, st) /\ SessionOK(t)
<1> DEFINE t == RemoveIfClosed(u, id)
<1>1. Became(s, u, id, st) /\ SessionOK(u) /\ u \in Sessions /\ u.role = s.role
  BY StoreViews DEF Stores
<1>2. /\ RestFields(u, t)
      /\ \A x : Remembered(t, x) <=> Remembered(u, x)
      /\ AllAlike(u, t)
      /\ SessionOK(t)
  BY <1>1, RemoveFacts
<1>3. t \in Sessions
  BY <1>1, RemoveIfClosedType
<1> HIDE DEF t
<1>4. \A x \in Ids \ {id} : Alike(s, t, x)
  <2> SUFFICES ASSUME NEW x \in Ids \ {id} PROVE Alike(s, t, x)
    OBVIOUS
  <2>1. Alike(s, u, x) /\ Alike(u, t, x)
    BY <1>1, <1>2 DEF Became, AllAlike
  <2> QED BY <1>1, <2>1, AlikeTrans
<1>5. Alike(u, t, id) /\ \A x : Remembered(t, x) <=> Remembered(s, x)
  BY <1>1, <1>2 DEF AllAlike, Became
<1>6. HasSendPart(s.role, id) =>
       /\ Sending(t, id) <=> CanSend(st)
       /\ CanSend(st) => Sent(t, id) = st.send_offset /\ (Fresh(t, id) <=> st.send_state = "Ready")
       /\ SendMaxOf(t, id) = st.send_max
  BY <1>1, <1>5 DEF Became, Alike, SendAlike
<1>6a. HasSendPart(s.role, id) => (Known(t, id) => Sent(t, id) = st.send_offset)
  <2>1. SUFFICES ASSUME HasSendPart(s.role, id), Known(t, id) PROVE Sent(t, id) = st.send_offset
    OBVIOUS
  <2>2. Sent(t, id) = Sent(u, id) /\ (Known(u, id) \/ Sending(u, id))
    BY <1>1, <1>5, <2>1 DEF Alike, SendAlike, SentKept
  <2> QED BY <1>1, <2>1, <2>2 DEF Became
<1>7. HasRecvPart(s.role, id) =>
       /\ Receiving(t, id) <=> CanRecv(st)
       /\ CanRecv(st) => Received(t, id) = st.recv_offset
       /\ Granting(t, id) => ~st.stop_sending_sent
       /\ Gone(t, id) \/ RecvMaxOf(t, id) = st.recv_max
  BY <1>1, <1>5 DEF Became, Alike, RecvAlike
<1>8. Became(s, t, id, st)
  BY <1>4, <1>5, <1>6, <1>6a, <1>7 DEF Became
<1> QED BY <1>2, <1>3, <1>8 DEF t

-----------------------------------------------------------------------------
(* The operations keep the types of a session.                             *)
LEMMA KnownStream ==
  ASSUME NEW s \in Sessions, NEW id, Known(s, id)
  PROVE  id \in Ids /\ s.streams[id] \in WtStreams
<1>1. s.streams \in Maps(WtStreams) /\ id \in DOMAIN s.streams
  BY DEF Sessions, Known
<1> QED BY <1>1, MapFacts

LEMMA StoreType ==
  ASSUME NEW s \in Sessions, NEW id, Known(s, id), NEW st \in WtStreams
  PROVE  [s EXCEPT !.streams[id] = st] \in Sessions
<1>1. s.streams \in Maps(WtStreams) /\ id \in DOMAIN s.streams
  BY DEF Sessions, Known
<1>2. [s.streams EXCEPT ![id] = st] \in Maps(WtStreams)
  BY <1>1, ExceptFacts
<1> QED BY <1>2 DEF Sessions

LEMMA EmitType ==
  ASSUME NEW s \in Sessions, NEW c \in Capsules
  PROVE  /\ Emit(s, c) \in Sessions
         /\ Emit(s, c).output = Append(s.output, c)
         /\ Emit(s, c) = [s EXCEPT !.output = Append(s.output, c)]
<1>1. s.output \in Seq(Capsules)
  BY DEF Sessions
<1>2. Append(s.output, c) \in Seq(Capsules)
  BY <1>1
<1> QED BY <1>2 DEF Emit, Sessions

LEMMA NotifyType ==
  ASSUME NEW s \in Sessions, NEW e \in Events
  PROVE  /\ Notify(s, e) \in Sessions
         /\ Notify(s, e).events = Append(s.events, e)
         /\ Notify(s, e) = [s EXCEPT !.events = Append(s.events, e)]
<1>1. s.events \in Seq(Events)
  BY DEF Sessions
<1>2. Append(s.events, e) \in Seq(Events)
  BY <1>1
<1> QED BY <1>2 DEF Notify, Sessions

LEMMA OpenStreamType ==
  ASSUME NEW s \in Sessions, NEW b \in BOOLEAN, CanOpen(s, b), s.next_stream_id[b] \in Ids
  PROVE  OpenStream(s, b) \in Sessions
<1> DEFINE id == s.next_stream_id[b]
           send_max == IF b THEN s.peer_config.bidi_remote ELSE s.peer_config.uni
           recv_max == IF b THEN s.config.bidi_local ELSE s.config.uni
           st == NewWtStream(send_max, recv_max)
           fc == [s.flow_control EXCEPT !.opened_streams[b] = @ + 1]
<1>1. s.config \in Configs /\ s.peer_config \in Configs /\ s.streams \in Maps(WtStreams)
      /\ s.flow_control \in WtFlowControls /\ s.next_stream_id \in [BOOLEAN -> Nat]
  BY DEF Sessions
<1>2. st \in WtStreams
  <2>1. send_max \in 0 .. MaxValue /\ recv_max \in 0 .. MaxValue
    BY <1>1 DEF Configs
  <2> QED BY <2>1, NewStreamType
<1>3. fc \in WtFlowControls
  <2>1. s.flow_control.opened_streams[b] + 1 \in 0 .. MaxStreamsLimit
    BY <1>1, MaxStreamsAssumption DEF CanOpen, CanOpenStream, WtFlowControls
  <2> QED BY <1>1, <2>1 DEF WtFlowControls
<1>4. [s.next_stream_id EXCEPT ![b] = NextId(id)] \in [BOOLEAN -> Nat]
  BY <1>1 DEF NextId
<1>5. With(s.streams, id, st) \in Maps(WtStreams)
  BY <1>1, <1>2, WithFacts
<1> QED BY <1>3, <1>4, <1>5 DEF OpenStream, Sessions

StreamCapsule(s, id, size, fin) ==
  [type |-> "STREAM", id |-> id, from |-> s.streams[id].send_offset, size |-> size, fin |-> fin]

(* The session send_stream_data leaves before a closed stream is removed.  *)
DataSent(s, id, size, fin) ==
  Emit([s EXCEPT !.streams[id] = AfterSendData(s.streams[id], size, fin),
                 !.flow_control.send_offset = @ + size],
       StreamCapsule(s, id, size, fin))

LEMMA SendStreamDataType ==
  ASSUME NEW s \in Sessions, NEW id, NEW size \in Nat, NEW fin \in BOOLEAN,
         CanSendStreamData(s, id, size)
  PROVE  /\ DataSent(s, id, size, fin) \in Sessions
         /\ SendStreamData(s, id, size, fin) \in Sessions
         /\ StreamCapsule(s, id, size, fin) \in Capsules
         /\ SendStreamData(s, id, size, fin) =
              IF fin THEN RemoveIfClosed(DataSent(s, id, size, fin), id)
              ELSE DataSent(s, id, size, fin)
<1> DEFINE st == AfterSendData(s.streams[id], size, fin)
           fc == [s.flow_control EXCEPT !.send_offset = @ + size]
           c  == StreamCapsule(s, id, size, fin)
           u  == [s EXCEPT !.streams[id] = st, !.flow_control.send_offset = @ + size]
<1>1. id \in Ids /\ s.streams[id] \in WtStreams /\ Known(s, id)
  BY KnownStream DEF CanSendStreamData
<1>2. st \in WtStreams
  BY <1>1, StreamMethods DEF CanSendStreamData
<1>3. fc \in WtFlowControls
  <2>1. s.flow_control \in WtFlowControls
    BY DEF Sessions
  <2>2. s.flow_control.send_offset + size \in 0 .. MaxValue
    BY <2>1, MaxValueAssumption DEF CanSendStreamData, CanConsumeSend, WtFlowControls
  <2> QED BY <2>1, <2>2 DEF WtFlowControls
<1>4. c \in Capsules
  <2>1. s.streams[id].send_offset \in Nat
    BY <1>1, MaxValueAssumption DEF WtStreams
  <2> QED BY <1>1, <2>1 DEF StreamCapsule, Capsules
<1> HIDE DEF st, c
<1>5. [s EXCEPT !.streams[id] = st] \in Sessions
  BY <1>1, <1>2, StoreType
<1>6. u \in Sessions
  BY <1>3, <1>5 DEF Sessions
<1>7. Emit(u, c) \in Sessions
  BY <1>4, <1>6, EmitType
<1>8. DataSent(s, id, size, fin) = Emit(u, c)
  BY DEF DataSent, st, c
<1>9. SendStreamData(s, id, size, fin) =
        IF fin THEN RemoveIfClosed(Emit(u, c), id) ELSE Emit(u, c)
  BY Zenon DEF SendStreamData, st, c, StreamCapsule
<1>10. RemoveIfClosed(Emit(u, c), id) \in Sessions
  BY <1>1, <1>7, RemoveIfClosedType
<1> QED BY <1>4, <1>7, <1>8, <1>9, <1>10 DEF c

ResetCapsule(s, id) ==
  [type |-> "RESET_STREAM", id |-> id, reliable_size |-> s.streams[id].send_offset]

ResetSent(s, id) ==
  Emit([s EXCEPT !.streams[id] = AfterSendReset(s.streams[id])], ResetCapsule(s, id))

LEMMA ResetStreamType ==
  ASSUME NEW s \in Sessions, NEW id, CanResetStream(s, id)
  PROVE  /\ ResetSent(s, id) \in Sessions
         /\ ResetStream(s, id) \in Sessions
         /\ ResetCapsule(s, id) \in Capsules
         /\ ResetStream(s, id) = RemoveIfClosed(ResetSent(s, id), id)
<1> DEFINE st == AfterSendReset(s.streams[id])
           c  == ResetCapsule(s, id)
<1>1. id \in Ids /\ s.streams[id] \in WtStreams /\ Known(s, id)
  BY KnownStream DEF CanResetStream
<1>2. st \in WtStreams
  BY <1>1, StreamMethods
<1>3. c \in Capsules
  <2>1. s.streams[id].send_offset \in Nat
    BY <1>1, MaxValueAssumption DEF WtStreams
  <2> QED BY <1>1, <2>1 DEF ResetCapsule, Capsules
<1>4. [s EXCEPT !.streams[id] = st] \in Sessions
  BY <1>1, <1>2, StoreType
<1>5. ResetSent(s, id) \in Sessions
  BY <1>3, <1>4, EmitType DEF ResetSent
<1>6. ResetStream(s, id) = RemoveIfClosed(ResetSent(s, id), id)
  BY Zenon DEF ResetStream, ResetSent, ResetCapsule
<1> QED BY <1>1, <1>3, <1>5, <1>6, RemoveIfClosedType

LEMMA StopSendingType ==
  ASSUME NEW s \in Sessions, NEW id, CanStopSending(s, id)
  PROVE  /\ StopSending(s, id) \in Sessions
         /\ [type |-> "STOP_SENDING", id |-> id] \in Capsules
<1>1. id \in Ids /\ s.streams[id] \in WtStreams /\ Known(s, id)
  BY KnownStream DEF CanStopSending
<1>2. [s.streams[id] EXCEPT !.stop_sending_sent = TRUE] \in WtStreams
  BY <1>1, StreamMethods
<1>3. [s EXCEPT !.streams[id] = [s.streams[id] EXCEPT !.stop_sending_sent = TRUE]] \in Sessions
  BY <1>1, <1>2, StoreType
<1>4. [type |-> "STOP_SENDING", id |-> id] \in Capsules
  BY <1>1 DEF Capsules
<1> QED BY <1>3, <1>4, EmitType DEF StopSending

LEMMA SendMaxStreamDataType ==
  ASSUME NEW s \in Sessions, NEW id, NEW maximum \in Nat, CanSendMaxStreamData(s, id, maximum)
  PROVE  /\ SendMaxStreamData(s, id, maximum) \in Sessions
         /\ [type |-> "MAX_STREAM_DATA", id |-> id, maximum |-> maximum] \in Capsules
<1>1. id \in Ids /\ s.streams[id] \in WtStreams /\ Known(s, id) /\ maximum \in 0 .. MaxValue
  BY KnownStream, MaxValueAssumption DEF CanSendMaxStreamData
<1>2. AfterUpdateRecvMax(s.streams[id], maximum) \in WtStreams
  BY <1>1, StreamMethods
<1>3. [s EXCEPT !.streams[id] = AfterUpdateRecvMax(s.streams[id], maximum)] \in Sessions
  BY <1>1, <1>2, StoreType
<1>4. [type |-> "MAX_STREAM_DATA", id |-> id, maximum |-> maximum] \in Capsules
  BY <1>1 DEF Capsules
<1> QED BY <1>3, <1>4, EmitType DEF SendMaxStreamData

LEMMA CreditType ==
  ASSUME NEW s \in Sessions, NEW maximum \in Nat
  PROVE  /\ CanSendMaxData(s, maximum) =>
              /\ SendMaxData(s, maximum) \in Sessions
              /\ [type |-> "MAX_DATA", maximum |-> maximum] \in Capsules
         /\ \A b \in BOOLEAN : CanSendMaxStreams(s, maximum, b) =>
              /\ SendMaxStreams(s, maximum, b) \in Sessions
              /\ [type |-> "MAX_STREAMS", bidirectional |-> b, maximum |-> maximum] \in Capsules
<1>0. s.flow_control \in WtFlowControls
  BY DEF Sessions
<1>1. ASSUME CanSendMaxData(s, maximum)
      PROVE  /\ SendMaxData(s, maximum) \in Sessions
             /\ [type |-> "MAX_DATA", maximum |-> maximum] \in Capsules
  <2>1. [s.flow_control EXCEPT !.recv_max = maximum] \in WtFlowControls
    BY <1>0, <1>1, MaxValueAssumption DEF CanSendMaxData, CanRaiseRecvMax, WtFlowControls
  <2>2. [s EXCEPT !.flow_control.recv_max = maximum] \in Sessions
    BY <2>1 DEF Sessions
  <2>3. [type |-> "MAX_DATA", maximum |-> maximum] \in Capsules
    BY DEF Capsules
  <2> QED BY <2>2, <2>3, EmitType DEF SendMaxData
<1>2. ASSUME NEW b \in BOOLEAN, CanSendMaxStreams(s, maximum, b)
      PROVE  /\ SendMaxStreams(s, maximum, b) \in Sessions
             /\ [type |-> "MAX_STREAMS", bidirectional |-> b, maximum |-> maximum] \in Capsules
  <2>0. maximum \in 0 .. MaxStreamsLimit
    BY <1>2, MaxStreamsAssumption
       DEF CanSendMaxStreams, CanRaiseMaxStreamsLocal, MaxStreamsIncrease
  <2>1. [s.flow_control EXCEPT !.max_streams_local[b] = maximum] \in WtFlowControls
    BY <1>0, <2>0 DEF WtFlowControls
  <2>2. [s EXCEPT !.flow_control.max_streams_local[b] = maximum] \in Sessions
    BY <2>1 DEF Sessions
  <2>3. [type |-> "MAX_STREAMS", bidirectional |-> b, maximum |-> maximum] \in Capsules
    BY DEF Capsules
  <2> QED BY <2>2, <2>3, EmitType DEF SendMaxStreams
<1> QED BY <1>1, <1>2

(* The session poll_event leaves before a closed stream is removed.        *)
Polled(s) ==
  LET event == Head(s.events)
      t     == [s EXCEPT !.events = Tail(@)]
      id    == event.id
  IN  IF Known(t, id) THEN [t EXCEPT !.streams[id] = MarkDataRead(@)] ELSE t

LEMMA PollEventType ==
  ASSUME NEW s \in Sessions, s.events # << >>
  PROVE  /\ PollEvent(s) \in Sessions
         /\ Head(s.events) \in Events
         /\ [s EXCEPT !.events = Tail(@)] \in Sessions
         /\ Head(s.events).type = "StreamData" => Polled(s) \in Sessions
<1> DEFINE e == Head(s.events)
           t == [s EXCEPT !.events = Tail(@)]
<1>1. e \in Events /\ t \in Sessions
  <2>1. s.events \in Seq(Events)
    BY DEF Sessions
  <2>2. e \in Events /\ Tail(s.events) \in Seq(Events)
    BY <2>1
  <2> QED BY <2>2 DEF Sessions
<1>2. ASSUME e.type = "StreamData" PROVE Polled(s) \in Sessions /\ e.id \in Ids
  <2>1. e.id \in Ids
    BY <1>1, <1>2, EventFields
  <2> HIDE DEF t
  <2>2. CASE Known(t, e.id)
    <3>1. t.streams[e.id] \in WtStreams
      BY <1>1, <2>2, KnownStream
    <3>2. MarkDataRead(t.streams[e.id]) \in WtStreams
      BY <3>1, StreamMethods
    <3>3. [t EXCEPT !.streams[e.id] = MarkDataRead(t.streams[e.id])] \in Sessions
      BY <1>1, <2>2, <3>2, StoreType
    <3> QED BY <2>1, <2>2, <3>3 DEF Polled, t
  <2>3. CASE ~Known(t, e.id)
    BY <1>1, <2>1, <2>3 DEF Polled, t
  <2> QED BY <2>2, <2>3
<1>3. CASE e.type = "StreamData" /\ e.fin
  <2>1. PollEvent(s) = RemoveIfClosed(Polled(s), e.id)
    BY <1>3 DEF PollEvent, Polled
  <2> QED BY <1>1, <1>2, <1>3, <2>1, RemoveIfClosedType
<1>4. CASE ~(e.type = "StreamData" /\ e.fin)
  <2>1. PollEvent(s) = t
    BY <1>4 DEF PollEvent
  <2> QED BY <1>1, <1>2, <2>1
<1> QED BY <1>3, <1>4

(* The session that knows the stream of a STREAM capsule.                  *)
WithStream(s, id) == IF Known(s, id) THEN s ELSE CreatePeerStreamsUpTo(s, id)

LEMMA WithStreamType ==
  ASSUME NEW s \in Sessions, NEW id \in Ids, Known(s, id) \/ ~Gone(s, id)
  PROVE  /\ WithStream(s, id) \in Sessions
         /\ Known(WithStream(s, id), id)
         /\ WithStream(s, id).streams[id] = CreatePeerStreamsUpTo(s, id).streams[id]
<1> DEFINE t == CreatePeerStreamsUpTo(s, id)
<1>1. /\ t \in Sessions
      /\ DOMAIN t.streams = DOMAIN s.streams \cup NewIds(s, id)
      /\ \A i \in DOMAIN s.streams : t.streams[i] = s.streams[i]
  BY CreateFacts
<1>2. Known(s, id) \/ id \in NewIds(s, id)
  BY IdsAssumption DEF NewIds, Remembered, Gone
<1> QED BY <1>1, <1>2 DEF WithStream, Known

LEMMA StreamDataFacts ==
  ASSUME NEW s \in Sessions, NEW c \in Capsules, c.type = "STREAM", ~StreamDataRefused(s, c)
  PROVE  LET t  == WithStream(s, c.id)
             e  == [type |-> "StreamData", id |-> c.id, from |-> c.from, size |-> c.size,
                    fin |-> c.fin]
             st == AfterRecvData(t.streams[c.id], c.size, c.fin)
         IN  /\ c.id \in Ids /\ c.from \in Nat /\ c.size \in Nat /\ c.fin \in BOOLEAN
             /\ HasRecvPart(s.role, c.id)
             /\ Known(s, c.id) \/ (IsPeerInitiated(s.role, c.id) /\ ~Remembered(s, c.id))
             /\ ~Gone(s, c.id)
             /\ t \in Sessions /\ Known(t, c.id) /\ t.streams[c.id] \in WtStreams
             /\ CanRecvDataOf(t.streams[c.id], c.size)
             /\ t.role = s.role
             /\ st \in WtStreams /\ e \in Events
             /\ StreamDataAccepted(s, c) =
                  Notify([t EXCEPT !.streams[c.id] = st, !.flow_control.recv_offset = @ + c.size], e)
             /\ StreamDataAccepted(s, c) \in Sessions
             /\ t.flow_control = s.flow_control
<1> DEFINE id == c.id
           t  == WithStream(s, id)
           e  == [type |-> "StreamData", id |-> c.id, from |-> c.from, size |-> c.size,
                  fin |-> c.fin]
           st == AfterRecvData(t.streams[id], c.size, c.fin)
           u  == [t EXCEPT !.streams[c.id] = st, !.flow_control.recv_offset = @ + c.size]
<1>1. c.id \in Ids /\ c.from \in Nat /\ c.size \in Nat /\ c.fin \in BOOLEAN
  BY CapsuleFields
<1>2. /\ ~Gone(s, id)
      /\ Known(s, id) \/ (IsPeerInitiated(s.role, id) /\ ~Remembered(s, id))
      /\ Known(s, id) => HasRecvPart(s.role, id)
      /\ CanRecvDataOf(CreatePeerStreamsUpTo(s, id).streams[id], c.size)
      /\ CanConsumeRecv(s.flow_control, c.size)
  BY Zenon DEF StreamDataRefused, Gone, Remembered
<1>3. HasRecvPart(s.role, id)
  BY <1>2 DEF HasRecvPart
<1>4. t \in Sessions /\ Known(t, id) /\ CanRecvDataOf(t.streams[id], c.size)
  BY <1>1, <1>2, WithStreamType
<1>5. t.streams[id] \in WtStreams
  BY <1>4, KnownStream
<1>6. t.role = s.role /\ t.flow_control = s.flow_control
  <2>1. CreatePeerStreamsUpTo(s, id) = [s EXCEPT !.streams = CreatePeerStreamsUpTo(s, id).streams,
                                                 !.events = CreatePeerStreamsUpTo(s, id).events]
    BY <1>1, CreateFacts
  <2>2. CreatePeerStreamsUpTo(s, id).role = s.role
        /\ CreatePeerStreamsUpTo(s, id).flow_control = s.flow_control
    BY <2>1 DEF Sessions
  <2> QED BY <2>2 DEF WithStream
<1>7. st \in WtStreams
  BY <1>1, <1>4, <1>5, StreamMethods
<1>8. e \in Events
  BY <1>1 DEF Events
<1>9. StreamDataAccepted(s, c) = Notify(u, e)
  BY Zenon DEF StreamDataAccepted, WithStream
<1> HIDE DEF t, st, e, id
<1>10. u \in Sessions
  <2>1. [t EXCEPT !.streams[id] = st] \in Sessions
    BY <1>4, <1>7, StoreType
  <2>2. s.flow_control \in WtFlowControls
    BY DEF Sessions
  <2>3. s.flow_control.recv_offset + c.size \in 0 .. MaxValue
    BY <1>1, <1>2, <2>2, MaxValueAssumption DEF CanConsumeRecv, WtFlowControls
  <2>4. [t.flow_control EXCEPT !.recv_offset = @ + c.size] \in WtFlowControls
    BY <1>6, <2>2, <2>3 DEF WtFlowControls
  <2> QED BY <2>1, <2>4 DEF Sessions, id
<1>11. Notify(u, e) \in Sessions
  BY <1>8, <1>10, NotifyType
<1> QED BY <1>1, <1>2, <1>3, <1>4, <1>5, <1>6, <1>7, <1>8, <1>9, <1>11 DEF t, st, e, id

LEMMA ResetStreamFacts ==
  ASSUME NEW s \in Sessions, NEW c \in Capsules, c.type = "RESET_STREAM", ~ResetStreamRefused(s, c)
  PROVE  LET st == AfterRecvReset(s.streams[c.id])
             e  == [type |-> "StreamReset", id |-> c.id]
             u  == Notify([s EXCEPT !.streams[c.id] = st], e)
         IN  /\ c.id \in Ids /\ Known(s, c.id) /\ CanRecv(s.streams[c.id])
             /\ HasRecvPart(s.role, c.id) /\ s.streams[c.id] \in WtStreams
             /\ st \in WtStreams /\ e \in Events
             /\ u \in Sessions
             /\ ResetStreamAccepted(s, c) = RemoveIfClosed(u, c.id)
             /\ ResetStreamAccepted(s, c) \in Sessions
<1> DEFINE st == AfterRecvReset(s.streams[c.id])
           e  == [type |-> "StreamReset", id |-> c.id]
           u  == Notify([s EXCEPT !.streams[c.id] = st], e)
<1>1. c.id \in Ids /\ Known(s, c.id) /\ CanRecv(s.streams[c.id]) /\ HasRecvPart(s.role, c.id)
  BY CapsuleFields DEF ResetStreamRefused, ReceivesOn
<1>2. s.streams[c.id] \in WtStreams
  BY <1>1, KnownStream
<1>3. st \in WtStreams
  BY <1>2, StreamMethods
<1>4. e \in Events
  BY <1>1 DEF Events
<1>5. u \in Sessions
  BY <1>1, <1>3, <1>4, StoreType, NotifyType
<1>6. ResetStreamAccepted(s, c) = RemoveIfClosed(u, c.id)
  BY Zenon DEF ResetStreamAccepted
<1> QED BY <1>1, <1>2, <1>3, <1>4, <1>5, <1>6, RemoveIfClosedType

(* create_implicit_peer_bidi_stream.                                       *)
LEMMA CreateImplicitlyType ==
  ASSUME NEW s \in Sessions, NEW id \in Ids
  PROVE  /\ CreateImplicitly(s, id) \in Sessions
         /\ CreateImplicitly(s, id).output = s.output
         /\ CreateImplicitly(s, id).role = s.role
<1> DEFINE t == CreatePeerStreamsUpTo(s, id)
<1>1. t \in Sessions /\ t = [s EXCEPT !.streams = t.streams, !.events = t.events]
  BY CreateFacts
<1>2. t.output = s.output /\ t.role = s.role
  BY <1>1 DEF Sessions
<1> QED BY <1>1, <1>2 DEF CreateImplicitly

LEMMA SetInsertSubset ==
  ASSUME NEW S \in SUBSET Ids, NEW x \in Ids
  PROVE  SetInsert(S, x) \in SUBSET Ids
BY DEF SetInsert

LEMMA SetInsertKeeps ==
  ASSUME Few, NEW S \in SUBSET Ids, NEW x \in Ids
  PROVE  SetInsert(S, x) = S \cup {x}
<1> DEFINE n == S \cup {x}
<1>1. n \subseteq Ids
  OBVIOUS
<1>2. Cardinality(n) <= Cardinality(Ids) /\ Cardinality(n) \in Nat /\ Cardinality(Ids) \in Nat
  BY <1>1, FS_Subset, FS_CardinalityType, IdsAssumption
<1> QED BY <1>2, RecordAssumption DEF SetInsert, Few

(* The session in the steps of handling STOP_SENDING.                      *)
StopMarked(s, id) ==
  LET t == CreateImplicitly(s, id)
      u == IF Known(t, id) THEN [t EXCEPT !.streams[id].stop_sending_received = TRUE] ELSE t
  IN  [u EXCEPT !.stop_sending_received_ids = SetInsert(@, id)]

StopAnswer(s, id) ==
  LET v == StopMarked(s, id)
  IN  IF CanResetStream(v, id) THEN ResetStream(v, id) ELSE v

LEMMA StopSendingFacts ==
  ASSUME NEW s \in Sessions, NEW c \in Capsules, c.type = "STOP_SENDING"
  PROVE  /\ c.id \in Ids
         /\ StopMarked(s, c.id) \in Sessions
         /\ StopMarked(s, c.id).output = s.output
         /\ StopAnswer(s, c.id) \in Sessions
         /\ [type |-> "StopSending", id |-> c.id] \in Events
         /\ StopSendingAccepted(s, c) =
              Notify(StopAnswer(s, c.id), [type |-> "StopSending", id |-> c.id])
         /\ StopSendingAccepted(s, c) \in Sessions
<1> DEFINE id == c.id
           t  == CreateImplicitly(s, id)
           u  == IF Known(t, id) THEN [t EXCEPT !.streams[id].stop_sending_received = TRUE] ELSE t
           e  == [type |-> "StopSending", id |-> id]
<1>1. id \in Ids
  BY CapsuleFields
<1>2. e \in Events
  BY <1>1 DEF Events
<1>3. t \in Sessions /\ t.output = s.output
  BY <1>1, CreateImplicitlyType
<1>4. StopMarked(s, id) = [u EXCEPT !.stop_sending_received_ids = SetInsert(@, id)]
  BY DEF StopMarked
<1>9. StopSendingAccepted(s, c) = Notify(StopAnswer(s, id), e)
  BY Zenon DEF StopSendingAccepted, StopAnswer, StopMarked
<1> HIDE DEF id, t, e
<1>5. u \in Sessions /\ u.output = s.output
  <2>1. CASE Known(t, id)
    <3>1. t.streams[id] \in WtStreams
      BY <1>3, <2>1, KnownStream
    <3>2. [t.streams[id] EXCEPT !.stop_sending_received = TRUE] \in WtStreams
      BY <3>1, StreamMethods
    <3>3. [t EXCEPT !.streams[id] = [t.streams[id] EXCEPT !.stop_sending_received = TRUE]] \in Sessions
      BY <1>3, <2>1, <3>2, StoreType
    <3> QED BY <1>3, <2>1, <3>3 DEF Sessions
  <2>2. CASE ~Known(t, id)
    BY <1>3, <2>2
  <2> QED BY <2>1, <2>2
<1> HIDE DEF u
<1>6. SetInsert(u.stop_sending_received_ids, id) \in SUBSET Ids
  BY <1>1, <1>5, SetInsertSubset DEF Sessions
<1>7. StopMarked(s, id) \in Sessions /\ StopMarked(s, id).output = s.output
  BY <1>4, <1>5, <1>6 DEF Sessions
<1>8. StopAnswer(s, id) \in Sessions
  BY <1>7, ResetStreamType DEF StopAnswer
<1>10. StopSendingAccepted(s, c) \in Sessions
  BY <1>2, <1>8, <1>9, NotifyType
<1> QED BY <1>1, <1>2, <1>7, <1>8, <1>9, <1>10 DEF id, e

LEMMA MaxStreamDataType ==
  ASSUME NEW s \in Sessions, NEW c \in Capsules, c.type = "MAX_STREAM_DATA",
         ~MaxStreamDataRefused(s, c)
  PROVE  MaxStreamDataAccepted(s, c) \in Sessions /\ MaxStreamDataAccepted(s, c).output = s.output
<1>1. c.id \in Ids /\ c.maximum \in 0 .. MaxValue
  BY CapsuleFields
<1>2. CASE ~Known(s, c.id) /\ c.id \in DOMAIN s.closed_stream_send_max
  <2>1. s.closed_stream_send_max \in Maps(0 .. MaxValue)
    BY DEF Sessions
  <2>2. MapInsert(s.closed_stream_send_max, c.id, c.maximum) \in Maps(0 .. MaxValue)
    BY <1>1, <2>1, MapInsertFacts
  <2> QED BY <1>2, <2>2 DEF MaxStreamDataAccepted, Sessions
<1>3. CASE ~(~Known(s, c.id) /\ c.id \in DOMAIN s.closed_stream_send_max)
  <2> DEFINE t == CreateImplicitly(s, c.id)
  <2>1. MaxStreamDataAccepted(s, c) =
          IF Known(t, c.id) THEN [t EXCEPT !.streams[c.id].send_max = c.maximum] ELSE t
    BY <1>3, Zenon DEF MaxStreamDataAccepted
  <2>2. t \in Sessions /\ t.output = s.output
    BY <1>1, CreateImplicitlyType
  <2> HIDE DEF t
  <2>3. CASE Known(t, c.id)
    <3>1. t.streams[c.id] \in WtStreams
      BY <2>2, <2>3, KnownStream
    <3>2. [t.streams[c.id] EXCEPT !.send_max = c.maximum] \in WtStreams
      BY <1>1, <3>1, StreamMethods
    <3>3. [t EXCEPT !.streams[c.id] = [t.streams[c.id] EXCEPT !.send_max = c.maximum]] \in Sessions
      BY <2>2, <2>3, <3>2, StoreType
    <3> QED BY <2>1, <2>2, <2>3, <3>3 DEF Sessions
  <2> QED BY <2>1, <2>2, <2>3
<1> QED BY <1>2, <1>3

(* process keeps the types of a session; the one capsule it may write is   *)
(* the RESET_STREAM that answers STOP_SENDING.                             *)
LEMMA StopAnswerOutput ==
  ASSUME NEW s \in Sessions, NEW id \in Ids, s.output = << >>, StopMarked(s, id) \in Sessions,
         StopMarked(s, id).output = s.output
  PROVE  LET v == StopMarked(s, id)
         IN  IF CanResetStream(v, id)
             THEN StopAnswer(s, id).output = <<ResetCapsule(v, id)>>
             ELSE StopAnswer(s, id).output = << >>
<1> DEFINE v == StopMarked(s, id)
<1> HIDE DEF v
<1>1. StopAnswer(s, id) = IF CanResetStream(v, id) THEN ResetStream(v, id) ELSE v
  BY DEF StopAnswer, v
<1>2. CASE CanResetStream(v, id)
  <2>1. /\ ResetSent(v, id) \in Sessions /\ ResetCapsule(v, id) \in Capsules
        /\ ResetStream(v, id) = RemoveIfClosed(ResetSent(v, id), id)
    BY <1>2, ResetStreamType DEF v
  <2>2. RemoveIfClosed(ResetSent(v, id), id).output = ResetSent(v, id).output
    BY <2>1 DEF RemoveIfClosed, Sessions
  <2>3. ResetSent(v, id).output = Append(v.output, ResetCapsule(v, id))
    BY DEF ResetSent, Emit, v, Sessions
  <2> QED BY <1>1, <1>2, <2>1, <2>2, <2>3 DEF v
<1>3. CASE ~CanResetStream(v, id)
  BY <1>1, <1>3 DEF v
<1> QED BY <1>2, <1>3 DEF v

AcceptedOutput(s, c) ==
  IF s.state # "Closed" /\ c.type = "STOP_SENDING" /\ CanResetStream(StopMarked(s, c.id), c.id)
  THEN <<ResetCapsule(StopMarked(s, c.id), c.id)>> ELSE << >>

LEMMA AcceptedType ==
  ASSUME NEW s \in Sessions, NEW c \in Capsules, ~Refused(s, c), s.output = << >>
  PROVE  /\ Accepted(s, c) \in Sessions
         /\ Accepted(s, c).output = AcceptedOutput(s, c)
<1>1. CASE s.state = "Closed"
  BY <1>1 DEF Accepted, AcceptedOutput
<1>2. CASE s.state # "Closed"
  <2>1. CASE c.type = "DATAGRAM"
    <3>1. [type |-> "DatagramReceived"] \in Events
      BY DEF Events
    <3>2. Accepted(s, c) = Notify(s, [type |-> "DatagramReceived"])
      BY <1>2, <2>1 DEF Accepted
    <3>3. Notify(s, [type |-> "DatagramReceived"]).output = s.output
      BY DEF Notify, Sessions
    <3> QED BY <2>1, <3>1, <3>2, <3>3, NotifyType DEF AcceptedOutput
  <2>2. CASE c.type = "STREAM"
    <3>1. ~StreamDataRefused(s, c) /\ Accepted(s, c) = StreamDataAccepted(s, c)
      BY <1>2, <2>2 DEF Accepted, Refused
    <3> DEFINE t == WithStream(s, c.id)
               st == AfterRecvData(t.streams[c.id], c.size, c.fin)
               e == [type |-> "StreamData", id |-> c.id, from |-> c.from, size |-> c.size,
                     fin |-> c.fin]
               u == [t EXCEPT !.streams[c.id] = st, !.flow_control.recv_offset = @ + c.size]
    <3>2. /\ StreamDataAccepted(s, c) = Notify(u, e) /\ c.id \in Ids
          /\ StreamDataAccepted(s, c) \in Sessions /\ t \in Sessions
      BY <2>2, <3>1, StreamDataFacts
    <3>3. t.output = s.output
      <4>1. CreatePeerStreamsUpTo(s, c.id).output = s.output
        <5> DEFINE w == CreatePeerStreamsUpTo(s, c.id)
        <5>1. w = [s EXCEPT !.streams = w.streams, !.events = w.events]
          BY <3>2, CreateFacts
        <5> HIDE DEF w
        <5>2. w.output = s.output
          BY <5>1 DEF Sessions
        <5> QED BY <5>2 DEF w
      <4> QED BY <4>1 DEF WithStream
    <3> HIDE DEF t, st, e
    <3>4. Notify(u, e).output = t.output
      BY <3>2 DEF Notify, Sessions
    <3> QED BY <2>2, <3>1, <3>2, <3>3, <3>4 DEF AcceptedOutput
  <2>3. CASE c.type = "RESET_STREAM"
    <3>1. ~ResetStreamRefused(s, c) /\ Accepted(s, c) = ResetStreamAccepted(s, c)
      BY <1>2, <2>3 DEF Accepted, Refused
    <3> DEFINE st == AfterRecvReset(s.streams[c.id])
               e  == [type |-> "StreamReset", id |-> c.id]
               u  == Notify([s EXCEPT !.streams[c.id] = st], e)
    <3>2. /\ u \in Sessions /\ ResetStreamAccepted(s, c) = RemoveIfClosed(u, c.id)
          /\ ResetStreamAccepted(s, c) \in Sessions
      BY <2>3, <3>1, ResetStreamFacts
    <3> HIDE DEF st, e
    <3>3. u.output = s.output
      BY DEF Notify, Sessions
    <3> HIDE DEF u
    <3>4. RemoveIfClosed(u, c.id).output = u.output
      BY <3>2 DEF RemoveIfClosed, Sessions
    <3> QED BY <2>3, <3>1, <3>2, <3>3, <3>4 DEF AcceptedOutput
  <2>4. CASE c.type = "STOP_SENDING"
    <3>1. Accepted(s, c) = StopSendingAccepted(s, c)
      BY <1>2, <2>4 DEF Accepted
    <3> DEFINE e == [type |-> "StopSending", id |-> c.id]
    <3>2. /\ c.id \in Ids /\ StopMarked(s, c.id) \in Sessions
          /\ StopMarked(s, c.id).output = s.output
          /\ StopSendingAccepted(s, c) = Notify(StopAnswer(s, c.id), e)
          /\ StopAnswer(s, c.id) \in Sessions
          /\ StopSendingAccepted(s, c) \in Sessions
      BY <2>4, StopSendingFacts
    <3> HIDE DEF e
    <3>3. Notify(StopAnswer(s, c.id), e).output = StopAnswer(s, c.id).output
      BY <3>2 DEF Notify, Sessions
    <3>4. StopAnswer(s, c.id).output = AcceptedOutput(s, c)
      BY <1>2, <2>4, <3>2, StopAnswerOutput DEF AcceptedOutput
    <3> QED BY <3>1, <3>2, <3>3, <3>4
  <2>5. CASE c.type = "MAX_DATA"
    <3>1. CanRaiseSendMax(s.flow_control, c.maximum)
          /\ Accepted(s, c) = [s EXCEPT !.flow_control.send_max = c.maximum]
      BY <1>2, <2>5 DEF Accepted, Refused
    <3>2. s.flow_control \in WtFlowControls /\ c.maximum \in Nat
      BY <2>5, CapsuleFields DEF Sessions
    <3>3. [s.flow_control EXCEPT !.send_max = c.maximum] \in WtFlowControls
      <4>1. c.maximum \in 0 .. MaxValue
        BY <3>1, <3>2, MaxValueAssumption DEF CanRaiseSendMax
      <4> QED BY <3>2, <4>1 DEF WtFlowControls
    <3> QED BY <2>5, <3>1, <3>3 DEF AcceptedOutput, Sessions
  <2>6. CASE c.type = "MAX_STREAM_DATA"
    <3>1. ~MaxStreamDataRefused(s, c) /\ Accepted(s, c) = MaxStreamDataAccepted(s, c)
      BY <1>2, <2>6 DEF Accepted, Refused
    <3> QED BY <2>6, <3>1, MaxStreamDataType DEF AcceptedOutput
  <2>7. CASE c.type = "MAX_STREAMS"
    <3>1. CanRaiseMaxStreams(s.flow_control, c.maximum, c.bidirectional)
          /\ Accepted(s, c) = [s EXCEPT !.flow_control.max_streams_remote[c.bidirectional] = c.maximum]
      BY <1>2, <2>7 DEF Accepted, Refused
    <3>2. s.flow_control \in WtFlowControls /\ c.maximum \in Nat /\ c.bidirectional \in BOOLEAN
      BY <2>7, CapsuleFields DEF Sessions
    <3>3. c.maximum \in 0 .. MaxStreamsLimit
      BY <3>1, <3>2, MaxStreamsAssumption DEF CanRaiseMaxStreams, MaxStreamsIncrease
    <3>4. [s.flow_control EXCEPT !.max_streams_remote[c.bidirectional] = c.maximum] \in WtFlowControls
      BY <3>2, <3>3 DEF WtFlowControls
    <3> QED BY <2>7, <3>1, <3>4 DEF AcceptedOutput, Sessions
  <2>8. CASE c.type = "CLOSE_SESSION"
    <3> DEFINE e == [type |-> "SessionClosed"]
               u == [s EXCEPT !.state = "Closed"]
    <3>1. e \in Events /\ u \in Sessions
      BY DEF Events, Sessions, SessionStates
    <3>2. Accepted(s, c) = Notify(u, e)
      BY <1>2, <2>8 DEF Accepted
    <3>3. Notify(u, e).output = s.output
      BY DEF Notify, Sessions
    <3> HIDE DEF u, e
    <3> QED BY <2>8, <3>1, <3>2, <3>3, NotifyType DEF AcceptedOutput
  <2>9. CASE c.type = "DRAIN_SESSION" /\ s.state = "Active"
    <3> DEFINE e == [type |-> "SessionDraining"]
               u == [s EXCEPT !.state = "Draining"]
    <3>1. e \in Events /\ u \in Sessions
      BY DEF Events, Sessions, SessionStates
    <3>2. Accepted(s, c) = Notify(u, e)
      BY <1>2, <2>9 DEF Accepted
    <3>3. Notify(u, e).output = s.output
      BY DEF Notify, Sessions
    <3> HIDE DEF u, e
    <3> QED BY <2>9, <3>1, <3>2, <3>3, NotifyType DEF AcceptedOutput
  <2>10. CASE /\ c.type \notin {"DATAGRAM", "STREAM", "RESET_STREAM", "STOP_SENDING", "MAX_DATA",
                                "MAX_STREAM_DATA", "MAX_STREAMS", "CLOSE_SESSION"}
              /\ ~(c.type = "DRAIN_SESSION" /\ s.state = "Active")
    BY <1>2, <2>10 DEF Accepted, AcceptedOutput
  <2> QED BY <2>1, <2>2, <2>3, <2>4, <2>5, <2>6, <2>7, <2>8, <2>9, <2>10
<1> QED BY <1>1, <1>2

-----------------------------------------------------------------------------
(* The configurations of the two ends are within the limits.               *)

(* A set of places of a sequence has a last one.                           *)
LEMMA LastPlace ==
  ASSUME NEW n \in Nat, NEW S \in SUBSET (1 .. n), S # {}
  PROVE  \E i \in S : \A j \in S : j <= i
<1> DEFINE T == {k \in Nat : \A j \in S : j <= k}
           K == {k \in Nat : k \notin T}
<1>1. n \in T
  OBVIOUS
<1>2. PICK i \in S : TRUE
  OBVIOUS
<1>3. 0 \in K
  <2>1. i \in 1 .. n /\ ~(i <= 0)
    BY <1>2
  <2> QED BY <1>2, <2>1
<1>4. SUFFICES ASSUME \A k \in S : \E j \in S : ~(j <= k) PROVE FALSE
  OBVIOUS
<1>5. ASSUME NEW k \in Nat, k \in K PROVE k + 1 \in K
  <2>1. PICK j \in S : ~(j <= k)
    BY <1>5
  <2>2. CASE j = k + 1
    BY <1>4, <2>1, <2>2
  <2>3. CASE j # k + 1
    <3>1. j \in Nat /\ ~(j <= k + 1)
      BY <2>1, <2>3
    <3> QED BY <2>1, <3>1
  <2> QED BY <2>2, <2>3
<1>6. n \in K
  <2> HIDE DEF K
  <2> QED BY <1>3, <1>5, SetInduction
<1> QED BY <1>1, <1>6

LEMMA ParsedInit ==
  ASSUME NEW init \in InitFields \cup {Absent}, ~InitRefused(init)
  PROVE  /\ DOMAIN ParseInit(init) = InitKeys
         /\ \A k \in InitKeys : ParseInit(init)[k] \in {Absent} \cup 0 .. MaxValue
<1> DEFINE V == {Absent} \cup {v \in Int : v <= MaxValue}
           M == [key : STRING, value : V]
<1>1. init # Absent /\ init \in Seq(M)
  BY DEF InitRefused, InitFields
<1>a. \A m \in M : m.value \in V
  OBVIOUS
<1> HIDE DEF M
<1>b. DOMAIN init = 1 .. Len(init) /\ Len(init) \in Nat /\ \A i \in DOMAIN init : init[i] \in M
  BY <1>1
<1>2. DOMAIN init = 1 .. Len(init) /\ Len(init) \in Nat
      /\ \A i \in DOMAIN init : init[i].value \in {Absent} \cup {v \in Int : v <= MaxValue}
  BY <1>a, <1>b
<1>3. ASSUME NEW k \in InitKeys PROVE InitValue(init, k) \in {Absent} \cup 0 .. MaxValue
  <2> DEFINE S == {i \in DOMAIN init : init[i].key = k}
  <2>1. CASE ~\E i \in DOMAIN init : init[i].key = k
    BY <2>1 DEF InitValue
  <2>2. CASE \E i \in DOMAIN init : init[i].key = k
    <3>1. S \in SUBSET (1 .. Len(init)) /\ S # {}
      BY <1>2, <2>2
    <3>2. \E i \in S : \A j \in S : j <= i
      <4> HIDE DEF S
      <4> QED BY <1>2, <3>1, LastPlace
    <3> DEFINE Last(i) == /\ init[i].key = k
                          /\ \A j \in DOMAIN init : init[j].key = k => j <= i
               last == CHOOSE i \in DOMAIN init : Last(i)
    <3>3. \E i \in DOMAIN init : Last(i)
      BY <3>2
    <3>4. last \in DOMAIN init /\ Last(last)
      BY <3>3, Zenon
    <3>5. InitValue(init, k) = init[last].value
      BY <2>2, Zenon DEF InitValue
    <3> HIDE DEF last
    <3>6. ~(init[last].value = Absent \/ init[last].value < 0)
      BY <3>4 DEF InitRefused
    <3> QED BY <1>2, <3>4, <3>5, <3>6, MaxValueAssumption
  <2> QED BY <2>1, <2>2
<1> QED BY <1>3 DEF ParseInit

LEMMA OverlayType ==
  ASSUME NEW settings \in WtSettings
  PROVE  OverlaySettings(PeerDefault, settings) \in Configs
<1> DEFINE Or(v, old) == IF v = Absent THEN old ELSE v
           m == [b \in BOOLEAN |-> Or(settings.max_streams[b], PeerDefault.max_streams[b])]
<1>1. /\ PeerDefault.max_data = 0 /\ PeerDefault.bidi_local = 0 /\ PeerDefault.bidi_remote = 0
      /\ PeerDefault.uni = 0 /\ \A b \in BOOLEAN : PeerDefault.max_streams[b] = 0
  BY DEF PeerDefault
<1>2. 0 \in 0 .. MaxValue /\ 0 \in 0 .. MaxStreamsLimit
  BY MaxValueAssumption, MaxStreamsAssumption
<1>3. m \in [BOOLEAN -> 0 .. MaxStreamsLimit]
  BY <1>1, <1>2 DEF WtSettings
<1>4. /\ Or(settings.max_data, PeerDefault.max_data) \in 0 .. MaxValue
      /\ Or(settings.bidi_local, PeerDefault.bidi_local) \in 0 .. MaxValue
      /\ Or(settings.bidi_remote, PeerDefault.bidi_remote) \in 0 .. MaxValue
      /\ Or(settings.uni, PeerDefault.uni) \in 0 .. MaxValue
  BY <1>1, <1>2 DEF WtSettings
<1>5. OverlaySettings(PeerDefault, settings) =
        [max_data |-> Or(settings.max_data, PeerDefault.max_data),
         bidi_local |-> Or(settings.bidi_local, PeerDefault.bidi_local),
         bidi_remote |-> Or(settings.bidi_remote, PeerDefault.bidi_remote),
         uni |-> Or(settings.uni, PeerDefault.uni), max_streams |-> m]
  BY Zenon DEF OverlaySettings
<1> HIDE DEF Or, m
<1> QED BY <1>3, <1>4, <1>5 DEF Configs

(* Both ends take the header field in the same way.                        *)
LEMMA InitAlike ==
  ASSUME NEW client \in WtSettings, NEW init
  PROVE  ClientConfig(client, init) = ServerPeerConfig(client, init)
BY Zenon DEF ClientConfig, ServerPeerConfig, ApplyInitAsPeer, ApplyAdvertisedSettings

LEMMA InitType ==
  ASSUME NEW client \in WtSettings, NEW init \in InitFields \cup {Absent}, ~InitRefused(init)
  PROVE  ServerPeerConfig(client, init) \in Configs
<1> DEFINE config == OverlaySettings(PeerDefault, client)
           p == ParseInit(init)
           Merge(v, old) == IF v # Absent /\ v > old THEN v ELSE old
<1>1. config \in Configs
  BY OverlayType
<1>2. /\ p.u \in {Absent} \cup 0 .. MaxValue /\ p.bl \in {Absent} \cup 0 .. MaxValue
      /\ p.br \in {Absent} \cup 0 .. MaxValue
  BY ParsedInit DEF InitKeys
<1>3. ServerPeerConfig(client, init) =
        [config EXCEPT !.uni = Merge(p.u, config.uni), !.bidi_local = Merge(p.bl, config.bidi_local),
                       !.bidi_remote = Merge(p.br, config.bidi_remote)]
  BY DEF ServerPeerConfig, ApplyInitAsPeer
<1> HIDE DEF config, p
<1>4. /\ Merge(p.u, config.uni) \in 0 .. MaxValue
      /\ Merge(p.bl, config.bidi_local) \in 0 .. MaxValue
      /\ Merge(p.br, config.bidi_remote) \in 0 .. MaxValue
  BY <1>1, <1>2 DEF Configs
<1> HIDE DEF Merge
<1> QED BY <1>1, <1>3, <1>4 DEF Configs

IsNew(s, role, config, peer_config) ==
  /\ s \in Sessions /\ Initiated(s) \in Sessions
  /\ s.role = role /\ s.config = config /\ s.peer_config = peer_config
  /\ s.output = << >> /\ s.events = << >> /\ s.state = "Initial"
  /\ DOMAIN s.streams = {} /\ DOMAIN s.closed_stream_send_max = {}
  /\ s.stop_sending_received_ids = {}
  /\ s.flow_control = NewFlowControl(config, peer_config)
  /\ s.next_stream_id = [b \in BOOLEAN |-> FirstId(role, b)]
  /\ Initiated(s) = [s EXCEPT !.state = "Active"]

LEMMA NewSessionType ==
  ASSUME NEW role \in Roles, NEW config \in Configs, NEW peer_config \in Configs
  PROVE  IsNew(NewSession(role, config, peer_config), role, config, peer_config)
<1> DEFINE s == NewSession(role, config, peer_config)
           f == [id \in {} |-> NewWtStream(0, 0)]
           g == [id \in {} |-> 0]
<1>1. f \in Maps(WtStreams) /\ g \in Maps(0 .. MaxValue)
  <2>1. DOMAIN f = {} /\ f = [x \in {} |-> f[x]] /\ DOMAIN g = {} /\ g = [x \in {} |-> g[x]]
    OBVIOUS
  <2> HIDE DEF f, g
  <2> QED BY <2>1, EmptyMap
<1>2. NewFlowControl(config, peer_config) \in WtFlowControls
  BY MaxValueAssumption, MaxStreamsAssumption DEF NewFlowControl, WtFlowControls, Configs
<1>3. [b \in BOOLEAN |-> FirstId(role, b)] \in [BOOLEAN -> Nat]
  BY DEF FirstId
<1>4. s = [role |-> role, config |-> config, peer_config |-> peer_config, state |-> "Initial",
           streams |-> f, closed_stream_send_max |-> g, stop_sending_received_ids |-> {},
           flow_control |-> NewFlowControl(config, peer_config),
           next_stream_id |-> [b \in BOOLEAN |-> FirstId(role, b)],
           events |-> << >>, output |-> << >>]
  BY Zenon DEF NewSession
<1>5. DOMAIN f = {} /\ DOMAIN g = {}
  OBVIOUS
<1>6. << >> \in Seq(Events) /\ << >> \in Seq(Capsules) /\ {} \in SUBSET Ids
      /\ "Initial" \in SessionStates /\ "Active" \in SessionStates
  BY DEF SessionStates
<1> HIDE DEF f, g, s
<1>7. s \in Sessions
  BY <1>1, <1>2, <1>3, <1>4, <1>6 DEF Sessions
<1>8. Initiated(s) = [s EXCEPT !.state = "Active"]
  BY DEF Initiated
<1>9. Initiated(s) \in Sessions
  BY <1>6, <1>7, <1>8 DEF Sessions
<1>10. /\ s.role = role /\ s.config = config /\ s.peer_config = peer_config
       /\ s.output = << >> /\ s.events = << >> /\ s.state = "Initial"
       /\ s.streams = f /\ s.closed_stream_send_max = g
       /\ s.stop_sending_received_ids = {}
       /\ s.flow_control = NewFlowControl(config, peer_config)
       /\ s.next_stream_id = [b \in BOOLEAN |-> FirstId(role, b)]
  BY <1>4
<1> QED BY <1>5, <1>7, <1>8, <1>9, <1>10 DEF s, IsNew

-----------------------------------------------------------------------------
(* What no operation changes.                                              *)
Kept(s, t) == t.role = s.role /\ t.config = s.config /\ t.peer_config = s.peer_config

LEMMA RemoveRest ==
  ASSUME NEW s \in Sessions, NEW id
  PROVE  RestFields(s, RemoveIfClosed(s, id)) /\ Kept(s, RemoveIfClosed(s, id))
BY DEF RemoveIfClosed, RestFields, Kept, Sessions

LEMMA CreateKept ==
  ASSUME NEW s \in Sessions, NEW id \in Ids
  PROVE  /\ CreatedFields(s, CreatePeerStreamsUpTo(s, id), id)
         /\ Kept(s, CreatePeerStreamsUpTo(s, id))
<1> DEFINE t == CreatePeerStreamsUpTo(s, id)
<1>1. /\ t = [s EXCEPT !.streams = t.streams, !.events = t.events]
      /\ t.events = s.events \o OpenedEvents(s, id)
  BY CreateFacts
<1> HIDE DEF t
<1>2. CreatedFields(s, t, id) /\ Kept(s, t)
  BY <1>1 DEF Sessions, CreatedFields, Kept
<1> QED BY <1>2 DEF t

LEMMA CallsKeep ==
  ASSUME NEW s \in Sessions
  PROVE  /\ Kept(s, Initiated(s)) /\ Kept(s, SendDatagram(s))
         /\ Kept(s, Close(s)) /\ Kept(s, Drain(s))
         /\ \A b \in BOOLEAN : Kept(s, OpenStream(s, b))
         /\ \A id : Kept(s, StopSending(s, id))
         /\ \A maximum : Kept(s, SendMaxData(s, maximum))
         /\ \A id, maximum : Kept(s, SendMaxStreamData(s, id, maximum))
         /\ \A maximum, b : Kept(s, SendMaxStreams(s, maximum, b))
         /\ \A id : Kept(s, ResetSent(s, id))
         /\ \A id, size, fin : Kept(s, DataSent(s, id, size, fin))
BY DEF Kept, Sessions, Initiated, SendDatagram, Close, Drain, OpenStream, StopSending, SendMaxData,
       SendMaxStreamData, SendMaxStreams, ResetSent, DataSent, Emit

LEMMA DataKeeps ==
  ASSUME NEW s \in Sessions, NEW id, NEW size \in Nat, NEW fin \in BOOLEAN,
         CanSendStreamData(s, id, size)
  PROVE  Kept(s, SendStreamData(s, id, size, fin))
<1>1. /\ DataSent(s, id, size, fin) \in Sessions
      /\ SendStreamData(s, id, size, fin) =
           IF fin THEN RemoveIfClosed(DataSent(s, id, size, fin), id)
           ELSE DataSent(s, id, size, fin)
  BY SendStreamDataType
<1>2. Kept(s, DataSent(s, id, size, fin))
  BY CallsKeep
<1>3. Kept(DataSent(s, id, size, fin), RemoveIfClosed(DataSent(s, id, size, fin), id))
  BY <1>1, RemoveRest
<1> QED BY <1>1, <1>2, <1>3 DEF Kept

LEMMA ResetKeeps ==
  ASSUME NEW s \in Sessions, NEW id, CanResetStream(s, id)
  PROVE  Kept(s, ResetStream(s, id))
<1>1. ResetSent(s, id) \in Sessions /\ ResetStream(s, id) = RemoveIfClosed(ResetSent(s, id), id)
  BY ResetStreamType
<1>2. Kept(s, ResetSent(s, id))
  BY CallsKeep
<1>3. Kept(ResetSent(s, id), RemoveIfClosed(ResetSent(s, id), id))
  BY <1>1, RemoveRest
<1> QED BY <1>1, <1>2, <1>3 DEF Kept

LEMMA PollKeeps ==
  ASSUME NEW s \in Sessions, s.events # << >>
  PROVE  Kept(s, PollEvent(s))
<1> DEFINE e == Head(s.events)
           t == [s EXCEPT !.events = Tail(@)]
<1>1. Kept(s, t) /\ Kept(s, Polled(s))
  BY DEF Kept, Polled, Sessions
<1>2. CASE e.type = "StreamData" /\ e.fin
  <2>1. PollEvent(s) = RemoveIfClosed(Polled(s), e.id)
    BY <1>2 DEF PollEvent, Polled
  <2>2. Polled(s) \in Sessions
    BY <1>2, PollEventType
  <2>3. Kept(Polled(s), RemoveIfClosed(Polled(s), e.id))
    BY <2>2, RemoveRest
  <2> QED BY <1>1, <2>1, <2>3 DEF Kept
<1>3. CASE ~(e.type = "StreamData" /\ e.fin)
  <2>1. PollEvent(s) = t
    BY <1>3 DEF PollEvent
  <2> QED BY <1>1, <2>1
<1> QED BY <1>2, <1>3

LEMMA ImplicitKeeps ==
  ASSUME NEW s \in Sessions, NEW id \in Ids
  PROVE  Kept(s, CreateImplicitly(s, id))
BY CreateKept DEF CreateImplicitly, Kept

LEMMA StopKeeps ==
  ASSUME NEW s \in Sessions, NEW c \in Capsules, c.type = "STOP_SENDING"
  PROVE  Kept(s, StopSendingAccepted(s, c))
<1> DEFINE id == c.id
           t  == CreateImplicitly(s, id)
           v  == StopMarked(s, id)
           e  == [type |-> "StopSending", id |-> id]
<1>1. /\ id \in Ids /\ v \in Sessions /\ StopAnswer(s, id) \in Sessions
      /\ StopSendingAccepted(s, c) = Notify(StopAnswer(s, id), e)
  BY StopSendingFacts
<1>2. t \in Sessions /\ Kept(s, t)
  BY <1>1, CreateImplicitlyType, ImplicitKeeps
<1>3. Kept(t, v)
  <2> HIDE DEF t
  <2>1. v = [(IF Known(t, id) THEN [t EXCEPT !.streams[id].stop_sending_received = TRUE] ELSE t)
               EXCEPT !.stop_sending_received_ids = SetInsert(@, id)]
    BY DEF StopMarked, t
  <2> QED BY <1>2, <2>1 DEF Kept, Sessions
<1> HIDE DEF t, v, e
<1>4. Kept(v, StopAnswer(s, id))
  BY <1>1, ResetKeeps DEF StopAnswer, v, Kept
<1>5. Kept(StopAnswer(s, id), Notify(StopAnswer(s, id), e))
  BY <1>1 DEF Kept, Notify, Sessions
<1> QED BY <1>1, <1>2, <1>3, <1>4, <1>5 DEF Kept

LEMMA AcceptedKeeps ==
  ASSUME NEW s \in Sessions, NEW c \in Capsules, ~Refused(s, c)
  PROVE  Kept(s, Accepted(s, c))
<1>1. CASE s.state = "Closed"
  BY <1>1 DEF Accepted, Kept
<1>2. CASE s.state # "Closed"
  <2>2. CASE c.type = "STREAM"
    <3>1. ~StreamDataRefused(s, c) /\ Accepted(s, c) = StreamDataAccepted(s, c)
      BY <1>2, <2>2 DEF Accepted, Refused
    <3> DEFINE t == WithStream(s, c.id)
               st == AfterRecvData(t.streams[c.id], c.size, c.fin)
               e == [type |-> "StreamData", id |-> c.id, from |-> c.from, size |-> c.size,
                     fin |-> c.fin]
               u == [t EXCEPT !.streams[c.id] = st, !.flow_control.recv_offset = @ + c.size]
    <3>2. StreamDataAccepted(s, c) = Notify(u, e) /\ c.id \in Ids /\ t \in Sessions
      BY <2>2, <3>1, StreamDataFacts
    <3>3. Kept(s, t)
      BY <3>2, CreateKept DEF WithStream, Kept
    <3> HIDE DEF t, st, e
    <3>4. Kept(t, Notify(u, e))
      BY <3>2 DEF Notify, Sessions, Kept
    <3> QED BY <3>1, <3>2, <3>3, <3>4 DEF Kept
  <2>3. CASE c.type = "RESET_STREAM"
    <3>1. ~ResetStreamRefused(s, c) /\ Accepted(s, c) = ResetStreamAccepted(s, c)
      BY <1>2, <2>3 DEF Accepted, Refused
    <3> DEFINE st == AfterRecvReset(s.streams[c.id])
               e  == [type |-> "StreamReset", id |-> c.id]
               u  == Notify([s EXCEPT !.streams[c.id] = st], e)
    <3>2. u \in Sessions /\ ResetStreamAccepted(s, c) = RemoveIfClosed(u, c.id)
      BY <2>3, <3>1, ResetStreamFacts
    <3> HIDE DEF st, e
    <3>3. Kept(s, u)
      BY DEF Notify, Sessions, Kept
    <3> HIDE DEF u
    <3>4. Kept(u, RemoveIfClosed(u, c.id))
      BY <3>2, RemoveRest
    <3> QED BY <3>1, <3>2, <3>3, <3>4 DEF Kept
  <2>4. CASE c.type = "STOP_SENDING"
    <3>1. Accepted(s, c) = StopSendingAccepted(s, c)
      BY <1>2, <2>4 DEF Accepted
    <3> QED BY <2>4, <3>1, StopKeeps
  <2>5. CASE c.type = "MAX_STREAM_DATA"
    <3>1. Accepted(s, c) = MaxStreamDataAccepted(s, c) /\ c.id \in Ids
      BY <1>2, <2>5, CapsuleFields DEF Accepted
    <3> DEFINE t == CreateImplicitly(s, c.id)
    <3>2. t \in Sessions /\ Kept(s, t)
      BY <3>1, CreateImplicitlyType, ImplicitKeeps
    <3> HIDE DEF t
    <3>3. \/ MaxStreamDataAccepted(s, c) =
               [s EXCEPT !.closed_stream_send_max = MapInsert(@, c.id, c.maximum)]
          \/ MaxStreamDataAccepted(s, c) = [t EXCEPT !.streams[c.id].send_max = c.maximum]
          \/ MaxStreamDataAccepted(s, c) = t
      BY Zenon DEF MaxStreamDataAccepted, t
    <3> QED BY <3>1, <3>2, <3>3 DEF Kept, Sessions
  <2>6. CASE c.type \notin {"STREAM", "RESET_STREAM", "STOP_SENDING", "MAX_STREAM_DATA"}
    <3>1. \/ Accepted(s, c) = Notify(s, [type |-> "DatagramReceived"])
          \/ Accepted(s, c) = [s EXCEPT !.flow_control.send_max = c.maximum]
          \/ Accepted(s, c) = [s EXCEPT !.flow_control.max_streams_remote[c.bidirectional] = c.maximum]
          \/ Accepted(s, c) = Notify([s EXCEPT !.state = "Closed"], [type |-> "SessionClosed"])
          \/ Accepted(s, c) = Notify([s EXCEPT !.state = "Draining"], [type |-> "SessionDraining"])
          \/ Accepted(s, c) = s
      BY <1>2, <2>6 DEF Accepted
    <3> QED BY <3>1 DEF Kept, Notify, Sessions
  <2> QED BY <2>2, <2>3, <2>4, <2>5, <2>6
<1> QED BY <1>1, <1>2

(* The session that is kept: poll_output has taken the output.             *)
Flushed(s) == [s EXCEPT !.output = << >>]

LEMMA FlushedType ==
  ASSUME NEW s \in Sessions
  PROVE  Flushed(s) \in Sessions /\ Flushed(s).output = << >> /\ Kept(s, Flushed(s))
<1>1. << >> \in Seq(Capsules)
  OBVIOUS
<1> QED BY <1>1 DEF Flushed, Sessions, Kept

-----------------------------------------------------------------------------
(* Data in a sequence of capsules or of events.                            *)

Weighable(V, S) == S \subseteq V /\ \A x \in S : x.size \in Nat

(* The sizes of the members of S in s, 0 for everything else.              *)
Weigh(s, S) == [k \in DOMAIN s |-> IF s[k] \in S THEN s[k].size ELSE 0]

(* Each member of S in s starts where those before it end.                 *)
Placed(s, S, base) ==
  \A k \in 1 .. Len(s) : s[k] \in S => s[k].from = base + PartialSums(Weigh(s, S))[k - 1]

(* After a member of T there is no member of I.                            *)
EndsLast(s, T, I) ==
  \A k \in 1 .. Len(s) : s[k] \in T => \A j \in k + 1 .. Len(s) : s[j] \notin I

NoneOf(s, I) == \A k \in 1 .. Len(s) : s[k] \notin I

LEMMA WeighType ==
  ASSUME NEW V, NEW S, Weighable(V, S), NEW s \in Seq(V)
  PROVE  /\ Weigh(s, S) \in Seq(Nat) /\ Weigh(s, S) \in Seq(Int)
         /\ Len(Weigh(s, S)) = Len(s)
         /\ SumOf(Weigh(s, S)) \in Nat
         /\ \A k \in 0 .. Len(s) : PartialSums(Weigh(s, S))[k] \in Nat
         /\ \A k \in 1 .. Len(s) : Weigh(s, S)[k] = IF s[k] \in S THEN s[k].size ELSE 0
<1>1. DOMAIN s = 1 .. Len(s) /\ Len(s) \in Nat
  OBVIOUS
<1>2. Weigh(s, S) \in [1 .. Len(s) -> Nat]
  BY <1>1 DEF Weigh, Weighable
<1>3. Weigh(s, S) \in Seq(Nat) /\ Len(Weigh(s, S)) = Len(s)
  BY <1>1, <1>2
<1> QED BY <1>1, <1>3, SumsOfNat DEF Weigh

LEMMA WeighAppend ==
  ASSUME NEW V, NEW S, Weighable(V, S), NEW s \in Seq(V), NEW x \in V
  PROVE  LET w == IF x \in S THEN x.size ELSE 0
         IN  /\ Weigh(Append(s, x), S) = Append(Weigh(s, S), w)
             /\ SumOf(Weigh(Append(s, x), S)) = SumOf(Weigh(s, S)) + w
             /\ \A k \in 0 .. Len(s) :
                  PartialSums(Weigh(Append(s, x), S))[k] = PartialSums(Weigh(s, S))[k]
             /\ Append(s, x) \in Seq(V)
<1> DEFINE t == Append(s, x)
           w == IF x \in S THEN x.size ELSE 0
           a == Weigh(s, S)
           b == Weigh(t, S)
<1>1. /\ t \in Seq(V) /\ Len(t) = Len(s) + 1 /\ t[Len(s) + 1] = x /\ Len(s) \in Nat
      /\ \A k \in 1 .. Len(s) : t[k] = s[k]
  OBVIOUS
<1>2. /\ a \in Seq(Nat) /\ a \in Seq(Int) /\ Len(a) = Len(s)
      /\ \A k \in 1 .. Len(s) : a[k] = IF s[k] \in S THEN s[k].size ELSE 0
  BY WeighType
<1> HIDE DEF t
<1>3. /\ b \in Seq(Nat) /\ b \in Seq(Int) /\ Len(b) = Len(s) + 1
      /\ \A k \in 1 .. Len(s) + 1 : b[k] = IF t[k] \in S THEN t[k].size ELSE 0
  BY <1>1, WeighType
<1>4. w \in Nat
  BY DEF Weighable
<1> HIDE DEF t, w, a, b
<1>5. b = Append(a, w)
  <2>1. /\ Append(a, w) \in Seq(Nat) /\ Len(Append(a, w)) = Len(s) + 1
        /\ Append(a, w)[Len(s) + 1] = w /\ \A k \in 1 .. Len(s) : Append(a, w)[k] = a[k]
    BY <1>2, <1>4
  <2>2. ASSUME NEW k \in 1 .. Len(s) + 1 PROVE b[k] = Append(a, w)[k]
    <3>1. CASE k = Len(s) + 1
      BY <1>1, <1>3, <2>1, <3>1 DEF w
    <3>2. CASE k # Len(s) + 1
      <4>1. k \in 1 .. Len(s)
        BY <1>1, <3>2
      <4> QED BY <1>1, <1>2, <1>3, <2>1, <4>1
    <3> QED BY <3>1, <3>2
  <2> HIDE DEF w
  <2> DEFINE c == Append(a, w)
  <2> HIDE DEF c
  <2>3. b \in Seq(Nat) /\ c \in Seq(Nat) /\ Len(b) = Len(c) /\ \A k \in 1 .. Len(b) : b[k] = c[k]
    BY <1>3, <2>1, <2>2 DEF c
  <2>4. b = c
    BY <2>3, SeqEqual
  <2> QED BY <2>4 DEF c
<1>6. SumOf(b) = SumOf(a) + w
  BY <1>2, <1>4, <1>5, SumAppend
<1>7. ASSUME NEW k \in 0 .. Len(s) PROVE PartialSums(b)[k] = PartialSums(a)[k]
  <2>1. k \in Nat /\ k <= Len(b) /\ k <= Len(a)
    BY <1>1, <1>2, <1>3
  <2>2. \A m \in 1 .. k : b[m] = a[m]
    <3> SUFFICES ASSUME NEW m \in 1 .. k PROVE b[m] = a[m]
      OBVIOUS
    <3>1. m \in 1 .. Len(s) /\ m \in 1 .. Len(s) + 1
      BY <1>1
    <3> QED BY <1>1, <1>2, <1>3, <3>1
  <2> QED BY <1>2, <1>3, <2>1, <2>2, SamePrefix
<1> QED BY <1>1, <1>5, <1>6, <1>7 DEF t, w, a, b

LEMMA WeighTail ==
  ASSUME NEW V, NEW S, Weighable(V, S), NEW s \in Seq(V), s # << >>
  PROVE  LET w == IF Head(s) \in S THEN Head(s).size ELSE 0
         IN  /\ w \in Nat
             /\ SumOf(Weigh(s, S)) = w + SumOf(Weigh(Tail(s), S))
             /\ \A k \in 0 .. Len(s) - 1 :
                  PartialSums(Weigh(Tail(s), S))[k] = PartialSums(Weigh(s, S))[k + 1] - w
<1> DEFINE t == Tail(s)
           w == IF Head(s) \in S THEN Head(s).size ELSE 0
           a == Weigh(s, S)
           b == Weigh(t, S)
           n == Len(s) - 1
<1>1. /\ t \in Seq(V) /\ Len(t) = n /\ n \in Nat /\ Len(s) = n + 1 /\ Head(s) = s[1]
      /\ \A k \in 1 .. n : t[k] = s[k + 1]
  OBVIOUS
<1>2. /\ a \in Seq(Nat) /\ a \in Seq(Int) /\ Len(a) = Len(s)
      /\ \A k \in 1 .. Len(s) : a[k] = IF s[k] \in S THEN s[k].size ELSE 0
  BY WeighType
<1> HIDE DEF t
<1>3. /\ b \in Seq(Nat) /\ b \in Seq(Int) /\ Len(b) = Len(t)
      /\ \A k \in 1 .. Len(t) : b[k] = IF t[k] \in S THEN t[k].size ELSE 0
  BY <1>1, WeighType
<1>4. w \in Nat
  BY DEF Weighable
<1> HIDE DEF t, w, a, b, n
<1>5. a # << >> /\ Head(a) = w
  BY <1>1, <1>2 DEF w
<1>6. b = Tail(a)
  <2> DEFINE c == Tail(a)
  <2>1. c \in Seq(Nat) /\ Len(c) = n /\ \A k \in 1 .. n : c[k] = a[k + 1]
    BY <1>1, <1>2, <1>5
  <2> HIDE DEF c
  <2>3. ASSUME NEW k \in 1 .. n PROVE b[k] = c[k]
    <3>1. k \in 1 .. Len(t) /\ k + 1 \in 1 .. Len(s) /\ t[k] = s[k + 1]
      BY <1>1
    <3>2. b[k] = (IF t[k] \in S THEN t[k].size ELSE 0)
      BY <1>3, <3>1
    <3>3. a[k + 1] = (IF s[k + 1] \in S THEN s[k + 1].size ELSE 0)
      BY <1>2, <3>1
    <3> QED BY <2>1, <3>1, <3>2, <3>3
  <2>4. b = c
    BY <1>1, <1>3, <2>1, <2>3, SeqEqual
  <2> QED BY <2>4 DEF c
<1>7. SumOf(a) = w + SumOf(b)
  BY <1>2, <1>5, <1>6, SumTail
<1>8. \A k \in 0 .. Len(a) - 1 : PartialSums(Tail(a))[k] = PartialSums(a)[k + 1] - Head(a)
  BY <1>2, <1>5, PartialSumsTail
<1>9. \A k \in 0 .. Len(s) - 1 : PartialSums(b)[k] = PartialSums(a)[k + 1] - w
  BY <1>2, <1>5, <1>6, <1>8
<1> QED BY <1>4, <1>7, <1>9 DEF t, w, a, b

LEMMA PlacedAppend ==
  ASSUME NEW V, NEW S, Weighable(V, S), NEW s \in Seq(V), NEW x \in V,
         NEW base \in Int, Placed(s, S, base), x \in S => x.from = base + SumOf(Weigh(s, S))
  PROVE  Placed(Append(s, x), S, base)
<1> DEFINE t == Append(s, x)
<1>1. /\ t \in Seq(V) /\ Len(t) = Len(s) + 1 /\ t[Len(s) + 1] = x /\ Len(s) \in Nat
      /\ \A k \in 1 .. Len(s) : t[k] = s[k]
  OBVIOUS
<1>2. \A k \in 0 .. Len(s) : PartialSums(Weigh(t, S))[k] = PartialSums(Weigh(s, S))[k]
  BY WeighAppend
<1>3. PartialSums(Weigh(s, S))[Len(s)] = SumOf(Weigh(s, S))
  BY WeighType DEF SumOf
<1> HIDE DEF t
<1>4. ASSUME NEW k \in 1 .. Len(t), t[k] \in S
      PROVE  t[k].from = base + PartialSums(Weigh(t, S))[k - 1]
  <2>1. CASE k = Len(s) + 1
    <3>1. k - 1 = Len(s) /\ k - 1 \in 0 .. Len(s)
      BY <1>1, <2>1
    <3> QED BY <1>1, <1>2, <1>3, <1>4, <2>1, <3>1
  <2>2. CASE k # Len(s) + 1
    <3>1. k \in 1 .. Len(s) /\ k - 1 \in 0 .. Len(s)
      BY <1>1, <2>2
    <3> QED BY <1>1, <1>2, <1>4, <3>1 DEF Placed
  <2> QED BY <2>1, <2>2
<1> QED BY <1>4 DEF Placed, t

LEMMA PlacedTail ==
  ASSUME NEW V, NEW S, Weighable(V, S), NEW s \in Seq(V), s # << >>,
         NEW base \in Int, Placed(s, S, base)
  PROVE  Placed(Tail(s), S, base + (IF Head(s) \in S THEN Head(s).size ELSE 0))
<1> DEFINE t == Tail(s)
           w == IF Head(s) \in S THEN Head(s).size ELSE 0
           n == Len(s) - 1
<1>1. /\ t \in Seq(V) /\ Len(t) = n /\ n \in Nat /\ Len(s) = n + 1
      /\ \A k \in 1 .. n : t[k] = s[k + 1]
  OBVIOUS
<1>2. /\ w \in Nat
      /\ \A k \in 0 .. Len(s) - 1 :
           PartialSums(Weigh(t, S))[k] = PartialSums(Weigh(s, S))[k + 1] - w
  BY WeighTail
<1>3. \A k \in 0 .. Len(s) : PartialSums(Weigh(s, S))[k] \in Nat
  BY WeighType
<1> HIDE DEF t, w, n
<1>4. ASSUME NEW k \in 1 .. Len(t), t[k] \in S
      PROVE  t[k].from = base + w + PartialSums(Weigh(t, S))[k - 1]
  <2>1. /\ k + 1 \in 1 .. Len(s) /\ k - 1 \in 0 .. Len(s) - 1 /\ k - 1 + 1 = k /\ k + 1 - 1 = k
        /\ k \in 0 .. Len(s)
    BY <1>1
  <2>2. s[k + 1] = t[k]
    BY <1>1
  <2>3. s[k + 1].from = base + PartialSums(Weigh(s, S))[k]
    BY <1>4, <2>1, <2>2 DEF Placed
  <2>4. PartialSums(Weigh(t, S))[k - 1] = PartialSums(Weigh(s, S))[k] - w
    BY <1>2, <2>1
  <2> QED BY <1>2, <1>3, <2>1, <2>2, <2>3, <2>4
<1> QED BY <1>4 DEF Placed, t, w

-----------------------------------------------------------------------------
(* What each operation does to the views of the streams.                   *)

(* t keeps streams as s does.                                              *)
SameMaps(s, t) ==
  /\ t.streams = s.streams /\ t.closed_stream_send_max = s.closed_stream_send_max
  /\ t.stop_sending_received_ids = s.stop_sending_received_ids
  /\ t.next_stream_id = s.next_stream_id
  /\ t.flow_control.opened_streams = s.flow_control.opened_streams
  /\ Kept(s, t)

SameRemembered(s, t) == \A x : Remembered(t, x) <=> Remembered(s, x)

LEMMA SameViews ==
  ASSUME NEW s, NEW t, SameMaps(s, t)
  PROVE  /\ AllAlike(s, t)
         /\ SameRemembered(s, t)
         /\ SessionOK(s) => SessionOK(t)
         /\ \A x : StopSendingReceived(t, x) <=> StopSendingReceived(s, x)
<1>1. SameRemembered(s, t)
  BY DEF SameMaps, SameRemembered, Remembered, Known
<1>2. AllAlike(s, t)
  BY DEF AllAlike, SameMaps, Kept, Alike, SendAlike, SentKept, RecvAlike, Sending, Sent, Fresh,
         SendMaxOf, Receiving, Received, Granting, RecvMaxOf, Gone, Known, Remembered, InitialRecvMax,
         FirstSendMax
<1>3. SessionOK(s) => SessionOK(t)
  BY <1>1 DEF SameMaps, Kept, SessionOK, SameRemembered
<1>4. \A x : StopSendingReceived(t, x) <=> StopSendingReceived(s, x)
  BY DEF SameMaps, StopSendingReceived, Known
<1> QED BY <1>1, <1>2, <1>3, <1>4

LEMMA BecameVia ==
  ASSUME NEW s, NEW t, NEW u, NEW id, NEW st, Became(s, t, id, st), SameMaps(t, u), s.role = t.role
  PROVE  Became(s, u, id, st)
<1>1. AllAlike(t, u) /\ SameRemembered(t, u)
  BY SameViews
<1>2. \A x \in Ids \ {id} : Alike(s, u, x)
  <2> SUFFICES ASSUME NEW x \in Ids \ {id} PROVE Alike(s, u, x)
    OBVIOUS
  <2>1. Alike(s, t, x) /\ Alike(t, u, x)
    BY <1>1 DEF Became, AllAlike
  <2> QED BY <2>1, AlikeTrans
<1>3. \A x : Remembered(u, x) <=> Remembered(s, x)
  BY <1>1 DEF SameRemembered, Became
<1>4. /\ Sending(u, id) <=> Sending(t, id)
      /\ Sent(u, id) = Sent(t, id) /\ (Fresh(u, id) <=> Fresh(t, id))
      /\ SendMaxOf(u, id) = SendMaxOf(t, id)
      /\ Receiving(u, id) <=> Receiving(t, id)
      /\ Received(u, id) = Received(t, id)
      /\ Granting(u, id) <=> Granting(t, id)
      /\ Gone(u, id) <=> Gone(t, id)
      /\ RecvMaxOf(u, id) = RecvMaxOf(t, id)
      /\ Known(u, id) <=> Known(t, id)
  BY DEF SameMaps, Kept, Sending, Sent, Fresh, SendMaxOf,
         Receiving, Received, Granting, RecvMaxOf, Gone, Known, Remembered, InitialRecvMax,
         FirstSendMax
<1> QED BY <1>2, <1>3, <1>4 DEF Became

LEMMA FlushedMaps ==
  ASSUME NEW s \in Sessions
  PROVE  /\ SameMaps(s, Flushed(s))
         /\ Flushed(s).state = s.state /\ Flushed(s).flow_control = s.flow_control
         /\ Flushed(s).events = s.events
BY DEF SameMaps, Flushed, Sessions, Kept

LEMMA EmitOutput ==
  ASSUME NEW s, NEW c, "output" \in DOMAIN s, s.output = << >>
  PROVE  Emit(s, c).output = <<c>>
BY DEF Emit

(* Calls that touch no stream.                                             *)
QuietCalls(s) ==
  {Initiated(s), SendDatagram(s), Close(s), Drain(s)}
    \cup {SendMaxData(s, m) : m \in Nat}
    \cup {SendMaxStreams(s, m, b) : m \in Nat, b \in BOOLEAN}

QuietCapsules == {c \in Capsules : c.type \notin {"STREAM", "RESET_STREAM", "STOP_SENDING",
                                                 "MAX_STREAM_DATA"}}

LEMMA QuietEffect ==
  ASSUME NEW s \in Sessions, s.output = << >>, NEW t \in QuietCalls(s)
  PROVE  /\ SameMaps(s, t) /\ t.events = s.events
         /\ t.output = << >> \/ \E c \in QuietCapsules : t.output = <<c>>
<1> DEFINE Quiet(u) == /\ SameMaps(s, u) /\ u.events = s.events
                       /\ u.output = << >> \/ \E c \in QuietCapsules : u.output = <<c>>
<1>1. Quiet(Initiated(s))
  BY DEF Initiated, SameMaps, Kept, Sessions
<1>2. Quiet(SendDatagram(s))
  <2>1. [type |-> "DATAGRAM"] \in QuietCapsules
    BY DEF QuietCapsules, Capsules
  <2>2. SendDatagram(s).output = <<[type |-> "DATAGRAM"]>>
    BY DEF SendDatagram, Emit, Sessions
  <2>3. SameMaps(s, SendDatagram(s)) /\ SendDatagram(s).events = s.events
    BY DEF SendDatagram, Emit, SameMaps, Kept, Sessions
  <2> QED BY <2>1, <2>2, <2>3
<1>3. Quiet(Close(s))
  <2>1. [type |-> "CLOSE_SESSION"] \in QuietCapsules
    BY DEF QuietCapsules, Capsules
  <2>2. Close(s).output = <<[type |-> "CLOSE_SESSION"]>>
    <3> DEFINE u == [s EXCEPT !.state = "Closed"]
    <3>1. "output" \in DOMAIN u /\ u.output = << >>
      BY DEF Sessions
    <3> HIDE DEF u
    <3>2. Emit(u, [type |-> "CLOSE_SESSION"]).output = <<[type |-> "CLOSE_SESSION"]>>
      BY <3>1, EmitOutput
    <3> QED BY <3>2 DEF Close, u
  <2>3. SameMaps(s, Close(s)) /\ Close(s).events = s.events
    BY DEF Close, Emit, SameMaps, Kept, Sessions
  <2> QED BY <2>1, <2>2, <2>3
<1>4. Quiet(Drain(s))
  <2>1. [type |-> "DRAIN_SESSION"] \in QuietCapsules
    BY DEF QuietCapsules, Capsules
  <2>2. Drain(s).output = <<[type |-> "DRAIN_SESSION"]>>
    <3> DEFINE u == [s EXCEPT !.state = "Draining"]
    <3>1. "output" \in DOMAIN u /\ u.output = << >>
      BY DEF Sessions
    <3> HIDE DEF u
    <3>2. Emit(u, [type |-> "DRAIN_SESSION"]).output = <<[type |-> "DRAIN_SESSION"]>>
      BY <3>1, EmitOutput
    <3> QED BY <3>2 DEF Drain, u
  <2>3. SameMaps(s, Drain(s)) /\ Drain(s).events = s.events
    BY DEF Drain, Emit, SameMaps, Kept, Sessions
  <2> QED BY <2>1, <2>2, <2>3
<1>a. s.flow_control \in WtFlowControls
  BY DEF Sessions
<1>5. ASSUME NEW m \in Nat PROVE Quiet(SendMaxData(s, m))
  <2>1. [type |-> "MAX_DATA", maximum |-> m] \in QuietCapsules
    BY DEF QuietCapsules, Capsules
  <2>2. SendMaxData(s, m).output = <<[type |-> "MAX_DATA", maximum |-> m]>>
    <3> DEFINE u == [s EXCEPT !.flow_control.recv_max = m]
    <3>1. "output" \in DOMAIN u /\ u.output = << >>
      BY DEF Sessions
    <3> HIDE DEF u
    <3>2. Emit(u, [type |-> "MAX_DATA", maximum |-> m]).output = <<[type |-> "MAX_DATA", maximum |-> m]>>
      BY <3>1, EmitOutput
    <3> QED BY <3>2 DEF SendMaxData, u
  <2>3. SameMaps(s, SendMaxData(s, m)) /\ SendMaxData(s, m).events = s.events
    BY <1>a DEF SendMaxData, Emit, SameMaps, Kept, Sessions, WtFlowControls
  <2> QED BY <2>1, <2>2, <2>3
<1>6. ASSUME NEW m \in Nat, NEW b \in BOOLEAN PROVE Quiet(SendMaxStreams(s, m, b))
  <2>1. [type |-> "MAX_STREAMS", bidirectional |-> b, maximum |-> m] \in QuietCapsules
    BY DEF QuietCapsules, Capsules
  <2>2. SendMaxStreams(s, m, b).output = <<[type |-> "MAX_STREAMS", bidirectional |-> b, maximum |-> m]>>
    <3> DEFINE u == [s EXCEPT !.flow_control.max_streams_local[b] = m]
    <3>1. "output" \in DOMAIN u /\ u.output = << >>
      BY DEF Sessions
    <3> HIDE DEF u
    <3>2. Emit(u, [type |-> "MAX_STREAMS", bidirectional |-> b, maximum |-> m]).output =
            <<[type |-> "MAX_STREAMS", bidirectional |-> b, maximum |-> m]>>
      BY <3>1, EmitOutput
    <3> QED BY <3>2 DEF SendMaxStreams, u
  <2>3. SameMaps(s, SendMaxStreams(s, m, b)) /\ SendMaxStreams(s, m, b).events = s.events
    BY <1>a DEF SendMaxStreams, Emit, SameMaps, Kept, Sessions, WtFlowControls
  <2> QED BY <2>1, <2>2, <2>3
<1> HIDE DEF Quiet
<1>7. Quiet(t)
  BY <1>1, <1>2, <1>3, <1>4, <1>5, <1>6 DEF QuietCalls
<1> QED BY <1>7 DEF Quiet

(* Identifiers an end opens itself: bits 0 and 1 are those of the first.   *)
LEMMA LocalIds ==
  ASSUME NEW role \in Roles, NEW x \in Nat
  PROVE  /\ ~IsPeerInitiated(role, x) <=> x % 2 = (IF role = "client" THEN 0 ELSE 1)
         /\ ~IsPeerInitiated(role, x) => x % 4 = FirstId(role, IsBidirectional(x))
         /\ \A b \in BOOLEAN : x % 4 = FirstId(role, b) =>
              ~IsPeerInitiated(role, x) /\ (IsBidirectional(x) <=> b)
         /\ \A b \in BOOLEAN : FirstId(role, b) \in 0 .. 3
<1>1. role = "client" \/ role = "server"
  BY DEF Roles
<1>2. x % 2 = 0 \/ x % 2 = 1
  OBVIOUS
<1>3. ~IsPeerInitiated(role, x) <=> x % 2 = (IF role = "client" THEN 0 ELSE 1)
  BY <1>1, <1>2 DEF IsPeerInitiated, IsClientInitiated
<1>4. x % 4 = (x % 2) + 2 * ((x \div 2) % 2) /\ (x \div 2) % 2 \in 0 .. 1
  OBVIOUS
<1>5. ASSUME ~IsPeerInitiated(role, x) PROVE x % 4 = FirstId(role, IsBidirectional(x))
  BY <1>3, <1>4, <1>5 DEF FirstId, IsBidirectional
<1>6. ASSUME NEW b \in BOOLEAN, x % 4 = FirstId(role, b)
      PROVE  ~IsPeerInitiated(role, x) /\ (IsBidirectional(x) <=> b)
  BY <1>1, <1>2, <1>3, <1>4, <1>6 DEF FirstId, IsBidirectional
<1>7. \A b \in BOOLEAN : FirstId(role, b) \in 0 .. 3
  BY DEF FirstId
<1> QED BY <1>3, <1>5, <1>6, <1>7

LEMMA StopKnown ==
  ASSUME NEW s, SessionOK(s), NEW x
  PROVE  StopSendingReceived(s, x) <=> x \in s.stop_sending_received_ids
BY DEF StopSendingReceived, SessionOK, Known

(* What an operation on stream id, which leaves it as st, does not do.     *)
OnlyStream(s, t, id, st) ==
  /\ t \in Sessions /\ SessionOK(t) /\ Kept(s, t)
  /\ Became(s, t, id, st)
  /\ t.state = s.state

LEMMA OpenEffect ==
  ASSUME NEW s \in Sessions, SessionOK(s), NEW b \in BOOLEAN, CanOpen(s, b),
         s.next_stream_id[b] \in Ids
  PROVE  LET t == OpenStream(s, b)
             id == s.next_stream_id[b]
         IN  /\ t \in Sessions /\ SessionOK(t) /\ Kept(s, t)
             /\ AllAlike(s, t)
             /\ \A x : Remembered(t, x) <=> Remembered(s, x) \/ x = id
             /\ id % 4 = FirstId(s.role, b) /\ ~IsPeerInitiated(s.role, id)
             /\ (IsBidirectional(id) <=> b) /\ ~Remembered(s, id)
             /\ t.events = s.events /\ t.output = s.output /\ t.state = s.state
             /\ t.stop_sending_received_ids = s.stop_sending_received_ids
             /\ t.flow_control = [s.flow_control EXCEPT !.opened_streams[b] = @ + 1]
<1> DEFINE t == OpenStream(s, b)
           id == s.next_stream_id[b]
           send_max == IF b THEN s.peer_config.bidi_remote ELSE s.peer_config.uni
           recv_max == IF b THEN s.config.bidi_local ELSE s.config.uni
           st == NewWtStream(send_max, recv_max)
<1>1. t \in Sessions /\ Kept(s, t)
  BY OpenStreamType, CallsKeep
<1>2. t = [s EXCEPT !.next_stream_id[b] = NextId(id), !.streams = With(@, id, st),
                    !.flow_control.opened_streams[b] = @ + 1]
  BY Zenon DEF OpenStream
<1>3. /\ st.send_state = "Ready" /\ st.recv_state = "Recv"
      /\ st.send_offset = 0 /\ st.recv_offset = 0
      /\ st.stop_sending_sent = FALSE /\ st.stop_sending_received = FALSE
      /\ st.send_max = send_max /\ st.recv_max = recv_max
  BY DEF NewWtStream
<1> HIDE DEF t, st
<1>4. /\ t.streams = With(s.streams, id, st)
      /\ t.closed_stream_send_max = s.closed_stream_send_max
      /\ t.stop_sending_received_ids = s.stop_sending_received_ids
      /\ t.next_stream_id = [s.next_stream_id EXCEPT ![b] = NextId(id)]
      /\ t.flow_control = [s.flow_control EXCEPT !.opened_streams[b] = @ + 1]
      /\ t.events = s.events /\ t.output = s.output /\ t.state = s.state
  BY <1>2 DEF Sessions
<1>5. /\ DOMAIN t.streams = DOMAIN s.streams \cup {id} /\ t.streams[id] = st
      /\ \A x \in DOMAIN s.streams : x # id => t.streams[x] = s.streams[x]
  BY <1>4 DEF With
<1>6. /\ s.flow_control \in WtFlowControls /\ s.next_stream_id \in [BOOLEAN -> Nat]
      /\ s.role \in Roles
  BY DEF Sessions
<1>7. id \in Nat /\ id % 4 = FirstId(s.role, b)
  <2>1. s.flow_control.opened_streams[b] \in Nat
    BY <1>6, MaxStreamsAssumption DEF WtFlowControls
  <2>2. FirstId(s.role, b) \in 0 .. 3
    BY <1>6, LocalIds
  <2>3. id = FirstId(s.role, b) + 4 * s.flow_control.opened_streams[b]
    BY DEF SessionOK
  <2> QED BY <2>1, <2>2, <2>3
<1>8. ~IsPeerInitiated(s.role, id) /\ (IsBidirectional(id) <=> b)
  BY <1>6, <1>7, LocalIds
<1>8a. IsBidirectional(id) = b
  BY <1>8 DEF IsBidirectional
<1>9. ~Remembered(s, id)
  <2>1. Remembered(s, id) <=> id < s.next_stream_id[IsBidirectional(id)]
    BY <1>8 DEF SessionOK
  <2> QED BY <1>7, <1>8a, <2>1
<1>10. /\ \A x : Known(t, x) <=> Known(s, x) \/ x = id
       /\ \A x : Remembered(t, x) <=> Remembered(s, x) \/ x = id
  BY <1>4, <1>5 DEF Known, Remembered
<1>11. ASSUME NEW x \in Ids PROVE Alike(s, t, x)
  <2>0. /\ InitialRecvMax(t, x) = InitialRecvMax(s, x)
        /\ FirstSendMax(t, x) = FirstSendMax(s, x)
        /\ Gone(t, x) <=> Gone(s, x)
        /\ t.closed_stream_send_max = s.closed_stream_send_max
    BY <1>1, <1>4 DEF Kept, InitialRecvMax, FirstSendMax, Gone
  <2>1. CASE x # id
    <3>1. /\ Known(t, x) <=> Known(s, x)
          /\ Remembered(t, x) <=> Remembered(s, x)
          /\ Known(s, x) => t.streams[x] = s.streams[x]
      BY <1>5, <1>10, <2>1 DEF Known
    <3> QED BY <2>0, <3>1
            DEF Alike, SendAlike, SentKept, RecvAlike, Sending, Sent, Fresh, SendMaxOf, Receiving,
                Received, Granting, RecvMaxOf
  <2>2. CASE x = id
    <3>1. /\ Known(t, x) /\ ~Known(s, x) /\ ~Remembered(s, x) /\ ~Gone(s, x) /\ Remembered(t, x)
          /\ t.streams[x] = st
      BY <1>5, <1>9, <1>10, <2>2 DEF Remembered, Gone
    <3>2. st.send_max = FirstSendMax(s, x) /\ st.recv_max = InitialRecvMax(s, x)
      BY <1>3, <1>8, <2>2 DEF FirstSendMax, InitialRecvMax
    <3> QED BY <1>3, <2>0, <3>1, <3>2
            DEF Alike, SendAlike, SentKept, RecvAlike, Sending, Sent, Fresh, SendMaxOf, Receiving,
                Received, Granting, RecvMaxOf, CanSend, CanRecv
  <2> QED BY <2>1, <2>2
<1>12. SessionOK(t)
  <2>1. ASSUME NEW x \in DOMAIN t.streams
        PROVE  /\ x \notin DOMAIN t.closed_stream_send_max
               /\ t.streams[x].stop_sending_received => x \in t.stop_sending_received_ids
    <3>1. CASE x = id
      BY <1>3, <1>4, <1>5, <1>9, <3>1 DEF Remembered
    <3>2. CASE x # id
      BY <1>4, <1>5, <2>1, <3>2 DEF SessionOK
    <3> QED BY <3>1, <3>2
  <2>2. ASSUME NEW x \in Ids, ~IsPeerInitiated(t.role, x)
        PROVE  Remembered(t, x) <=> x < t.next_stream_id[IsBidirectional(x)]
    <3>1. x \in Nat /\ ~IsPeerInitiated(s.role, x) /\ IsBidirectional(x) \in BOOLEAN
      BY <1>1, <2>2, IdsAssumption DEF Kept, IsBidirectional
    <3>2. Remembered(s, x) <=> x < s.next_stream_id[IsBidirectional(x)]
      BY <3>1 DEF SessionOK
    <3>3. CASE IsBidirectional(x) # b
      <4>1. x # id
        BY <1>8a, <3>3
      <4>2. t.next_stream_id[IsBidirectional(x)] = s.next_stream_id[IsBidirectional(x)]
        BY <1>4, <1>6, <3>1, <3>3
      <4> QED BY <1>10, <3>2, <4>1, <4>2
    <3>4. CASE IsBidirectional(x) = b
      <4>1. t.next_stream_id[IsBidirectional(x)] = id + 4
        BY <1>4, <1>6, <3>4 DEF NextId
      <4>2. x % 4 = id % 4
        BY <1>6, <1>7, <3>1, <3>4, LocalIds
      <4>3. x < id + 4 <=> x < id \/ x = id
        BY <1>7, <3>1, <4>2
      <4> QED BY <1>10, <3>2, <3>4, <4>1, <4>3
    <3> QED BY <3>3, <3>4
  <2>3. ASSUME NEW a \in BOOLEAN
        PROVE  t.next_stream_id[a] = FirstId(t.role, a) + 4 * t.flow_control.opened_streams[a]
    <3>a. s.next_stream_id[a] = FirstId(s.role, a) + 4 * s.flow_control.opened_streams[a]
      BY DEF SessionOK
    <3>b. s.flow_control.opened_streams[a] \in Nat
      BY <1>6, MaxStreamsAssumption DEF WtFlowControls
    <3>c. t.role = s.role /\ FirstId(s.role, a) \in Nat
      BY <1>1, <1>6, LocalIds DEF Kept
    <3>0. /\ s.next_stream_id[a] = FirstId(s.role, a) + 4 * s.flow_control.opened_streams[a]
          /\ t.role = s.role /\ s.flow_control.opened_streams[a] \in Nat
          /\ FirstId(s.role, a) \in Nat
      BY <3>a, <3>b, <3>c
    <3>1. t.flow_control.opened_streams = [s.flow_control.opened_streams EXCEPT ![b] = @ + 1]
      BY <1>4, <1>6 DEF WtFlowControls
    <3>2. s.flow_control.opened_streams \in [BOOLEAN -> 0 .. MaxStreamsLimit]
      BY <1>6 DEF WtFlowControls
    <3>3. CASE a = b
      <4>1. t.flow_control.opened_streams[a] = s.flow_control.opened_streams[a] + 1
        BY <3>1, <3>2, <3>3
      <4>2. t.next_stream_id[a] = s.next_stream_id[a] + 4
        BY <1>4, <1>6, <3>3 DEF NextId
      <4> QED BY <3>0, <4>1, <4>2
    <3>4. CASE a # b
      <4>1. t.flow_control.opened_streams[a] = s.flow_control.opened_streams[a]
        BY <3>1, <3>2, <3>4
      <4>2. t.next_stream_id[a] = s.next_stream_id[a]
        BY <1>4, <1>6, <3>4
      <4> QED BY <3>0, <4>1, <4>2
    <3> QED BY <3>3, <3>4
  <2> QED BY <2>1, <2>2, <2>3 DEF SessionOK
<1> QED BY <1>1, <1>4, <1>7, <1>8, <1>9, <1>10, <1>11, <1>12 DEF t, AllAlike

(* send_stream_data.                                                       *)
SendsData(s, t, id, size, fin) ==
  LET st == AfterSendData(s.streams[id], size, fin)
  IN  /\ OnlyStream(s, t, id, st) /\ st \in WtStreams
      /\ id \in Ids /\ s.streams[id] \in WtStreams
      /\ t.events = s.events /\ t.output = <<StreamCapsule(s, id, size, fin)>>
      /\ t.stop_sending_received_ids = s.stop_sending_received_ids
      /\ t.flow_control = [s.flow_control EXCEPT !.send_offset = @ + size]

LEMMA DataEffect ==
  ASSUME Few, NEW s \in Sessions, SessionOK(s), s.output = << >>, NEW id, NEW size \in Nat,
         NEW fin \in BOOLEAN, CanSendStreamData(s, id, size)
  PROVE  SendsData(s, SendStreamData(s, id, size, fin), id, size, fin)
<1> DEFINE t  == SendStreamData(s, id, size, fin)
           st == AfterSendData(s.streams[id], size, fin)
           c  == StreamCapsule(s, id, size, fin)
           u  == DataSent(s, id, size, fin)
<1>1. /\ u \in Sessions /\ t \in Sessions /\ c \in Capsules
      /\ t = IF fin THEN RemoveIfClosed(u, id) ELSE u
  BY SendStreamDataType
<1>2. id \in Ids /\ s.streams[id] \in WtStreams /\ Known(s, id)
  BY KnownStream DEF CanSendStreamData
<1>3. st \in WtStreams
  BY <1>2, StreamMethods DEF CanSendStreamData
<1>4. Kept(s, t)
  BY DataKeeps
<1>5. u = Emit([s EXCEPT !.streams[id] = st, !.flow_control.send_offset = @ + size], c)
  BY DEF DataSent
<1>a. st.stop_sending_received = s.streams[id].stop_sending_received
  BY <1>2 DEF AfterSendData, WtStreams
<1> HIDE DEF u, t, c, st
<1>6. /\ u.streams = [s.streams EXCEPT ![id] = st]
      /\ u.closed_stream_send_max = s.closed_stream_send_max
      /\ u.role = s.role /\ u.config = s.config /\ u.peer_config = s.peer_config
      /\ u.next_stream_id = s.next_stream_id
      /\ u.stop_sending_received_ids = s.stop_sending_received_ids
      /\ u.flow_control = [s.flow_control EXCEPT !.send_offset = @ + size]
      /\ u.events = s.events /\ u.state = s.state
      /\ u.output = Append(s.output, c)
  BY <1>5 DEF Emit, Sessions
<1>7. u.flow_control.opened_streams = s.flow_control.opened_streams
  BY <1>6 DEF Sessions, WtFlowControls
<1>8. Stores(s, u, id, st)
  BY <1>1, <1>2, <1>6, <1>7, <1>a DEF Stores, SessionOK, Known
<1>9. Became(s, u, id, st) /\ SessionOK(u)
  BY <1>2, <1>3, <1>8, StoreViews
<1>10. LET v == RemoveIfClosed(u, id)
       IN  v \in Sessions /\ RestFields(u, v) /\ Became(s, v, id, st) /\ SessionOK(v)
  BY <1>2, <1>3, <1>8, RemoveViews
<1>11. Became(s, t, id, st) /\ SessionOK(t) /\ (t = u \/ RestFields(u, t))
  BY <1>1, <1>9, <1>10
<1>12. /\ t.events = s.events /\ t.state = s.state /\ t.output = <<c>>
       /\ t.stop_sending_received_ids = s.stop_sending_received_ids
       /\ t.flow_control = [s.flow_control EXCEPT !.send_offset = @ + size]
  BY <1>6, <1>11 DEF RestFields
<1> QED BY <1>1, <1>2, <1>3, <1>4, <1>11, <1>12 DEF SendsData, OnlyStream, t, st, c

LEMMA ResetEffect ==
  ASSUME Few, NEW s \in Sessions, SessionOK(s), s.output = << >>, NEW id, CanResetStream(s, id)
  PROVE  LET t  == ResetStream(s, id)
             st == AfterSendReset(s.streams[id])
         IN  /\ OnlyStream(s, t, id, st) /\ st \in WtStreams
             /\ id \in Ids /\ s.streams[id] \in WtStreams
             /\ t.events = s.events /\ t.output = <<ResetCapsule(s, id)>>
             /\ t.stop_sending_received_ids = s.stop_sending_received_ids
             /\ t.flow_control = s.flow_control
<1> DEFINE t  == ResetStream(s, id)
           st == AfterSendReset(s.streams[id])
           c  == ResetCapsule(s, id)
           u  == ResetSent(s, id)
<1>1. u \in Sessions /\ t \in Sessions /\ c \in Capsules /\ t = RemoveIfClosed(u, id)
  BY ResetStreamType
<1>2. id \in Ids /\ s.streams[id] \in WtStreams /\ Known(s, id)
  BY KnownStream DEF CanResetStream
<1>3. st \in WtStreams
  BY <1>2, StreamMethods
<1>4. Kept(s, t)
  BY ResetKeeps
<1>5. u = Emit([s EXCEPT !.streams[id] = st], c)
  BY DEF ResetSent
<1>a. st.stop_sending_received = s.streams[id].stop_sending_received
  BY <1>2 DEF AfterSendReset, WtStreams
<1> HIDE DEF u, t, c, st
<1>6. /\ u.streams = [s.streams EXCEPT ![id] = st]
      /\ u.closed_stream_send_max = s.closed_stream_send_max
      /\ u.role = s.role /\ u.config = s.config /\ u.peer_config = s.peer_config
      /\ u.next_stream_id = s.next_stream_id
      /\ u.stop_sending_received_ids = s.stop_sending_received_ids
      /\ u.flow_control = s.flow_control
      /\ u.events = s.events /\ u.state = s.state
      /\ u.output = Append(s.output, c)
  BY <1>5 DEF Emit, Sessions
<1>8. Stores(s, u, id, st)
  BY <1>1, <1>2, <1>6, <1>a DEF Stores, SessionOK, Known
<1>10. LET v == RemoveIfClosed(u, id)
       IN  v \in Sessions /\ RestFields(u, v) /\ Became(s, v, id, st) /\ SessionOK(v)
  BY <1>2, <1>3, <1>8, RemoveViews
<1>11. Became(s, t, id, st) /\ SessionOK(t) /\ RestFields(u, t)
  BY <1>1, <1>10
<1>12. /\ t.events = s.events /\ t.state = s.state /\ t.output = <<c>>
       /\ t.stop_sending_received_ids = s.stop_sending_received_ids
       /\ t.flow_control = s.flow_control
  BY <1>6, <1>11 DEF RestFields
<1> QED BY <1>1, <1>2, <1>3, <1>4, <1>11, <1>12 DEF OnlyStream, t, st, c

LEMMA StopEffect ==
  ASSUME NEW s \in Sessions, SessionOK(s), s.output = << >>, NEW id, CanStopSending(s, id)
  PROVE  LET t  == StopSending(s, id)
             st == [s.streams[id] EXCEPT !.stop_sending_sent = TRUE]
         IN  /\ OnlyStream(s, t, id, st) /\ st \in WtStreams
             /\ id \in Ids /\ s.streams[id] \in WtStreams
             /\ t.events = s.events /\ t.output = <<[type |-> "STOP_SENDING", id |-> id]>>
             /\ t.stop_sending_received_ids = s.stop_sending_received_ids
             /\ t.flow_control = s.flow_control
<1> DEFINE t  == StopSending(s, id)
           st == [s.streams[id] EXCEPT !.stop_sending_sent = TRUE]
           c  == [type |-> "STOP_SENDING", id |-> id]
<1>1. t \in Sessions
  BY StopSendingType
<1>2. id \in Ids /\ s.streams[id] \in WtStreams /\ Known(s, id)
  BY KnownStream DEF CanStopSending
<1>3. st \in WtStreams
  BY <1>2, StreamMethods
<1>4. Kept(s, t)
  BY CallsKeep
<1>5. t = Emit([s EXCEPT !.streams[id] = st], c)
  BY <1>2 DEF StopSending
<1>a. st.stop_sending_received = s.streams[id].stop_sending_received
  BY <1>2 DEF WtStreams
<1> HIDE DEF t, c, st
<1>6. /\ t.streams = [s.streams EXCEPT ![id] = st]
      /\ t.closed_stream_send_max = s.closed_stream_send_max
      /\ t.role = s.role /\ t.config = s.config /\ t.peer_config = s.peer_config
      /\ t.next_stream_id = s.next_stream_id
      /\ t.stop_sending_received_ids = s.stop_sending_received_ids
      /\ t.flow_control = s.flow_control
      /\ t.events = s.events /\ t.state = s.state
      /\ t.output = Append(s.output, c)
  BY <1>5 DEF Emit, Sessions
<1>8. Stores(s, t, id, st)
  BY <1>1, <1>2, <1>6, <1>a DEF Stores, SessionOK, Known
<1>9. Became(s, t, id, st) /\ SessionOK(t)
  BY <1>2, <1>3, <1>8, StoreViews
<1>10. t.output = <<c>>
  BY <1>6
<1> QED BY <1>1, <1>2, <1>3, <1>4, <1>6, <1>9, <1>10 DEF OnlyStream, t, st, c

LEMMA GrowStreamEffect ==
  ASSUME NEW s \in Sessions, SessionOK(s), s.output = << >>, NEW id, NEW m \in Nat,
         CanSendMaxStreamData(s, id, m)
  PROVE  LET t  == SendMaxStreamData(s, id, m)
             st == AfterUpdateRecvMax(s.streams[id], m)
         IN  /\ OnlyStream(s, t, id, st) /\ st \in WtStreams
             /\ id \in Ids /\ s.streams[id] \in WtStreams
             /\ t.events = s.events
             /\ t.output = <<[type |-> "MAX_STREAM_DATA", id |-> id, maximum |-> m]>>
             /\ t.stop_sending_received_ids = s.stop_sending_received_ids
             /\ t.flow_control = s.flow_control
<1> DEFINE t  == SendMaxStreamData(s, id, m)
           st == AfterUpdateRecvMax(s.streams[id], m)
           c  == [type |-> "MAX_STREAM_DATA", id |-> id, maximum |-> m]
<1>1. t \in Sessions
  BY SendMaxStreamDataType
<1>2. id \in Ids /\ s.streams[id] \in WtStreams /\ Known(s, id) /\ m \in 0 .. MaxValue
  BY KnownStream, MaxValueAssumption DEF CanSendMaxStreamData
<1>3. st \in WtStreams
  BY <1>2, StreamMethods
<1>4. Kept(s, t)
  BY CallsKeep
<1>5. t = Emit([s EXCEPT !.streams[id] = st], c)
  BY <1>2 DEF SendMaxStreamData
<1>a. st.stop_sending_received = s.streams[id].stop_sending_received
  BY <1>2 DEF AfterUpdateRecvMax, WtStreams
<1> HIDE DEF t, c, st
<1>6. /\ t.streams = [s.streams EXCEPT ![id] = st]
      /\ t.closed_stream_send_max = s.closed_stream_send_max
      /\ t.role = s.role /\ t.config = s.config /\ t.peer_config = s.peer_config
      /\ t.next_stream_id = s.next_stream_id
      /\ t.stop_sending_received_ids = s.stop_sending_received_ids
      /\ t.flow_control = s.flow_control
      /\ t.events = s.events /\ t.state = s.state
      /\ t.output = Append(s.output, c)
  BY <1>5 DEF Emit, Sessions
<1>8. Stores(s, t, id, st)
  BY <1>1, <1>2, <1>6, <1>a DEF Stores, SessionOK, Known
<1>9. Became(s, t, id, st) /\ SessionOK(t)
  BY <1>2, <1>3, <1>8, StoreViews
<1>10. t.output = <<c>>
  BY <1>6
<1> QED BY <1>1, <1>2, <1>3, <1>4, <1>6, <1>9, <1>10 DEF OnlyStream, t, st, c

(* Nothing the peer can tell happens when an event is polled.              *)
LEMMA PollEffect ==
  ASSUME Few, NEW s \in Sessions, SessionOK(s), s.events # << >>
  PROVE  LET t == PollEvent(s)
         IN  /\ t \in Sessions /\ SessionOK(t) /\ Kept(s, t)
             /\ AllAlike(s, t) /\ SameRemembered(s, t)
             /\ t.events = Tail(s.events) /\ t.output = s.output /\ t.state = s.state
             /\ t.stop_sending_received_ids = s.stop_sending_received_ids
             /\ t.flow_control = s.flow_control
<1> DEFINE e == Head(s.events)
           u == [s EXCEPT !.events = Tail(@)]
           t == PollEvent(s)
<1>1. t \in Sessions /\ e \in Events /\ u \in Sessions /\ Kept(s, t)
  BY PollEventType, PollKeeps
<1>2. SameMaps(s, u) /\ u.events = Tail(s.events) /\ u.output = s.output /\ u.state = s.state
      /\ u.flow_control = s.flow_control
  BY DEF SameMaps, Kept, Sessions
<1>3. AllAlike(s, u) /\ SameRemembered(s, u) /\ SessionOK(u)
  BY <1>2, SameViews
<1>4. CASE ~(e.type = "StreamData" /\ e.fin)
  <2>1. t = u
    BY <1>4 DEF PollEvent
  <2> QED BY <1>1, <1>2, <1>3, <2>1 DEF SameMaps
<1>5. CASE e.type = "StreamData" /\ e.fin
  <2> DEFINE id == e.id
             v  == Polled(s)
  <2>1. t = RemoveIfClosed(v, id) /\ id \in Ids /\ v \in Sessions
    BY <1>1, <1>5, PollEventType, EventFields DEF PollEvent, Polled
  <2>2. v = IF Known(u, id) THEN [u EXCEPT !.streams[id] = MarkDataRead(@)] ELSE u
    BY DEF Polled
  <2> HIDE DEF v, id, u, t, e
  <2>3. CASE ~Known(u, id)
    <3>1. v = u
      BY <2>2, <2>3
    <3>2. t = u
      BY <2>1, <2>3, <3>1 DEF RemoveIfClosed
    <3> QED BY <1>1, <1>2, <1>3, <3>2 DEF SameMaps, t
  <2>4. CASE Known(u, id)
    <3> DEFINE a == u.streams[id]
               st == MarkDataRead(a)
    <3>1. a \in WtStreams
      BY <1>1, <2>4, KnownStream
    <3>2. st \in WtStreams
      BY <3>1, StreamMethods
    <3>3. /\ st.stop_sending_received = a.stop_sending_received
          /\ st.stop_sending_sent = a.stop_sending_sent
          /\ st.send_state = a.send_state /\ st.send_offset = a.send_offset
          /\ st.recv_offset = a.recv_offset
          /\ st.send_max = a.send_max /\ st.recv_max = a.recv_max
          /\ CanRecv(st) <=> CanRecv(a)
          /\ CanSend(st) <=> CanSend(a)
      BY <3>1 DEF MarkDataRead, WtStreams, CanRecv, CanSend
    <3> HIDE DEF st
    <3>4. /\ v.streams = [u.streams EXCEPT ![id] = st]
          /\ v.closed_stream_send_max = u.closed_stream_send_max
          /\ v.role = u.role /\ v.config = u.config /\ v.peer_config = u.peer_config
          /\ v.next_stream_id = u.next_stream_id
          /\ v.stop_sending_received_ids = u.stop_sending_received_ids
          /\ v.flow_control = u.flow_control
          /\ v.events = u.events /\ v.state = u.state /\ v.output = u.output
      BY <1>1, <2>2, <2>4 DEF Sessions, st
    <3>5. Stores(u, v, id, st)
      BY <1>3, <2>1, <2>4, <3>3, <3>4 DEF Stores, SessionOK, Known
    <3>6. LET w == RemoveIfClosed(v, id)
          IN  w \in Sessions /\ RestFields(v, w) /\ Became(u, w, id, st) /\ SessionOK(w)
      BY <1>1, <1>3, <2>1, <2>4, <3>2, <3>5, RemoveViews
    <3>7. RestFields(v, t) /\ Became(u, t, id, st) /\ SessionOK(t)
      BY <2>1, <3>6
    <3>8. ASSUME NEW x \in Ids PROVE Alike(u, t, x)
      <4>1. CASE x # id
        BY <3>7, <4>1 DEF Became
      <4>2. CASE x = id
        <5>1. /\ (Sending(u, id) <=> CanSend(a)) /\ Sent(u, id) = a.send_offset
              /\ Fresh(u, id) <=> a.send_state = "Ready"
              /\ SendMaxOf(u, id) = a.send_max
              /\ Receiving(u, id) <=> CanRecv(a)
              /\ Received(u, id) = a.recv_offset
              /\ Granting(u, id) <=> ~a.stop_sending_sent
              /\ RecvMaxOf(u, id) = a.recv_max
              /\ ~Gone(u, id)
          BY <1>3, <2>4 DEF Sending, Sent, Fresh, SendMaxOf, Receiving, Received, Granting,
                            RecvMaxOf, Gone, Remembered, SessionOK, Known
        <5>2. HasSendPart(u.role, id) => SendAlike(u, t, id)
          <6> HIDE DEF a
          <6>1. SUFFICES ASSUME HasSendPart(u.role, id) PROVE SendAlike(u, t, id)
            OBVIOUS
          <6>2. /\ Sending(t, id) <=> CanSend(st)
                /\ CanSend(st) => Sent(t, id) = st.send_offset
                /\ CanSend(st) => (Fresh(t, id) <=> st.send_state = "Ready")
                /\ SendMaxOf(t, id) = st.send_max
            BY <3>7, <6>1 DEF Became
          <6>3. Sending(t, id) <=> Sending(u, id)
            BY <3>3, <5>1, <6>2
          <6>4. SendMaxOf(t, id) = SendMaxOf(u, id)
            BY <3>3, <5>1, <6>2
          <6>5. ASSUME Sending(u, id)
                PROVE  Sent(t, id) = Sent(u, id) /\ (Fresh(t, id) <=> Fresh(u, id))
            BY <3>3, <5>1, <6>2, <6>5
          <6>6. Known(t, id) => Sent(t, id) = Sent(u, id)
            BY <3>3, <3>7, <5>1, <6>1 DEF Became
          <6> QED BY <2>4, <6>3, <6>4, <6>5, <6>6 DEF SendAlike, SentKept
        <5>3. HasRecvPart(u.role, id) => RecvAlike(u, t, id)
          BY <3>3, <3>7, <5>1 DEF Became, RecvAlike
        <5> QED BY <4>2, <5>2, <5>3 DEF Alike
      <4> QED BY <4>1, <4>2
    <3>9. AllAlike(s, t)
      <4> SUFFICES ASSUME NEW x \in Ids PROVE Alike(s, t, x)
        BY DEF AllAlike
      <4>1. Alike(s, u, x) /\ Alike(u, t, x) /\ s.role = u.role
        BY <1>2, <1>3, <3>8 DEF AllAlike, SameMaps, Kept
      <4> QED BY <4>1, AlikeTrans
    <3>10. SameRemembered(s, t)
      BY <1>3, <3>7 DEF SameRemembered, Became
    <3>11. /\ t.events = Tail(s.events) /\ t.output = s.output /\ t.state = s.state
           /\ t.stop_sending_received_ids = s.stop_sending_received_ids
           /\ t.flow_control = s.flow_control
      BY <1>2, <3>4, <3>7 DEF RestFields, SameMaps
    <3> QED BY <1>1, <3>7, <3>9, <3>10, <3>11 DEF t
  <2> QED BY <2>3, <2>4
<1> QED BY <1>4, <1>5

-----------------------------------------------------------------------------
(* What each capsule does to the views of the streams.                     *)

(* A stream of the peer that a capsule brings into being, and the streams  *)
(* and events that come with it.                                           *)
CreatesFor(s, id) == IsPeerInitiated(s.role, id) /\ ~Remembered(s, id)
CreatedFor(s, id) == IF CreatesFor(s, id) THEN CreatePeerStreamsUpTo(s, id) ELSE s
MadeIds(s, id)    == IF CreatesFor(s, id) THEN NewIds(s, id) ELSE {}
MadeEvents(s, id) == IF CreatesFor(s, id) THEN OpenedEvents(s, id) ELSE << >>

(* t is s with those streams.                                              *)
MadeFor(s, t, id) ==
  /\ t \in Sessions /\ SessionOK(t) /\ Kept(s, t) /\ AllAlike(s, t)
  /\ t.state = s.state /\ t.flow_control = s.flow_control
  /\ t.closed_stream_send_max = s.closed_stream_send_max
  /\ t.stop_sending_received_ids = s.stop_sending_received_ids
  /\ t.next_stream_id = s.next_stream_id
  /\ t.output = s.output
  /\ t.events = s.events \o MadeEvents(s, id)
  /\ MadeEvents(s, id) \in Seq(Events)
  /\ \A x : Remembered(t, x) <=> Remembered(s, x) \/ x \in MadeIds(s, id)
  /\ CreatesFor(s, id) => Known(t, id)

LEMMA MadeViews ==
  ASSUME NEW s \in Sessions, SessionOK(s), NEW id \in Ids
  PROVE  MadeFor(s, CreatedFor(s, id), id)
<1> DEFINE t == CreatedFor(s, id)
<1>1. CASE CreatesFor(s, id)
  <2>1. t = CreatePeerStreamsUpTo(s, id) /\ MadeIds(s, id) = NewIds(s, id)
        /\ MadeEvents(s, id) = OpenedEvents(s, id) /\ IsPeerInitiated(s.role, id)
        /\ ~Remembered(s, id)
    BY <1>1 DEF CreatedFor, MadeIds, MadeEvents, CreatesFor
  <2> HIDE DEF t
  <2>2. /\ t \in Sessions
        /\ CreatedFields(s, t, id)
        /\ \A x : Remembered(t, x) <=> Remembered(s, x) \/ x \in NewIds(s, id)
        /\ \A x : Known(t, x) <=> Known(s, x) \/ x \in NewIds(s, id)
        /\ Remembered(s, id) \/ id \in NewIds(s, id)
        /\ AllAlike(s, t)
        /\ SessionOK(t)
    BY <2>1, CreateViews
  <2>3. OpenedEvents(s, id) \in Seq(Events)
    BY OpenedEventsType
  <2>4. Known(t, id)
    BY <2>1, <2>2
  <2>5. MadeFor(s, t, id)
    BY <2>1, <2>2, <2>3, <2>4 DEF MadeFor, CreatedFields, Kept
  <2> QED BY <2>5 DEF t
<1>2. CASE ~CreatesFor(s, id)
  <2>1. t = s /\ MadeIds(s, id) = {} /\ MadeEvents(s, id) = << >>
    BY <1>2 DEF CreatedFor, MadeIds, MadeEvents
  <2> HIDE DEF t
  <2>2. s.events \in Seq(Events) /\ s.events \o << >> = s.events /\ << >> \in Seq(Events)
    BY DEF Sessions
  <2>3. AllAlike(s, t) /\ Kept(s, t)
    BY <2>1, AlikeRefl DEF AllAlike, Kept
  <2>4. MadeFor(s, t, id)
    BY <1>2, <2>1, <2>2, <2>3 DEF MadeFor
  <2> QED BY <2>4 DEF t
<1> QED BY <1>1, <1>2

(* Only stream id has changed in the eyes of the peer.                     *)
OthersAlike(s, t, id) == \A x \in Ids \ {id} : Alike(s, t, x)

LEMMA OthersVia ==
  ASSUME NEW s, NEW t, NEW u, NEW id, AllAlike(s, t), Kept(s, t), OthersAlike(t, u, id)
  PROVE  OthersAlike(s, u, id)
<1> SUFFICES ASSUME NEW x \in Ids \ {id} PROVE Alike(s, u, x)
  BY DEF OthersAlike
<1>1. Alike(s, t, x) /\ Alike(t, u, x) /\ s.role = t.role
  BY DEF AllAlike, OthersAlike, Kept
<1> QED BY <1>1, AlikeTrans

(* The views of a stream the session holds.                                *)
LEMMA KnownViews ==
  ASSUME NEW s, SessionOK(s), NEW id, Known(s, id)
  PROVE  /\ Sending(s, id) <=> CanSend(s.streams[id])
         /\ Sent(s, id) = s.streams[id].send_offset
         /\ Fresh(s, id) <=> s.streams[id].send_state = "Ready"
         /\ SendMaxOf(s, id) = s.streams[id].send_max
         /\ Receiving(s, id) <=> CanRecv(s.streams[id])
         /\ Received(s, id) = s.streams[id].recv_offset
         /\ Granting(s, id) <=> ~s.streams[id].stop_sending_sent
         /\ RecvMaxOf(s, id) = s.streams[id].recv_max
         /\ ~Gone(s, id) /\ Remembered(s, id)
  BY DEF Sending, Sent, Fresh, SendMaxOf, Receiving, Received, Granting, RecvMaxOf, Gone,
         Remembered, SessionOK, Known

(* STREAM.                                                                 *)
TakesData(s, u, c) ==
  /\ u \in Sessions /\ SessionOK(u) /\ Kept(s, u) /\ u.state = s.state
  /\ c.id \in Ids /\ HasRecvPart(s.role, c.id)
  /\ OthersAlike(s, u, c.id)
  /\ HasSendPart(s.role, c.id) => SendAlike(s, u, c.id)
  /\ Receiving(s, c.id) /\ (Receiving(u, c.id) <=> ~c.fin)
  /\ ~c.fin => Received(u, c.id) = Received(s, c.id) + c.size
  /\ Granting(u, c.id) => Granting(s, c.id)
  /\ ~Gone(s, c.id) /\ RecvMaxOf(u, c.id) = RecvMaxOf(s, c.id)
  /\ \A x : Remembered(u, x) <=> Remembered(s, x) \/ x \in MadeIds(s, c.id)
  /\ Remembered(u, c.id)
  /\ MadeEvents(s, c.id) \in Seq(Events)
  /\ u.events = Append(s.events \o MadeEvents(s, c.id),
                       [type |-> "StreamData", id |-> c.id, from |-> c.from, size |-> c.size,
                        fin |-> c.fin])
  /\ u.output = s.output
  /\ u.stop_sending_received_ids = s.stop_sending_received_ids
  /\ u.flow_control = [s.flow_control EXCEPT !.recv_offset = @ + c.size]

LEMMA TakesDataEffect ==
  ASSUME NEW s \in Sessions, SessionOK(s), NEW c \in Capsules, c.type = "STREAM",
         ~StreamDataRefused(s, c)
  PROVE  TakesData(s, StreamDataAccepted(s, c), c)
<1> DEFINE id == c.id
           t  == WithStream(s, id)
           a  == t.streams[id]
           st == AfterRecvData(a, c.size, c.fin)
           e  == [type |-> "StreamData", id |-> c.id, from |-> c.from, size |-> c.size,
                  fin |-> c.fin]
           v  == [t EXCEPT !.streams[id] = st, !.flow_control.recv_offset = @ + c.size]
           u  == StreamDataAccepted(s, c)
<1>1. /\ id \in Ids /\ c.from \in Nat /\ c.size \in Nat /\ c.fin \in BOOLEAN
      /\ HasRecvPart(s.role, id)
      /\ Known(s, id) \/ (IsPeerInitiated(s.role, id) /\ ~Remembered(s, id))
      /\ ~Gone(s, id)
      /\ t \in Sessions /\ Known(t, id) /\ a \in WtStreams
      /\ CanRecvDataOf(a, c.size)
      /\ st \in WtStreams /\ e \in Events
      /\ u = Notify(v, e) /\ u \in Sessions
  BY StreamDataFacts
<1>2. t = CreatedFor(s, id)
  BY <1>1 DEF WithStream, CreatedFor, CreatesFor, Remembered
<1>3. MadeFor(s, t, id)
  BY <1>1, <1>2, MadeViews
<1> HIDE DEF t
<1>4. t.flow_control \in WtFlowControls /\ t.streams \in Maps(WtStreams)
  BY <1>1 DEF Sessions
<1>5. /\ st.recv_offset = a.recv_offset + c.size /\ (CanRecv(st) <=> ~c.fin)
      /\ CanRecv(a)
      /\ st.send_state = a.send_state /\ st.send_offset = a.send_offset
      /\ st.send_max = a.send_max /\ st.recv_max = a.recv_max
  BY <1>1 DEF AfterRecvData, WtStreams, CanRecv, CanRecvDataOf
<1>5a. st.stop_sending_sent = a.stop_sending_sent
  BY <1>1 DEF AfterRecvData, WtStreams
<1>5b. st.stop_sending_received = a.stop_sending_received
  BY <1>1 DEF AfterRecvData, WtStreams
<1> HIDE DEF st, e
<1>6. /\ v.streams = [t.streams EXCEPT ![id] = st]
      /\ v.flow_control = [t.flow_control EXCEPT !.recv_offset = @ + c.size]
      /\ v.closed_stream_send_max = t.closed_stream_send_max
      /\ v.role = t.role /\ v.config = t.config /\ v.peer_config = t.peer_config
      /\ v.next_stream_id = t.next_stream_id
      /\ v.stop_sending_received_ids = t.stop_sending_received_ids
      /\ v.events = t.events /\ v.state = t.state /\ v.output = t.output
      /\ DOMAIN v = DOMAIN t
  BY <1>1 DEF Sessions
<1>6a. DOMAIN t = {"role", "config", "peer_config", "state", "streams", "closed_stream_send_max",
                   "stop_sending_received_ids", "flow_control", "next_stream_id", "events", "output"}
  BY <1>1 DEF Sessions
<1> HIDE DEF v, u
<1>7. /\ u.streams = v.streams /\ u.flow_control = v.flow_control
      /\ u.closed_stream_send_max = v.closed_stream_send_max
      /\ u.role = v.role /\ u.config = v.config /\ u.peer_config = v.peer_config
      /\ u.next_stream_id = v.next_stream_id
      /\ u.stop_sending_received_ids = v.stop_sending_received_ids
      /\ u.events = Append(v.events, e) /\ u.state = v.state /\ u.output = v.output
  BY <1>1, <1>6, <1>6a DEF Notify
<1>8. u.flow_control.opened_streams = t.flow_control.opened_streams
  BY <1>4, <1>6, <1>7 DEF WtFlowControls
<1>9. st.stop_sending_received => id \in u.stop_sending_received_ids
  BY <1>1, <1>3, <1>5b, <1>6, <1>7 DEF MadeFor, SessionOK, Known
<1>10. Stores(t, u, id, st)
  BY <1>1, <1>6, <1>7, <1>8, <1>9 DEF Stores
<1>11. Became(t, u, id, st) /\ SessionOK(u)
  BY <1>1, <1>3, <1>10, StoreViews DEF MadeFor
<1>12. SessionOK(t) /\ Kept(s, t) /\ AllAlike(s, t)
  BY <1>3 DEF MadeFor
<1>13. /\ Sending(t, id) <=> CanSend(a)
       /\ Sent(t, id) = a.send_offset
       /\ Fresh(t, id) <=> a.send_state = "Ready"
       /\ SendMaxOf(t, id) = a.send_max
       /\ Receiving(t, id) <=> CanRecv(a)
       /\ Received(t, id) = a.recv_offset
       /\ Granting(t, id) <=> ~a.stop_sending_sent
       /\ RecvMaxOf(t, id) = a.recv_max
       /\ ~Gone(t, id) /\ Remembered(t, id)
  BY <1>1, <1>12, KnownViews
<1> HIDE DEF a
<1>14. OthersAlike(t, u, id)
  BY <1>11 DEF Became, OthersAlike
<1>15. OthersAlike(s, u, id)
  BY <1>12, <1>14, OthersVia
<1>16. Alike(s, t, id) /\ s.role = t.role
  BY <1>1, <1>12 DEF AllAlike, Kept
<1>17. ASSUME HasSendPart(s.role, id) PROVE SendAlike(s, u, id)
  <2>1. SendAlike(t, u, id)
    <3>1. CanSend(st) <=> CanSend(a)
      BY <1>5 DEF CanSend
    <3>2. (Sending(u, id) <=> CanSend(st)) /\ SendMaxOf(u, id) = st.send_max
      BY <1>11, <1>16, <1>17 DEF Became
    <3>3. CanSend(st) => Sent(u, id) = st.send_offset /\ (Fresh(u, id) <=> st.send_state = "Ready")
      BY <1>11, <1>16, <1>17 DEF Became
    <3>4. Known(u, id) => Sent(u, id) = st.send_offset
      BY <1>11, <1>16, <1>17 DEF Became
    <3> QED BY <1>1, <1>5, <1>13, <3>1, <3>2, <3>3, <3>4 DEF SendAlike, SentKept
  <2>2. SendAlike(s, t, id)
    BY <1>16, <1>17 DEF Alike
  <2> QED BY <2>1, <2>2 DEF SendAlike, SentKept
<1>18. RecvAlike(s, t, id)
  BY <1>1, <1>16 DEF Alike
<1>19. /\ (Receiving(u, id) <=> CanRecv(st))
       /\ CanRecv(st) => Received(u, id) = st.recv_offset
       /\ Granting(u, id) => ~st.stop_sending_sent
       /\ Gone(u, id) \/ RecvMaxOf(u, id) = st.recv_max
  BY <1>1, <1>11, <1>16 DEF Became
<1>20. Receiving(s, id) /\ Received(t, id) = Received(s, id) /\ RecvMaxOf(t, id) = RecvMaxOf(s, id)
  BY <1>5, <1>13, <1>18 DEF RecvAlike
<1>21. Receiving(u, id) <=> ~c.fin
  BY <1>5, <1>19
<1>22. ~c.fin => Received(u, id) = Received(s, id) + c.size
  BY <1>5, <1>13, <1>19, <1>20
<1>23. Granting(u, id) => Granting(s, id)
  BY <1>5a, <1>13, <1>18, <1>19 DEF RecvAlike
<1>24. RecvMaxOf(u, id) = RecvMaxOf(s, id)
  BY <1>5, <1>6, <1>7, <1>13, <1>19, <1>20 DEF Gone
<1>25. \A x : Remembered(u, x) <=> Remembered(s, x) \/ x \in MadeIds(s, id)
  BY <1>3, <1>11 DEF MadeFor, Became
<1>26. Remembered(u, id)
  BY <1>11, <1>13 DEF Became
<1>27. u.flow_control = [s.flow_control EXCEPT !.recv_offset = @ + c.size]
  BY <1>3, <1>6, <1>7 DEF MadeFor
<1>28. /\ MadeEvents(s, id) \in Seq(Events)
       /\ u.events = Append(s.events \o MadeEvents(s, id), e)
       /\ u.output = s.output /\ u.state = s.state
       /\ u.stop_sending_received_ids = s.stop_sending_received_ids
       /\ Kept(s, u)
  BY <1>3, <1>6, <1>7, <1>12 DEF MadeFor, Kept
<1> QED BY <1>1, <1>11, <1>15, <1>17, <1>20, <1>21, <1>22, <1>23, <1>24, <1>25, <1>26, <1>27, <1>28
        DEF TakesData, u, e

(* RESET_STREAM.                                                           *)
TakesReset(s, u, c) ==
  /\ u \in Sessions /\ SessionOK(u) /\ Kept(s, u) /\ u.state = s.state
  /\ c.id \in Ids /\ HasRecvPart(s.role, c.id)
  /\ OthersAlike(s, u, c.id)
  /\ HasSendPart(s.role, c.id) => SendAlike(s, u, c.id)
  /\ Receiving(s, c.id) /\ ~Receiving(u, c.id)
  /\ Granting(u, c.id) => Granting(s, c.id)
  /\ ~Gone(s, c.id) /\ (Gone(u, c.id) \/ RecvMaxOf(u, c.id) = RecvMaxOf(s, c.id))
  /\ SameRemembered(s, u) /\ Remembered(u, c.id)
  /\ u.events = Append(s.events, [type |-> "StreamReset", id |-> c.id])
  /\ u.output = s.output
  /\ u.stop_sending_received_ids = s.stop_sending_received_ids
  /\ u.flow_control = s.flow_control

LEMMA TakesResetEffect ==
  ASSUME Few, NEW s \in Sessions, SessionOK(s), NEW c \in Capsules, c.type = "RESET_STREAM",
         ~ResetStreamRefused(s, c)
  PROVE  TakesReset(s, ResetStreamAccepted(s, c), c)
<1> DEFINE id == c.id
           a  == s.streams[id]
           st == AfterRecvReset(a)
           e  == [type |-> "StreamReset", id |-> c.id]
           w  == [s EXCEPT !.streams[id] = st]
           v  == Notify(w, e)
           u  == ResetStreamAccepted(s, c)
<1>1. /\ id \in Ids /\ Known(s, id) /\ CanRecv(a)
      /\ HasRecvPart(s.role, id) /\ a \in WtStreams
      /\ st \in WtStreams /\ e \in Events /\ v \in Sessions
      /\ u = RemoveIfClosed(v, id)
  BY ResetStreamFacts
<1>2. /\ ~CanRecv(st)
      /\ st.send_state = a.send_state /\ st.send_offset = a.send_offset
      /\ st.send_max = a.send_max /\ st.recv_max = a.recv_max
  BY <1>1 DEF AfterRecvReset, WtStreams, CanRecv
<1>2a. st.stop_sending_sent = a.stop_sending_sent
  BY <1>1 DEF AfterRecvReset, WtStreams
<1>2b. st.stop_sending_received = a.stop_sending_received
  BY <1>1 DEF AfterRecvReset, WtStreams
<1> HIDE DEF st, e
<1>3. /\ w.streams = [s.streams EXCEPT ![id] = st]
      /\ w.flow_control = s.flow_control
      /\ w.closed_stream_send_max = s.closed_stream_send_max
      /\ w.role = s.role /\ w.config = s.config /\ w.peer_config = s.peer_config
      /\ w.next_stream_id = s.next_stream_id
      /\ w.stop_sending_received_ids = s.stop_sending_received_ids
      /\ w.events = s.events /\ w.state = s.state /\ w.output = s.output
      /\ DOMAIN w = DOMAIN s
  BY DEF Sessions
<1>4. DOMAIN s = {"role", "config", "peer_config", "state", "streams", "closed_stream_send_max",
                  "stop_sending_received_ids", "flow_control", "next_stream_id", "events", "output"}
  BY DEF Sessions
<1> HIDE DEF w
<1>5. /\ v.streams = w.streams /\ v.flow_control = w.flow_control
      /\ v.closed_stream_send_max = w.closed_stream_send_max
      /\ v.role = w.role /\ v.config = w.config /\ v.peer_config = w.peer_config
      /\ v.next_stream_id = w.next_stream_id
      /\ v.stop_sending_received_ids = w.stop_sending_received_ids
      /\ v.events = Append(w.events, e) /\ v.state = w.state /\ v.output = w.output
  BY <1>3, <1>4 DEF Notify
<1> HIDE DEF v, u
<1>6. st.stop_sending_received => id \in v.stop_sending_received_ids
  BY <1>1, <1>2b, <1>3, <1>5 DEF SessionOK, Known
<1>7. Stores(s, v, id, st)
  BY <1>1, <1>3, <1>5, <1>6 DEF Stores
<1>8. LET t == RemoveIfClosed(v, id)
      IN  t \in Sessions /\ RestFields(v, t) /\ Became(s, t, id, st) /\ SessionOK(t)
  BY <1>1, <1>7, RemoveViews
<1>9. u \in Sessions /\ RestFields(v, u) /\ Became(s, u, id, st) /\ SessionOK(u)
  BY <1>1, <1>8
<1>10. /\ Sending(s, id) <=> CanSend(a)
       /\ Sent(s, id) = a.send_offset
       /\ Fresh(s, id) <=> a.send_state = "Ready"
       /\ SendMaxOf(s, id) = a.send_max
       /\ Receiving(s, id) <=> CanRecv(a)
       /\ Granting(s, id) <=> ~a.stop_sending_sent
       /\ RecvMaxOf(s, id) = a.recv_max
       /\ ~Gone(s, id) /\ Remembered(s, id)
  BY <1>1, KnownViews
<1> HIDE DEF a
<1>11. OthersAlike(s, u, id) /\ SameRemembered(s, u) /\ Remembered(u, id)
  BY <1>9, <1>10 DEF Became, OthersAlike, SameRemembered
<1>12. ASSUME HasSendPart(s.role, id) PROVE SendAlike(s, u, id)
  <2>1. CanSend(st) <=> CanSend(a)
    BY <1>2 DEF CanSend
  <2>2. (Sending(u, id) <=> CanSend(st)) /\ SendMaxOf(u, id) = st.send_max
    BY <1>9, <1>12 DEF Became
  <2>3. CanSend(st) => Sent(u, id) = st.send_offset /\ (Fresh(u, id) <=> st.send_state = "Ready")
    BY <1>9, <1>12 DEF Became
  <2>4. Known(u, id) => Sent(u, id) = st.send_offset
    BY <1>9, <1>12 DEF Became
  <2> QED BY <1>1, <1>2, <1>10, <2>1, <2>2, <2>3, <2>4 DEF SendAlike, SentKept
<1>13. /\ (Receiving(u, id) <=> CanRecv(st))
       /\ Granting(u, id) => ~st.stop_sending_sent
       /\ Gone(u, id) \/ RecvMaxOf(u, id) = st.recv_max
  BY <1>1, <1>9 DEF Became
<1>14. ~Receiving(u, id) /\ Receiving(s, id)
  BY <1>1, <1>2, <1>10, <1>13
<1>15. Granting(u, id) => Granting(s, id)
  BY <1>2a, <1>10, <1>13
<1>16. Gone(u, id) \/ RecvMaxOf(u, id) = RecvMaxOf(s, id)
  BY <1>2, <1>10, <1>13
<1>17. /\ u.events = Append(s.events, e)
       /\ u.output = s.output /\ u.state = s.state
       /\ u.stop_sending_received_ids = s.stop_sending_received_ids
       /\ u.flow_control = s.flow_control
       /\ Kept(s, u)
  BY <1>3, <1>5, <1>9 DEF RestFields, Kept
<1> QED BY <1>1, <1>9, <1>10, <1>11, <1>12, <1>14, <1>15, <1>16, <1>17 DEF TakesReset, u, e

(* The answer to STOP_SENDING and the capsules that create a stream: what  *)
(* is there to send on.                                                    *)
LEMMA ImplicitFor ==
  ASSUME NEW s, NEW id, ~IsReceiveOnly(s, id)
  PROVE  /\ CreateImplicitly(s, id) = CreatedFor(s, id)
         /\ HasSendPart(s.role, id)
         /\ CreatesImplicitly(s, id) <=> CreatesFor(s, id)
<1>1. CreatesImplicitly(s, id) <=> CreatesFor(s, id)
  BY DEF CreatesImplicitly, CreatesFor, IsReceiveOnly
<1> QED BY <1>1 DEF CreateImplicitly, CreatedFor, HasSendPart, IsReceiveOnly

LEMMA LocalRemembered ==
  ASSUME NEW s \in Sessions, SessionOK(s), NEW id \in Ids, ~IsUncreatedLocal(s, id),
         NEW t, MadeFor(s, t, id)
  PROVE  Remembered(t, id)
<1>1. CASE IsPeerInitiated(s.role, id)
  BY <1>1 DEF MadeFor, CreatesFor, Remembered
<1>2. CASE ~IsPeerInitiated(s.role, id)
  <2>1. s.next_stream_id[IsBidirectional(id)] \in Nat /\ id \in Nat
    BY IdsAssumption DEF Sessions, IsBidirectional
  <2>2. id < s.next_stream_id[IsBidirectional(id)]
    BY <1>2, <2>1 DEF IsUncreatedLocal
  <2>3. Remembered(s, id)
    BY <1>2, <2>2 DEF SessionOK
  <2> QED BY <2>3 DEF MadeFor
<1> QED BY <1>1, <1>2

(* The stream is marked, which the peer cannot tell.                       *)
Marked(t, v, id) ==
  /\ v \in Sessions /\ SessionOK(v) /\ Kept(t, v)
  /\ AllAlike(t, v) /\ SameRemembered(t, v)
  /\ v.state = t.state /\ v.flow_control = t.flow_control
  /\ v.events = t.events /\ v.output = t.output
  /\ v.stop_sending_received_ids = t.stop_sending_received_ids \cup {id}

LEMMA StopMarkedEffect ==
  ASSUME Few, NEW s \in Sessions, NEW t \in Sessions, SessionOK(t), NEW id \in Ids,
         t = CreateImplicitly(s, id), StopMarked(s, id) \in Sessions
  PROVE  Marked(t, StopMarked(s, id), id)
<1> DEFINE v == StopMarked(s, id)
<1>1. t.stop_sending_received_ids \in SUBSET Ids
  BY DEF Sessions
<1>2. SetInsert(t.stop_sending_received_ids, id) = t.stop_sending_received_ids \cup {id}
  BY <1>1, SetInsertKeeps
<1>3. CASE Known(t, id)
  <2> DEFINE a  == t.streams[id]
             st == [a EXCEPT !.stop_sending_received = TRUE]
             u  == [t EXCEPT !.streams[id].stop_sending_received = TRUE]
  <2>1. a \in WtStreams
    BY <1>3, KnownStream
  <2>2. st \in WtStreams
    BY <2>1, StreamMethods
  <2>3. v = [u EXCEPT !.stop_sending_received_ids = SetInsert(@, id)]
    BY <1>3 DEF StopMarked
  <2>4. /\ u.streams = [t.streams EXCEPT ![id] = st]
        /\ u.closed_stream_send_max = t.closed_stream_send_max
        /\ u.role = t.role /\ u.config = t.config /\ u.peer_config = t.peer_config
        /\ u.next_stream_id = t.next_stream_id /\ u.flow_control = t.flow_control
        /\ u.stop_sending_received_ids = t.stop_sending_received_ids
        /\ u.events = t.events /\ u.state = t.state /\ u.output = t.output
        /\ DOMAIN u = DOMAIN t
    BY DEF Sessions
  <2>4a. DOMAIN t = {"role", "config", "peer_config", "state", "streams", "closed_stream_send_max",
                  "stop_sending_received_ids", "flow_control", "next_stream_id", "events", "output"}
    BY DEF Sessions
  <2>5. /\ st.recv_state = a.recv_state /\ st.recv_offset = a.recv_offset
        /\ st.send_state = a.send_state /\ st.send_offset = a.send_offset
        /\ st.send_max = a.send_max /\ st.recv_max = a.recv_max
    BY <2>1 DEF WtStreams
  <2>6. st.stop_sending_sent = a.stop_sending_sent
    BY <2>1 DEF WtStreams
  <2> HIDE DEF u, st, v
  <2>7. /\ v.streams = [t.streams EXCEPT ![id] = st]
        /\ v.closed_stream_send_max = t.closed_stream_send_max
        /\ v.role = t.role /\ v.config = t.config /\ v.peer_config = t.peer_config
        /\ v.next_stream_id = t.next_stream_id /\ v.flow_control = t.flow_control
        /\ v.stop_sending_received_ids = t.stop_sending_received_ids \cup {id}
        /\ v.events = t.events /\ v.state = t.state /\ v.output = t.output
    BY <1>2, <2>3, <2>4, <2>4a
  <2>8. Stores(t, v, id, st)
    BY <2>7 DEF Stores, v
  <2>9. Became(t, v, id, st) /\ SessionOK(v)
    BY <1>3, <2>2, <2>8, StoreViews
  <2>10. /\ Sending(t, id) <=> CanSend(a)
         /\ Sent(t, id) = a.send_offset
         /\ Fresh(t, id) <=> a.send_state = "Ready"
         /\ SendMaxOf(t, id) = a.send_max
         /\ Receiving(t, id) <=> CanRecv(a)
         /\ Received(t, id) = a.recv_offset
         /\ Granting(t, id) <=> ~a.stop_sending_sent
         /\ RecvMaxOf(t, id) = a.recv_max
         /\ ~Gone(t, id) /\ Remembered(t, id)
    BY <1>3, KnownViews
  <2>11. (CanSend(st) <=> CanSend(a)) /\ (CanRecv(st) <=> CanRecv(a))
    BY <2>5 DEF CanSend, CanRecv
  <2> HIDE DEF a
  <2>12. HasSendPart(t.role, id) => SendAlike(t, v, id)
    <3>1. SUFFICES ASSUME HasSendPart(t.role, id) PROVE SendAlike(t, v, id)
      OBVIOUS
    <3>2. (Sending(v, id) <=> CanSend(st)) /\ SendMaxOf(v, id) = st.send_max
      BY <2>9, <3>1 DEF Became
    <3>3. CanSend(st) => Sent(v, id) = st.send_offset /\ (Fresh(v, id) <=> st.send_state = "Ready")
      BY <2>9, <3>1 DEF Became
    <3>4. Known(v, id) => Sent(v, id) = st.send_offset
      BY <2>9, <3>1 DEF Became
    <3> QED BY <1>3, <2>5, <2>10, <2>11, <3>2, <3>3, <3>4 DEF SendAlike, SentKept
  <2>13. HasRecvPart(t.role, id) => RecvAlike(t, v, id)
    <3>1. SUFFICES ASSUME HasRecvPart(t.role, id) PROVE RecvAlike(t, v, id)
      OBVIOUS
    <3>2. /\ (Receiving(v, id) <=> CanRecv(st))
          /\ CanRecv(st) => Received(v, id) = st.recv_offset
          /\ Gone(v, id) \/ RecvMaxOf(v, id) = st.recv_max
      BY <2>9, <3>1 DEF Became
    <3>3. Granting(v, id) => Granting(t, id)
      BY <2>6, <2>9, <2>10, <3>1 DEF Became
    <3> QED BY <2>5, <2>10, <2>11, <3>2, <3>3 DEF RecvAlike
  <2>14. AllAlike(t, v)
    <3> SUFFICES ASSUME NEW x \in Ids PROVE Alike(t, v, x)
      BY DEF AllAlike
    <3> QED BY <2>9, <2>12, <2>13 DEF Became, Alike
  <2>15. SameRemembered(t, v)
    BY <2>9 DEF Became, SameRemembered
  <2> QED BY <2>7, <2>9, <2>14, <2>15 DEF Marked, Kept, v
<1>4. CASE ~Known(t, id)
  <2>1. v = [t EXCEPT !.stop_sending_received_ids = SetInsert(@, id)]
    BY <1>4 DEF StopMarked
  <2> HIDE DEF v
  <2>2. /\ v.streams = t.streams
        /\ v.closed_stream_send_max = t.closed_stream_send_max
        /\ v.role = t.role /\ v.config = t.config /\ v.peer_config = t.peer_config
        /\ v.next_stream_id = t.next_stream_id /\ v.flow_control = t.flow_control
        /\ v.stop_sending_received_ids = t.stop_sending_received_ids \cup {id}
        /\ v.events = t.events /\ v.state = t.state /\ v.output = t.output
    BY <1>2, <2>1 DEF Sessions
  <2>3. SameRemembered(t, v)
    BY <2>2 DEF SameRemembered, Remembered, Known
  <2>4. AllAlike(t, v)
    BY <2>2 DEF AllAlike, Alike, SendAlike, SentKept, RecvAlike, Sending, Sent, Fresh, SendMaxOf,
           Receiving, Received, Granting, RecvMaxOf, Gone, Known, Remembered, InitialRecvMax,
           FirstSendMax
  <2>5. SessionOK(v)
    BY <2>2, <2>3 DEF SessionOK, SameRemembered
  <2> QED BY <2>2, <2>3, <2>4, <2>5 DEF Marked, Kept, v
<1> QED BY <1>3, <1>4

(* The reset that answers it, if there is still something to reset.        *)
Answered(v, w, id) ==
  /\ w \in Sessions /\ SessionOK(w) /\ Kept(v, w)
  /\ OthersAlike(v, w, id) /\ SameRemembered(v, w)
  /\ HasRecvPart(v.role, id) => RecvAlike(v, w, id)
  /\ ~Sending(w, id) /\ SendMaxOf(w, id) = SendMaxOf(v, id) /\ SentKept(v, w, id)
  /\ w.output = IF Sending(v, id)
                THEN <<[type |-> "RESET_STREAM", id |-> id, reliable_size |-> Sent(v, id)]>>
                ELSE << >>
  /\ w.state = v.state /\ w.flow_control = v.flow_control /\ w.events = v.events
  /\ w.stop_sending_received_ids = v.stop_sending_received_ids

LEMMA AnswerEffect ==
  ASSUME Few, NEW v \in Sessions, SessionOK(v), v.output = << >>, NEW id \in Ids,
         HasSendPart(v.role, id), Remembered(v, id)
  PROVE  Answered(v, IF CanResetStream(v, id) THEN ResetStream(v, id) ELSE v, id)
<1>1. CASE CanResetStream(v, id)
  <2> DEFINE w  == ResetStream(v, id)
             a  == v.streams[id]
             st == AfterSendReset(a)
  <2>1. /\ OnlyStream(v, w, id, st) /\ st \in WtStreams /\ a \in WtStreams
        /\ w.events = v.events /\ w.output = <<ResetCapsule(v, id)>>
        /\ w.stop_sending_received_ids = v.stop_sending_received_ids
        /\ w.flow_control = v.flow_control
    BY <1>1, ResetEffect
  <2>2. Known(v, id) /\ CanSend(a)
    BY <1>1 DEF CanResetStream
  <2>3. /\ ~CanSend(st)
        /\ st.recv_state = a.recv_state /\ st.recv_offset = a.recv_offset
        /\ st.send_max = a.send_max /\ st.recv_max = a.recv_max
        /\ st.send_offset = a.send_offset
    BY <2>1 DEF AfterSendReset, WtStreams, CanSend
  <2>4. st.stop_sending_sent = a.stop_sending_sent
    BY <2>1 DEF AfterSendReset, WtStreams
  <2>5. /\ Sending(v, id) <=> CanSend(a)
        /\ Sent(v, id) = a.send_offset
        /\ SendMaxOf(v, id) = a.send_max
        /\ Receiving(v, id) <=> CanRecv(a)
        /\ Received(v, id) = a.recv_offset
        /\ Granting(v, id) <=> ~a.stop_sending_sent
        /\ RecvMaxOf(v, id) = a.recv_max
        /\ ~Gone(v, id)
    BY <2>2, KnownViews
  <2>6. w.output = <<[type |-> "RESET_STREAM", id |-> id, reliable_size |-> Sent(v, id)]>>
    BY <2>1, <2>5 DEF ResetCapsule
  <2>7. CanRecv(st) <=> CanRecv(a)
    BY <2>3 DEF CanRecv
  <2> HIDE DEF w, st, a
  <2>8. Became(v, w, id, st) /\ w \in Sessions /\ SessionOK(w) /\ Kept(v, w) /\ w.state = v.state
    BY <2>1 DEF OnlyStream
  <2>9. ~Sending(w, id) /\ SendMaxOf(w, id) = SendMaxOf(v, id)
    <3>1. (Sending(w, id) <=> CanSend(st)) /\ SendMaxOf(w, id) = st.send_max
      BY <2>8 DEF Became
    <3> QED BY <2>3, <2>5, <3>1
  <2>9a. SentKept(v, w, id)
    BY <2>2, <2>3, <2>5, <2>8 DEF Became, SentKept
  <2>10. HasRecvPart(v.role, id) => RecvAlike(v, w, id)
    <3>1. SUFFICES ASSUME HasRecvPart(v.role, id) PROVE RecvAlike(v, w, id)
      OBVIOUS
    <3>2. /\ (Receiving(w, id) <=> CanRecv(st))
          /\ CanRecv(st) => Received(w, id) = st.recv_offset
          /\ Gone(w, id) \/ RecvMaxOf(w, id) = st.recv_max
      BY <2>8, <3>1 DEF Became
    <3>3. Granting(w, id) => Granting(v, id)
      BY <2>4, <2>5, <2>8, <3>1 DEF Became
    <3> QED BY <2>3, <2>5, <2>7, <3>2, <3>3 DEF RecvAlike
  <2>11. OthersAlike(v, w, id) /\ SameRemembered(v, w)
    BY <2>8 DEF Became, OthersAlike, SameRemembered
  <2>12. Answered(v, w, id)
    BY <2>1, <2>2, <2>5, <2>6, <2>8, <2>9, <2>9a, <2>10, <2>11 DEF Answered
  <2> QED BY <1>1, <2>12 DEF w
<1>2. CASE ~CanResetStream(v, id)
  <2>1. ~Sending(v, id)
    BY <1>2 DEF CanResetStream, Sending
  <2>2. OthersAlike(v, v, id) /\ SameRemembered(v, v)
        /\ (HasRecvPart(v.role, id) => RecvAlike(v, v, id)) /\ Kept(v, v)
    BY AlikeRefl DEF OthersAlike, SameRemembered, Alike, Kept
  <2>3. Answered(v, v, id)
    BY <2>1, <2>2 DEF Answered, SentKept
  <2> QED BY <1>2, <2>3
<1> QED BY <1>1, <1>2

(* STOP_SENDING.                                                           *)
TakesStop(s, u, c) ==
  /\ u \in Sessions /\ SessionOK(u) /\ Kept(s, u) /\ u.state = s.state
  /\ c.id \in Ids /\ HasSendPart(s.role, c.id)
  /\ OthersAlike(s, u, c.id)
  /\ HasRecvPart(s.role, c.id) => RecvAlike(s, u, c.id)
  /\ ~Sending(u, c.id) /\ SendMaxOf(u, c.id) = SendMaxOf(s, c.id) /\ SentKept(s, u, c.id)
  /\ \A x : Remembered(u, x) <=> Remembered(s, x) \/ x \in MadeIds(s, c.id)
  /\ Remembered(u, c.id)
  /\ MadeEvents(s, c.id) \in Seq(Events)
  /\ u.events = Append(s.events \o MadeEvents(s, c.id), [type |-> "StopSending", id |-> c.id])
  /\ u.output = IF Sending(s, c.id)
                THEN <<[type |-> "RESET_STREAM", id |-> c.id, reliable_size |-> Sent(s, c.id)]>>
                ELSE << >>
  /\ c.id \notin s.stop_sending_received_ids
  /\ u.stop_sending_received_ids = s.stop_sending_received_ids \cup {c.id}
  /\ u.flow_control = s.flow_control

LEMMA TakesStopEffect ==
  ASSUME Few, NEW s \in Sessions, SessionOK(s), s.output = << >>, NEW c \in Capsules,
         c.type = "STOP_SENDING", ~StopSendingRefused(s, c)
  PROVE  TakesStop(s, StopSendingAccepted(s, c), c)
<1> DEFINE id == c.id
           t  == CreateImplicitly(s, id)
           v  == StopMarked(s, id)
           w  == StopAnswer(s, id)
           e  == [type |-> "StopSending", id |-> id]
           u  == StopSendingAccepted(s, c)
<1>1. /\ id \in Ids /\ v \in Sessions /\ w \in Sessions /\ e \in Events
      /\ u = Notify(w, e) /\ u \in Sessions
  BY StopSendingFacts
<1>2. ~IsReceiveOnly(s, id) /\ ~IsUncreatedLocal(s, id) /\ ~StopSendingReceived(s, id)
  BY DEF StopSendingRefused
<1>3. t = CreatedFor(s, id) /\ HasSendPart(s.role, id)
  BY <1>2, ImplicitFor
<1>4. MadeFor(s, t, id)
  BY <1>1, <1>3, MadeViews
<1>5. Remembered(t, id)
  BY <1>1, <1>2, <1>4, LocalRemembered
<1>6. id \notin s.stop_sending_received_ids
  BY <1>2, StopKnown
<1> HIDE DEF id, e
<1>7. t \in Sessions /\ SessionOK(t)
  BY <1>4 DEF MadeFor
<1>8. Marked(t, v, id)
  BY <1>1, <1>7, StopMarkedEffect
<1>9. w = IF CanResetStream(v, id) THEN ResetStream(v, id) ELSE v
  BY DEF StopAnswer
<1> HIDE DEF t, v, w, u
<1>10. /\ v.output = << >> /\ HasSendPart(v.role, id) /\ Remembered(v, id) /\ SessionOK(v)
       /\ v.role = s.role
  BY <1>3, <1>4, <1>5, <1>8 DEF MadeFor, Marked, Kept, SameRemembered
<1>11. Answered(v, w, id)
  BY <1>1, <1>9, <1>10, AnswerEffect
<1>12. DOMAIN w = {"role", "config", "peer_config", "state", "streams", "closed_stream_send_max",
                   "stop_sending_received_ids", "flow_control", "next_stream_id", "events", "output"}
  BY <1>1 DEF Sessions
<1>13. /\ u.streams = w.streams /\ u.flow_control = w.flow_control
       /\ u.closed_stream_send_max = w.closed_stream_send_max
       /\ u.role = w.role /\ u.config = w.config /\ u.peer_config = w.peer_config
       /\ u.next_stream_id = w.next_stream_id
       /\ u.stop_sending_received_ids = w.stop_sending_received_ids
       /\ u.events = Append(w.events, e) /\ u.state = w.state /\ u.output = w.output
  BY <1>1, <1>12 DEF Notify
<1>14. SameMaps(w, u)
  BY <1>13 DEF SameMaps, Kept
<1>15. AllAlike(w, u) /\ SameRemembered(w, u) /\ SessionOK(u)
  BY <1>11, <1>14, SameViews DEF Answered
<1>16. s.role = t.role /\ t.role = v.role /\ v.role = w.role
  BY <1>4, <1>8, <1>11 DEF MadeFor, Marked, Answered, Kept
<1>17. \A x \in Ids : Alike(s, v, x)
  <2> SUFFICES ASSUME NEW x \in Ids PROVE Alike(s, v, x)
    OBVIOUS
  <2>1. Alike(s, t, x) /\ Alike(t, v, x)
    BY <1>4, <1>8 DEF MadeFor, Marked, AllAlike
  <2> QED BY <1>16, <2>1, AlikeTrans
<1>18. OthersAlike(s, u, id)
  <2> SUFFICES ASSUME NEW x \in Ids \ {id} PROVE Alike(s, u, x)
    BY DEF OthersAlike
  <2>1. Alike(s, v, x) /\ Alike(v, w, x) /\ Alike(w, u, x)
    BY <1>11, <1>15, <1>17 DEF Answered, AllAlike, OthersAlike
  <2>2. Alike(s, w, x) /\ s.role = w.role
    BY <1>16, <2>1, AlikeTrans
  <2> QED BY <2>1, <2>2, AlikeTrans
<1>19. Alike(s, v, id) /\ Alike(w, u, id)
  BY <1>1, <1>15, <1>17 DEF AllAlike
<1>20. HasRecvPart(s.role, id) => RecvAlike(s, u, id)
  <2>1. SUFFICES ASSUME HasRecvPart(s.role, id) PROVE RecvAlike(s, u, id)
    OBVIOUS
  <2>2. RecvAlike(s, v, id) /\ RecvAlike(v, w, id) /\ RecvAlike(w, u, id)
    BY <1>11, <1>16, <1>19, <2>1 DEF Alike, Answered
  <2> QED BY <2>2 DEF RecvAlike
<1>21. SendAlike(s, v, id) /\ SendAlike(w, u, id)
  BY <1>3, <1>16, <1>19 DEF Alike
<1>22. ~Sending(u, id) /\ SendMaxOf(u, id) = SendMaxOf(s, id)
  BY <1>11, <1>21 DEF SendAlike, Answered
<1>22a. SentKept(s, u, id)
  BY <1>11, <1>21 DEF SendAlike, Answered, SentKept
<1>23. w.output = IF Sending(s, id)
                  THEN <<[type |-> "RESET_STREAM", id |-> id, reliable_size |-> Sent(s, id)]>>
                  ELSE << >>
  <2>1. Sending(v, id) <=> Sending(s, id)
    BY <1>21 DEF SendAlike, SentKept
  <2>2. Sending(s, id) => Sent(v, id) = Sent(s, id)
    BY <1>21 DEF SendAlike, SentKept
  <2>3. w.output = IF Sending(v, id)
                THEN <<[type |-> "RESET_STREAM", id |-> id, reliable_size |-> Sent(v, id)]>>
                ELSE << >>
    BY <1>11 DEF Answered
  <2> QED BY <2>1, <2>2, <2>3
<1>24. \A x : Remembered(u, x) <=> Remembered(s, x) \/ x \in MadeIds(s, id)
  BY <1>4, <1>8, <1>11, <1>15 DEF MadeFor, Marked, Answered, SameRemembered
<1>25. Remembered(u, id)
  BY <1>10, <1>11, <1>15 DEF Answered, SameRemembered
<1>26. /\ MadeEvents(s, id) \in Seq(Events)
       /\ w.events = s.events \o MadeEvents(s, id) /\ w.state = s.state
       /\ w.stop_sending_received_ids = s.stop_sending_received_ids \cup {id}
       /\ w.flow_control = s.flow_control
  BY <1>4, <1>8, <1>11 DEF MadeFor, Marked, Answered
<1>27. Kept(s, u)
  BY <1>4, <1>8, <1>11, <1>14 DEF MadeFor, Marked, Answered, SameMaps, Kept
<1> QED BY <1>1, <1>3, <1>6, <1>13, <1>15, <1>18, <1>20, <1>22, <1>22a, <1>23, <1>24, <1>25, <1>26, <1>27
        DEF TakesStop, u, e, id

(* MAX_STREAM_DATA.                                                        *)
TakesCredit(s, u, c) ==
  /\ u \in Sessions /\ SessionOK(u) /\ Kept(s, u) /\ u.state = s.state
  /\ c.id \in Ids /\ HasSendPart(s.role, c.id)
  /\ OthersAlike(s, u, c.id)
  /\ HasRecvPart(s.role, c.id) => RecvAlike(s, u, c.id)
  /\ Sending(u, c.id) <=> Sending(s, c.id)
  /\ Sending(s, c.id) => Sent(u, c.id) = Sent(s, c.id) /\ (Fresh(u, c.id) <=> Fresh(s, c.id))
  /\ SendMaxOf(u, c.id) = c.maximum /\ SentKept(s, u, c.id)
  /\ \A x : Remembered(u, x) <=> Remembered(s, x) \/ x \in MadeIds(s, c.id)
  /\ Remembered(u, c.id)
  /\ MadeEvents(s, c.id) \in Seq(Events)
  /\ u.events = s.events \o MadeEvents(s, c.id)
  /\ u.output = s.output
  /\ u.stop_sending_received_ids = s.stop_sending_received_ids
  /\ u.flow_control = s.flow_control

LEMMA TakesCreditEffect ==
  ASSUME Few, NEW s \in Sessions, SessionOK(s), NEW c \in Capsules,
         c.type = "MAX_STREAM_DATA", ~MaxStreamDataRefused(s, c)
  PROVE  TakesCredit(s, MaxStreamDataAccepted(s, c), c)
<1> DEFINE id == c.id
           t  == CreateImplicitly(s, id)
           u  == MaxStreamDataAccepted(s, c)
<1>1. id \in Ids /\ c.maximum \in 0 .. MaxValue
  BY CapsuleFields
<1>2. ~IsReceiveOnly(s, id) /\ ~IsUncreatedLocal(s, id)
  BY DEF MaxStreamDataRefused
<1>3. t = CreatedFor(s, id) /\ HasSendPart(s.role, id)
  BY <1>2, ImplicitFor
<1>4. MadeFor(s, t, id)
  BY <1>1, <1>3, MadeViews
<1>5. Remembered(t, id) /\ u \in Sessions
  BY <1>1, <1>2, <1>4, LocalRemembered, MaxStreamDataType
<1>6. CASE ~Known(s, id) /\ Gone(s, id)
  <2> DEFINE m == s.closed_stream_send_max
  <2>1. u = [s EXCEPT !.closed_stream_send_max = MapInsert(@, id, c.maximum)]
    BY <1>6 DEF MaxStreamDataAccepted, Gone
  <2>2. m \in Maps(0 .. MaxValue)
    BY DEF Sessions
  <2>3. MapInsert(m, id, c.maximum) = With(m, id, c.maximum)
    BY <1>1, <2>2, MapInsertKeeps DEF Few
  <2>4. /\ DOMAIN With(m, id, c.maximum) = DOMAIN m
        /\ With(m, id, c.maximum)[id] = c.maximum
        /\ \A x \in DOMAIN m : x # id => With(m, id, c.maximum)[x] = m[x]
    <3>1. id \in DOMAIN m
      BY <1>6 DEF Gone
    <3> DEFINE V == 0 .. MaxValue
               k == c.maximum
    <3>a. m \in Maps(V) /\ k \in V /\ id \in Ids
      BY <1>1, <2>2
    <3> HIDE DEF m, V, id, k
    <3>2. /\ DOMAIN With(m, id, k) = DOMAIN m \cup {id}
          /\ With(m, id, k)[id] = k
          /\ \A x \in DOMAIN m : x # id => With(m, id, k)[x] = m[x]
      BY <3>a, WithFacts
    <3> QED BY <3>1, <3>2 DEF k
  <2> DEFINE n == With(m, id, c.maximum)
  <2> HIDE DEF n, u
  <2>5. /\ u.streams = s.streams /\ u.closed_stream_send_max = n
        /\ u.role = s.role /\ u.config = s.config /\ u.peer_config = s.peer_config
        /\ u.next_stream_id = s.next_stream_id /\ u.flow_control = s.flow_control
        /\ u.stop_sending_received_ids = s.stop_sending_received_ids
        /\ u.events = s.events /\ u.state = s.state /\ u.output = s.output
    BY <2>1, <2>3 DEF Sessions, n
  <2>6. /\ DOMAIN n = DOMAIN s.closed_stream_send_max
        /\ n[id] = c.maximum
        /\ \A x \in DOMAIN n : x # id => n[x] = s.closed_stream_send_max[x]
    BY <2>4 DEF n
  <2>7. SameRemembered(s, u)
    BY <2>5, <2>6 DEF SameRemembered, Remembered, Known
  <2>8. SessionOK(u)
    BY <2>5, <2>6, <2>7 DEF SessionOK, SameRemembered
  <2>9. OthersAlike(s, u, id)
    <3> SUFFICES ASSUME NEW x \in Ids \ {id} PROVE SendAlike(s, u, x) /\ RecvAlike(s, u, x)
      BY DEF OthersAlike, Alike
    <3>1. (Known(u, x) <=> Known(s, x)) /\ (Gone(u, x) <=> Gone(s, x))
          /\ (Remembered(u, x) <=> Remembered(s, x))
      BY <2>5, <2>6 DEF Known, Gone, Remembered
    <3>2. Gone(s, x) => u.closed_stream_send_max[x] = s.closed_stream_send_max[x]
      BY <2>5, <2>6 DEF Gone
    <3>3. SendMaxOf(u, x) = SendMaxOf(s, x)
      BY <2>5, <3>1, <3>2 DEF SendMaxOf, FirstSendMax
    <3>4. SendAlike(s, u, x)
      BY <2>5, <3>1, <3>3 DEF SendAlike, SentKept, Sending, Sent, Fresh
    <3>5. RecvAlike(s, u, x)
      BY <2>5, <3>1 DEF RecvAlike, Receiving, Received, Granting, RecvMaxOf, InitialRecvMax
    <3> QED BY <3>4, <3>5
  <2>10. /\ RecvAlike(s, u, id)
         /\ (Sending(u, id) <=> Sending(s, id))
         /\ Sent(u, id) = Sent(s, id) /\ (Fresh(u, id) <=> Fresh(s, id))
         /\ SentKept(s, u, id)
    BY <2>5, <2>6 DEF RecvAlike, SentKept, Sending, Sent, Fresh, Receiving, Received, Granting, RecvMaxOf,
             Gone, Known, Remembered, InitialRecvMax
  <2>11. SendMaxOf(u, id) = c.maximum
    BY <1>6, <2>5, <2>6 DEF SendMaxOf, Gone, Known
  <2>12. Remembered(s, id) /\ Remembered(u, id)
    BY <1>6, <2>7 DEF SameRemembered, Remembered, Gone
  <2>13. MadeIds(s, id) = {} /\ MadeEvents(s, id) = << >>
    BY <2>12 DEF MadeIds, MadeEvents, CreatesFor
  <2>14. s.events \in Seq(Events) /\ s.events \o << >> = s.events /\ << >> \in Seq(Events)
    BY DEF Sessions
  <2>15. Kept(s, u)
    BY <2>5 DEF Kept
  <2> QED BY <1>1, <1>3, <1>5, <2>5, <2>7, <2>8, <2>9, <2>10, <2>11, <2>12, <2>13, <2>14, <2>15
          DEF TakesCredit, SameRemembered, u
<1>7. CASE ~(~Known(s, id) /\ Gone(s, id))
  <2> DEFINE a  == t.streams[id]
             st == [a EXCEPT !.send_max = c.maximum]
  <2>1. t \in Sessions /\ SessionOK(t) /\ Kept(s, t) /\ AllAlike(s, t)
    BY <1>4 DEF MadeFor
  <2>2. Known(t, id)
    BY <1>3, <1>4, <1>5, <1>7 DEF MadeFor, Remembered, Gone, CreatedFor
  <2>3. u = [t EXCEPT !.streams[id].send_max = c.maximum]
    BY <1>7, <2>2 DEF MaxStreamDataAccepted, Gone
  <2>4. a \in WtStreams /\ st \in WtStreams
    BY <1>1, <2>1, <2>2, KnownStream, StreamMethods
  <2>5. /\ u.streams = [t.streams EXCEPT ![id] = st]
        /\ u.closed_stream_send_max = t.closed_stream_send_max
        /\ u.role = t.role /\ u.config = t.config /\ u.peer_config = t.peer_config
        /\ u.next_stream_id = t.next_stream_id /\ u.flow_control = t.flow_control
        /\ u.stop_sending_received_ids = t.stop_sending_received_ids
        /\ u.events = t.events /\ u.state = t.state /\ u.output = t.output
    BY <2>1, <2>3 DEF Sessions
  <2>6. /\ st.recv_state = a.recv_state /\ st.recv_offset = a.recv_offset
        /\ st.send_state = a.send_state /\ st.send_offset = a.send_offset
        /\ st.send_max = c.maximum /\ st.recv_max = a.recv_max
    BY <2>4 DEF WtStreams
  <2>7. st.stop_sending_sent = a.stop_sending_sent
    BY <2>4 DEF WtStreams
  <2>8. st.stop_sending_received = a.stop_sending_received
    BY <2>4 DEF WtStreams
  <2>9. /\ Sending(t, id) <=> CanSend(a)
        /\ Sent(t, id) = a.send_offset
        /\ Fresh(t, id) <=> a.send_state = "Ready"
        /\ Receiving(t, id) <=> CanRecv(a)
        /\ Received(t, id) = a.recv_offset
        /\ Granting(t, id) <=> ~a.stop_sending_sent
        /\ RecvMaxOf(t, id) = a.recv_max
        /\ ~Gone(t, id) /\ Remembered(t, id)
    BY <2>1, <2>2, KnownViews
  <2>10. (CanSend(st) <=> CanSend(a)) /\ (CanRecv(st) <=> CanRecv(a))
    BY <2>6 DEF CanSend, CanRecv
  <2>11. st.stop_sending_received => id \in u.stop_sending_received_ids
    BY <2>1, <2>2, <2>5, <2>8 DEF SessionOK, Known
  <2> HIDE DEF st, a, t, u
  <2>12. Stores(t, u, id, st)
    BY <1>5, <2>5, <2>11 DEF Stores
  <2>13. Became(t, u, id, st) /\ SessionOK(u)
    BY <1>1, <2>1, <2>2, <2>4, <2>12, StoreViews
  <2>14. s.role = t.role /\ Alike(s, t, id)
    BY <1>1, <2>1 DEF Kept, AllAlike
  <2>15. SendAlike(s, t, id) /\ HasSendPart(t.role, id)
    BY <1>3, <2>14 DEF Alike
  <2>16. /\ Sending(u, id) <=> Sending(s, id)
         /\ SendMaxOf(u, id) = c.maximum
    <3>1. (Sending(u, id) <=> CanSend(st)) /\ SendMaxOf(u, id) = st.send_max
      BY <2>13, <2>15 DEF Became
    <3> QED BY <2>6, <2>9, <2>10, <2>15, <3>1 DEF SendAlike, SentKept
  <2>17. ASSUME Sending(s, id)
         PROVE  Sent(u, id) = Sent(s, id) /\ (Fresh(u, id) <=> Fresh(s, id))
    <3>1. CanSend(st) => Sent(u, id) = st.send_offset /\ (Fresh(u, id) <=> st.send_state = "Ready")
      BY <2>13, <2>15 DEF Became
    <3> QED BY <2>6, <2>9, <2>10, <2>15, <2>17, <3>1 DEF SendAlike
  <2>17a. SentKept(s, u, id)
    <3>1. Known(u, id) => Sent(u, id) = st.send_offset
      BY <2>13, <2>15 DEF Became
    <3> QED BY <2>2, <2>6, <2>9, <2>15, <3>1 DEF SendAlike, SentKept
  <2>18. HasRecvPart(s.role, id) => RecvAlike(s, u, id)
    <3>1. SUFFICES ASSUME HasRecvPart(s.role, id) PROVE RecvAlike(s, u, id)
      OBVIOUS
    <3>2. /\ (Receiving(u, id) <=> CanRecv(st))
          /\ CanRecv(st) => Received(u, id) = st.recv_offset
          /\ Gone(u, id) \/ RecvMaxOf(u, id) = st.recv_max
      BY <2>13, <2>14, <3>1 DEF Became
    <3>3. Granting(u, id) => Granting(t, id)
      BY <2>7, <2>9, <2>13, <2>14, <3>1 DEF Became
    <3>4. RecvAlike(t, u, id)
      BY <2>6, <2>9, <2>10, <3>2, <3>3 DEF RecvAlike
    <3>5. RecvAlike(s, t, id)
      BY <2>14, <3>1 DEF Alike
    <3> QED BY <3>4, <3>5 DEF RecvAlike
  <2>19. OthersAlike(t, u, id)
    BY <2>13 DEF Became, OthersAlike
  <2>20. OthersAlike(s, u, id)
    BY <2>1, <2>19, OthersVia
  <2>21. /\ \A x : Remembered(u, x) <=> Remembered(s, x) \/ x \in MadeIds(s, id)
         /\ Remembered(u, id)
    BY <1>4, <2>9, <2>13 DEF MadeFor, Became
  <2>22. /\ MadeEvents(s, id) \in Seq(Events)
         /\ u.events = s.events \o MadeEvents(s, id)
         /\ u.output = s.output /\ u.state = s.state
         /\ u.stop_sending_received_ids = s.stop_sending_received_ids
         /\ u.flow_control = s.flow_control /\ Kept(s, u)
    BY <1>4, <2>1, <2>5 DEF MadeFor, Kept
  <2> QED BY <1>1, <1>3, <1>5, <2>13, <2>16, <2>17, <2>17a, <2>18, <2>20, <2>21, <2>22
          DEF TakesCredit, u
<1> QED BY <1>6, <1>7

(* The other capsules touch no stream.                                     *)
QuietEvents == [type : {"DatagramReceived", "SessionClosed", "SessionDraining"}]

TakesQuiet(s, u, c) ==
  /\ u \in Sessions /\ SameMaps(s, u) /\ u.output = s.output
  /\ u.events = s.events \/ \E e \in QuietEvents : u.events = Append(s.events, e)
  /\ u.flow_control =
       CASE c.type = "MAX_DATA" -> [s.flow_control EXCEPT !.send_max = c.maximum]
         [] c.type = "MAX_STREAMS" ->
              [s.flow_control EXCEPT !.max_streams_remote[c.bidirectional] = c.maximum]
         [] OTHER -> s.flow_control

LEMMA TakesQuietEffect ==
  ASSUME NEW s \in Sessions, s.output = << >>, NEW c \in QuietCapsules, ~Refused(s, c),
         s.state # "Closed"
  PROVE  TakesQuiet(s, Accepted(s, c), c)
<1> DEFINE u == Accepted(s, c)
<1>0. /\ c \in Capsules
      /\ c.type \notin {"STREAM", "RESET_STREAM", "STOP_SENDING", "MAX_STREAM_DATA"}
  BY DEF QuietCapsules
<1>1. u \in Sessions
  BY <1>0, AcceptedType
<1>2. s.flow_control \in WtFlowControls
  BY DEF Sessions
<1>3. CASE c.type = "DATAGRAM"
  <2> DEFINE e == [type |-> "DatagramReceived"]
  <2>1. e \in QuietEvents
    BY DEF QuietEvents
  <2>2. u = [s EXCEPT !.events = Append(@, e)]
    BY <1>3 DEF Accepted, Notify
  <2> HIDE DEF u, e
  <2>3. u.events = Append(s.events, e) /\ u.output = s.output /\ u.flow_control = s.flow_control
    BY <2>2 DEF Sessions
  <2>4. SameMaps(s, u)
    BY <2>2 DEF Sessions, SameMaps, Kept
  <2> QED BY <1>1, <1>3, <2>1, <2>3, <2>4 DEF TakesQuiet, u
<1>4. CASE c.type = "MAX_DATA"
  <2>1. u = [s EXCEPT !.flow_control.send_max = c.maximum]
    BY <1>4 DEF Accepted
  <2> HIDE DEF u
  <2>2. u.events = s.events /\ u.output = s.output
        /\ u.flow_control = [s.flow_control EXCEPT !.send_max = c.maximum]
    BY <2>1 DEF Sessions
  <2>3. u.flow_control.opened_streams = s.flow_control.opened_streams
    BY <1>2, <2>2 DEF WtFlowControls
  <2>4. SameMaps(s, u)
    BY <2>1, <2>3 DEF Sessions, SameMaps, Kept
  <2> QED BY <1>1, <1>4, <2>2, <2>4 DEF TakesQuiet, u
<1>5. CASE c.type = "MAX_STREAMS"
  <2>1. u = [s EXCEPT !.flow_control.max_streams_remote[c.bidirectional] = c.maximum]
    BY <1>5 DEF Accepted
  <2> HIDE DEF u
  <2>2. u.events = s.events /\ u.output = s.output
        /\ u.flow_control = [s.flow_control EXCEPT !.max_streams_remote[c.bidirectional] = c.maximum]
    BY <2>1 DEF Sessions
  <2>3. u.flow_control.opened_streams = s.flow_control.opened_streams
    BY <1>2, <2>2 DEF WtFlowControls
  <2>4. SameMaps(s, u)
    BY <2>1, <2>3 DEF Sessions, SameMaps, Kept
  <2> QED BY <1>1, <1>5, <2>2, <2>4 DEF TakesQuiet, u
<1>6. ASSUME NEW state, NEW type \in {"SessionClosed", "SessionDraining"},
             u = Notify([s EXCEPT !.state = state], [type |-> type]),
             c.type \notin {"MAX_DATA", "MAX_STREAMS"}
      PROVE  TakesQuiet(s, u, c)
  <2> DEFINE e == [type |-> type]
             v == [s EXCEPT !.state = state]
  <2>1. e \in QuietEvents
    BY <1>6 DEF QuietEvents
  <2>2. /\ v.streams = s.streams /\ v.closed_stream_send_max = s.closed_stream_send_max
        /\ v.role = s.role /\ v.config = s.config /\ v.peer_config = s.peer_config
        /\ v.next_stream_id = s.next_stream_id /\ v.flow_control = s.flow_control
        /\ v.stop_sending_received_ids = s.stop_sending_received_ids
        /\ v.events = s.events /\ v.output = s.output
        /\ DOMAIN v = DOMAIN s
    BY DEF Sessions
  <2>2a. DOMAIN s = {"role", "config", "peer_config", "state", "streams", "closed_stream_send_max",
                  "stop_sending_received_ids", "flow_control", "next_stream_id", "events", "output"}
    BY DEF Sessions
  <2>3. u = [v EXCEPT !.events = Append(@, e)]
    BY <1>6 DEF Notify
  <2> HIDE DEF u, e, v
  <2>4. u.events = Append(s.events, e) /\ u.output = s.output /\ u.flow_control = s.flow_control
    BY <2>2, <2>2a, <2>3
  <2>5. SameMaps(s, u)
    BY <2>2, <2>2a, <2>3 DEF SameMaps, Kept
  <2> QED BY <1>1, <1>6, <2>1, <2>4, <2>5 DEF TakesQuiet, u
<1>7. CASE c.type = "CLOSE_SESSION"
  <2>1. u = Notify([s EXCEPT !.state = "Closed"], [type |-> "SessionClosed"])
    BY <1>7 DEF Accepted
  <2> QED BY <1>6, <1>7, <2>1
<1>8. CASE c.type = "DRAIN_SESSION" /\ s.state = "Active"
  <2>1. u = Notify([s EXCEPT !.state = "Draining"], [type |-> "SessionDraining"])
    BY <1>8 DEF Accepted
  <2> QED BY <1>6, <1>8, <2>1
<1>9. CASE /\ c.type \notin {"DATAGRAM", "MAX_DATA", "MAX_STREAMS", "CLOSE_SESSION"}
           /\ ~(c.type = "DRAIN_SESSION" /\ s.state = "Active")
  <2>1. u = s
    BY <1>0, <1>9 DEF Accepted
  <2> QED BY <1>9, <2>1 DEF TakesQuiet, SameMaps, Kept
<1> QED BY <1>3, <1>4, <1>5, <1>7, <1>8, <1>9

(* What process does with a capsule it accepts.                            *)
Takes(s, u, c) ==
  \/ s.state = "Closed" /\ u = s
  \/ /\ s.state # "Closed"
     /\ \/ c.type = "STREAM" /\ TakesData(s, u, c)
        \/ c.type = "RESET_STREAM" /\ TakesReset(s, u, c)
        \/ c.type = "STOP_SENDING" /\ TakesStop(s, u, c)
        \/ c.type = "MAX_STREAM_DATA" /\ TakesCredit(s, u, c)
        \/ c \in QuietCapsules /\ TakesQuiet(s, u, c)

LEMMA TakesEffect ==
  ASSUME Few, NEW s \in Sessions, SessionOK(s), s.output = << >>, NEW c \in Capsules,
         ~Refused(s, c)
  PROVE  Takes(s, Accepted(s, c), c)
<1>1. CASE s.state = "Closed"
  BY <1>1 DEF Takes, Accepted
<1>2. CASE s.state # "Closed"
  <2>1. CASE c.type = "STREAM"
    <3>1. ~StreamDataRefused(s, c) /\ Accepted(s, c) = StreamDataAccepted(s, c)
      BY <1>2, <2>1 DEF Accepted, Refused
    <3> QED BY <1>2, <2>1, <3>1, TakesDataEffect DEF Takes
  <2>2. CASE c.type = "RESET_STREAM"
    <3>1. ~ResetStreamRefused(s, c) /\ Accepted(s, c) = ResetStreamAccepted(s, c)
      BY <1>2, <2>2 DEF Accepted, Refused
    <3> QED BY <1>2, <2>2, <3>1, TakesResetEffect DEF Takes
  <2>3. CASE c.type = "STOP_SENDING"
    <3>1. ~StopSendingRefused(s, c) /\ Accepted(s, c) = StopSendingAccepted(s, c)
      BY <1>2, <2>3 DEF Accepted, Refused
    <3> QED BY <1>2, <2>3, <3>1, TakesStopEffect DEF Takes
  <2>4. CASE c.type = "MAX_STREAM_DATA"
    <3>1. ~MaxStreamDataRefused(s, c) /\ Accepted(s, c) = MaxStreamDataAccepted(s, c)
      BY <1>2, <2>4 DEF Accepted, Refused
    <3> QED BY <1>2, <2>4, <3>1, TakesCreditEffect DEF Takes
  <2>5. CASE c.type \notin {"STREAM", "RESET_STREAM", "STOP_SENDING", "MAX_STREAM_DATA"}
    <3>1. c \in QuietCapsules
      BY <2>5 DEF QuietCapsules
    <3> QED BY <1>2, <3>1, TakesQuietEffect DEF Takes
  <2> QED BY <2>1, <2>2, <2>3, <2>4, <2>5
<1> QED BY <1>1, <1>2

LEMMA TakesOK ==
  ASSUME NEW s \in Sessions, SessionOK(s), NEW c, NEW u, Takes(s, u, c)
  PROVE  /\ u \in Sessions /\ SessionOK(u) /\ Kept(s, u)
         /\ \A x : Remembered(s, x) => Remembered(u, x)
<1>1. CASE u = s
  BY <1>1 DEF Kept
<1>2. CASE TakesQuiet(s, u, c)
  <2>1. u \in Sessions /\ SameMaps(s, u)
    BY <1>2 DEF TakesQuiet
  <2> QED BY <2>1, SameViews DEF SameMaps, SameRemembered
<1>3. CASE TakesData(s, u, c)
  BY <1>3 DEF TakesData
<1>4. CASE TakesReset(s, u, c)
  BY <1>4 DEF TakesReset, SameRemembered
<1>5. CASE TakesStop(s, u, c)
  BY <1>5 DEF TakesStop
<1>6. CASE TakesCredit(s, u, c)
  BY <1>6 DEF TakesCredit
<1> QED BY <1>1, <1>2, <1>3, <1>4, <1>5, <1>6 DEF Takes

(* t sends on x only if s did, and has sent nothing more.                  *)
SendsLess(s, t, x) ==
  HasSendPart(s.role, x) /\ Sending(t, x) => Sending(s, x) /\ Sent(t, x) = Sent(s, x)

LEMMA AlikeSendsLess ==
  ASSUME NEW s, NEW t, NEW x, Alike(s, t, x)
  PROVE  SendsLess(s, t, x)
  BY DEF SendsLess, Alike, SendAlike, SentKept

LEMMA PeerFacts ==
  ASSUME NEW r \in Roles
  PROVE  Peer(r) \in Roles /\ Peer(r) # r /\ Peer(Peer(r)) = r /\ \A x \in Roles : x = r \/ x = Peer(r)
  BY DEF Roles, Peer

LEMMA FlushedViews ==
  ASSUME NEW t \in Sessions
  PROVE  LET u == Flushed(t)
         IN  /\ AllAlike(t, u) /\ SameRemembered(t, u) /\ (SessionOK(t) => SessionOK(u))
             /\ u.state = t.state /\ u.events = t.events /\ u.role = t.role
             /\ \A x : (Sending(u, x) <=> Sending(t, x)) /\ Sent(u, x) = Sent(t, x)
<1> DEFINE u == Flushed(t)
<1>1. SameMaps(t, u) /\ u.state = t.state /\ u.events = t.events
  BY FlushedMaps
<1> HIDE DEF u
<1>2. AllAlike(t, u) /\ SameRemembered(t, u) /\ (SessionOK(t) => SessionOK(u))
  BY <1>1, SameViews
<1>3. \A x : (Sending(u, x) <=> Sending(t, x)) /\ Sent(u, x) = Sent(t, x)
  BY <1>1 DEF SameMaps, Sending, Sent, Known, Remembered
<1> QED BY <1>1, <1>2, <1>3 DEF SameMaps, Kept, u

LEMMA JoinOne ==
  ASSUME NEW V, NEW s \in Seq(V), NEW c
  PROVE  s \o <<c>> = Append(s, c) /\ s \o << >> = s
  OBVIOUS

LEMMA QuietState ==
  ASSUME NEW s \in Sessions
  PROVE  /\ SendDatagram(s).state = s.state /\ Close(s).state = "Closed"
         /\ \A m : SendMaxData(s, m).state = s.state
         /\ \A m, b : SendMaxStreams(s, m, b).state = s.state
  BY DEF SendDatagram, Close, SendMaxData, SendMaxStreams, Emit, Sessions

(* process writes the reset that answers STOP_SENDING, or nothing.         *)
LEMMA TakesOutput ==
  ASSUME NEW s, s.output = << >>, NEW u, NEW c, Takes(s, u, c), SessionOK(s)
  PROVE  \/ u.output = << >> /\ \A x \in Ids : SendsLess(s, u, x)
         \/ /\ c.id \in Ids /\ HasSendPart(s.role, c.id) /\ Sending(s, c.id) /\ ~Sending(u, c.id)
            /\ u.output = <<[type |-> "RESET_STREAM", id |-> c.id, reliable_size |-> Sent(s, c.id)]>>
            /\ \A x \in Ids \ {c.id} : SendsLess(s, u, x)
<1>1. CASE u = s
  BY <1>1 DEF SendsLess
<1>2. CASE TakesQuiet(s, u, c)
  <2>1. SameMaps(s, u) /\ u.output = s.output
    BY <1>2 DEF TakesQuiet
  <2>2. AllAlike(s, u)
    BY <2>1, SameViews
  <2> QED BY <2>1, <2>2, AlikeSendsLess DEF AllAlike
<1>3. CASE TakesData(s, u, c)
  <2>1. /\ OthersAlike(s, u, c.id) /\ u.output = s.output
        /\ HasSendPart(s.role, c.id) => SendAlike(s, u, c.id)
    BY <1>3 DEF TakesData
  <2>2. \A x \in Ids \ {c.id} : SendsLess(s, u, x)
    BY <2>1, AlikeSendsLess DEF OthersAlike
  <2>3. SendsLess(s, u, c.id)
    BY <2>1 DEF SendsLess, SendAlike, SentKept
  <2> QED BY <2>1, <2>2, <2>3
<1>4. CASE TakesReset(s, u, c)
  <2>1. /\ OthersAlike(s, u, c.id) /\ u.output = s.output
        /\ HasSendPart(s.role, c.id) => SendAlike(s, u, c.id)
    BY <1>4 DEF TakesReset
  <2>2. \A x \in Ids \ {c.id} : SendsLess(s, u, x)
    BY <2>1, AlikeSendsLess DEF OthersAlike
  <2>3. SendsLess(s, u, c.id)
    BY <2>1 DEF SendsLess, SendAlike, SentKept
  <2> QED BY <2>1, <2>2, <2>3
<1>5. CASE TakesStop(s, u, c)
  <2>1. /\ OthersAlike(s, u, c.id) /\ ~Sending(u, c.id) /\ HasSendPart(s.role, c.id) /\ c.id \in Ids
        /\ u.output = IF Sending(s, c.id)
                      THEN <<[type |-> "RESET_STREAM", id |-> c.id, reliable_size |-> Sent(s, c.id)]>>
                      ELSE << >>
    BY <1>5 DEF TakesStop
  <2>2. \A x \in Ids \ {c.id} : SendsLess(s, u, x)
    BY <2>1, AlikeSendsLess DEF OthersAlike
  <2>3. SendsLess(s, u, c.id)
    BY <2>1 DEF SendsLess
  <2> QED BY <2>1, <2>2, <2>3
<1>6. CASE TakesCredit(s, u, c)
  <2>1. /\ OthersAlike(s, u, c.id) /\ u.output = s.output
        /\ (Sending(u, c.id) <=> Sending(s, c.id))
        /\ Sending(s, c.id) => Sent(u, c.id) = Sent(s, c.id)
    BY <1>6 DEF TakesCredit
  <2>2. \A x \in Ids \ {c.id} : SendsLess(s, u, x)
    BY <2>1, AlikeSendsLess DEF OthersAlike
  <2>3. SendsLess(s, u, c.id)
    BY <2>1 DEF SendsLess
  <2> QED BY <2>1, <2>2, <2>3
<1> QED BY <1>1, <1>2, <1>3, <1>4, <1>5, <1>6 DEF Takes

LEMMA TakesState ==
  ASSUME NEW s, NEW u, NEW c, Takes(s, u, c), s.state = "Closed"
  PROVE  u.state = "Closed"
  BY DEF Takes

LEMMA NewOK ==
  ASSUME NEW s, NEW role \in Roles, NEW config, NEW peer_config, IsNew(s, role, config, peer_config)
  PROVE  SessionOK(s) /\ SessionOK(Initiated(s))
<1>1. /\ s \in Sessions /\ s.role = role
      /\ DOMAIN s.streams = {} /\ DOMAIN s.closed_stream_send_max = {}
      /\ s.flow_control = NewFlowControl(config, peer_config)
      /\ s.next_stream_id = [b \in BOOLEAN |-> FirstId(role, b)]
      /\ Initiated(s) = [s EXCEPT !.state = "Active"]
  BY DEF IsNew
<1>2. ASSUME NEW x \in Ids, ~IsPeerInitiated(role, x)
      PROVE  ~(x < FirstId(role, IsBidirectional(x)))
  <2>1. x \in Nat
    BY IdsAssumption
  <2>2. x % 4 = FirstId(role, IsBidirectional(x))
    BY <1>2, <2>1, LocalIds
  <2>3. x % 4 <= x
    BY <2>1
  <2>4. x % 4 \in Nat
    BY <2>1
  <2> HIDE DEF FirstId
  <2> QED BY <2>1, <2>2, <2>3, <2>4
<1>3. \A x : ~Remembered(s, x)
  BY <1>1 DEF Remembered, Known
<1>4. \A b \in BOOLEAN : s.next_stream_id[b] = FirstId(role, b)
  BY <1>1
<1>5. \A b \in BOOLEAN : s.flow_control.opened_streams[b] = 0
  BY <1>1 DEF NewFlowControl
<1>6. \A b \in BOOLEAN : FirstId(role, b) = FirstId(role, b) + 4 * 0
  BY DEF FirstId
<1>7. \A x : IsBidirectional(x) \in BOOLEAN
  BY DEF IsBidirectional
<1>8. SessionOK(s)
  BY <1>1, <1>2, <1>3, <1>4, <1>5, <1>6, <1>7 DEF SessionOK
<1>9. SameMaps(s, Initiated(s))
  BY <1>1 DEF SameMaps, Kept, Sessions
<1> QED BY <1>8, <1>9, SameViews

-----------------------------------------------------------------------------
(* One direction of a stream, in the capsules or in the events: data, the  *)
(* members of D, and resets, the members of R, among everything else.      *)

Final(D, R) == {x \in D : x.fin} \cup R

Items(V, D, R) == Weighable(V, D) /\ R \subseteq V /\ D \cap R = {}

LEMMA NoneSum ==
  ASSUME NEW V, NEW D, NEW R, Items(V, D, R), NEW s \in Seq(V), NoneOf(s, D \cup R)
  PROVE  SumOf(Weigh(s, D)) = 0
<1>1. /\ Weigh(s, D) \in Seq(Int) /\ Len(Weigh(s, D)) = Len(s)
      /\ \A k \in 1 .. Len(s) : Weigh(s, D)[k] = IF s[k] \in D THEN s[k].size ELSE 0
  BY WeighType DEF Items
<1>2. \A k \in 1 .. Len(Weigh(s, D)) : Weigh(s, D)[k] = 0
  BY <1>1 DEF NoneOf
<1> QED BY <1>1, <1>2, SumZero

DataCapsules(x)  == {c \in Capsules : c.type = "STREAM" /\ c.id = x}
ResetCapsules(x) == {c \in Capsules : c.type = "RESET_STREAM" /\ c.id = x}
DataEvents(x)    == {e \in Events : e.type = "StreamData" /\ e.id = x}
ResetEvents(x)   == {e \in Events : e.type = "StreamReset" /\ e.id = x}

(* The bytes of stream x in the capsules W, and that there are no more.    *)
InWire(W, x) == SumOf(Weigh(W, DataCapsules(x)))
QuietWire(W, x) == NoneOf(W, DataCapsules(x) \cup ResetCapsules(x))

LEMMA PipeItems ==
  ASSUME NEW x
  PROVE  /\ Items(Capsules, DataCapsules(x), ResetCapsules(x))
         /\ Items(Events, DataEvents(x), ResetEvents(x))
<1>1. \A c \in DataCapsules(x) : c.size \in Nat
  BY CapsuleFields DEF DataCapsules
<1>2. \A e \in DataEvents(x) : e.size \in Nat
  BY EventFields DEF DataEvents
<1>3. Items(Capsules, DataCapsules(x), ResetCapsules(x))
  BY <1>1 DEF Items, Weighable, DataCapsules, ResetCapsules
<1>4. Items(Events, DataEvents(x), ResetEvents(x))
  BY <1>2 DEF Items, Weighable, DataEvents, ResetEvents
<1> QED BY <1>3, <1>4
=============================================================================
