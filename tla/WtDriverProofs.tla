-------------------------- MODULE WtDriverProofs ----------------------------
(***************************************************************************)
(* Proofs about the WebTransport server of tokio-http2, for every value of *)
(* the constants.                                                          *)
(***************************************************************************)
EXTENDS WtDriver, WtAgreementProofs

-----------------------------------------------------------------------------
(* The loops of the driver.  Each is a recursive function; its turns are   *)
(* given by what one turn does to the result of the turn before.           *)

(* flush_wt_output: where the first 0, 1, ..., n capsules of output go.    *)
Flushes(f, ch, output, n) ==
  /\ f = [m \in 0 .. n |-> f[m]]
  /\ f[0] = ch
  /\ \A m \in 1 .. n : f[m] = SendChunk(f[m - 1], output[m])

LEMMA FlushesExists ==
  ASSUME NEW ch, NEW output, NEW n \in Nat
  PROVE  \E f : Flushes(f, ch, output, n)
<1> DEFINE S == {k \in Nat : \E f : Flushes(f, ch, output, k)}
<1>1. 0 \in S
  <2> DEFINE g == [m \in 0 .. 0 |-> ch]
  <2>1. Flushes(g, ch, output, 0)
    BY DEF Flushes
  <2> QED BY <2>1
<1>2. ASSUME NEW k \in Nat, k \in S PROVE k + 1 \in S
  <2>1. PICK f : Flushes(f, ch, output, k)
    BY <1>2
  <2> DEFINE x == SendChunk(f[k], output[k + 1])
             g == [m \in 0 .. k + 1 |-> IF m = k + 1 THEN x ELSE f[m]]
  <2> HIDE DEF x
  <2>2. g = [m \in 0 .. k + 1 |-> g[m]] /\ g[0] = ch
    BY <2>1 DEF Flushes
  <2>3. ASSUME NEW m \in 1 .. k + 1
        PROVE  g[m] = SendChunk(g[m - 1], output[m])
    <3>1. CASE m = k + 1
      <4>1. m - 1 = k /\ k \in 0 .. k + 1 /\ k # k + 1
        BY <3>1
      <4>2. g[m] = x /\ g[m - 1] = f[k]
        BY <3>1, <4>1
      <4> HIDE DEF g
      <4> QED BY <3>1, <4>2 DEF x
    <3>2. CASE m # k + 1
      <4>1. m \in 1 .. k /\ m \in 0 .. k + 1 /\ m - 1 \in 0 .. k + 1 /\ m - 1 # k + 1
        BY <3>2
      <4>2. g[m] = f[m] /\ g[m - 1] = f[m - 1]
        BY <3>2, <4>1
      <4> HIDE DEF g
      <4> QED BY <2>1, <4>1, <4>2 DEF Flushes
    <3> QED BY <3>1, <3>2
  <2> HIDE DEF g
  <2>4. Flushes(g, ch, output, k + 1)
    BY <2>2, <2>3 DEF Flushes
  <2> QED BY <2>4
<1> HIDE DEF S
<1>3. Nat \subseteq S
  BY <1>1, <1>2, SetInduction
<1> QED BY <1>3 DEF S

LEMMA FlushesLoop ==
  ASSUME NEW ch, NEW output, Len(output) \in Nat
  PROVE  \E f : Flushes(f, ch, output, Len(output)) /\ FlushOutput(ch, output) = f[Len(output)]
<1> DEFINE N == Len(output)
           Is(f) == f = [n \in 0 .. N |-> IF n = 0 THEN ch ELSE SendChunk(f[n - 1], output[n])]
<1>1. FlushOutput(ch, output) = (CHOOSE f : Is(f))[N]
  BY Zenon DEF FlushOutput
<1>0. N \in Nat
  OBVIOUS
<1> HIDE DEF N
<1>2. PICK f : Flushes(f, ch, output, N)
  BY <1>0, FlushesExists
<1>3. Is(f)
  <2> DEFINE G(n) == IF n = 0 THEN ch ELSE SendChunk(f[n - 1], output[n])
  <2>1. ASSUME NEW n \in 0 .. N PROVE f[n] = G(n)
    <3>1. n = 0 \/ n \in 1 .. N
      BY <1>0
    <3> QED BY <1>2, <3>1 DEF Flushes
  <2> HIDE DEF G
  <2>2. f = [n \in 0 .. N |-> f[n]]
    BY <1>2 DEF Flushes
  <2>3. f = [n \in 0 .. N |-> G(n)]
    BY <2>1, <2>2
  <2> QED BY <2>3 DEF G
<1> DEFINE h == CHOOSE g : Is(g)
<1>4. Is(h)
  BY <1>3, Zenon
<1> HIDE DEF h
<1> DEFINE G(n) == IF n = 0 THEN ch ELSE SendChunk(h[n - 1], output[n])
<1>5. h = [n \in 0 .. N |-> G(n)]
  BY <1>4
<1> HIDE DEF G
<1>6. h = [n \in 0 .. N |-> h[n]] /\ \A n \in 0 .. N : h[n] = G(n)
  BY <1>5
<1>7. 0 \in 0 .. N /\ \A m \in 1 .. N : m \in 0 .. N /\ m # 0
  BY <1>0
<1>8. Flushes(h, ch, output, N)
  BY <1>0, <1>6, <1>7 DEF G, Flushes
<1> QED BY <1>1, <1>8 DEF h, N

(* The driver after 0, 1, ..., n capsules of a DATA frame.                 *)
Processes(f, d, cs, n) ==
  /\ f = [m \in 0 .. n |-> f[m]]
  /\ f[0] = d
  /\ \A m \in 1 .. n : f[m] = Process(f[m - 1], cs[m])

LEMMA ProcessesExists ==
  ASSUME NEW d, NEW cs, NEW n \in Nat
  PROVE  \E f : Processes(f, d, cs, n)
<1> DEFINE S == {k \in Nat : \E f : Processes(f, d, cs, k)}
<1>1. 0 \in S
  <2> DEFINE g == [m \in 0 .. 0 |-> d]
  <2>1. Processes(g, d, cs, 0)
    BY DEF Processes
  <2> QED BY <2>1
<1>2. ASSUME NEW k \in Nat, k \in S PROVE k + 1 \in S
  <2>1. PICK f : Processes(f, d, cs, k)
    BY <1>2
  <2> DEFINE x == Process(f[k], cs[k + 1])
             g == [m \in 0 .. k + 1 |-> IF m = k + 1 THEN x ELSE f[m]]
  <2> HIDE DEF x
  <2>2. g = [m \in 0 .. k + 1 |-> g[m]] /\ g[0] = d
    BY <2>1 DEF Processes
  <2>3. ASSUME NEW m \in 1 .. k + 1
        PROVE  g[m] = Process(g[m - 1], cs[m])
    <3>1. CASE m = k + 1
      <4>1. m - 1 = k /\ k \in 0 .. k + 1 /\ k # k + 1
        BY <3>1
      <4>2. g[m] = x /\ g[m - 1] = f[k]
        BY <3>1, <4>1
      <4> HIDE DEF g
      <4> QED BY <3>1, <4>2 DEF x
    <3>2. CASE m # k + 1
      <4>1. m \in 1 .. k /\ m \in 0 .. k + 1 /\ m - 1 \in 0 .. k + 1 /\ m - 1 # k + 1
        BY <3>2
      <4>2. g[m] = f[m] /\ g[m - 1] = f[m - 1]
        BY <3>2, <4>1
      <4> HIDE DEF g
      <4> QED BY <2>1, <4>1, <4>2 DEF Processes
    <3> QED BY <3>1, <3>2
  <2> HIDE DEF g
  <2>4. Processes(g, d, cs, k + 1)
    BY <2>2, <2>3 DEF Processes
  <2> QED BY <2>4
<1> HIDE DEF S
<1>3. Nat \subseteq S
  BY <1>1, <1>2, SetInduction
<1> QED BY <1>3 DEF S

LEMMA ProcessesLoop ==
  ASSUME NEW d, NEW cs, Len(cs) \in Nat
  PROVE  \E f : Processes(f, d, cs, Len(cs)) /\ ProcessAll(d, cs) = f[Len(cs)]
<1> DEFINE N == Len(cs)
           Is(f) == f = [n \in 0 .. N |-> IF n = 0 THEN d ELSE Process(f[n - 1], cs[n])]
<1>1. ProcessAll(d, cs) = (CHOOSE f : Is(f))[N]
  BY Zenon DEF ProcessAll
<1>0. N \in Nat
  OBVIOUS
<1> HIDE DEF N
<1>2. PICK f : Processes(f, d, cs, N)
  BY <1>0, ProcessesExists
<1>3. Is(f)
  <2> DEFINE G(n) == IF n = 0 THEN d ELSE Process(f[n - 1], cs[n])
  <2>1. ASSUME NEW n \in 0 .. N PROVE f[n] = G(n)
    <3>1. n = 0 \/ n \in 1 .. N
      BY <1>0
    <3> QED BY <1>2, <3>1 DEF Processes
  <2> HIDE DEF G
  <2>2. f = [n \in 0 .. N |-> f[n]]
    BY <1>2 DEF Processes
  <2>3. f = [n \in 0 .. N |-> G(n)]
    BY <2>1, <2>2
  <2> QED BY <2>3 DEF G
<1> DEFINE h == CHOOSE g : Is(g)
<1>4. Is(h)
  BY <1>3, Zenon
<1> HIDE DEF h
<1> DEFINE G(n) == IF n = 0 THEN d ELSE Process(h[n - 1], cs[n])
<1>5. h = [n \in 0 .. N |-> G(n)]
  BY <1>4
<1> HIDE DEF G
<1>6. h = [n \in 0 .. N |-> h[n]] /\ \A n \in 0 .. N : h[n] = G(n)
  BY <1>5
<1>7. 0 \in 0 .. N /\ \A m \in 1 .. N : m \in 0 .. N /\ m # 0
  BY <1>0
<1>8. Processes(h, d, cs, N)
  BY <1>0, <1>6, <1>7 DEF G, Processes
<1> QED BY <1>1, <1>8 DEF h, N

(* The driver after 0, 1, ..., n events.                                   *)
Dispatches(f, d, n) ==
  /\ f = [m \in 0 .. n |-> f[m]]
  /\ f[0] = d
  /\ \A m \in 1 .. n : f[m] = DispatchNext(f[m - 1])

LEMMA DispatchesExists ==
  ASSUME NEW d, NEW n \in Nat
  PROVE  \E f : Dispatches(f, d, n)
<1> DEFINE S == {k \in Nat : \E f : Dispatches(f, d, k)}
<1>1. 0 \in S
  <2> DEFINE g == [m \in 0 .. 0 |-> d]
  <2>1. Dispatches(g, d, 0)
    BY DEF Dispatches
  <2> QED BY <2>1
<1>2. ASSUME NEW k \in Nat, k \in S PROVE k + 1 \in S
  <2>1. PICK f : Dispatches(f, d, k)
    BY <1>2
  <2> DEFINE x == DispatchNext(f[k])
             g == [m \in 0 .. k + 1 |-> IF m = k + 1 THEN x ELSE f[m]]
  <2> HIDE DEF x
  <2>2. g = [m \in 0 .. k + 1 |-> g[m]] /\ g[0] = d
    BY <2>1 DEF Dispatches
  <2>3. ASSUME NEW m \in 1 .. k + 1
        PROVE  g[m] = DispatchNext(g[m - 1])
    <3>1. CASE m = k + 1
      <4>1. m - 1 = k /\ k \in 0 .. k + 1 /\ k # k + 1
        BY <3>1
      <4>2. g[m] = x /\ g[m - 1] = f[k]
        BY <3>1, <4>1
      <4> HIDE DEF g
      <4> QED BY <3>1, <4>2 DEF x
    <3>2. CASE m # k + 1
      <4>1. m \in 1 .. k /\ m \in 0 .. k + 1 /\ m - 1 \in 0 .. k + 1 /\ m - 1 # k + 1
        BY <3>2
      <4>2. g[m] = f[m] /\ g[m - 1] = f[m - 1]
        BY <3>2, <4>1
      <4> HIDE DEF g
      <4> QED BY <2>1, <4>1, <4>2 DEF Dispatches
    <3> QED BY <3>1, <3>2
  <2> HIDE DEF g
  <2>4. Dispatches(g, d, k + 1)
    BY <2>2, <2>3 DEF Dispatches
  <2> QED BY <2>4
<1> HIDE DEF S
<1>3. Nat \subseteq S
  BY <1>1, <1>2, SetInduction
<1> QED BY <1>3 DEF S

LEMMA DispatchesLoop ==
  ASSUME NEW d, Len(d.session.events) \in Nat
  PROVE  \E f : Dispatches(f, d, Len(d.session.events)) /\ DispatchAll(d) = f[Len(d.session.events)]
<1> DEFINE N == Len(d.session.events)
           Is(f) == f = [n \in 0 .. N |-> IF n = 0 THEN d ELSE DispatchNext(f[n - 1])]
<1>1. DispatchAll(d) = (CHOOSE f : Is(f))[N]
  BY Zenon DEF DispatchAll
<1>0. N \in Nat
  OBVIOUS
<1> HIDE DEF N
<1>2. PICK f : Dispatches(f, d, N)
  BY <1>0, DispatchesExists
<1>3. Is(f)
  <2> DEFINE G(n) == IF n = 0 THEN d ELSE DispatchNext(f[n - 1])
  <2>1. ASSUME NEW n \in 0 .. N PROVE f[n] = G(n)
    <3>1. n = 0 \/ n \in 1 .. N
      BY <1>0
    <3> QED BY <1>2, <3>1 DEF Dispatches
  <2> HIDE DEF G
  <2>2. f = [n \in 0 .. N |-> f[n]]
    BY <1>2 DEF Dispatches
  <2>3. f = [n \in 0 .. N |-> G(n)]
    BY <2>1, <2>2
  <2> QED BY <2>3 DEF G
<1> DEFINE h == CHOOSE g : Is(g)
<1>4. Is(h)
  BY <1>3, Zenon
<1> HIDE DEF h
<1> DEFINE G(n) == IF n = 0 THEN d ELSE DispatchNext(h[n - 1])
<1>5. h = [n \in 0 .. N |-> G(n)]
  BY <1>4
<1> HIDE DEF G
<1>6. h = [n \in 0 .. N |-> h[n]] /\ \A n \in 0 .. N : h[n] = G(n)
  BY <1>5
<1>7. 0 \in 0 .. N /\ \A m \in 1 .. N : m \in 0 .. N /\ m # 0
  BY <1>0
<1>8. Dispatches(h, d, N)
  BY <1>0, <1>6, <1>7 DEF G, Dispatches
<1> QED BY <1>1, <1>8 DEF h, N

(* The session of the client after 0, 1, ..., n events.                    *)
Polls(f, s, n) ==
  /\ f = [m \in 0 .. n |-> f[m]]
  /\ f[0] = s
  /\ \A m \in 1 .. n : f[m] = PollEvent(f[m - 1])

LEMMA PollsExists ==
  ASSUME NEW s, NEW n \in Nat
  PROVE  \E f : Polls(f, s, n)
<1> DEFINE S == {k \in Nat : \E f : Polls(f, s, k)}
<1>1. 0 \in S
  <2> DEFINE g == [m \in 0 .. 0 |-> s]
  <2>1. Polls(g, s, 0)
    BY DEF Polls
  <2> QED BY <2>1
<1>2. ASSUME NEW k \in Nat, k \in S PROVE k + 1 \in S
  <2>1. PICK f : Polls(f, s, k)
    BY <1>2
  <2> DEFINE x == PollEvent(f[k])
             g == [m \in 0 .. k + 1 |-> IF m = k + 1 THEN x ELSE f[m]]
  <2> HIDE DEF x
  <2>2. g = [m \in 0 .. k + 1 |-> g[m]] /\ g[0] = s
    BY <2>1 DEF Polls
  <2>3. ASSUME NEW m \in 1 .. k + 1
        PROVE  g[m] = PollEvent(g[m - 1])
    <3>1. CASE m = k + 1
      <4>1. m - 1 = k /\ k \in 0 .. k + 1 /\ k # k + 1
        BY <3>1
      <4>2. g[m] = x /\ g[m - 1] = f[k]
        BY <3>1, <4>1
      <4> HIDE DEF g
      <4> QED BY <3>1, <4>2 DEF x
    <3>2. CASE m # k + 1
      <4>1. m \in 1 .. k /\ m \in 0 .. k + 1 /\ m - 1 \in 0 .. k + 1 /\ m - 1 # k + 1
        BY <3>2
      <4>2. g[m] = f[m] /\ g[m - 1] = f[m - 1]
        BY <3>2, <4>1
      <4> HIDE DEF g
      <4> QED BY <2>1, <4>1, <4>2 DEF Polls
    <3> QED BY <3>1, <3>2
  <2> HIDE DEF g
  <2>4. Polls(g, s, k + 1)
    BY <2>2, <2>3 DEF Polls
  <2> QED BY <2>4
<1> HIDE DEF S
<1>3. Nat \subseteq S
  BY <1>1, <1>2, SetInduction
<1> QED BY <1>3 DEF S

LEMMA PollsLoop ==
  ASSUME NEW s, Len(s.events) \in Nat
  PROVE  \E f : Polls(f, s, Len(s.events)) /\ PollAll(s) = f[Len(s.events)]
<1> DEFINE N == Len(s.events)
           Is(f) == f = [n \in 0 .. N |-> IF n = 0 THEN s ELSE PollEvent(f[n - 1])]
<1>1. PollAll(s) = (CHOOSE f : Is(f))[N]
  BY Zenon DEF PollAll
<1>0. N \in Nat
  OBVIOUS
<1> HIDE DEF N
<1>2. PICK f : Polls(f, s, N)
  BY <1>0, PollsExists
<1>3. Is(f)
  <2> DEFINE G(n) == IF n = 0 THEN s ELSE PollEvent(f[n - 1])
  <2>1. ASSUME NEW n \in 0 .. N PROVE f[n] = G(n)
    <3>1. n = 0 \/ n \in 1 .. N
      BY <1>0
    <3> QED BY <1>2, <3>1 DEF Polls
  <2> HIDE DEF G
  <2>2. f = [n \in 0 .. N |-> f[n]]
    BY <1>2 DEF Polls
  <2>3. f = [n \in 0 .. N |-> G(n)]
    BY <2>1, <2>2
  <2> QED BY <2>3 DEF G
<1> DEFINE h == CHOOSE g : Is(g)
<1>4. Is(h)
  BY <1>3, Zenon
<1> HIDE DEF h
<1> DEFINE G(n) == IF n = 0 THEN s ELSE PollEvent(h[n - 1])
<1>5. h = [n \in 0 .. N |-> G(n)]
  BY <1>4
<1> HIDE DEF G
<1>6. h = [n \in 0 .. N |-> h[n]] /\ \A n \in 0 .. N : h[n] = G(n)
  BY <1>5
<1>7. 0 \in 0 .. N /\ \A m \in 1 .. N : m \in 0 .. N /\ m # 0
  BY <1>0
<1>8. Polls(h, s, N)
  BY <1>0, <1>6, <1>7 DEF G, Polls
<1> QED BY <1>1, <1>8 DEF h, N

-----------------------------------------------------------------------------
(* A session that has written capsules nobody has taken yet behaves as it  *)
(* would have without them: what it writes next comes after them.          *)
Hold(s, o) == [s EXCEPT !.output = o]

LEMMA HoldFields ==
  ASSUME NEW s \in Sessions, NEW o \in Seq(Capsules)
  PROVE  /\ Hold(s, o) \in Sessions /\ Hold(s, o).output = o
         /\ Hold(s, o).role = s.role /\ Hold(s, o).config = s.config
         /\ Hold(s, o).peer_config = s.peer_config /\ Hold(s, o).state = s.state
         /\ Hold(s, o).streams = s.streams
         /\ Hold(s, o).closed_stream_send_max = s.closed_stream_send_max
         /\ Hold(s, o).stop_sending_received_ids = s.stop_sending_received_ids
         /\ Hold(s, o).flow_control = s.flow_control
         /\ Hold(s, o).next_stream_id = s.next_stream_id /\ Hold(s, o).events = s.events
BY DEF Hold, Sessions

(* What distinguishes two sessions but for their output.                   *)
SameButOutput(s, t) ==
  /\ t.role = s.role /\ t.config = s.config /\ t.peer_config = s.peer_config
  /\ t.state = s.state /\ t.streams = s.streams
  /\ t.closed_stream_send_max = s.closed_stream_send_max
  /\ t.stop_sending_received_ids = s.stop_sending_received_ids
  /\ t.flow_control = s.flow_control /\ t.next_stream_id = s.next_stream_id
  /\ t.events = s.events

LEMMA HoldIs ==
  ASSUME NEW s \in Sessions, NEW t \in Sessions, SameButOutput(s, t)
  PROVE  t = Hold(s, t.output)
BY DEF Hold, SameButOutput, Sessions

LEMMA HoldSame ==
  ASSUME NEW s \in Sessions, NEW o \in Seq(Capsules)
  PROVE  SameButOutput(s, Hold(s, o)) /\ Hold(Flushed(s), s.output) = s
BY DEF Hold, SameButOutput, Sessions, Flushed

(* MissingUpTo, from the maps it looks at.                                 *)
MissingAmong(streams, closed, id) ==
  LET missing[n \in 0 .. (id \div 4) + 1] ==
        LET i == (id % 4) + 4 * (n - 1)
        IN  IF n = 0 THEN << >>
            ELSE IF i \in DOMAIN streams \/ i \in DOMAIN closed THEN missing[n - 1]
            ELSE Append(missing[n - 1], i)
  IN  missing[(id \div 4) + 1]

LEMMA MissingIs ==
  ASSUME NEW s, NEW id
  PROVE  MissingUpTo(s, id) = MissingAmong(s.streams, s.closed_stream_send_max, id)
BY Zenon DEF MissingUpTo, MissingAmong, Remembered, Known

(* The session create_peer_streams_up_to leaves, field by field.           *)
CreatedStreams(s, id) ==
  LET missing == MissingUpTo(s, id)
      new     == {missing[k] : k \in DOMAIN missing}
  IN  [i \in DOMAIN s.streams \cup new |-> IF i \in new THEN FreshStream(s, id) ELSE s.streams[i]]

LEMMA CreatedIs ==
  ASSUME NEW s, NEW id
  PROVE  CreatePeerStreamsUpTo(s, id) =
           [s EXCEPT !.streams = CreatedStreams(s, id), !.events = @ \o OpenedEvents(s, id)]
<1>1. CreatePeerStreamsUpTo(s, id) =
        [s EXCEPT !.streams = [i \in DOMAIN @ \cup {MissingUpTo(s, id)[k] : k \in DOMAIN MissingUpTo(s, id)} |->
                                 IF i \in {MissingUpTo(s, id)[k] : k \in DOMAIN MissingUpTo(s, id)}
                                 THEN FreshStream(s, id) ELSE s.streams[i]],
                  !.events = @ \o OpenedEvents(s, id)]
  BY Zenon DEF CreatePeerStreamsUpTo, FreshStream, OpenedEvents
<1> QED BY <1>1, Zenon DEF CreatedStreams

LEMMA SameCreated ==
  ASSUME NEW s \in Sessions, NEW t \in Sessions, SameButOutput(s, t), NEW id \in Ids
  PROVE  /\ SameButOutput(CreatePeerStreamsUpTo(s, id), CreatePeerStreamsUpTo(t, id))
         /\ CreatePeerStreamsUpTo(s, id) \in Sessions /\ CreatePeerStreamsUpTo(t, id) \in Sessions
         /\ CreatePeerStreamsUpTo(t, id).output = t.output
         /\ CreatePeerStreamsUpTo(s, id).output = s.output
<1>1. MissingUpTo(t, id) = MissingUpTo(s, id)
  BY MissingIs DEF SameButOutput
<1>2. FreshStream(t, id) = FreshStream(s, id)
  BY DEF FreshStream, SameButOutput, InitialSendMax
<1>3. CreatedStreams(t, id) = CreatedStreams(s, id) /\ OpenedEvents(t, id) = OpenedEvents(s, id)
  BY <1>1, <1>2 DEF CreatedStreams, OpenedEvents, SameButOutput
<1>4. CreatePeerStreamsUpTo(s, id) \in Sessions /\ CreatePeerStreamsUpTo(t, id) \in Sessions
  BY CreateFacts
<1>5. /\ CreatePeerStreamsUpTo(s, id) =
           [s EXCEPT !.streams = CreatedStreams(s, id), !.events = s.events \o OpenedEvents(s, id)]
      /\ CreatePeerStreamsUpTo(t, id) =
           [t EXCEPT !.streams = CreatedStreams(t, id), !.events = t.events \o OpenedEvents(t, id)]
  BY CreatedIs DEF Sessions
<1> QED BY <1>3, <1>4, <1>5 DEF SameButOutput, Sessions

LEMMA SameRefused ==
  ASSUME NEW s \in Sessions, NEW t \in Sessions, SameButOutput(s, t), NEW c \in Capsules
  PROVE  Refused(t, c) <=> Refused(s, c)
<1>1. /\ \A x : Known(t, x) <=> Known(s, x)
      /\ \A x : Remembered(t, x) <=> Remembered(s, x)
      /\ \A x : IsReceiveOnly(t, x) <=> IsReceiveOnly(s, x)
      /\ \A x : IsUncreatedLocal(t, x) <=> IsUncreatedLocal(s, x)
      /\ \A x : CreatesImplicitly(t, x) <=> CreatesImplicitly(s, x)
      /\ \A x : ReceivesOn(t, x) <=> ReceivesOn(s, x)
      /\ \A x : StopSendingReceived(t, x) <=> StopSendingReceived(s, x)
      /\ \A x : ImplicitRefused(t, x) <=> ImplicitRefused(s, x)
      /\ InitialSendMax(t, TRUE) = InitialSendMax(s, TRUE)
  BY DEF SameButOutput, Known, Remembered, IsReceiveOnly, IsUncreatedLocal, CreatesImplicitly,
         ReceivesOn, StopSendingReceived, ImplicitRefused, InitialSendMax
<1>2. c.type = "STREAM" => (StreamDataRefused(t, c) <=> StreamDataRefused(s, c))
  <2>1. SUFFICES ASSUME c.type = "STREAM" PROVE StreamDataRefused(t, c) <=> StreamDataRefused(s, c)
    OBVIOUS
  <2>2. c.id \in Ids
    BY <2>1, CapsuleFields
  <2>3. CreatePeerStreamsUpTo(t, c.id).streams = CreatePeerStreamsUpTo(s, c.id).streams
    BY <2>2, SameCreated DEF SameButOutput
  <2> QED BY <1>1, <2>3 DEF StreamDataRefused, SameButOutput
<1>3. ResetStreamRefused(t, c) <=> ResetStreamRefused(s, c)
  BY <1>1 DEF ResetStreamRefused, SameButOutput
<1>4. StopSendingRefused(t, c) <=> StopSendingRefused(s, c)
  BY <1>1 DEF StopSendingRefused
<1>5. MaxStreamDataRefused(t, c) <=> MaxStreamDataRefused(s, c)
  BY <1>1 DEF MaxStreamDataRefused, SameButOutput
<1>6. t.state = s.state /\ t.flow_control = s.flow_control
  BY DEF SameButOutput
<1> QED BY <1>1, <1>2, <1>3, <1>4, <1>5, <1>6 DEF Refused

LEMMA SameRemoved ==
  ASSUME NEW s \in Sessions, NEW t \in Sessions, SameButOutput(s, t), NEW id
  PROVE  /\ SameButOutput(RemoveIfClosed(s, id), RemoveIfClosed(t, id))
         /\ RemoveIfClosed(s, id).output = s.output /\ RemoveIfClosed(t, id).output = t.output
<1>1. Known(t, id) /\ IsClosed(t.role, id, t.streams[id])
        <=> Known(s, id) /\ IsClosed(s.role, id, s.streams[id])
  BY DEF Known, SameButOutput
<1>2. CASE Known(s, id) /\ IsClosed(s.role, id, s.streams[id])
  <2> DEFINE m == MapInsert(s.closed_stream_send_max, id, s.streams[id].send_max)
             w == Without(s.streams, id)
  <2>1. /\ RemoveIfClosed(s, id) = [s EXCEPT !.streams = w, !.closed_stream_send_max = m]
        /\ RemoveIfClosed(t, id) = [t EXCEPT !.streams = w, !.closed_stream_send_max = m]
    BY <1>1, <1>2 DEF RemoveIfClosed, SameButOutput, Sessions
  <2> HIDE DEF m, w
  <2> QED BY <2>1 DEF SameButOutput, Sessions
<1>3. CASE ~(Known(s, id) /\ IsClosed(s.role, id, s.streams[id]))
  BY <1>1, <1>3 DEF RemoveIfClosed
<1> QED BY <1>2, <1>3

LEMMA SameNotified ==
  ASSUME NEW s \in Sessions, NEW t \in Sessions, SameButOutput(s, t), NEW e
  PROVE  /\ SameButOutput(Notify(s, e), Notify(t, e))
         /\ Notify(s, e).output = s.output /\ Notify(t, e).output = t.output
BY DEF Notify, SameButOutput, Sessions

LEMMA SameImplicit ==
  ASSUME NEW s \in Sessions, NEW t \in Sessions, SameButOutput(s, t), NEW id \in Ids
  PROVE  /\ SameButOutput(CreateImplicitly(s, id), CreateImplicitly(t, id))
         /\ CreateImplicitly(s, id) \in Sessions /\ CreateImplicitly(t, id) \in Sessions
         /\ CreateImplicitly(s, id).output = s.output /\ CreateImplicitly(t, id).output = t.output
<1>1. CreatesImplicitly(t, id) <=> CreatesImplicitly(s, id)
  BY DEF CreatesImplicitly, Remembered, Known, SameButOutput
<1> QED BY <1>1, SameCreated DEF CreateImplicitly

(* One record of a stream is replaced in both.                             *)
LEMMA SameStored ==
  ASSUME NEW s \in Sessions, NEW t \in Sessions, SameButOutput(s, t), NEW id, NEW st
  PROVE  /\ SameButOutput([s EXCEPT !.streams[id] = st], [t EXCEPT !.streams[id] = st])
         /\ [s EXCEPT !.streams[id] = st].output = s.output
         /\ [t EXCEPT !.streams[id] = st].output = t.output
BY DEF SameButOutput, Sessions

LEMMA SameReset ==
  ASSUME NEW s \in Sessions, NEW t \in Sessions, SameButOutput(s, t), NEW id
  PROVE  /\ CanResetStream(t, id) <=> CanResetStream(s, id)
         /\ CanResetStream(s, id) =>
              /\ SameButOutput(ResetStream(s, id), ResetStream(t, id))
              /\ ResetStream(s, id).output = Append(s.output, ResetCapsule(s, id))
              /\ ResetStream(t, id).output = Append(t.output, ResetCapsule(s, id))
<1>1. CanResetStream(t, id) <=> CanResetStream(s, id)
  BY DEF CanResetStream, Known, SameButOutput
<1>2. ASSUME CanResetStream(s, id)
      PROVE  /\ SameButOutput(ResetStream(s, id), ResetStream(t, id))
             /\ ResetStream(s, id).output = Append(s.output, ResetCapsule(s, id))
             /\ ResetStream(t, id).output = Append(t.output, ResetCapsule(s, id))
  <2>1. /\ ResetSent(s, id) \in Sessions /\ ResetStream(s, id) = RemoveIfClosed(ResetSent(s, id), id)
        /\ ResetSent(t, id) \in Sessions /\ ResetStream(t, id) = RemoveIfClosed(ResetSent(t, id), id)
    BY <1>1, <1>2, ResetStreamType
  <2>2. ResetCapsule(t, id) = ResetCapsule(s, id)
    BY DEF ResetCapsule, SameButOutput
  <2>3. /\ ResetSent(s, id).output = Append(s.output, ResetCapsule(s, id))
        /\ ResetSent(t, id).output = Append(t.output, ResetCapsule(s, id))
        /\ SameButOutput(ResetSent(s, id), ResetSent(t, id))
    BY <2>2 DEF ResetSent, Emit, SameButOutput, Sessions
  <2> QED BY <2>1, <2>3, SameRemoved
<1> QED BY <1>1, <1>2

LEMMA SameStopMarked ==
  ASSUME NEW s \in Sessions, NEW t \in Sessions, SameButOutput(s, t), NEW id \in Ids
  PROVE  SameButOutput(StopMarked(s, id), StopMarked(t, id))
<1> DEFINE a == CreateImplicitly(s, id)
           b == CreateImplicitly(t, id)
           Mark(x) == IF Known(x, id) THEN [x EXCEPT !.streams[id].stop_sending_received = TRUE] ELSE x
<1>1. a \in Sessions /\ b \in Sessions /\ SameButOutput(a, b)
  BY SameImplicit
<1>2. /\ StopMarked(s, id) = [Mark(a) EXCEPT !.stop_sending_received_ids = SetInsert(@, id)]
      /\ StopMarked(t, id) = [Mark(b) EXCEPT !.stop_sending_received_ids = SetInsert(@, id)]
  BY Zenon DEF StopMarked
<1> HIDE DEF a, b
<1>3. SameButOutput(Mark(a), Mark(b)) /\ DOMAIN Mark(a) = DOMAIN a /\ DOMAIN Mark(b) = DOMAIN b
  BY <1>1 DEF SameButOutput, Known, Sessions
<1>4. /\ DOMAIN a = {"role", "config", "peer_config", "state", "streams", "closed_stream_send_max",
                     "stop_sending_received_ids", "flow_control", "next_stream_id", "events", "output"}
      /\ DOMAIN b = DOMAIN a
  BY <1>1 DEF Sessions
<1> HIDE DEF Mark
<1> QED BY <1>2, <1>3, <1>4 DEF SameButOutput

(* Of two sessions that differ in their output only, both take a capsule   *)
(* in the same way.                                                        *)
TakenAlike(s, t, u, v) ==
  /\ SameButOutput(u, v) /\ v \in Sessions
  /\ v.output = t.output \o u.output

LEMMA SameData ==
  ASSUME NEW s \in Sessions, NEW t \in Sessions, SameButOutput(s, t), s.output = << >>,
         NEW c \in Capsules, c.type = "STREAM", ~StreamDataRefused(s, c), ~StreamDataRefused(t, c)
  PROVE  TakenAlike(s, t, StreamDataAccepted(s, c), StreamDataAccepted(t, c))
<1> DEFINE a  == WithStream(s, c.id)
           b  == WithStream(t, c.id)
           e  == [type |-> "StreamData", id |-> c.id, from |-> c.from, size |-> c.size, fin |-> c.fin]
           Sa == AfterRecvData(a.streams[c.id], c.size, c.fin)
           Sb == AfterRecvData(b.streams[c.id], c.size, c.fin)
           U(x, st) == [x EXCEPT !.streams[c.id] = st, !.flow_control.recv_offset = @ + c.size]
<1>1. /\ a \in Sessions /\ StreamDataAccepted(s, c) = Notify(U(a, Sa), e) /\ c.id \in Ids
      /\ b \in Sessions /\ StreamDataAccepted(t, c) = Notify(U(b, Sb), e)
      /\ StreamDataAccepted(t, c) \in Sessions
  BY StreamDataFacts
<1>2. Known(t, c.id) <=> Known(s, c.id)
  BY DEF Known, SameButOutput
<1>3. SameButOutput(a, b) /\ a.output = << >> /\ b.output = t.output
  BY <1>1, <1>2, SameCreated DEF WithStream
<1>4. Sb = Sa
  BY <1>3 DEF SameButOutput
<1> HIDE DEF a, b, Sa, Sb
<1>5. /\ SameButOutput(U(a, Sa), U(b, Sa)) /\ U(a, Sa).output = << >> /\ U(b, Sa).output = t.output
      /\ DOMAIN U(a, Sa) = DOMAIN a /\ DOMAIN U(b, Sa) = DOMAIN b
  BY <1>1, <1>3 DEF SameButOutput, Sessions
<1>6. /\ DOMAIN a = {"role", "config", "peer_config", "state", "streams", "closed_stream_send_max",
                     "stop_sending_received_ids", "flow_control", "next_stream_id", "events", "output"}
      /\ DOMAIN b = DOMAIN a
  BY <1>1 DEF Sessions
<1> HIDE DEF U, e
<1>7. /\ SameButOutput(Notify(U(a, Sa), e), Notify(U(b, Sa), e))
      /\ Notify(U(a, Sa), e).output = << >> /\ Notify(U(b, Sa), e).output = t.output
  BY <1>5, <1>6 DEF Notify, SameButOutput
<1>8. t.output \o << >> = t.output
  BY DEF Sessions
<1> QED BY <1>1, <1>4, <1>7, <1>8 DEF TakenAlike

LEMMA SameResetTaken ==
  ASSUME NEW s \in Sessions, NEW t \in Sessions, SameButOutput(s, t), s.output = << >>,
         NEW c \in Capsules, c.type = "RESET_STREAM", ~ResetStreamRefused(s, c), ~ResetStreamRefused(t, c)
  PROVE  TakenAlike(s, t, ResetStreamAccepted(s, c), ResetStreamAccepted(t, c))
<1> DEFINE st == AfterRecvReset(s.streams[c.id])
           e  == [type |-> "StreamReset", id |-> c.id]
           U(x) == Notify([x EXCEPT !.streams[c.id] = st], e)
<1>0. t.streams = s.streams
  BY DEF SameButOutput
<1>1. /\ U(s) \in Sessions /\ ResetStreamAccepted(s, c) = RemoveIfClosed(U(s), c.id)
      /\ U(t) \in Sessions /\ ResetStreamAccepted(t, c) = RemoveIfClosed(U(t), c.id)
      /\ ResetStreamAccepted(t, c) \in Sessions
  BY <1>0, ResetStreamFacts
<1> HIDE DEF st, e
<1>2. SameButOutput(U(s), U(t)) /\ U(s).output = << >> /\ U(t).output = t.output
  BY DEF SameButOutput, Sessions, Notify
<1> HIDE DEF U
<1>3. t.output \o << >> = t.output
  BY DEF Sessions
<1>4. /\ SameButOutput(RemoveIfClosed(U(s), c.id), RemoveIfClosed(U(t), c.id))
      /\ RemoveIfClosed(U(s), c.id).output = << >>
      /\ RemoveIfClosed(U(t), c.id).output = t.output
  BY <1>1, <1>2, SameRemoved
<1> QED BY <1>1, <1>3, <1>4 DEF TakenAlike

LEMMA SameStop ==
  ASSUME NEW s \in Sessions, NEW t \in Sessions, SameButOutput(s, t), s.output = << >>,
         NEW c \in Capsules, c.type = "STOP_SENDING"
  PROVE  TakenAlike(s, t, StopSendingAccepted(s, c), StopSendingAccepted(t, c))
<1> DEFINE a == StopMarked(s, c.id)
           b == StopMarked(t, c.id)
           p == StopAnswer(s, c.id)
           q == StopAnswer(t, c.id)
           e == [type |-> "StopSending", id |-> c.id]
<1>1. /\ c.id \in Ids /\ a \in Sessions /\ a.output = << >> /\ b \in Sessions /\ b.output = t.output
      /\ p \in Sessions /\ q \in Sessions
      /\ StopSendingAccepted(s, c) = Notify(p, e) /\ StopSendingAccepted(t, c) = Notify(q, e)
      /\ StopSendingAccepted(t, c) \in Sessions
  BY StopSendingFacts
<1>2. SameButOutput(a, b)
  BY <1>1, SameStopMarked
<1>3. /\ p = IF CanResetStream(a, c.id) THEN ResetStream(a, c.id) ELSE a
      /\ q = IF CanResetStream(b, c.id) THEN ResetStream(b, c.id) ELSE b
  BY DEF StopAnswer
<1> HIDE DEF a, b, p, q, e
<1>4. SameButOutput(p, q) /\ q.output = t.output \o p.output
  <2>1. t.output \in Seq(Capsules)
    BY DEF Sessions
  <2>2. CASE CanResetStream(a, c.id)
    <3> DEFINE r == ResetCapsule(a, c.id)
    <3>1. SameButOutput(p, q) /\ p.output = Append(<< >>, r) /\ q.output = Append(t.output, r)
      BY <1>1, <1>2, <1>3, <2>2, SameReset
    <3> HIDE DEF r
    <3>2. t.output \o <<r>> = Append(t.output, r) /\ Append(<< >>, r) = <<r>>
      BY <2>1
    <3> QED BY <3>1, <3>2
  <2>3. CASE ~CanResetStream(a, c.id)
    <3>1. p = a /\ q = b
      BY <1>1, <1>2, <1>3, <2>3, SameReset
    <3>2. t.output \o << >> = t.output
      BY <2>1
    <3> QED BY <1>1, <1>2, <3>1, <3>2
  <2> QED BY <2>2, <2>3
<1>5. /\ SameButOutput(Notify(p, e), Notify(q, e))
      /\ Notify(p, e).output = p.output /\ Notify(q, e).output = q.output
  <2>1. p \in Sessions /\ q \in Sessions /\ SameButOutput(p, q)
    BY <1>1, <1>4
  <2> QED BY <2>1, SameNotified, Zenon
<1> QED BY <1>1, <1>4, <1>5 DEF TakenAlike

LEMMA SameCredit ==
  ASSUME NEW s \in Sessions, NEW t \in Sessions, SameButOutput(s, t), s.output = << >>,
         NEW c \in Capsules, c.type = "MAX_STREAM_DATA", ~MaxStreamDataRefused(s, c),
         ~MaxStreamDataRefused(t, c)
  PROVE  TakenAlike(s, t, MaxStreamDataAccepted(s, c), MaxStreamDataAccepted(t, c))
<1>a. t.output \o << >> = t.output
  BY DEF Sessions
<1>0. /\ c.id \in Ids
      /\ MaxStreamDataAccepted(t, c) \in Sessions
      /\ MaxStreamDataAccepted(t, c).output = t.output
      /\ MaxStreamDataAccepted(s, c).output = << >>
      /\ t.output \o << >> = t.output
  BY <1>a, CapsuleFields, MaxStreamDataType
<1>1. CASE ~Known(s, c.id) /\ c.id \in DOMAIN s.closed_stream_send_max
  <2> DEFINE m == MapInsert(s.closed_stream_send_max, c.id, c.maximum)
  <2>1. /\ MaxStreamDataAccepted(s, c) = [s EXCEPT !.closed_stream_send_max = m]
        /\ MaxStreamDataAccepted(t, c) = [t EXCEPT !.closed_stream_send_max = m]
    BY <1>1 DEF MaxStreamDataAccepted, Known, SameButOutput, Sessions
  <2> HIDE DEF m
  <2>2. SameButOutput(MaxStreamDataAccepted(s, c), MaxStreamDataAccepted(t, c))
    BY <2>1 DEF SameButOutput, Sessions
  <2> QED BY <1>0, <2>2 DEF TakenAlike
<1>2. CASE ~(~Known(s, c.id) /\ c.id \in DOMAIN s.closed_stream_send_max)
  <2> DEFINE a == CreateImplicitly(s, c.id)
             b == CreateImplicitly(t, c.id)
             U(x) == IF Known(x, c.id) THEN [x EXCEPT !.streams[c.id].send_max = c.maximum] ELSE x
  <2>1. ~(~Known(t, c.id) /\ c.id \in DOMAIN t.closed_stream_send_max)
    BY <1>2 DEF Known, SameButOutput
  <2>2. MaxStreamDataAccepted(s, c) = U(a) /\ MaxStreamDataAccepted(t, c) = U(b)
    BY <1>2, <2>1, Zenon DEF MaxStreamDataAccepted
  <2>3. a \in Sessions /\ b \in Sessions /\ SameButOutput(a, b)
    BY <1>0, SameImplicit
  <2> HIDE DEF a, b
  <2>4. SameButOutput(U(a), U(b))
    BY <2>3 DEF SameButOutput, Known, Sessions
  <2> QED BY <1>0, <2>2, <2>4 DEF TakenAlike
<1> QED BY <1>1, <1>2

(* The capsules that touch no stream.                                      *)
LEMMA SameQuiet ==
  ASSUME NEW s \in Sessions, NEW t \in Sessions, SameButOutput(s, t), s.output = << >>,
         NEW c \in QuietCapsules, ~Refused(s, c)
  PROVE  TakenAlike(s, t, Accepted(s, c), Accepted(t, c))
<1>0. c \in Capsules /\ c.type \notin {"STREAM", "RESET_STREAM", "STOP_SENDING", "MAX_STREAM_DATA"}
      /\ t.output \o << >> = t.output
  BY DEF QuietCapsules, Sessions
<1>1. Accepted(s, c) \in Sessions
  BY <1>0, AcceptedType
<1>2. /\ SameButOutput(Accepted(s, c), Accepted(t, c))
      /\ Accepted(s, c).output = << >> /\ Accepted(t, c).output = t.output
      /\ DOMAIN Accepted(t, c) = DOMAIN t /\ Accepted(t, c) = [f \in DOMAIN t |-> Accepted(t, c)[f]]
  <2>1. CASE s.state = "Closed"
    BY <2>1 DEF Accepted, SameButOutput, Sessions
  <2>2. CASE s.state # "Closed" /\ c.type = "DATAGRAM"
    BY <2>2 DEF Accepted, SameButOutput, Sessions, Notify
  <2>3. CASE s.state # "Closed" /\ c.type = "MAX_DATA"
    BY <2>3 DEF Accepted, SameButOutput, Sessions
  <2>4. CASE s.state # "Closed" /\ c.type = "MAX_STREAMS"
    BY <2>4 DEF Accepted, SameButOutput, Sessions
  <2>5. CASE s.state # "Closed" /\ c.type = "CLOSE_SESSION"
    BY <2>5 DEF Accepted, SameButOutput, Sessions, Notify
  <2>6. CASE s.state # "Closed" /\ c.type = "DRAIN_SESSION" /\ s.state = "Active"
    BY <2>6 DEF Accepted, SameButOutput, Sessions, Notify
  <2>7. CASE /\ s.state # "Closed"
             /\ c.type \notin {"DATAGRAM", "MAX_DATA", "MAX_STREAMS", "CLOSE_SESSION"}
             /\ ~(c.type = "DRAIN_SESSION" /\ s.state = "Active")
    <3>1. Accepted(s, c) = s /\ Accepted(t, c) = t
      BY <1>0, <2>7 DEF Accepted, SameButOutput
    <3> QED BY <3>1 DEF Sessions
  <2> QED BY <2>1, <2>2, <2>3, <2>4, <2>5, <2>6, <2>7
<1>3. Accepted(t, c) \in Sessions
  BY <1>1, <1>2 DEF SameButOutput, Sessions
<1> QED BY <1>0, <1>2, <1>3 DEF TakenAlike

LEMMA SameAccepted ==
  ASSUME NEW s \in Sessions, NEW t \in Sessions, SameButOutput(s, t), s.output = << >>,
         NEW c \in Capsules, ~Refused(s, c)
  PROVE  TakenAlike(s, t, Accepted(s, c), Accepted(t, c))
<1>a. t.output \o << >> = t.output
  BY DEF Sessions
<1>b. ~Refused(t, c)
  BY SameRefused
<1>0. ~Refused(t, c) /\ t.state = s.state /\ t.output \o << >> = t.output
  BY <1>a, <1>b DEF SameButOutput
<1>1. CASE s.state = "Closed"
  BY <1>0, <1>1 DEF Accepted, TakenAlike
<1>2. CASE s.state # "Closed"
  <2>1. CASE c.type = "STREAM"
    <3>1. /\ ~StreamDataRefused(s, c) /\ Accepted(s, c) = StreamDataAccepted(s, c)
          /\ ~StreamDataRefused(t, c) /\ Accepted(t, c) = StreamDataAccepted(t, c)
      BY <1>0, <1>2, <2>1 DEF Accepted, Refused
    <3> QED BY <2>1, <3>1, SameData
  <2>2. CASE c.type = "RESET_STREAM"
    <3>1. /\ ~ResetStreamRefused(s, c) /\ Accepted(s, c) = ResetStreamAccepted(s, c)
          /\ ~ResetStreamRefused(t, c) /\ Accepted(t, c) = ResetStreamAccepted(t, c)
      BY <1>0, <1>2, <2>2 DEF Accepted, Refused
    <3> QED BY <2>2, <3>1, SameResetTaken
  <2>3. CASE c.type = "STOP_SENDING"
    <3>1. Accepted(s, c) = StopSendingAccepted(s, c) /\ Accepted(t, c) = StopSendingAccepted(t, c)
      BY <1>0, <1>2, <2>3 DEF Accepted
    <3> QED BY <2>3, <3>1, SameStop
  <2>4. CASE c.type = "MAX_STREAM_DATA"
    <3>1. /\ ~MaxStreamDataRefused(s, c) /\ Accepted(s, c) = MaxStreamDataAccepted(s, c)
          /\ ~MaxStreamDataRefused(t, c) /\ Accepted(t, c) = MaxStreamDataAccepted(t, c)
      BY <1>0, <1>2, <2>4 DEF Accepted, Refused
    <3> QED BY <2>4, <3>1, SameCredit
  <2>5. CASE c \in QuietCapsules
    BY <2>5, SameQuiet
  <2> QED BY <2>1, <2>2, <2>3, <2>4, <2>5 DEF QuietCapsules
<1> QED BY <1>1, <1>2

(* process, on a session with output, by what it does without.             *)
LEMMA HeldAccepted ==
  ASSUME NEW t \in Sessions, NEW c \in Capsules
  PROVE  LET s == Flushed(t)
             u == Accepted(s, c)
         IN  /\ s \in Sessions /\ s.output = << >>
             /\ Refused(t, c) <=> Refused(s, c)
             /\ ~Refused(t, c) =>
                  /\ u \in Sessions /\ u.output \in Seq(Capsules)
                  /\ Accepted(t, c) \in Sessions
                  /\ Accepted(t, c).output = t.output \o u.output
                  /\ SameButOutput(u, Accepted(t, c))
                  /\ Flushed(Accepted(t, c)) = Flushed(u)
<1> DEFINE s == Flushed(t)
           u == Accepted(s, c)
           v == Accepted(t, c)
<1>1. s \in Sessions /\ s.output = << >> /\ SameButOutput(s, t)
  BY FlushedType DEF Flushed, SameButOutput, Sessions
<1> HIDE DEF s
<1>2. Refused(t, c) <=> Refused(s, c)
  BY <1>1, SameRefused
<1>3. ASSUME ~Refused(t, c)
      PROVE  /\ u \in Sessions /\ u.output \in Seq(Capsules) /\ v \in Sessions
             /\ v.output = t.output \o u.output /\ SameButOutput(u, v)
             /\ Flushed(v) = Flushed(u)
  <2>1. u \in Sessions
    BY <1>1, <1>2, <1>3, AcceptedType
  <2>2. SameButOutput(u, v) /\ v \in Sessions /\ v.output = t.output \o u.output
    BY <1>1, <1>2, <1>3, SameAccepted DEF TakenAlike
  <2> HIDE DEF u, v
  <2>3. Flushed(v) = Flushed(u) /\ u.output \in Seq(Capsules)
    BY <2>1, <2>2 DEF Flushed, SameButOutput, Sessions
  <2> QED BY <2>1, <2>2, <2>3
<1> QED BY <1>1, <1>2, <1>3 DEF s

-----------------------------------------------------------------------------
(* The types of the driver.                                                *)
Packets == [kind : {"data", "reset"}, size : Nat, fin : BOOLEAN]

Drivers ==
  [session : Sessions, channels : SUBSET Ids, stopping : SUBSET Ids, responded : BOOLEAN,
   closed : [BOOLEAN -> Nat], handles : SUBSET Ids, ok : BOOLEAN, packets : Maps(Seq(Packets))]

(* A turn that has failed leaves a driver nobody looks at any more.        *)
Turned(d) == "ok" \in DOMAIN d /\ d.ok \in BOOLEAN /\ (d.ok => d \in Drivers)

(* e is d after a part of a turn: a turn that has failed stays so, and     *)
(* nothing of it answers the end of the stream.                            *)
Goes(d, e) ==
  /\ Turned(e) /\ (e.ok => d.ok)
  /\ e.ok => e.responded = d.responded

LEMMA DriverFields ==
  ASSUME NEW d \in Drivers
  PROVE  /\ d.session \in Sessions /\ d.channels \subseteq Ids /\ d.stopping \subseteq Ids
         /\ d.handles \subseteq Ids /\ d.packets \in Maps(Seq(Packets))
         /\ d.closed \in [BOOLEAN -> Nat] /\ d.ok \in BOOLEAN /\ d.responded \in BOOLEAN
         /\ Turned(d)
         /\ \A s \in Sessions : [d EXCEPT !.session = s] \in Drivers
  BY DEF Drivers, Turned

(* The initial credit of a stream, as maybe_grow_stream_window has it.     *)
InitialOf(s, id) ==
  IF ~IsBidirectional(id) THEN s.config.uni
  ELSE IF IsPeerInitiated(s.role, id) THEN s.config.bidi_remote ELSE s.config.bidi_local

NeedsCredit(s, id) ==
  Known(s, id) /\ CanRecv(s.streams[id]) /\ ~(RecvAvailable(s.streams[id]) >= HalfOf(InitialOf(s, id)))

GrownMax(s, id) == s.streams[id].recv_max + InitialOf(s, id)

LEMMA GrowStreamIs ==
  ASSUME NEW d, NEW id
  PROVE  GrowStreamWindow(d, id) =
           IF ~NeedsCredit(d.session, id) THEN d
           ELSE [d EXCEPT !.session = SendMaxStreamData(d.session, id, GrownMax(d.session, id)),
                          !.ok = CanSendMaxStreamData(d.session, id, GrownMax(d.session, id))]
<1>1. GrowStreamWindow(d, id) =
        IF ~Known(d.session, id) \/ ~CanRecv(d.session.streams[id])
           \/ RecvAvailable(d.session.streams[id]) >= HalfOf(InitialOf(d.session, id))
        THEN d
        ELSE [d EXCEPT !.session = SendMaxStreamData(d.session, id, GrownMax(d.session, id)),
                       !.ok = CanSendMaxStreamData(d.session, id, GrownMax(d.session, id))]
  BY Zenon DEF GrowStreamWindow, InitialOf, GrownMax
<1> QED BY <1>1, Zenon DEF NeedsCredit

LEMMA ConfigTypes ==
  ASSUME NEW s \in Sessions
  PROVE  /\ s.config.max_data \in Nat
         /\ \A id : InitialOf(s, id) \in Nat
         /\ \A b \in BOOLEAN : s.config.max_streams[b] \in Nat
<1>1. s.config \in Configs
  BY DEF Sessions
<1> QED BY <1>1, MaxValueAssumption, MaxStreamsAssumption DEF Configs, InitialOf

(* maybe_grow_stream_window: nothing, or credit for a stream.              *)
GrowsStream(d, e, id) ==
  \/ ~NeedsCredit(d.session, id) /\ e = d
  \/ LET m == GrownMax(d.session, id)
     IN  /\ NeedsCredit(d.session, id) /\ CanSendMaxStreamData(d.session, id, m) /\ m \in Nat
         /\ e = [d EXCEPT !.session = SendMaxStreamData(d.session, id, m)]
         /\ SendMaxStreamData(d.session, id, m) \in Sessions

LEMMA GrowStreamType ==
  ASSUME NEW d \in Drivers, d.ok, NEW id
  PROVE  LET e == GrowStreamWindow(d, id)
         IN  /\ Goes(d, e)
             /\ e.ok => /\ GrowsStream(d, e, id)
                        /\ e.session.events = d.session.events
<1> DEFINE s == d.session
           m == GrownMax(s, id)
           e == GrowStreamWindow(d, id)
<1>0. s \in Sessions /\ Turned(d)
  BY DriverFields
<1>1. CASE ~NeedsCredit(s, id)
  <2>1. e = d
    BY <1>1, GrowStreamIs
  <2> QED BY <1>0, <1>1, <2>1 DEF Goes, GrowsStream
<1>2. CASE NeedsCredit(s, id)
  <2>1. e = [d EXCEPT !.session = SendMaxStreamData(s, id, m), !.ok = CanSendMaxStreamData(s, id, m)]
    BY <1>2, GrowStreamIs
  <2>2. s.streams[id] \in WtStreams
    BY <1>0, <1>2, KnownStream DEF NeedsCredit
  <2>3. m \in Nat
    BY <1>0, <2>2, ConfigTypes, MaxValueAssumption DEF GrownMax, WtStreams
  <2>4. CanSendMaxStreamData(s, id, m) \in BOOLEAN
    BY DEF CanSendMaxStreamData
  <2>5. CASE ~CanSendMaxStreamData(s, id, m)
    <3>1. "ok" \in DOMAIN e /\ e.ok = FALSE
      <4> HIDE DEF m
      <4> QED BY <2>1, <2>4, <2>5 DEF Drivers
    <3> QED BY <3>1 DEF Goes, Turned
  <2>6. CASE CanSendMaxStreamData(s, id, m)
    <3>1. SendMaxStreamData(s, id, m) \in Sessions
      BY <1>0, <2>3, <2>6, SendMaxStreamDataType
    <3>2. SendMaxStreamData(s, id, m).events = s.events
      BY <1>0 DEF SendMaxStreamData, Emit, Sessions
    <3> HIDE DEF m
    <3>3. e = [d EXCEPT !.session = SendMaxStreamData(s, id, m)]
      BY <2>1, <2>6 DEF Drivers
    <3>4. e \in Drivers /\ e.ok /\ e.responded = d.responded /\ e.session = SendMaxStreamData(s, id, m)
      BY <3>1, <3>3 DEF Drivers
    <3>5. Goes(d, e)
      <4> HIDE DEF e
      <4>1. "ok" \in DOMAIN e
        BY <3>4 DEF Drivers
      <4> QED BY <3>4, <4>1 DEF Goes, Turned
    <3>6. GrowsStream(d, e, id)
      BY <1>2, <2>3, <2>6, <3>1, <3>3 DEF GrowsStream, m
    <3> HIDE DEF e
    <3> QED BY <3>2, <3>4, <3>5, <3>6 DEF e
  <2> QED BY <2>5, <2>6
<1> QED BY <1>1, <1>2

(* maybe_grow_session_window.                                              *)
SessionMax(s) == s.flow_control.recv_max + s.config.max_data

GrowsSession(d, e) ==
  LET s == d.session
  IN  \/ ~ShouldSendMaxData(s.flow_control, s.config.max_data) /\ e = d
      \/ /\ ShouldSendMaxData(s.flow_control, s.config.max_data)
         /\ CanSendMaxData(s, SessionMax(s)) /\ SessionMax(s) \in Nat
         /\ e = [d EXCEPT !.session = SendMaxData(s, SessionMax(s))]
         /\ SendMaxData(s, SessionMax(s)) \in Sessions

LEMMA GrowSessionType ==
  ASSUME NEW d \in Drivers, d.ok
  PROVE  LET e == GrowSessionWindow(d)
         IN  /\ Goes(d, e)
             /\ e.ok => /\ GrowsSession(d, e)
                        /\ e.session.events = d.session.events
<1> DEFINE s == d.session
           m == SessionMax(s)
           e == GrowSessionWindow(d)
<1>0. s \in Sessions /\ Turned(d)
  BY DriverFields
<1>i. e = IF ShouldSendMaxData(s.flow_control, s.config.max_data)
          THEN [d EXCEPT !.session = SendMaxData(s, m), !.ok = CanSendMaxData(s, m)] ELSE d
  BY Zenon DEF GrowSessionWindow, SessionMax
<1>1. CASE ~ShouldSendMaxData(s.flow_control, s.config.max_data)
  <2>1. e = d
    BY <1>1, <1>i
  <2> QED BY <1>0, <1>1, <2>1 DEF Goes, GrowsSession
<1>2. CASE ShouldSendMaxData(s.flow_control, s.config.max_data)
  <2>1. e = [d EXCEPT !.session = SendMaxData(s, m), !.ok = CanSendMaxData(s, m)]
    BY <1>2, <1>i
  <2>3. m \in Nat
    <3>1. s.flow_control.recv_max \in Nat
      BY <1>0, MaxValueAssumption DEF Sessions, WtFlowControls
    <3> QED BY <1>0, <3>1, ConfigTypes DEF SessionMax
  <2>4. CanSendMaxData(s, m) \in BOOLEAN
    BY DEF CanSendMaxData, CanRaiseRecvMax
  <2>5. CASE ~CanSendMaxData(s, m)
    <3>1. "ok" \in DOMAIN e /\ e.ok = FALSE
      <4> HIDE DEF m
      <4> QED BY <2>1, <2>4, <2>5 DEF Drivers
    <3> QED BY <3>1 DEF Goes, Turned
  <2>6. CASE CanSendMaxData(s, m)
    <3>1. SendMaxData(s, m) \in Sessions
      BY <1>0, <2>3, <2>6, CreditType
    <3>2. SendMaxData(s, m).events = s.events
      BY <1>0 DEF SendMaxData, Emit, Sessions
    <3> HIDE DEF m
    <3>3. e = [d EXCEPT !.session = SendMaxData(s, m)]
      BY <2>1, <2>6 DEF Drivers
    <3>4. e \in Drivers /\ e.ok /\ e.responded = d.responded /\ e.session = SendMaxData(s, m)
      BY <3>1, <3>3 DEF Drivers
    <3>5. Goes(d, e)
      <4> HIDE DEF e
      <4>1. "ok" \in DOMAIN e
        BY <3>4 DEF Drivers
      <4> QED BY <3>4, <4>1 DEF Goes, Turned
    <3>6. GrowsSession(d, e)
      BY <1>2, <2>3, <2>6, <3>1, <3>3 DEF GrowsSession, m
    <3> HIDE DEF e
    <3> QED BY <3>2, <3>4, <3>5, <3>6 DEF e
  <2> QED BY <2>5, <2>6
<1> QED BY <1>1, <1>2

(* maybe_grow_max_streams.                                                 *)
FewClosed(d, b) ==
  d.session.config.max_streams[b] = 0 \/ d.closed[b] * 2 < d.session.config.max_streams[b]

StreamsMax(d, b) == d.session.flow_control.max_streams_local[b] + d.closed[b]

GrowsStreams(d, e, b) ==
  LET s == d.session
      m == StreamsMax(d, b)
  IN  \/ FewClosed(d, b) /\ e = d
      \/ /\ ~FewClosed(d, b) /\ CanSendMaxStreams(s, m, b) /\ m \in Nat
         /\ e = [d EXCEPT !.session = SendMaxStreams(s, m, b), !.closed[b] = 0]
         /\ SendMaxStreams(s, m, b) \in Sessions

LEMMA GrowStreamsType ==
  ASSUME NEW d \in Drivers, d.ok, NEW b \in BOOLEAN
  PROVE  LET e == GrowMaxStreams(d, b)
         IN  /\ Goes(d, e)
             /\ e.ok => /\ GrowsStreams(d, e, b)
                        /\ e.session.events = d.session.events
<1> DEFINE s == d.session
           m == StreamsMax(d, b)
           e == GrowMaxStreams(d, b)
<1>0. s \in Sessions /\ Turned(d) /\ d.closed \in [BOOLEAN -> Nat]
  BY DriverFields
<1>i. e = IF FewClosed(d, b) THEN d
          ELSE [d EXCEPT !.session = SendMaxStreams(s, m, b), !.ok = CanSendMaxStreams(s, m, b),
                         !.closed[b] = 0]
  BY Zenon DEF GrowMaxStreams, StreamsMax, FewClosed
<1>1. CASE FewClosed(d, b)
  <2>1. e = d
    BY <1>1, <1>i
  <2> QED BY <1>0, <1>1, <2>1 DEF Goes, GrowsStreams
<1>2. CASE ~FewClosed(d, b)
  <2>1. e = [d EXCEPT !.session = SendMaxStreams(s, m, b), !.ok = CanSendMaxStreams(s, m, b),
                      !.closed[b] = 0]
    BY <1>2, <1>i
  <2>3. m \in Nat
    <3>1. s.flow_control.max_streams_local[b] \in Nat
      BY <1>0, MaxStreamsAssumption DEF Sessions, WtFlowControls
    <3> QED BY <1>0, <3>1 DEF StreamsMax
  <2>4. CanSendMaxStreams(s, m, b) \in BOOLEAN
    BY DEF CanSendMaxStreams, Live
  <2>5. CASE ~CanSendMaxStreams(s, m, b)
    <3>1. "ok" \in DOMAIN e /\ e.ok = FALSE
      <4> HIDE DEF m
      <4> QED BY <2>1, <2>4, <2>5 DEF Drivers
    <3> QED BY <3>1 DEF Goes, Turned
  <2>6. CASE CanSendMaxStreams(s, m, b)
    <3>1. SendMaxStreams(s, m, b) \in Sessions
      BY <1>0, <2>3, <2>6, CreditType
    <3>2. SendMaxStreams(s, m, b).events = s.events
      BY <1>0 DEF SendMaxStreams, Emit, Sessions
    <3> HIDE DEF m
    <3>3. e = [d EXCEPT !.session = SendMaxStreams(s, m, b), !.closed[b] = 0]
      BY <2>1, <2>6 DEF Drivers
    <3>c. [d.closed EXCEPT ![b] = 0] \in [BOOLEAN -> Nat]
      BY <1>0
    <3>4. e \in Drivers /\ e.ok /\ e.responded = d.responded /\ e.session = SendMaxStreams(s, m, b)
      <4> DEFINE c == [d.closed EXCEPT ![b] = 0]
      <4>1. e = [d EXCEPT !.session = SendMaxStreams(s, m, b), !.closed = c]
        BY <3>3
      <4> HIDE DEF c, e
      <4> QED BY <3>1, <3>c, <4>1 DEF Drivers, c
    <3>5. Goes(d, e)
      <4> HIDE DEF e
      <4>1. "ok" \in DOMAIN e
        BY <3>4 DEF Drivers
      <4> QED BY <3>4, <4>1 DEF Goes, Turned
    <3>6. GrowsStreams(d, e, b)
      BY <1>2, <2>3, <2>6, <3>1, <3>3 DEF GrowsStreams, m
    <3> HIDE DEF e
    <3> QED BY <3>2, <3>4, <3>5, <3>6 DEF e
  <2> QED BY <2>5, <2>6
<1> QED BY <1>1, <1>2

(* The credit given at the end of a turn.                                  *)
GrowsAll(d, e) ==
  \E d1, d2 : /\ d1 \in Drivers /\ d1.ok /\ d2 \in Drivers /\ d2.ok
              /\ GrowsSession(d, d1) /\ GrowsStreams(d1, d2, TRUE) /\ GrowsStreams(d2, e, FALSE)

LEMMA GrowAllType ==
  ASSUME NEW d \in Drivers, d.ok
  PROVE  LET e == GrowAll(d)
         IN  /\ Goes(d, e)
             /\ e.ok => /\ GrowsAll(d, e)
                        /\ e.session.events = d.session.events
<1> DEFINE d1 == GrowSessionWindow(d)
           d2 == IF d1.ok THEN GrowMaxStreams(d1, TRUE) ELSE d1
           e  == IF d2.ok THEN GrowMaxStreams(d2, FALSE) ELSE d2
<1>1. GrowAll(d) = e
  BY Zenon DEF GrowAll
<1>2. /\ Goes(d, d1)
      /\ d1.ok => GrowsSession(d, d1) /\ d1.session.events = d.session.events
  BY GrowSessionType
<1>3. /\ Turned(d2) /\ (d2.ok => d1.ok)
      /\ d2.ok => d2.responded = d.responded /\ GrowsStreams(d1, d2, TRUE)
                    /\ d2.session.events = d.session.events
  <2>1. CASE ~d1.ok
    BY <1>2, <2>1 DEF Goes
  <2>2. CASE d1.ok
    <3>1. d1 \in Drivers /\ d1.responded = d.responded
      BY <1>2, <2>2 DEF Goes, Turned
    <3>2. d2 = GrowMaxStreams(d1, TRUE)
      BY <2>2
    <3> HIDE DEF d1, d2
    <3>3. /\ Goes(d1, d2)
          /\ d2.ok => GrowsStreams(d1, d2, TRUE) /\ d2.session.events = d1.session.events
      BY <2>2, <3>1, <3>2, GrowStreamsType
    <3> QED BY <1>2, <2>2, <3>1, <3>3 DEF Goes
  <2> QED BY <2>1, <2>2
<1>4. /\ Turned(e) /\ (e.ok => d2.ok)
      /\ e.ok => e.responded = d.responded /\ GrowsStreams(d2, e, FALSE)
                   /\ e.session.events = d.session.events
  <2>1. CASE ~d2.ok
    BY <1>3, <2>1
  <2>2. CASE d2.ok
    <3>1. d2 \in Drivers
      BY <1>3, <2>2 DEF Turned
    <3>2. e = GrowMaxStreams(d2, FALSE)
      BY <2>2
    <3> HIDE DEF d2, e
    <3>3. /\ Goes(d2, e)
          /\ e.ok => GrowsStreams(d2, e, FALSE) /\ e.session.events = d2.session.events
      BY <2>2, <3>1, <3>2, GrowStreamsType
    <3> QED BY <1>3, <2>2, <3>3 DEF Goes
  <2> QED BY <2>1, <2>2
<1> HIDE DEF d1, d2, e
<1>5. Goes(d, e)
  BY <1>4 DEF Goes
<1>6. e.ok => d1 \in Drivers /\ d1.ok /\ d2 \in Drivers /\ d2.ok
  BY <1>2, <1>3, <1>4 DEF Goes, Turned
<1>7. e.ok => GrowsAll(d, e)
  BY <1>2, <1>3, <1>4, <1>6 DEF GrowsAll
<1> QED BY <1>1, <1>4, <1>5, <1>7

(* What of a driver a part of its turn leaves alone, apart from the        *)
(* session, the channels, the stopped streams and the counts of streams.   *)
Others(d, e) == e \in Drivers /\ e.ok = d.ok /\ e.responded = d.responded

LEMMA DeliverType ==
  ASSUME NEW d \in Drivers, NEW id, NEW p \in Packets
  PROVE  LET e == Deliver(d, id, p)
         IN  /\ Others(d, e) /\ e.session = d.session /\ e.channels = d.channels
             /\ e.stopping = d.stopping /\ e.closed = d.closed
<1> DEFINE f == d.packets
           g == [f EXCEPT ![id] = Append(@, p)]
<1>1. CASE id \notin d.channels
  BY <1>1 DEF Deliver, Others
<1>2. CASE id \in d.channels
  <2>1. f \in Maps(Seq(Packets))
    BY DriverFields
  <2>2. g \in Maps(Seq(Packets))
    <3>1. CASE id \in DOMAIN f
      <4>1. f[id] \in Seq(Packets)
        BY <2>1, <3>1, MapFacts
      <4>2. Append(f[id], p) \in Seq(Packets)
        BY <4>1
      <4>3. g = [f EXCEPT ![id] = Append(f[id], p)]
        BY <3>1
      <4> HIDE DEF f, g
      <4> QED BY <2>1, <3>1, <4>2, <4>3, ExceptFacts
    <3>2. CASE id \notin DOMAIN f
      <4>1. f = [x \in DOMAIN f |-> f[x]]
        BY <2>1, MapFacts
      <4>2. g = f
        BY <3>2, <4>1
      <4> QED BY <2>1, <4>2
    <3> QED BY <3>1, <3>2
  <2>3. Deliver(d, id, p) = [d EXCEPT !.packets = g]
    BY <1>2 DEF Deliver
  <2> HIDE DEF g
  <2> QED BY <2>2, <2>3 DEF Others, Drivers
<1> QED BY <1>1, <1>2

(* The receiving direction of a stream is over.                            *)
Finishes(d, e, id) ==
  /\ Others(d, e) /\ e.session = d.session
  /\ e.channels = d.channels \ {id} /\ e.stopping = d.stopping \ {id}

LEMMA ReceiveEndedType ==
  ASSUME NEW d \in Drivers, NEW id
  PROVE  Finishes(d, ReceiveEnded(d, id), id)
<1> DEFINE c == [d EXCEPT !.channels = @ \ {id}, !.stopping = @ \ {id}]
           b == IsBidirectional(id)
           n == [d.closed EXCEPT ![b] = @ + 1]
<1>1. /\ c \in Drivers /\ c.ok = d.ok /\ c.responded = d.responded /\ c.session = d.session
      /\ c.channels = d.channels \ {id} /\ c.stopping = d.stopping \ {id} /\ c.closed = d.closed
  BY DEF Drivers
<1>2. d.closed \in [BOOLEAN -> Nat]
  BY DriverFields
<1>3. b \in BOOLEAN
  BY DEF IsBidirectional
<1>4. n \in [BOOLEAN -> Nat]
  <2> HIDE DEF b
  <2>1. n = [d.closed EXCEPT ![b] = d.closed[b] + 1]
    BY <1>2, <1>3
  <2>2. d.closed[b] + 1 \in Nat
    BY <1>2, <1>3
  <2> QED BY <1>2, <1>3, <2>1, <2>2
<1>5. ReceiveEnded(d, id) = AccountClosed(c, id)
  BY Zenon DEF ReceiveEnded
<1>6. AccountClosed(c, id) = IF IsClientInitiated(id) THEN [c EXCEPT !.closed = n] ELSE c
  BY <1>1 DEF AccountClosed
<1> HIDE DEF c, n
<1>7. /\ [c EXCEPT !.closed = n] \in Drivers
      /\ \A f \in {"ok", "responded", "session", "channels", "stopping"} :
           [c EXCEPT !.closed = n][f] = c[f]
  BY <1>1, <1>4 DEF Drivers
<1> DEFINE e == ReceiveEnded(d, id)
<1>8. /\ e \in Drivers /\ e.ok = c.ok /\ e.responded = c.responded /\ e.session = c.session
      /\ e.channels = c.channels /\ e.stopping = c.stopping
  <2>1. CASE IsClientInitiated(id)
    <3>1. e = [c EXCEPT !.closed = n]
      BY <1>5, <1>6, <2>1
    <3> HIDE DEF e
    <3> QED BY <1>7, <3>1
  <2>2. CASE ~IsClientInitiated(id)
    <3>1. e = c
      BY <1>5, <1>6, <2>2
    <3> HIDE DEF e
    <3> QED BY <1>1, <3>1
  <2> QED BY <2>1, <2>2
<1> HIDE DEF e
<1>9. Finishes(d, e, id)
  BY <1>1, <1>8 DEF Finishes, Others
<1> QED BY <1>9 DEF e

(* Credit for a stream, in the session.                                    *)
Grown(s, t, id) ==
  \/ ~NeedsCredit(s, id) /\ t = s
  \/ LET m == GrownMax(s, id)
     IN  /\ NeedsCredit(s, id) /\ CanSendMaxStreamData(s, id, m) /\ m \in Nat
         /\ t = SendMaxStreamData(s, id, m) /\ t \in Sessions

(* What dispatch_wt_event does with an event, when it does not fail.       *)
TakesOut(d, e, id) == e.channels = d.channels \ {id} /\ e.stopping = d.stopping \ {id}
KeepsIn(d, e)      == e.channels = d.channels /\ e.stopping = d.stopping

Dispatched(d, e, event) ==
  \/ /\ event.type = "StreamOpened" /\ e.session = d.session
     /\ e.channels = d.channels \cup {event.id} /\ e.stopping = d.stopping
  \/ /\ event.type = "StreamData"
     /\ IF event.id \in d.stopping THEN e.session = d.session ELSE Grown(d.session, e.session, event.id)
     /\ IF event.fin THEN TakesOut(d, e, event.id) ELSE KeepsIn(d, e)
  \/ event.type = "StreamReset" /\ e.session = d.session /\ TakesOut(d, e, event.id)
  \/ event.type \notin {"StreamOpened", "StreamData", "StreamReset"} /\ e = d

LEMMA GrowsGrown ==
  ASSUME NEW d \in Drivers, NEW e, NEW id, GrowsStream(d, e, id)
  PROVE  Grown(d.session, e.session, id) /\ Others(d, e) /\ KeepsIn(d, e)
<1> DEFINE m == GrownMax(d.session, id)
           t == SendMaxStreamData(d.session, id, m)
<1>1. CASE e = d /\ ~NeedsCredit(d.session, id)
  BY <1>1 DEF Grown, Others, KeepsIn
<1>2. CASE ~(e = d /\ ~NeedsCredit(d.session, id))
  <2>1. /\ NeedsCredit(d.session, id) /\ CanSendMaxStreamData(d.session, id, m) /\ m \in Nat
        /\ e = [d EXCEPT !.session = t] /\ t \in Sessions
    BY <1>2, Zenon DEF GrowsStream
  <2>2. Others(d, e) /\ KeepsIn(d, e) /\ e.session = t
    <3> HIDE DEF t
    <3> QED BY <2>1 DEF Others, KeepsIn, Drivers
  <2>3. Grown(d.session, e.session, id)
    BY <2>1, <2>2 DEF Grown
  <2> QED BY <2>2, <2>3
<1> QED BY <1>1, <1>2

LEMMA DispatchDataType ==
  ASSUME NEW d \in Drivers, d.ok, NEW event \in Events, event.type = "StreamData"
  PROVE  LET e == DispatchData(d, event)
         IN  /\ Goes(d, e)
             /\ e.ok => Dispatched(d, e, event) /\ e.session.events = d.session.events
<1> DEFINE id == event.id
           p  == [kind |-> "data", size |-> event.size, fin |-> event.fin]
           d1 == Deliver(d, id, p)
           d2 == IF id \in d.stopping THEN d ELSE GrowStreamWindow(d1, id)
           e  == DispatchData(d, event)
<1>1. e = IF event.fin /\ d2.ok THEN ReceiveEnded(d2, id) ELSE d2
  BY Zenon DEF DispatchData
<1>2. p \in Packets /\ event.fin \in BOOLEAN
  BY EventFields DEF Packets
<1>3. /\ Turned(d2)
      /\ d2.ok => /\ Others(d, d2) /\ KeepsIn(d, d2)
                  /\ IF id \in d.stopping THEN d2.session = d.session
                     ELSE Grown(d.session, d2.session, id)
                  /\ d2.session.events = d.session.events
  <2>1. CASE id \in d.stopping
    <3>1. d2 = d
      BY <2>1
    <3>2. Turned(d)
      BY DriverFields
    <3> HIDE DEF d2
    <3> QED BY <2>1, <3>1, <3>2 DEF Others, KeepsIn
  <2>2. CASE id \notin d.stopping
    <3>1. d2 = GrowStreamWindow(d1, id)
      BY <2>2
    <3> HIDE DEF p
    <3>2. /\ Others(d, d1) /\ d1.session = d.session /\ d1.channels = d.channels
          /\ d1.stopping = d.stopping
      BY <1>2, DeliverType
    <3> HIDE DEF d1, d2, id
    <3>3. d1 \in Drivers /\ d1.ok
      BY <3>2 DEF Others
    <3>4. /\ Goes(d1, d2)
          /\ d2.ok => GrowsStream(d1, d2, id) /\ d2.session.events = d1.session.events
      BY <3>1, <3>3, GrowStreamType
    <3>5. d2.ok => Grown(d1.session, d2.session, id) /\ Others(d1, d2) /\ KeepsIn(d1, d2)
      BY <3>3, <3>4, GrowsGrown
    <3> QED BY <2>2, <3>2, <3>3, <3>4, <3>5 DEF Goes, Others, KeepsIn
  <2> QED BY <2>1, <2>2
<1> HIDE DEF d2, id, e
<1>4. CASE ~(event.fin /\ d2.ok)
  <2>1. e = d2
    BY <1>1, <1>4
  <2>2. Goes(d, e)
    BY <1>3, <2>1 DEF Goes, Others
  <2>3. e.ok => Dispatched(d, e, event)
    BY <1>2, <1>3, <1>4, <2>1 DEF Dispatched, id
  <2> QED BY <1>3, <2>1, <2>2, <2>3 DEF e
<1>5. CASE event.fin /\ d2.ok
  <2>1. e = ReceiveEnded(d2, id) /\ d2 \in Drivers
    BY <1>1, <1>3, <1>5 DEF Others
  <2>2. Finishes(d2, e, id)
    BY <2>1, ReceiveEndedType
  <2>3. e \in Drivers /\ Turned(e) /\ e.responded = d.responded
    BY <1>3, <1>5, <2>2, DriverFields DEF Finishes, Others
  <2>4. Dispatched(d, e, event)
    BY <1>3, <1>5, <2>2 DEF Dispatched, Finishes, TakesOut, KeepsIn, id
  <2>5. Goes(d, e)
    BY <2>3 DEF Goes
  <2>6. e.session.events = d.session.events
    BY <1>3, <1>5, <2>2 DEF Finishes
  <2> QED BY <2>4, <2>5, <2>6 DEF e
<1> QED BY <1>4, <1>5

LEMMA DispatchType ==
  ASSUME NEW d \in Drivers, d.ok, NEW event \in Events
  PROVE  LET e == Dispatch(d, event)
         IN  /\ Goes(d, e)
             /\ e.ok => Dispatched(d, e, event) /\ e.session.events = d.session.events
<1> DEFINE e == Dispatch(d, event)
<1>0. Turned(d)
  BY DriverFields
<1>1. CASE event.type = "StreamOpened"
  <2> DEFINE m == With(d.packets, event.id, << >>)
  <2>1. e = [d EXCEPT !.channels = @ \cup {event.id}, !.handles = @ \cup {event.id}, !.packets = m]
    BY <1>1 DEF Dispatch
  <2>2. event.id \in Ids
    BY <1>1, EventFields
  <2>3. d.packets \in Maps(Seq(Packets)) /\ << >> \in Seq(Packets)
    BY DriverFields
  <2>4. m \in Maps(Seq(Packets))
    BY <2>2, <2>3, WithFacts
  <2> HIDE DEF e, m
  <2>5. /\ e \in Drivers /\ e.ok /\ e.responded = d.responded /\ e.session = d.session
        /\ e.channels = d.channels \cup {event.id} /\ e.stopping = d.stopping
    BY <2>1, <2>2, <2>4 DEF Drivers
  <2>6. Goes(d, e)
    BY <2>5, DriverFields DEF Goes
  <2> QED BY <1>1, <2>5, <2>6 DEF Dispatched, e
<1>2. CASE event.type = "StreamData"
  <2>1. e = DispatchData(d, event)
    BY <1>2 DEF Dispatch
  <2> QED BY <1>2, <2>1, DispatchDataType
<1>3. CASE event.type = "StreamReset"
  <2> DEFINE p == [kind |-> "reset", size |-> 0, fin |-> FALSE]
             d1 == Deliver(d, event.id, p)
  <2>1. e = ReceiveEnded(d1, event.id)
    BY <1>3, Zenon DEF Dispatch
  <2>2. p \in Packets
    BY DEF Packets
  <2> HIDE DEF p
  <2>3. /\ Others(d, d1) /\ d1.session = d.session /\ d1.channels = d.channels
        /\ d1.stopping = d.stopping
    BY <2>2, DeliverType
  <2> HIDE DEF d1, e
  <2>4. Finishes(d1, e, event.id)
    BY <2>1, <2>3, ReceiveEndedType DEF Others
  <2>5. e \in Drivers /\ Turned(e) /\ e.responded = d.responded
    BY <2>3, <2>4, DriverFields DEF Finishes, Others
  <2>6. Goes(d, e)
    BY <2>5 DEF Goes
  <2>7. Dispatched(d, e, event) /\ e.session.events = d.session.events
    BY <1>3, <2>3, <2>4 DEF Dispatched, Finishes, TakesOut
  <2> QED BY <2>6, <2>7 DEF e
<1>4. CASE event.type \notin {"StreamOpened", "StreamData", "StreamReset"}
  <2>1. e = d
    BY <1>4 DEF Dispatch
  <2> QED BY <1>0, <1>4, <2>1 DEF Goes, Dispatched
<1> QED BY <1>1, <1>2, <1>3, <1>4

LEMMA PollRest ==
  ASSUME NEW s \in Sessions, s.events # << >>
  PROVE  LET t == PollEvent(s)
         IN  /\ t \in Sessions /\ Head(s.events) \in Events
             /\ t.events = Tail(s.events) /\ Len(t.events) = Len(s.events) - 1
             /\ t.output = s.output /\ t.state = s.state /\ t.flow_control = s.flow_control
             /\ t.stop_sending_received_ids = s.stop_sending_received_ids
             /\ t.next_stream_id = s.next_stream_id /\ Kept(s, t)
<1> DEFINE event == Head(s.events)
           u == [s EXCEPT !.events = Tail(@)]
           p == Polled(s)
           t == PollEvent(s)
<1>1. t \in Sessions /\ event \in Events /\ u \in Sessions /\ (event.type = "StreamData" => p \in Sessions)
  BY PollEventType
<1>2. /\ u.events = Tail(s.events) /\ u.output = s.output /\ u.state = s.state
      /\ u.flow_control = s.flow_control /\ u.next_stream_id = s.next_stream_id /\ Kept(s, u)
      /\ u.stop_sending_received_ids = s.stop_sending_received_ids
  BY DEF Sessions, Kept
<1>3. t = IF event.type = "StreamData" /\ event.fin THEN RemoveIfClosed(p, event.id) ELSE u
  BY Zenon DEF PollEvent, Polled
<1>4. p = IF Known(u, event.id) THEN [u EXCEPT !.streams[event.id] = MarkDataRead(@)] ELSE u
  BY Zenon DEF Polled
<1>5. Len(Tail(s.events)) = Len(s.events) - 1
  BY DEF Sessions
<1> HIDE DEF u, p, event
<1>6. /\ p.events = u.events /\ p.output = u.output /\ p.state = u.state
      /\ p.flow_control = u.flow_control /\ p.next_stream_id = u.next_stream_id /\ Kept(u, p)
      /\ p.stop_sending_received_ids = u.stop_sending_received_ids
  BY <1>1, <1>4 DEF Sessions, Kept
<1>7. event.type = "StreamData" =>
        RestFields(p, RemoveIfClosed(p, event.id)) /\ Kept(p, RemoveIfClosed(p, event.id))
  BY <1>1, RemoveRest
<1>8. CASE event.type = "StreamData" /\ event.fin
  <2> DEFINE r == RemoveIfClosed(p, event.id)
  <2>1. t = r /\ RestFields(p, r)
    BY <1>3, <1>7, <1>8
  <2> HIDE DEF r, t
  <2> QED BY <1>1, <1>2, <1>5, <1>6, <2>1 DEF RestFields, Kept, event, t
<1>9. CASE ~(event.type = "StreamData" /\ event.fin)
  <2>1. t = u
    BY <1>3, <1>9
  <2> QED BY <1>1, <1>2, <1>5, <2>1 DEF event
<1> QED BY <1>8, <1>9

(* One turn of the loop over the events: d1 is the driver with the event   *)
(* taken from the session.                                                 *)
Taken(d) == [d EXCEPT !.session = PollEvent(d.session)]

LEMMA TakenType ==
  ASSUME NEW d \in Drivers, d.session.events # << >>
  PROVE  /\ Taken(d) \in Drivers /\ Taken(d).ok = d.ok /\ Taken(d).responded = d.responded
         /\ Taken(d).session = PollEvent(d.session)
         /\ Taken(d).channels = d.channels /\ Taken(d).stopping = d.stopping
         /\ Taken(d).closed = d.closed
         /\ Head(d.session.events) \in Events
<1>1. PollEvent(d.session) \in Sessions /\ Head(d.session.events) \in Events
  BY DriverFields, PollRest
<1> QED BY <1>1 DEF Taken, Drivers

LEMMA DispatchNextIs ==
  ASSUME NEW d, "session" \in DOMAIN d
  PROVE  DispatchNext(d) = Dispatch(Taken(d), Head(d.session.events))
  BY DEF DispatchNext, Taken

LEMMA DispatchNextType ==
  ASSUME NEW d \in Drivers, d.ok, d.session.events # << >>
  PROVE  LET e == DispatchNext(d)
         IN  /\ Goes(d, e)
             /\ e.ok => /\ Dispatched(Taken(d), e, Head(d.session.events))
                        /\ Len(e.session.events) = Len(d.session.events) - 1
                        /\ e.session.events = Tail(d.session.events)
<1> DEFINE d1 == Taken(d)
           event == Head(d.session.events)
           e == Dispatch(d1, event)
<1>1. /\ d1 \in Drivers /\ d1.ok /\ d1.responded = d.responded /\ event \in Events
      /\ d1.session = PollEvent(d.session)
  BY TakenType
<1>2. "session" \in DOMAIN d
  BY DEF Drivers
<1>3. DispatchNext(d) = e
  BY <1>2, DispatchNextIs
<1>4. /\ PollEvent(d.session).events = Tail(d.session.events)
      /\ Len(PollEvent(d.session).events) = Len(d.session.events) - 1
  BY DriverFields, PollRest
<1> HIDE DEF d1, event
<1>5. /\ Goes(d1, e)
      /\ e.ok => Dispatched(d1, e, event) /\ e.session.events = d1.session.events
  BY <1>1, DispatchType
<1> HIDE DEF e
<1>6. Goes(d, e)
  BY <1>1, <1>5 DEF Goes
<1>7. e.ok => /\ Len(e.session.events) = Len(d.session.events) - 1
              /\ e.session.events = Tail(d.session.events)
  BY <1>1, <1>4, <1>5
<1> QED BY <1>3, <1>5, <1>6, <1>7 DEF d1, event

LEMMA DispatchNextFailed ==
  ASSUME NEW d, Turned(d), ~d.ok
  PROVE  LET e == DispatchNext(d) IN Turned(e) /\ ~e.ok
<1> DEFINE s == PollEvent(d.session)
           d1 == [d EXCEPT !.session = PollEvent(@)]
<1>1. "ok" \in DOMAIN d1 /\ d1.ok = d.ok
  BY DEF Turned
<1>2. d1.ok \in BOOLEAN /\ ~d1.ok
  BY <1>1 DEF Turned
<1> HIDE DEF d1
<1>3. Dispatch(d1, Head(d.session.events)) = d1
  BY <1>2 DEF Dispatch
<1>4. DispatchNext(d) = d1
  BY <1>3, Zenon DEF DispatchNext, d1
<1> QED BY <1>1, <1>2, <1>4 DEF Turned

(* The loop over the events takes them all.                                *)
LEMMA DispatchAllType ==
  ASSUME NEW d \in Drivers, d.ok
  PROVE  LET e == DispatchAll(d)
         IN  Goes(d, e) /\ (e.ok => e.session.events = << >>)
<1> DEFINE N == Len(d.session.events)
<1>0. d.session \in Sessions /\ d.session.events \in Seq(Events) /\ N \in Nat
  BY DriverFields DEF Sessions
<1>1. PICK f : Dispatches(f, d, N) /\ DispatchAll(d) = f[N]
  BY <1>0, DispatchesLoop
<1> DEFINE Good(n) == Goes(d, f[n]) /\ (f[n].ok => Len(f[n].session.events) = N - n)
           S == {n \in Nat : n <= N => Good(n)}
<1> HIDE DEF N
<1>2. 0 \in S
  <2>1. f[0] = d /\ Turned(d)
    BY <1>1, DriverFields DEF Dispatches
  <2> QED BY <1>0, <2>1 DEF Goes, N
<1>3. \A n \in Nat : n \in S => n + 1 \in S
  <2> SUFFICES ASSUME NEW n \in Nat, n \in S, n + 1 <= N PROVE Good(n + 1)
    BY DEF S
  <2>1. Good(n)
    BY <1>0 DEF S
  <2>2. n + 1 \in 1 .. N /\ (n + 1) - 1 = n
    BY <1>0
  <2>3. f[n + 1] = DispatchNext(f[n])
    BY <1>1, <2>2 DEF Dispatches
  <2>4. CASE ~f[n].ok
    <3>1. Turned(f[n + 1]) /\ ~f[n + 1].ok
      BY <2>1, <2>3, <2>4, DispatchNextFailed DEF Goes
    <3> QED BY <3>1 DEF Goes
  <2>5. CASE f[n].ok
    <3>1. f[n] \in Drivers
      BY <2>1, <2>5 DEF Goes, Turned
    <3>2. f[n].session.events \in Seq(Events) /\ f[n].session.events # << >>
      <4>1. f[n].session.events \in Seq(Events)
        BY <3>1, DriverFields DEF Sessions
      <4>2. Len(f[n].session.events) # 0
        BY <1>0, <2>1, <2>2, <2>5
      <4> QED BY <4>1, <4>2
    <3>3. /\ Goes(f[n], f[n + 1])
          /\ f[n + 1].ok => Len(f[n + 1].session.events) = Len(f[n].session.events) - 1
      BY <2>3, <2>5, <3>1, <3>2, DispatchNextType
    <3>4. Goes(d, f[n + 1])
      BY <2>1, <2>5, <3>3 DEF Goes
    <3> QED BY <1>0, <2>1, <2>2, <2>5, <3>3, <3>4
  <2> QED BY <2>4, <2>5
<1>4. Nat \subseteq S
  <2> HIDE DEF S
  <2> QED BY <1>2, <1>3, SetInduction
<1>5. Good(N)
  BY <1>0, <1>4 DEF S
<1>6. f[N].ok => f[N].session.events = << >>
  <2>1. f[N].ok => f[N].session.events \in Seq(Events)
    BY <1>5, DriverFields DEF Goes, Turned, Sessions
  <2>2. f[N].ok => Len(f[N].session.events) = 0
    BY <1>0, <1>5
  <2> QED BY <2>1, <2>2
<1> QED BY <1>1, <1>5, <1>6

(* feed and process.                                                       *)
Processed(d, e, c) ==
  ~Refused(d.session, c) /\ e = [d EXCEPT !.session = Accepted(d.session, c)]

LEMMA ProcessType ==
  ASSUME NEW d, Turned(d), NEW c \in Capsules
  PROVE  LET e == Process(d, c)
         IN  Goes(d, e) /\ (e.ok => Processed(d, e, c) /\ Accepted(d.session, c) \in Sessions)
<1> DEFINE e == Process(d, c)
<1>1. CASE ~d.ok \/ Refused(d.session, c)
  <2>1. e = [d EXCEPT !.ok = FALSE]
    BY <1>1 DEF Process
  <2>2. "ok" \in DOMAIN e /\ e.ok = FALSE
    BY <2>1 DEF Turned
  <2> QED BY <2>2 DEF Goes, Turned
<1>2. CASE ~(~d.ok \/ Refused(d.session, c))
  <2>1. d \in Drivers /\ d.ok /\ d.session \in Sessions
    BY <1>2, DriverFields DEF Turned
  <2>2. Accepted(d.session, c) \in Sessions
    BY <1>2, <2>1, HeldAccepted
  <2>3. e = [d EXCEPT !.session = Accepted(d.session, c)]
    BY <1>2 DEF Process
  <2> HIDE DEF e
  <2>4. e \in Drivers /\ e.ok /\ e.responded = d.responded
    BY <2>1, <2>2, <2>3 DEF Drivers
  <2>5. Goes(d, e)
    BY <2>1, <2>4, DriverFields DEF Goes
  <2> QED BY <1>2, <2>2, <2>3, <2>5 DEF Processed, e
<1> QED BY <1>1, <1>2

LEMMA ProcessAllType ==
  ASSUME NEW d \in Drivers, d.ok, NEW cs \in Seq(Capsules)
  PROVE  Goes(d, ProcessAll(d, cs))
<1> DEFINE N == Len(cs)
<1>0. N \in Nat
  OBVIOUS
<1>1. PICK f : Processes(f, d, cs, N) /\ ProcessAll(d, cs) = f[N]
  BY <1>0, ProcessesLoop
<1> DEFINE S == {n \in Nat : n <= N => Goes(d, f[n])}
<1>2. 0 \in S
  <2>1. f[0] = d /\ Turned(d)
    BY <1>1, DriverFields DEF Processes
  <2> QED BY <2>1 DEF Goes
<1>3. \A n \in Nat : n \in S => n + 1 \in S
  <2> SUFFICES ASSUME NEW n \in Nat, n \in S, n + 1 <= N PROVE Goes(d, f[n + 1])
    BY DEF S
  <2>1. Goes(d, f[n])
    BY <1>0 DEF S
  <2>2. n + 1 \in 1 .. N /\ (n + 1) - 1 = n
    BY <1>0
  <2>3. f[n + 1] = Process(f[n], cs[n + 1])
    BY <1>1, <2>2 DEF Processes
  <2>4. cs[n + 1] \in Capsules
    BY <2>2
  <2>5. Goes(f[n], f[n + 1])
    BY <2>1, <2>3, <2>4, ProcessType DEF Goes
  <2> QED BY <2>1, <2>5 DEF Goes
<1>4. Nat \subseteq S
  <2> HIDE DEF S
  <2> QED BY <1>2, <1>3, SetInduction
<1> QED BY <1>0, <1>1, <1>4 DEF S

-----------------------------------------------------------------------------
(* The send buffer: what is handed to the socket and what is kept is what  *)
(* was kept before and the output, in this order.                          *)
Channels == [sent : Seq(Capsules), kept : Seq(Capsules), room : Nat, ok : BOOLEAN]

LEMMA JoinFacts ==
  ASSUME NEW V, NEW a \in Seq(V), NEW b \in Seq(V), NEW x \in V
  PROVE  /\ a \o Append(b, x) = Append(a \o b, x)
         /\ Append(a, x) \o << >> = Append(a, x)
         /\ a \o << >> = a /\ << >> \o a = a
         /\ a \o b \in Seq(V) /\ Len(a \o b) = Len(a) + Len(b)
  OBVIOUS

LEMMA JoinAppend ==
  ASSUME NEW V, NEW x \in V
  PROVE  \A a, b \in Seq(V) : a \o Append(b, x) = Append(a \o b, x)
  OBVIOUS

LEMMA PrefixFacts ==
  ASSUME NEW V, NEW a \in Seq(V), NEW n \in Nat, n < Len(a)
  PROVE  /\ SubSeq(a, 1, n) \in Seq(V) /\ Len(SubSeq(a, 1, n)) = n
         /\ SubSeq(a, 1, n + 1) = Append(SubSeq(a, 1, n), a[n + 1])
         /\ SubSeq(a, 1, 0) = << >>
         /\ a[n + 1] \in V
         /\ SubSeq(a, 1, Len(a)) = a
<1>1. SubSeq(a, 1, n) \in Seq(V) /\ Len(SubSeq(a, 1, n)) = n
  OBVIOUS
<1>2. a[n + 1] \in V
  OBVIOUS
<1>3. SubSeq(a, 1, n + 1) = Append(SubSeq(a, 1, n), a[n + 1])
  OBVIOUS
<1>4. SubSeq(a, 1, 0) = << >> /\ SubSeq(a, 1, Len(a)) = a
  OBVIOUS
<1> QED BY <1>1, <1>2, <1>3, <1>4

(* ch, which held before and room for w, after the capsules of o.          *)
Passed(ch, before, w, o) ==
  /\ ch \in Channels
  /\ Len(ch.kept) <= Capacity
  /\ Len(ch.sent) + ch.room = w
  /\ ch.ok => ch.sent \o ch.kept = before \o o

LEMMA SendChunkPasses ==
  ASSUME NEW ch, NEW before \in Seq(Capsules), NEW w \in Nat, NEW o \in Seq(Capsules),
         Passed(ch, before, w, o), NEW c \in Capsules
  PROVE  Passed(SendChunk(ch, c), before, w, Append(o, c)) /\ (SendChunk(ch, c).ok => ch.ok)
<1> DEFINE e == SendChunk(ch, c)
<1>0. ch \in Channels /\ ch.kept \in Seq(Capsules) /\ ch.sent \in Seq(Capsules) /\ ch.room \in Nat
  BY DEF Passed, Channels
<1>1. CASE ~ch.ok \/ Len(ch.kept) >= Capacity
  <2>1. e = [ch EXCEPT !.ok = FALSE]
    BY <1>1 DEF SendChunk
  <2>2. e \in Channels /\ ~e.ok /\ e.kept = ch.kept /\ e.sent = ch.sent /\ e.room = ch.room
    BY <1>0, <2>1 DEF Channels
  <2> QED BY <2>2 DEF Passed
<1>2. CASE ~(~ch.ok \/ Len(ch.kept) >= Capacity) /\ ch.kept = << >> /\ ch.room > 0
  <2>1. e = [ch EXCEPT !.sent = Append(ch.sent, c), !.room = ch.room - 1]
    BY <1>0, <1>2 DEF SendChunk, Channels
  <2>2. /\ e \in Channels /\ e.ok = ch.ok /\ e.kept = << >> /\ e.sent = Append(ch.sent, c)
        /\ e.room = ch.room - 1
    <3> DEFINE a == Append(ch.sent, c)
               n == ch.room - 1
    <3>1. a \in Seq(Capsules) /\ n \in Nat
      BY <1>0, <1>2
    <3> HIDE DEF a, n, e
    <3>2. /\ e \in Channels /\ e.ok = ch.ok /\ e.kept = << >> /\ e.sent = a /\ e.room = n
      BY <1>0, <1>2, <2>1, <3>1 DEF Channels, a, n
    <3> QED BY <3>2 DEF a, n
  <2>3. ch.sent \o ch.kept = before \o o
    BY <1>2 DEF Passed
  <2>4. e.sent \o e.kept = Append(ch.sent \o ch.kept, c)
    BY <1>0, <1>2, <2>2, JoinFacts
  <2>5. before \o Append(o, c) = Append(before \o o, c)
    BY JoinFacts
  <2>6. e.sent \o e.kept = before \o Append(o, c)
    BY <2>3, <2>4, <2>5
  <2>7. Len(e.sent) + e.room = w /\ Len(e.kept) <= Capacity
    <3>1. Len(Append(ch.sent, c)) = Len(ch.sent) + 1 /\ Len(<< >>) = 0
      BY <1>0
    <3>2. Len(ch.sent) \in Nat /\ Capacity \in Nat /\ Len(ch.sent) + ch.room = w
      BY <1>0, WtDriverAssumption DEF Passed
    <3> HIDE DEF e
    <3> QED BY <1>0, <1>2, <2>2, <3>1, <3>2
  <2> HIDE DEF e
  <2> QED BY <1>2, <2>2, <2>6, <2>7 DEF Passed, e
<1>3. CASE ~(~ch.ok \/ Len(ch.kept) >= Capacity) /\ ~(ch.kept = << >> /\ ch.room > 0)
  <2>1. e = [ch EXCEPT !.kept = Append(ch.kept, c)]
    BY <1>0, <1>3 DEF SendChunk, Channels
  <2>2. /\ e \in Channels /\ e.ok = ch.ok /\ e.kept = Append(ch.kept, c) /\ e.sent = ch.sent
        /\ e.room = ch.room
    <3> DEFINE a == Append(ch.kept, c)
    <3>1. a \in Seq(Capsules)
      BY <1>0
    <3>3. e = [ch EXCEPT !.kept = a]
      BY <2>1
    <3> HIDE DEF a, e
    <3>2. /\ e \in Channels /\ e.ok = ch.ok /\ e.kept = a /\ e.sent = ch.sent /\ e.room = ch.room
      BY <1>0, <3>1, <3>3 DEF Channels
    <3> QED BY <3>2 DEF a
  <2>3. ch.sent \o ch.kept = before \o o
    BY <1>3 DEF Passed
  <2>4. e.sent \o e.kept = Append(ch.sent \o ch.kept, c)
    <3> HIDE DEF e
    <3>1. ch.sent \o Append(ch.kept, c) = Append(ch.sent \o ch.kept, c)
      BY <1>0, JoinAppend, Zenon
    <3> QED BY <2>2, <3>1
  <2>5. before \o Append(o, c) = Append(before \o o, c)
    BY JoinFacts
  <2>6. e.sent \o e.kept = before \o Append(o, c)
    BY <2>3, <2>4, <2>5
  <2>7. Len(e.sent) + e.room = w /\ Len(e.kept) <= Capacity
    <3>1. Len(Append(ch.kept, c)) = Len(ch.kept) + 1
      BY <1>0
    <3>2. Len(ch.kept) \in Nat /\ Capacity \in Nat /\ Len(ch.sent) + ch.room = w
      BY <1>0, WtDriverAssumption DEF Passed
    <3> HIDE DEF e
    <3>3. Len(ch.kept) < Capacity
      BY <1>3, <3>2
    <3> QED BY <1>0, <2>2, <3>1, <3>2, <3>3
  <2> HIDE DEF e
  <2> QED BY <1>3, <2>2, <2>6, <2>7 DEF Passed, e
<1> QED BY <1>1, <1>2, <1>3

LEMMA FlushPasses ==
  ASSUME NEW ch, NEW before \in Seq(Capsules), NEW w \in Nat, NEW o \in Seq(Capsules),
         ch \in Channels, ch.sent = << >>, ch.kept = before, ch.room = w, Len(before) <= Capacity
  PROVE  Passed(FlushOutput(ch, o), before, w, o)
<1> DEFINE N == Len(o)
<1>0. N \in Nat
  OBVIOUS
<1>1. PICK f : Flushes(f, ch, o, N) /\ FlushOutput(ch, o) = f[N]
  BY <1>0, FlushesLoop
<1> DEFINE S == {n \in Nat : n <= N => Passed(f[n], before, w, SubSeq(o, 1, n))}
<1>2. 0 \in S
  <2>1. f[0] = ch
    BY <1>1 DEF Flushes
  <2>2. SubSeq(o, 1, 0) = << >>
    OBVIOUS
  <2>3. << >> \o before = before /\ before \o << >> = before
    OBVIOUS
  <2>4. Passed(ch, before, w, << >>)
    BY <2>3 DEF Passed
  <2> QED BY <2>1, <2>2, <2>4
<1>3. \A n \in Nat : n \in S => n + 1 \in S
  <2> SUFFICES ASSUME NEW n \in Nat, n \in S, n + 1 <= N
               PROVE  Passed(f[n + 1], before, w, SubSeq(o, 1, n + 1))
    BY DEF S
  <2>1. Passed(f[n], before, w, SubSeq(o, 1, n))
    BY <1>0 DEF S
  <2>2. n + 1 \in 1 .. N /\ (n + 1) - 1 = n /\ n < N
    BY <1>0
  <2>3. f[n + 1] = SendChunk(f[n], o[n + 1])
    BY <1>1, <2>2 DEF Flushes
  <2>4. /\ SubSeq(o, 1, n) \in Seq(Capsules) /\ o[n + 1] \in Capsules
        /\ SubSeq(o, 1, n + 1) = Append(SubSeq(o, 1, n), o[n + 1])
    BY <2>2, PrefixFacts
  <2> QED BY <2>1, <2>3, <2>4, SendChunkPasses
<1>4. Nat \subseteq S
  <2> HIDE DEF S
  <2> QED BY <1>2, <1>3, SetInduction
<1>5. Passed(f[N], before, w, SubSeq(o, 1, N))
  BY <1>0, <1>4 DEF S
<1>6. SubSeq(o, 1, N) = o
  OBVIOUS
<1> QED BY <1>1, <1>5, <1>6

-----------------------------------------------------------------------------
(* Commands.                                                               *)
Operated(s, t, cmd) ==
  \/ cmd.op = "send" /\ CanSendStreamData(s, cmd.id, 1) /\ t = SendStreamData(s, cmd.id, 1, cmd.fin)
  \/ cmd.op = "open" /\ CanOpen(s, cmd.bidirectional) /\ t = OpenStream(s, cmd.bidirectional)
  \/ cmd.op = "datagram" /\ CanSendDatagram(s) /\ t = SendDatagram(s)
  \/ cmd.op = "reset" /\ CanResetStream(s, cmd.id) /\ t = ResetStream(s, cmd.id)
  \/ cmd.op = "stop" /\ CanStopSending(s, cmd.id) /\ t = StopSending(s, cmd.id)
  \/ cmd.op = "drain" /\ CanDrain(s) /\ t = Drain(s)
  \/ cmd.op = "close" /\ CanClose(s) /\ t = Close(s)
  \/ cmd.op = "export" /\ t = s

LEMMA OperateIs ==
  ASSUME NEW s, NEW cmd
  PROVE  Operate(s, cmd) = Absent \/ Operated(s, Operate(s, cmd), cmd)
<1>1. CASE cmd.op = "send"
  BY <1>1 DEF Operate, Operated
<1>2. CASE cmd.op = "open"
  BY <1>2 DEF Operate, Operated
<1>3. CASE cmd.op = "datagram"
  BY <1>3 DEF Operate, Operated
<1>4. CASE cmd.op = "reset"
  BY <1>4 DEF Operate, Operated
<1>5. CASE cmd.op = "stop"
  BY <1>5 DEF Operate, Operated
<1>6. CASE cmd.op = "drain"
  BY <1>6 DEF Operate, Operated
<1>7. CASE cmd.op = "close"
  BY <1>7 DEF Operate, Operated
<1>8. CASE cmd.op = "export"
  BY <1>8 DEF Operate, Operated
<1>9. CASE cmd.op \notin {"send", "open", "datagram", "reset", "stop", "drain", "close", "export"}
  BY <1>9 DEF Operate
<1> QED BY <1>1, <1>2, <1>3, <1>4, <1>5, <1>6, <1>7, <1>8, <1>9

LEMMA CommandFields ==
  ASSUME NEW cmd \in Commands
  PROVE  /\ cmd.op = "send" => cmd.id \in Nat /\ cmd.fin \in BOOLEAN
         /\ cmd.op = "open" => cmd.bidirectional \in BOOLEAN
  BY DEF Commands

LEMMA OperatedType ==
  ASSUME NEW s \in Sessions, s.events = << >>, NEW cmd \in Commands, NEW t, Operated(s, t, cmd),
         cmd.op = "open" => s.next_stream_id[cmd.bidirectional] \in Ids
  PROVE  t \in Sessions /\ t.events = << >> /\ Kept(s, t)
<1>0. /\ cmd.op = "send" => cmd.id \in Nat /\ cmd.fin \in BOOLEAN
      /\ cmd.op = "open" => cmd.bidirectional \in BOOLEAN
  BY CommandFields
<1>1. CASE cmd.op = "send"
  <2>1. CanSendStreamData(s, cmd.id, 1) /\ t = SendStreamData(s, cmd.id, 1, cmd.fin)
    BY <1>1 DEF Operated
  <2> DEFINE u == DataSent(s, cmd.id, 1, cmd.fin)
  <2>2. /\ u \in Sessions /\ t \in Sessions
        /\ t = IF cmd.fin THEN RemoveIfClosed(u, cmd.id) ELSE u
    BY <1>0, <1>1, <2>1, SendStreamDataType
  <2>3. u.events = << >>
    BY DEF DataSent, Emit, Sessions
  <2>4. Kept(s, t)
    BY <1>0, <1>1, <2>1, DataKeeps
  <2> HIDE DEF u
  <2>5. t.events = << >>
    BY <2>2, <2>3, RemoveRest DEF RestFields
  <2> QED BY <2>2, <2>4, <2>5
<1>2. CASE cmd.op = "open"
  <2>1. CanOpen(s, cmd.bidirectional) /\ t = OpenStream(s, cmd.bidirectional)
    BY <1>2 DEF Operated
  <2>2. t \in Sessions /\ Kept(s, t)
    BY <1>0, <1>2, <2>1, OpenStreamType, CallsKeep
  <2>3. t.events = << >>
    BY <2>1 DEF OpenStream, Sessions
  <2> QED BY <2>2, <2>3
<1>3. CASE cmd.op \in {"datagram", "drain", "close"}
  <2>1. t \in {SendDatagram(s), Drain(s), Close(s)}
    BY <1>3 DEF Operated
  <2>2. \A c \in Capsules : Append(s.output, c) \in Seq(Capsules)
    BY DEF Sessions
  <2>3. /\ [type |-> "DATAGRAM"] \in Capsules /\ [type |-> "DRAIN_SESSION"] \in Capsules
        /\ [type |-> "CLOSE_SESSION"] \in Capsules
    BY DEF Capsules
  <2>4. t \in Sessions /\ t.events = << >>
    <3>1. CASE t = SendDatagram(s)
      BY <2>2, <2>3, <3>1 DEF SendDatagram, Emit, Sessions
    <3>2. CASE t = Drain(s)
      BY <2>2, <2>3, <3>2 DEF Drain, Emit, Sessions, SessionStates
    <3>3. CASE t = Close(s)
      BY <2>2, <2>3, <3>3 DEF Close, Emit, Sessions, SessionStates
    <3> QED BY <2>1, <3>1, <3>2, <3>3
  <2> QED BY <2>1, <2>4, CallsKeep
<1>4. CASE cmd.op = "reset"
  <2>1. CanResetStream(s, cmd.id) /\ t = ResetStream(s, cmd.id)
    BY <1>4 DEF Operated
  <2> DEFINE u == ResetSent(s, cmd.id)
  <2>2. u \in Sessions /\ t \in Sessions /\ t = RemoveIfClosed(u, cmd.id)
    BY <2>1, ResetStreamType
  <2>3. u.events = << >>
    BY DEF ResetSent, Emit, Sessions
  <2>4. Kept(s, t)
    BY <2>1, ResetKeeps
  <2> HIDE DEF u
  <2>5. t.events = << >>
    BY <2>2, <2>3, RemoveRest DEF RestFields
  <2> QED BY <2>2, <2>4, <2>5
<1>5. CASE cmd.op = "stop"
  <2>1. CanStopSending(s, cmd.id) /\ t = StopSending(s, cmd.id)
    BY <1>5 DEF Operated
  <2>2. t \in Sessions /\ Kept(s, t)
    BY <2>1, StopSendingType, CallsKeep
  <2>3. t.events = << >>
    BY <2>1 DEF StopSending, Emit, Sessions
  <2> QED BY <2>2, <2>3
<1>6. CASE cmd.op = "export"
  BY <1>6 DEF Operated, Kept
<1> QED BY <1>1, <1>2, <1>3, <1>4, <1>5, <1>6 DEF Operated

(* What handle_cmd records.                                                *)
Records(d, e, cmd) ==
  /\ Others(d, e) /\ e.session = d.session /\ e.closed = d.closed
  /\ \/ /\ cmd.op = "stop" /\ CanRecv(d.session.streams[cmd.id]) /\ e.channels = d.channels
        /\ e.stopping = d.stopping \cup {cmd.id}
     \/ /\ cmd.op = "open" /\ cmd.bidirectional /\ e.stopping = d.stopping
        /\ e.channels = d.channels \cup {d.session.next_stream_id[cmd.bidirectional] - 4}
     \/ /\ ~(cmd.op = "stop" /\ CanRecv(d.session.streams[cmd.id]))
        /\ ~(cmd.op = "open" /\ cmd.bidirectional)
        /\ e.channels = d.channels /\ e.stopping = d.stopping

LEMMA RecordedType ==
  ASSUME NEW d \in Drivers, NEW cmd \in Commands,
         cmd.op = "open" => d.session.next_stream_id[cmd.bidirectional] - 4 \in Ids,
         cmd.op = "stop" => cmd.id \in Ids
  PROVE  Records(d, Recorded(d, cmd), cmd)
<1> DEFINE n == d.session.next_stream_id[cmd.bidirectional] - 4
           e == Recorded(d, cmd)
<1>0. cmd.op = "open" => cmd.bidirectional \in BOOLEAN
  BY CommandFields
<1>1. CASE cmd.op = "stop"
  <2>1. e = IF CanRecv(d.session.streams[cmd.id]) THEN [d EXCEPT !.stopping = @ \cup {cmd.id}] ELSE d
    BY <1>1 DEF Recorded
  <2>2. CASE CanRecv(d.session.streams[cmd.id])
    <3>1. e = [d EXCEPT !.stopping = @ \cup {cmd.id}]
      BY <2>1, <2>2
    <3> HIDE DEF e
    <3>2. /\ Others(d, e) /\ e.session = d.session /\ e.closed = d.closed /\ e.channels = d.channels
          /\ e.stopping = d.stopping \cup {cmd.id}
      BY <1>1, <3>1 DEF Others, Drivers
    <3> QED BY <1>1, <2>2, <3>2 DEF Records, e
  <2>3. CASE ~CanRecv(d.session.streams[cmd.id])
    <3>1. e = d
      BY <2>1, <2>3
    <3> QED BY <1>1, <2>3, <3>1 DEF Records, Others
  <2> QED BY <2>2, <2>3
<1>2. CASE cmd.op = "open" /\ cmd.bidirectional
  <2> DEFINE m == With(d.packets, n, << >>)
  <2>1. e = [d EXCEPT !.channels = @ \cup {n}, !.handles = @ \cup {n}, !.packets = m]
    BY <1>2 DEF Recorded
  <2>2. n \in Ids
    BY <1>2
  <2>3. d.packets \in Maps(Seq(Packets)) /\ << >> \in Seq(Packets)
    BY DriverFields
  <2>4. m \in Maps(Seq(Packets))
    BY <2>2, <2>3, WithFacts
  <2> HIDE DEF e, m, n
  <2>5. /\ Others(d, e) /\ e.session = d.session /\ e.closed = d.closed
        /\ e.channels = d.channels \cup {n} /\ e.stopping = d.stopping
    BY <2>1, <2>2, <2>4 DEF Others, Drivers
  <2> QED BY <1>2, <2>5 DEF Records, n, e
<1>3. CASE cmd.op = "open" /\ ~cmd.bidirectional
  <2>1. e = [d EXCEPT !.handles = @ \cup {n}]
    BY <1>3 DEF Recorded
  <2>2. n \in Ids
    BY <1>3
  <2> HIDE DEF e, n
  <2>5. /\ Others(d, e) /\ e.session = d.session /\ e.closed = d.closed
        /\ e.channels = d.channels /\ e.stopping = d.stopping
    BY <2>1, <2>2 DEF Others, Drivers
  <2> QED BY <1>3, <2>5 DEF Records, e
<1>4. CASE cmd.op \notin {"stop", "open"}
  <2>1. e = d
    BY <1>4 DEF Recorded
  <2> QED BY <1>4, <2>1 DEF Records, Others
<1> QED BY <1>1, <1>2, <1>3, <1>4

(* The client takes all events at once.                                    *)
LEMMA PollAllType ==
  ASSUME NEW s \in Sessions
  PROVE  LET t == PollAll(s)
         IN  t \in Sessions /\ t.events = << >> /\ t.output = s.output /\ t.state = s.state
<1> DEFINE N == Len(s.events)
<1>0. s.events \in Seq(Events) /\ N \in Nat
  BY DEF Sessions
<1>1. PICK f : Polls(f, s, N) /\ PollAll(s) = f[N]
  BY <1>0, PollsLoop
<1> DEFINE Good(n) == /\ f[n] \in Sessions /\ Len(f[n].events) = N - n
                      /\ f[n].output = s.output /\ f[n].state = s.state
           S == {n \in Nat : n <= N => Good(n)}
<1> HIDE DEF N
<1>2. 0 \in S
  BY <1>0, <1>1 DEF Polls, N
<1>3. \A n \in Nat : n \in S => n + 1 \in S
  <2> SUFFICES ASSUME NEW n \in Nat, n \in S, n + 1 <= N PROVE Good(n + 1)
    BY DEF S
  <2>1. Good(n)
    BY <1>0 DEF S
  <2>2. n + 1 \in 1 .. N /\ (n + 1) - 1 = n
    BY <1>0
  <2>3. f[n + 1] = PollEvent(f[n])
    BY <1>1, <2>2 DEF Polls
  <2>4. f[n].events # << >>
    <3>1. f[n].events \in Seq(Events) /\ Len(f[n].events) # 0
      BY <1>0, <2>1, <2>2 DEF Sessions
    <3> QED BY <3>1
  <2>5. /\ f[n + 1] \in Sessions /\ Len(f[n + 1].events) = Len(f[n].events) - 1
        /\ f[n + 1].output = f[n].output /\ f[n + 1].state = f[n].state
    BY <2>1, <2>3, <2>4, PollRest
  <2> QED BY <1>0, <2>1, <2>2, <2>5
<1>4. Nat \subseteq S
  <2> HIDE DEF S
  <2> QED BY <1>2, <1>3, SetInduction
<1>5. Good(N)
  BY <1>0, <1>4 DEF S
<1>6. f[N].events = << >>
  <2>1. f[N].events \in Seq(Events) /\ Len(f[N].events) = 0
    BY <1>0, <1>5 DEF Sessions
  <2> QED BY <2>1
<1> QED BY <1>1, <1>5, <1>6

-----------------------------------------------------------------------------
(* What is on the way, and how many capsules are in it.                    *)
Terminators == [type : {"END_STREAM", "RST_STREAM", "EOF"}]
Statuses    == {"PROTOCOL_ERROR", "403", "400", "no response", "200"}
Responses   == [type : {"RESPONSE"}, status : Statuses]
WireItems   == Capsules \cup Terminators
Ways        == WireItems \cup Responses

LEMMA ItemKinds ==
  /\ \A c \in Capsules : c.type \notin {"RESPONSE", "END_STREAM", "RST_STREAM", "EOF"}
  /\ \A c \in Terminators : c.type \in {"END_STREAM", "RST_STREAM", "EOF"}
  /\ \A c \in Responses : c.type = "RESPONSE"
  /\ EndStream \in Terminators /\ [type |-> "RST_STREAM"] \in Terminators
  /\ [type |-> "EOF"] \in Terminators
  BY DEF Capsules, NoticeCapsules, Terminators, Responses, EndStream

Weights(items) ==
  [k \in DOMAIN items |->
     IF items[k].type \in {"RESPONSE", "END_STREAM", "RST_STREAM", "EOF"} THEN 0 ELSE 1]

LEMMA WeightFacts ==
  ASSUME NEW V, NEW items \in Seq(V)
  PROVE  /\ Weights(items) \in Seq(Nat) /\ Weights(items) \in Seq(Int)
         /\ Len(Weights(items)) = Len(items)
         /\ CapsuleCount(items) = SumOf(Weights(items))
         /\ CapsuleCount(items) \in Nat
<1>1. /\ Weights(items) \in Seq(Nat) /\ Len(Weights(items)) = Len(items)
  BY DEF Weights
<1>2. CapsuleCount(items) = SumOf(Weights(items))
  BY Zenon DEF CapsuleCount, Weights
<1> QED BY <1>1, <1>2, SumsOfNat

LEMMA CountJoin ==
  ASSUME NEW V, NEW a \in Seq(V), NEW b \in Seq(V)
  PROVE  /\ a \o b \in Seq(V)
         /\ CapsuleCount(a \o b) = CapsuleCount(a) + CapsuleCount(b)
<1>0. a \o b \in Seq(V) /\ Len(a \o b) = Len(a) + Len(b) /\ Len(a) \in Nat /\ Len(b) \in Nat
  OBVIOUS
<1> DEFINE w == Weights(a \o b)
           u == Weights(a)
           v == Weights(b)
<1>1. /\ w \in Seq(Int) /\ Len(w) = Len(a) + Len(b) /\ CapsuleCount(a \o b) = SumOf(w)
      /\ u \in Seq(Int) /\ Len(u) = Len(a) /\ CapsuleCount(a) = SumOf(u)
      /\ v \in Seq(Int) /\ Len(v) = Len(b) /\ CapsuleCount(b) = SumOf(v)
  BY <1>0, WeightFacts
<1>2. \A k \in 1 .. Len(a) : w[k] = u[k]
  BY <1>0 DEF Weights
<1>3. \A k \in Len(a) + 1 .. Len(a) + Len(b) : w[k] = v[k - Len(a)]
  BY <1>0 DEF Weights
<1> HIDE DEF w, u, v
<1>4. w = u \o v
  <2>0. u \in Seq(Int) /\ v \in Seq(Int)
    BY <1>1
  <2>1. /\ u \o v \in Seq(Int) /\ Len(u \o v) = Len(u) + Len(v)
        /\ \A k \in 1 .. Len(u) + Len(v) : (u \o v)[k] = IF k <= Len(u) THEN u[k] ELSE v[k - Len(u)]
    BY <2>0, ConcatProperties
  <2>2. ASSUME NEW k \in 1 .. Len(w) PROVE w[k] = (u \o v)[k]
    <3>1. k \in 1 .. Len(u) + Len(v) /\ Len(u) = Len(a) /\ Len(v) = Len(b)
      BY <1>1
    <3>2. CASE k <= Len(a)
      <4>1. k \in 1 .. Len(a)
        BY <1>0, <3>2
      <4> QED BY <1>2, <2>1, <3>1, <3>2, <4>1
    <3>3. CASE ~(k <= Len(a))
      <4>1. k \in Len(a) + 1 .. Len(a) + Len(b)
        BY <1>0, <3>1, <3>3
      <4> QED BY <1>3, <2>1, <3>1, <3>3, <4>1
    <3> QED BY <3>2, <3>3
  <2> QED BY <1>1, <2>1, <2>2, SeqEqual
<1>5. SumOf(u \o v) = SumOf(u) + SumOf(v)
  BY <1>1, SumConcat
<1> QED BY <1>0, <1>1, <1>4, <1>5

LEMMA CountTail ==
  ASSUME NEW V, NEW a \in Seq(V), a # << >>
  PROVE  /\ Tail(a) \in Seq(V)
         /\ CapsuleCount(a) = CapsuleCount(Tail(a)) +
              IF Head(a).type \in {"RESPONSE", "END_STREAM", "RST_STREAM", "EOF"} THEN 0 ELSE 1
<1>1. Weights(Tail(a)) = Tail(Weights(a)) /\ Weights(a) # << >>
  BY DEF Weights
<1>2. Head(Weights(a)) =
        IF Head(a).type \in {"RESPONSE", "END_STREAM", "RST_STREAM", "EOF"} THEN 0 ELSE 1
  BY DEF Weights
<1>3. Tail(a) \in Seq(V)
  OBVIOUS
<1> DEFINE w == Weights(a)
           v == Weights(Tail(a))
<1>4. w \in Seq(Int) /\ CapsuleCount(a) = SumOf(w) /\ CapsuleCount(Tail(a)) = SumOf(v) /\ v = Tail(w)
  BY <1>1, <1>3, WeightFacts
<1>5. SumOf(v) \in Nat
  BY <1>3, <1>4, WeightFacts
<1> HIDE DEF w, v
<1>6. SumOf(w) = Head(w) + SumOf(Tail(w))
  BY <1>1, <1>4, SumTail DEF w
<1>7. Head(w) \in Nat
  BY <1>2 DEF w
<1> QED BY <1>2, <1>3, <1>4, <1>5, <1>6, <1>7 DEF w

LEMMA CountCapsules ==
  ASSUME NEW a \in Seq(Capsules)
  PROVE  CapsuleCount(a) = Len(a) /\ a \in Seq(WireItems) /\ a \in Seq(Ways)
<1>1. \A k \in 1 .. Len(a) : a[k] \in Capsules
  OBVIOUS
<1>2. \A k \in 1 .. Len(a) : Weights(a)[k] = 1
  BY <1>1, ItemKinds DEF Weights
<1>3. a \in Seq(WireItems) /\ a \in Seq(Ways)
  BY DEF WireItems, Ways
<1> QED BY <1>2, <1>3, WeightFacts, SumOnes

LEMMA CountOne ==
  ASSUME NEW x
  PROVE  /\ CapsuleCount(<<x>>) =
              IF x.type \in {"RESPONSE", "END_STREAM", "RST_STREAM", "EOF"} THEN 0 ELSE 1
         /\ CapsuleCount(<< >>) = 0
<1> DEFINE n == IF x.type \in {"RESPONSE", "END_STREAM", "RST_STREAM", "EOF"} THEN 0 ELSE 1
<1>1. Weights(<<x>>) = <<n>> /\ Weights(<< >>) = << >>
  BY DEF Weights
<1>2. n \in Int
  OBVIOUS
<1>3. <<x>> \in Seq({x}) /\ << >> \in Seq({x})
  OBVIOUS
<1>4. CapsuleCount(<<x>>) = SumOf(Weights(<<x>>)) /\ CapsuleCount(<< >>) = SumOf(Weights(<< >>))
  BY <1>3, WeightFacts
<1> HIDE DEF n
<1> QED BY <1>1, <1>2, <1>4, SumOne, SumEmpty DEF n

-----------------------------------------------------------------------------
(* The types of the driver and of what surrounds it, as an invariant that  *)
(* is inductive.                                                           *)
Answers == {"none", "waiting", "ok", "err", "closed"}
CallRecords == [cmd : Commands \cup {NoCall}, answer : Answers]

PlanFits ==
  /\ plan \in Plans /\ request \in Requests
  /\ phase \in {"request", "running", "ended", "refused"}

DriverFits ==
  phase = "running" =>
    /\ driver \in Drivers /\ driver.ok /\ ~driver.responded
    /\ driver.session.events = << >> /\ driver.session.output = << >>

CallsFit ==
  /\ calls \in [Tasks -> CallRecords] /\ cmds \in Seq(Tasks)
  /\ \A k \in 1 .. Len(cmds) : calls[cmds[k]].cmd \in Commands

StreamFits ==
  /\ held \in Seq(Capsules) /\ Len(held) <= Capacity /\ writing \in Seq(Capsules)
  /\ to_client \in Seq(Ways) /\ to_server \in Seq(WireItems)
  /\ window \in Nat /\ unacked \in Nat /\ quota \in Int /\ emitted \in Nat /\ arrived \in Nat

(* Capsules on their way, or not yet acknowledged, take from the window of *)
(* the client.                                                             *)
Budget ==
  /\ window <= Window
  /\ CapsuleCount(to_client) + Len(writing) + unacked +
       (IF phase \in {"request", "running"} THEN window ELSE 0) <= Window

PeerFits == peer # Absent => peer \in Sessions /\ peer.events = << >> /\ peer.output = << >>

(* The response comes first, and it is what makes the session of the       *)
(* client.                                                                 *)
Answered200 == phase \in {"running", "ended"}

Greeting ==
  /\ \A k \in 1 .. Len(to_client) : to_client[k].type = "RESPONSE" =>
       k = 1 /\ peer = Absent /\ (to_client[k].status = "200" <=> Answered200)
  /\ Answered200 => /\ ~InitRefused(request.init)
                    /\ peer # Absent \/ (to_client # << >> /\ to_client[1].type = "RESPONSE")
  /\ phase = "request" => to_client = << >> /\ peer = Absent
  /\ phase = "refused" => /\ peer = Absent /\ Len(to_client) <= 1
                          /\ to_client # << >> => to_client[1].type = "RESPONSE"

TypeInv ==
  PlanFits /\ DriverFits /\ CallsFit /\ StreamFits /\ Budget /\ PeerFits /\ Greeting

LEMMA TypeInvImplies ==
  ASSUME TypeInv
  PROVE  TypeOK
<1>1. window \in 0 .. Window /\ unacked \in 0 .. Window /\ quota \in Int /\ Len(held) <= Capacity
  <2>1. CapsuleCount(to_client) \in Nat
    BY WeightFacts DEF TypeInv, StreamFits
  <2>2. Len(writing) \in Nat /\ window \in Nat /\ unacked \in Nat /\ Window \in Nat
    BY WtDriverAssumption DEF TypeInv, StreamFits
  <2> QED BY <2>1, <2>2 DEF TypeInv, StreamFits, Budget
<1>2. \A t \in Tasks : calls[t].answer \in {"none", "waiting", "ok", "err", "closed"}
  BY DEF TypeInv, CallsFit, CallRecords, Answers
<1>3. Running => /\ driver.ok /\ ~driver.responded
                 /\ driver.session.flow_control \in WtFlowControls
                 /\ driver.session.events = << >>
  BY DriverFields DEF TypeInv, DriverFits, Running, Sessions
<1> QED BY <1>1, <1>2, <1>3 DEF TypeOK, TypeInv, PlanFits

LEMMA InitTypeInv ==
  ASSUME Init
  PROVE  TypeInv
<1>1. PlanFits /\ DriverFits /\ PeerFits /\ Greeting
  BY DEF Init, PlanFits, DriverFits, PeerFits, Greeting, Answered200
<1>2. CallsFit
  BY DEF Init, CallsFit, CallRecords, Answers
<1>3. StreamFits
  BY WtDriverAssumption DEF Init, StreamFits
<1>4. Budget
  <2>1. CapsuleCount(to_client) = 0 /\ Len(writing) = 0
    BY CountOne DEF Init
  <2> QED BY <2>1, WtDriverAssumption DEF Init, Budget
<1> QED BY <1>1, <1>2, <1>3, <1>4 DEF TypeInv

(* What the client is sent after the response.                             *)
LEMMA SentGrows ==
  ASSUME TypeInv, Answered200, NEW items \in Seq(WireItems), to_client' = to_client \o items,
         peer' = peer, request' = request, Answered200'
  PROVE  /\ Greeting' /\ to_client' \in Seq(Ways)
         /\ CapsuleCount(to_client)' = CapsuleCount(to_client) + CapsuleCount(items)
         /\ CapsuleCount(to_client) \in Nat /\ CapsuleCount(items) \in Nat
<1>1. to_client \in Seq(Ways) /\ items \in Seq(Ways)
  BY DEF TypeInv, StreamFits, Ways
<1>2. /\ to_client' \in Seq(Ways)
      /\ CapsuleCount(to_client') = CapsuleCount(to_client) + CapsuleCount(items)
      /\ CapsuleCount(to_client) \in Nat /\ CapsuleCount(items) \in Nat
  BY <1>1, CountJoin, WeightFacts
<1>3. /\ Len(to_client') = Len(to_client) + Len(items)
      /\ \A k \in 1 .. Len(to_client) + Len(items) :
           to_client'[k] = IF k <= Len(to_client) THEN to_client[k] ELSE items[k - Len(to_client)]
  BY <1>1, ConcatProperties
<1>4. \A k \in 1 .. Len(items) : items[k].type # "RESPONSE"
  <2>1. \A k \in 1 .. Len(items) : items[k] \in WireItems
    OBVIOUS
  <2>2. \A x \in WireItems : x.type # "RESPONSE"
    BY ItemKinds DEF WireItems
  <2> QED BY <2>1, <2>2
<1>5. Len(to_client) \in Nat /\ Len(items) \in Nat
  BY <1>1
<1>6. \A k \in 1 .. Len(to_client') : to_client'[k].type = "RESPONSE" =>
        k \in 1 .. Len(to_client) /\ to_client'[k] = to_client[k]
  BY <1>3, <1>4, <1>5
<1>7. to_client # << >> => to_client' # << >> /\ to_client'[1] = to_client[1]
  <2> SUFFICES ASSUME to_client # << >> PROVE to_client' # << >> /\ to_client'[1] = to_client[1]
    OBVIOUS
  <2>1. 1 <= Len(to_client)
    BY <1>1
  <2> QED BY <1>2, <1>3, <1>5, <2>1
<1>8. phase' \in {"running", "ended"} /\ phase \in {"running", "ended"}
  BY DEF Answered200
<1>9. Greeting'
  BY <1>6, <1>7, <1>8 DEF TypeInv, Greeting, Answered200
<1> QED BY <1>2, <1>9

(* The driver ends.                                                        *)
LEMMA EndsTypeInv ==
  ASSUME TypeInv, phase = "running", NEW d, NEW items \in Seq(WireItems), CapsuleCount(items) <= window,
         NEW answered \in [Tasks -> CallRecords], DriverEnds(d, items, answered),
         UNCHANGED <<plan, request, clientVars>>
  PROVE  TypeInv'
<1>1. /\ phase' = "ended" /\ to_client' = to_client \o items \o <<[type |-> "EOF"]>>
      /\ to_server' = << >> /\ held' = << >> /\ writing' = << >> /\ cmds' = << >>
      /\ calls' = Abandoned(answered) /\ UNCHANGED <<window, quota, emitted>>
  BY DEF DriverEnds
<1>2. UNCHANGED <<plan, request, peer, arrived, unacked>>
  BY DEF clientVars
<1> DEFINE eof == [type |-> "EOF"]
           all == items \o <<eof>>
<1>3. <<eof>> \in Seq(WireItems) /\ CapsuleCount(<<eof>>) = 0
  <2>1. eof \in WireItems /\ eof.type = "EOF"
    BY ItemKinds DEF WireItems
  <2> HIDE DEF eof
  <2> QED BY <2>1, CountOne
<1> HIDE DEF eof
<1>4. all \in Seq(WireItems) /\ CapsuleCount(all) = CapsuleCount(items) /\ CapsuleCount(items) \in Nat
  <2>1. CapsuleCount(items \o <<eof>>) = CapsuleCount(items) + CapsuleCount(<<eof>>)
    BY <1>3, CountJoin
  <2>2. CapsuleCount(items) \in Nat
    BY WeightFacts
  <2> QED BY <1>3, <2>1, <2>2
<1>5. to_client' = to_client \o all
  <2>1. to_client \in Seq(Ways) /\ items \in Seq(Ways) /\ <<eof>> \in Seq(Ways)
    BY <1>3 DEF TypeInv, StreamFits, Ways
  <2> QED BY <1>1, <2>1, ConcatAssociative DEF eof
<1> HIDE DEF all
<1>6. /\ Greeting' /\ to_client' \in Seq(Ways)
      /\ CapsuleCount(to_client)' = CapsuleCount(to_client) + CapsuleCount(all)
      /\ CapsuleCount(to_client) \in Nat
  BY <1>1, <1>2, <1>4, <1>5, SentGrows DEF Answered200
<1>7. PlanFits' /\ DriverFits' /\ PeerFits'
  BY <1>1, <1>2 DEF TypeInv, PlanFits, DriverFits, PeerFits
<1>8. CallsFit'
  <2>1. calls' \in [Tasks -> CallRecords]
    BY <1>1 DEF Abandoned, CallRecords, Answers
  <2> QED BY <1>1, <2>1 DEF CallsFit
<1>9. StreamFits'
  BY <1>1, <1>2, <1>6, WtDriverAssumption DEF TypeInv, StreamFits
<1>10. Budget'
  <2>1. /\ Len(writing) \in Nat /\ unacked \in Nat /\ window \in Nat /\ window <= Window
        /\ CapsuleCount(to_client) + Len(writing) + unacked + window <= Window /\ Window \in Nat
    BY WtDriverAssumption DEF TypeInv, StreamFits, Budget
  <2>2. Len(writing') = 0 /\ unacked' = unacked /\ window' = window
    BY <1>1, <1>2
  <2> QED BY <1>1, <1>4, <1>6, <2>1, <2>2 DEF Budget
<1> QED BY <1>6, <1>7, <1>8, <1>9, <1>10 DEF TypeInv

(* The driver goes on.                                                     *)
LEMMA GoesOnTypeInv ==
  ASSUME TypeInv, phase = "running", NEW d \in Drivers, d.ok, ~d.responded, d.session.events = << >>,
         NEW ch, Passed(ch, held, window, d.session.output), DriverGoesOn(d, ch),
         writing' \in {writing, << >>}, UNCHANGED <<plan, request, clientVars>>,
         to_server' \in Seq(WireItems), quota' \in Int, CallsFit'
  PROVE  TypeInv'
<1> DEFINE o == d.session.output
<1>1. /\ driver' = [d EXCEPT !.session.output = << >>] /\ to_client' = to_client \o ch.sent
      /\ held' = ch.kept /\ window' = ch.room /\ emitted' = emitted + Len(o) /\ phase' = phase
  BY DEF DriverGoesOn
<1>2. UNCHANGED <<plan, request, peer, arrived, unacked>>
  BY DEF clientVars
<1>3. /\ ch.sent \in Seq(Capsules) /\ ch.kept \in Seq(Capsules) /\ ch.room \in Nat
      /\ Len(ch.kept) <= Capacity /\ Len(ch.sent) + ch.room = window
  BY DEF Passed, Channels
<1>4. ch.sent \in Seq(WireItems) /\ CapsuleCount(ch.sent) = Len(ch.sent)
  BY <1>3, CountCapsules
<1>6. /\ Greeting' /\ to_client' \in Seq(Ways)
      /\ CapsuleCount(to_client)' = CapsuleCount(to_client) + Len(ch.sent)
      /\ CapsuleCount(to_client) \in Nat
  BY <1>1, <1>2, <1>4, SentGrows DEF Answered200
<1>7. PlanFits' /\ PeerFits'
  BY <1>1, <1>2 DEF TypeInv, PlanFits, PeerFits
<1>8. DriverFits'
  <2>1. d.session \in Sessions
    BY DriverFields
  <2>2. Flushed(d.session) \in Sessions /\ Flushed(d.session).output = << >>
    BY <2>1, FlushedType
  <2>3. Flushed(d.session).events = << >>
    BY <2>1 DEF Flushed, Sessions
  <2>4. driver' = [d EXCEPT !.session = Flushed(d.session)]
    BY <1>1 DEF Flushed, Drivers
  <2> DEFINE s == Flushed(d.session)
  <2> HIDE DEF s
  <2>5. driver' = [d EXCEPT !.session = s] /\ s \in Sessions
    BY <2>2, <2>4 DEF s
  <2>6. driver' \in Drivers /\ driver'.ok /\ ~driver'.responded /\ driver'.session = s
    BY <2>5 DEF Drivers
  <2> QED BY <2>2, <2>3, <2>6 DEF DriverFits, s
<1>9. StreamFits'
  <2>1. Len(o) \in Nat
    BY DriverFields DEF Sessions
  <2>2. writing \in Seq(Capsules) /\ emitted \in Nat /\ unacked \in Nat /\ arrived \in Nat
    BY DEF TypeInv, StreamFits
  <2>3. writing' \in Seq(Capsules)
    <3>1. << >> \in Seq(Capsules)
      OBVIOUS
    <3> QED BY <2>2, <3>1
  <2> HIDE DEF o
  <2>4. emitted' \in Nat
    BY <1>1, <2>1, <2>2
  <2> QED BY <1>1, <1>2, <1>3, <1>6, <2>2, <2>3, <2>4 DEF StreamFits
<1>10. Budget'
  <2>1. /\ Len(writing) \in Nat /\ unacked \in Nat /\ window \in Nat /\ window <= Window
        /\ CapsuleCount(to_client) + Len(writing) + unacked + window <= Window /\ Window \in Nat
    BY WtDriverAssumption DEF TypeInv, StreamFits, Budget
  <2>2. Len(writing') \in Nat /\ Len(writing') <= Len(writing) /\ unacked' = unacked
    BY <1>2, <2>1
  <2>3. Len(ch.sent) \in Nat
    BY <1>3
  <2>4. CapsuleCount(to_client') = CapsuleCount(to_client) + Len(ch.sent) /\ window' = ch.room
    BY <1>1, <1>6
  <2>5. Len(ch.sent) + ch.room = window /\ ch.room \in Nat /\ CapsuleCount(to_client) \in Nat
    BY <1>3, <1>6
  <2>6. /\ window' <= Window
        /\ CapsuleCount(to_client') + Len(writing') + unacked' + window' <= Window
    <3> DEFINE a == CapsuleCount(to_client)
               l == Len(ch.sent)
               w == Len(writing)
               v == Len(writing')
               r == ch.room
    <3>1. /\ a \in Nat /\ l \in Nat /\ w \in Nat /\ v \in Nat /\ r \in Nat /\ v <= w
          /\ unacked \in Nat /\ window \in Nat /\ window <= Window /\ Window \in Nat
          /\ a + w + unacked + window <= Window /\ l + r = window
      BY <2>1, <2>2, <2>3, <2>5
    <3>2. CapsuleCount(to_client') = a + l /\ window' = r /\ unacked' = unacked
      BY <2>2, <2>4
    <3> HIDE DEF a, l, w, v, r
    <3>3. r <= Window /\ (a + l) + v + unacked + r <= Window
      BY <3>1
    <3> QED BY <3>2, <3>3 DEF v
  <2> QED BY <1>1, <2>6 DEF Budget
<1> QED BY <1>6, <1>7, <1>8, <1>9, <1>10 DEF TypeInv

(* flush_wt_output into the channel of the CONNECT stream.                 *)
LEMMA ChannelPasses ==
  ASSUME TypeInv, NEW o \in Seq(Capsules)
  PROVE  Passed(FlushOutput(Channel, o), held, window, o)
<1>1. /\ held \in Seq(Capsules) /\ Len(held) <= Capacity /\ window \in Nat
  BY DEF TypeInv, StreamFits
<1>2. Channel \in Channels /\ Channel.sent = << >> /\ Channel.kept = held /\ Channel.room = window
  BY <1>1 DEF Channel, Channels
<1> HIDE DEF Channel
<1> QED BY <1>1, <1>2, FlushPasses

(* What has been sent, also with END_STREAM, was admitted by the window.   *)
LEMMA PassedCount ==
  ASSUME NEW ch, NEW before, NEW w \in Nat, NEW o, Passed(ch, before, w, o)
  PROVE  /\ ch.sent \in Seq(WireItems) /\ CapsuleCount(ch.sent) <= w
         /\ SendEnd(ch).sent \in Seq(WireItems) /\ CapsuleCount(SendEnd(ch).sent) <= w
<1>1. /\ ch \in Channels /\ ch.sent \in Seq(Capsules) /\ ch.room \in Nat
      /\ Len(ch.sent) + ch.room = w /\ Len(ch.sent) \in Nat
  BY DEF Passed, Channels
<1>2. ch.sent \in Seq(WireItems) /\ CapsuleCount(ch.sent) = Len(ch.sent)
  BY <1>1, CountCapsules
<1>3. EndStream \in WireItems /\ <<EndStream>> \in Seq(WireItems) /\ EndStream.type = "END_STREAM"
  BY ItemKinds DEF WireItems, EndStream
<1>4. CapsuleCount(<<EndStream>>) = 0
  BY <1>3, CountOne
<1>5. CapsuleCount(ch.sent \o <<EndStream>>) = Len(ch.sent) /\ ch.sent \o <<EndStream>> \in Seq(WireItems)
  <2>1. CapsuleCount(ch.sent \o <<EndStream>>) = CapsuleCount(ch.sent) + CapsuleCount(<<EndStream>>)
    BY <1>2, <1>3, CountJoin
  <2> QED BY <1>1, <1>2, <1>3, <1>4, <2>1
<1>6. Append(ch.sent, EndStream) = ch.sent \o <<EndStream>>
  BY <1>2, <1>3
<1>7. SendEnd(ch).sent \in {ch.sent, Append(ch.sent, EndStream)}
  BY <1>1 DEF SendEnd, Channels
<1>8. CapsuleCount(ch.sent) <= w /\ CapsuleCount(Append(ch.sent, EndStream)) <= w
  BY <1>1, <1>2, <1>5, <1>6
<1> QED BY <1>2, <1>5, <1>6, <1>7, <1>8

-----------------------------------------------------------------------------
(* Each action keeps the types.                                            *)

(* A session of the client that is there.                                  *)
LEMMA PeerIs ==
  ASSUME TypeInv, peer # Absent
  PROVE  /\ peer \in Sessions /\ peer.events = << >> /\ peer.output = << >>
         /\ \A k \in 1 .. Len(to_client) : to_client[k].type # "RESPONSE"
         /\ phase \in {"running", "ended"}
  BY DEF TypeInv, PlanFits, PeerFits, Greeting, Answered200

LEMMA ClientTypeInv ==
  ASSUME TypeInv, phase = "running", peer # Absent, NEW s \in Sessions, s.events = << >>,
         NEW items \in Seq(WireItems), ClientBecomes(s, items)
  PROVE  TypeInv'
<1>1. /\ peer' = Flushed(s) /\ to_server' = to_server \o s.output \o items
      /\ quota' = quota - Len(s.output)
      /\ UNCHANGED <<plan, request, arrived, unacked, held, writing, window, to_client, emitted,
                     phase, driver, cmds, calls>>
  BY DEF ClientBecomes, serverVars, Flushed
<1>2. Flushed(s) \in Sessions /\ Flushed(s).output = << >> /\ Flushed(s).events = << >>
  BY FlushedType DEF Flushed, Sessions
<1>3. peer' # Absent
  BY <1>1, <1>2, AbsentAssumption
<1>4. s.output \in Seq(Capsules) /\ s.output \in Seq(WireItems)
  <2>1. s.output \in Seq(Capsules)
    BY DEF Sessions
  <2> QED BY <2>1, CountCapsules
<1>5. to_server' \in Seq(WireItems) /\ quota' \in Int
  <2>1. to_server \in Seq(WireItems) /\ quota \in Int
    BY DEF TypeInv, StreamFits
  <2>2. to_server \o s.output \in Seq(WireItems)
    BY <1>4, <2>1
  <2>3. (to_server \o s.output) \o items \in Seq(WireItems)
    BY <2>2
  <2>4. quota - Len(s.output) \in Int
    BY <1>4, <2>1
  <2> QED BY <1>1, <2>3, <2>4
<1>6. PlanFits' /\ DriverFits' /\ Budget'
  BY <1>1 DEF TypeInv, PlanFits, DriverFits, Budget
<1>7. CallsFit'
  BY <1>1 DEF TypeInv, CallsFit
<1>8. StreamFits'
  BY <1>1, <1>5 DEF TypeInv, StreamFits
<1>9. PeerFits'
  BY <1>1, <1>2 DEF PeerFits
<1>10. Greeting'
  BY <1>1, <1>3, PeerIs DEF TypeInv, Greeting, Answered200
<1> QED BY <1>6, <1>7, <1>8, <1>9, <1>10 DEF TypeInv

(* What the client does with its session, as a command.                    *)
LEMMA ClientOperates ==
  ASSUME TypeInv, peer # Absent, phase = "running", NEW cmd \in Commands, NEW t,
         Operated(peer, t, cmd), cmd.op = "open" => peer.next_stream_id[cmd.bidirectional] \in Ids,
         NEW items \in Seq(WireItems), ClientBecomes(t, items)
  PROVE  TypeInv'
<1>1. peer \in Sessions /\ peer.events = << >>
  BY PeerIs
<1>2. t \in Sessions /\ t.events = << >>
  BY <1>1, OperatedType
<1> QED BY <1>2, ClientTypeInv

LEMMA ClientCalls ==
  ASSUME TypeInv, \/ \E b \in BOOLEAN : ClientOpen(b)
                  \/ \E id \in Ids, fin \in BOOLEAN : ClientSend(id, fin)
                  \/ \E id \in Ids : ClientReset(id) \/ ClientStop(id)
                  \/ ClientClose
                  \/ \E type \in {"END_STREAM", "RST_STREAM", "EOF"} : ClientLeaves(type)
  PROVE  TypeInv'
<1>0. << >> \in Seq(WireItems) /\ <<EndStream>> \in Seq(WireItems)
  BY ItemKinds DEF WireItems
<1>1. ASSUME NEW b \in BOOLEAN, ClientOpen(b) PROVE TypeInv'
  <2> DEFINE cmd == [op |-> "open", bidirectional |-> b]
  <2>1. cmd \in Commands /\ cmd.op = "open" /\ cmd.bidirectional = b
    BY DEF Commands
  <2>2. /\ peer # Absent /\ phase = "running" /\ CanOpen(peer, b) /\ peer.next_stream_id[b] \in Ids
        /\ ClientBecomes(OpenStream(peer, b), << >>)
    BY <1>1 DEF ClientOpen, ClientMay
  <2> HIDE DEF cmd
  <2>3. Operated(peer, OpenStream(peer, b), cmd)
    BY <2>1, <2>2 DEF Operated
  <2> QED BY <1>0, <2>1, <2>2, <2>3, ClientOperates
<1>2. ASSUME NEW id \in Ids, NEW fin \in BOOLEAN, ClientSend(id, fin) PROVE TypeInv'
  <2> DEFINE cmd == [op |-> "send", id |-> id, fin |-> fin]
  <2>1. cmd \in Commands /\ cmd.op = "send" /\ cmd.id = id /\ cmd.fin = fin
    BY IdsAssumption DEF Commands
  <2>2. /\ peer # Absent /\ phase = "running" /\ CanSendStreamData(peer, id, 1)
        /\ ClientBecomes(SendStreamData(peer, id, 1, fin), << >>)
    BY <1>2 DEF ClientSend, ClientMay
  <2> HIDE DEF cmd
  <2>3. Operated(peer, SendStreamData(peer, id, 1, fin), cmd)
    BY <2>1, <2>2 DEF Operated
  <2> QED BY <1>0, <2>1, <2>2, <2>3, ClientOperates
<1>3. ASSUME NEW id \in Ids, ClientReset(id) PROVE TypeInv'
  <2> DEFINE cmd == [op |-> "reset", id |-> id]
  <2>1. cmd \in Commands /\ cmd.op = "reset" /\ cmd.id = id
    BY IdsAssumption DEF Commands
  <2>2. /\ peer # Absent /\ phase = "running" /\ CanResetStream(peer, id)
        /\ ClientBecomes(ResetStream(peer, id), << >>)
    BY <1>3 DEF ClientReset, ClientMay
  <2> HIDE DEF cmd
  <2>3. Operated(peer, ResetStream(peer, id), cmd)
    BY <2>1, <2>2 DEF Operated
  <2> QED BY <1>0, <2>1, <2>2, <2>3, ClientOperates
<1>4. ASSUME NEW id \in Ids, ClientStop(id) PROVE TypeInv'
  <2> DEFINE cmd == [op |-> "stop", id |-> id]
  <2>1. cmd \in Commands /\ cmd.op = "stop" /\ cmd.id = id
    BY IdsAssumption DEF Commands
  <2>2. /\ peer # Absent /\ phase = "running" /\ CanStopSending(peer, id)
        /\ ClientBecomes(StopSending(peer, id), << >>)
    BY <1>4 DEF ClientStop, ClientMay
  <2> HIDE DEF cmd
  <2>3. Operated(peer, StopSending(peer, id), cmd)
    BY <2>1, <2>2 DEF Operated
  <2> QED BY <1>0, <2>1, <2>2, <2>3, ClientOperates
<1>5. ASSUME ClientClose PROVE TypeInv'
  <2> DEFINE cmd == [op |-> "close"]
  <2>1. cmd \in Commands /\ cmd.op = "close"
    BY DEF Commands
  <2>2. /\ peer # Absent /\ phase = "running" /\ CanClose(peer)
        /\ ClientBecomes(Close(peer), <<EndStream>>)
    BY <1>5 DEF ClientClose, ClientMay
  <2> HIDE DEF cmd
  <2>3. Operated(peer, Close(peer), cmd)
    BY <2>1, <2>2 DEF Operated
  <2> QED BY <1>0, <2>1, <2>2, <2>3, ClientOperates
<1>6. ASSUME NEW type \in {"END_STREAM", "RST_STREAM", "EOF"}, ClientLeaves(type) PROVE TypeInv'
  <2>1. peer # Absent /\ phase = "running" /\ ClientBecomes(peer, <<[type |-> type]>>)
    BY <1>6 DEF ClientLeaves, ClientMay
  <2>2. peer \in Sessions /\ peer.events = << >>
    BY <2>1, PeerIs
  <2>3. <<[type |-> type]>> \in Seq(WireItems)
    BY DEF WireItems, Terminators
  <2> QED BY <2>1, <2>2, <2>3, ClientTypeInv
<1> QED BY <1>1, <1>2, <1>3, <1>4, <1>5, <1>6

(* The session of the client, as the response makes it.                    *)
ClientStart ==
  Initiated(NewSession("client", ClientConfig(ClientSettings, request.init),
                       ClientPeerConfig(ServerSettings)))

ServerStart ==
  Initiated(NewSession("server", ServerConfig(ServerSettings),
                       ServerPeerConfig(ClientSettings, request.init)))

LEMMA StartTypes ==
  ASSUME request \in Requests, ~InitRefused(request.init)
  PROVE  /\ ClientStart \in Sessions /\ ClientStart.events = << >> /\ ClientStart.output = << >>
         /\ ServerStart \in Sessions /\ ServerStart.events = << >> /\ ServerStart.output = << >>
<1>1. /\ ServerSettings \in WtSettings /\ ClientSettings \in WtSettings
      /\ request.init \in InitFields \cup {Absent}
  BY WtDriverAssumption
<1>2. /\ ServerConfig(ServerSettings) \in Configs /\ ClientPeerConfig(ServerSettings) \in Configs
      /\ ServerPeerConfig(ClientSettings, request.init) \in Configs
      /\ ClientConfig(ClientSettings, request.init) \in Configs
  BY <1>1, OverlayType, InitType, InitAlike
     DEF ServerConfig, ClientPeerConfig, ApplyAdvertisedSettings
<1> DEFINE a == NewSession("client", ClientConfig(ClientSettings, request.init),
                           ClientPeerConfig(ServerSettings))
           b == NewSession("server", ServerConfig(ServerSettings),
                           ServerPeerConfig(ClientSettings, request.init))
<1>3. /\ a \in Sessions /\ Initiated(a) \in Sessions /\ a.events = << >> /\ a.output = << >>
      /\ b \in Sessions /\ Initiated(b) \in Sessions /\ b.events = << >> /\ b.output = << >>
  <2>1. "client" \in Roles /\ "server" \in Roles
    BY DEF Roles
  <2>2. /\ IsNew(a, "client", ClientConfig(ClientSettings, request.init), ClientPeerConfig(ServerSettings))
        /\ IsNew(b, "server", ServerConfig(ServerSettings),
                 ServerPeerConfig(ClientSettings, request.init))
    BY <1>2, <2>1, NewSessionType
  <2> HIDE DEF a, b
  <2> QED BY <2>2 DEF IsNew
<1>4. ClientStart = Initiated(a) /\ ServerStart = Initiated(b)
  BY DEF ClientStart, ServerStart
<1> HIDE DEF a, b
<1>5. /\ Initiated(a).events = << >> /\ Initiated(a).output = << >>
      /\ Initiated(b).events = << >> /\ Initiated(b).output = << >>
  BY <1>3 DEF Initiated, Sessions
<1> QED BY <1>3, <1>4, <1>5

(* handle_cmd, for a command that is served: the session becomes u and the *)
(* driver d, and ch is what became of the output.                          *)
Replied(t, a) == [calls EXCEPT ![t].answer = a]

Serves(cmd, u, d, ch) ==
  /\ u \in Sessions /\ Operated(driver.session, u, cmd) /\ u.events = << >>
  /\ cmd.op = "open" => driver.session.next_stream_id[cmd.bidirectional] \in Ids
  /\ [driver EXCEPT !.session = u] \in Drivers /\ [driver EXCEPT !.session = u].session = u
  /\ Records([driver EXCEPT !.session = u], d, cmd)
  /\ d \in Drivers /\ d.ok /\ ~d.responded /\ d.session = u
  /\ Passed(ch, held, window, u.output)

LEMMA HandleCmdCases ==
  ASSUME TypeInv, HandleCmd
  PROVE  LET t   == Head(cmds)
             cmd == calls[t].cmd
         IN  /\ phase = "running" /\ cmds # << >> /\ t \in Tasks /\ cmd \in Commands
             /\ UNCHANGED <<plan, request, clientVars, owner, told>>
             /\ SlowSocket \/ writing = << >>
             /\ \/ /\ calls' = Replied(t, "err") /\ cmds' = Tail(cmds) /\ writing' = << >>
                   /\ UNCHANGED <<phase, driver, held, window, to_client, to_server, quota, emitted>>
                \/ DriverEnds(driver, << >>, Replied(t, "err"))
                \/ \E u, d, ch :
                     /\ Serves(cmd, u, d, ch)
                     /\ \/ \E ch2, e : /\ cmd.op = "close" /\ ch2 = IF ch.ok THEN SendEnd(ch) ELSE ch
                                       /\ DriverEnds(e, ch2.sent, Replied(t, CloseAnswer(ch2)))
                        \/ /\ cmd.op # "close" /\ ch.ok /\ DriverGoesOn(d, ch)
                           /\ calls' = Replied(t, "ok") /\ cmds' = Tail(cmds) /\ writing' = << >>
                           /\ UNCHANGED <<to_server, quota>>
                        \/ ~ch.ok /\ DriverEnds(d, ch.sent, Replied(t, "err"))
<1> DEFINE t   == Head(cmds)
           cmd == calls[t].cmd
           u   == Operate(driver.session, cmd)
           d   == Recorded([driver EXCEPT !.session = u], cmd)
           ch  == FlushOutput(Channel, u.output)
           ch2 == IF ch.ok THEN SendEnd(ch) ELSE ch
<1>1. /\ phase = "running" /\ cmds # << >> /\ UNCHANGED <<plan, request, clientVars, owner, told>>
      /\ SlowSocket \/ writing = << >>
  BY DEF HandleCmd
<1>2. t \in Tasks /\ cmd \in Commands
  <2>1. cmds \in Seq(Tasks) /\ \A k \in 1 .. Len(cmds) : calls[cmds[k]].cmd \in Commands
    BY DEF TypeInv, CallsFit
  <2>2. 1 \in 1 .. Len(cmds) /\ t = cmds[1] /\ t \in Tasks
    BY <1>1, <2>1
  <2> QED BY <2>1, <2>2
<1>3. /\ driver \in Drivers /\ driver.ok /\ ~driver.responded /\ driver.session \in Sessions
      /\ driver.session.events = << >>
  BY <1>1, DriverFields DEF TypeInv, DriverFits
<1>4. cmd.op = "open" /\ CanOpen(driver.session, cmd.bidirectional) =>
        driver.session.next_stream_id[cmd.bidirectional] \in Ids
  BY DEF HandleCmd
<1>5. CASE u = Absent /\ cmd.op # "close"
  <2>1. /\ calls' = Replied(t, "err") /\ cmds' = Tail(cmds) /\ writing' = << >>
        /\ UNCHANGED <<phase, driver, held, window, to_client, to_server, quota, emitted>>
    BY <1>5 DEF HandleCmd, Replied
  <2> QED BY <1>1, <1>2, <2>1
<1>6. CASE u = Absent /\ cmd.op = "close"
  <2>1. DriverEnds(driver, << >>, Replied(t, "err"))
    BY <1>6 DEF HandleCmd, Replied
  <2> QED BY <1>1, <1>2, <2>1
<1>7. CASE u # Absent
  <2>1. Operated(driver.session, u, cmd)
    BY <1>7, OperateIs
  <2>2. cmd.op = "open" => driver.session.next_stream_id[cmd.bidirectional] \in Ids
    BY <1>4, <2>1 DEF Operated
  <2>3. u \in Sessions /\ u.events = << >>
    <3> HIDE DEF u, cmd
    <3> QED BY <1>2, <1>3, <2>1, <2>2, OperatedType
  <2> DEFINE e == [driver EXCEPT !.session = u]
  <2>4. /\ e \in Drivers /\ e.session = u /\ e.ok /\ ~e.responded
    <3> HIDE DEF u
    <3> QED BY <1>3, <2>3 DEF Drivers
  <2>5. cmd.op = "open" => u.next_stream_id[cmd.bidirectional] - 4 \in Ids
    <3> SUFFICES ASSUME cmd.op = "open" PROVE u.next_stream_id[cmd.bidirectional] - 4 \in Ids
      OBVIOUS
    <3>1. u = OpenStream(driver.session, cmd.bidirectional) /\ cmd.bidirectional \in BOOLEAN
      <4> HIDE DEF u, cmd
      <4> QED BY <1>2, <2>1, CommandFields DEF Operated
    <3> DEFINE b == cmd.bidirectional
               m == driver.session.next_stream_id
    <3>2. m \in [BOOLEAN -> Nat] /\ b \in BOOLEAN
      BY <1>3, <3>1 DEF Sessions
    <3>3. u.next_stream_id = [m EXCEPT ![b] = m[b] + 4]
      BY <1>3, <3>1 DEF OpenStream, NextId, Sessions
    <3> HIDE DEF b, m, u
    <3>4. u.next_stream_id[b] = m[b] + 4 /\ m[b] \in Nat
      BY <3>2, <3>3
    <3>5. m[b] \in Ids
      BY <2>2 DEF m, b
    <3>6. u.next_stream_id[b] - 4 = m[b]
      BY <3>4
    <3> QED BY <3>5, <3>6 DEF b
  <2>6. cmd.op = "stop" => cmd.id \in Ids
    <3>1. cmd.op = "stop" => Known(driver.session, cmd.id)
      BY <2>1 DEF Operated, CanStopSending
    <3> QED BY <1>3, <3>1, KnownStream
  <2> HIDE DEF e, cmd
  <2>7. Records(e, d, cmd)
    BY <1>2, <2>4, <2>5, <2>6, RecordedType DEF e
  <2>8. d \in Drivers /\ d.ok /\ ~d.responded /\ d.session = u
    BY <2>4, <2>7 DEF Records, Others
  <2>9. Passed(ch, held, window, u.output)
    <3>1. u.output \in Seq(Capsules)
      BY <2>3 DEF Sessions
    <3> QED BY <3>1, ChannelPasses
  <2> HIDE DEF d, ch, u
  <2>10. Serves(cmd, u, d, ch)
    BY <2>1, <2>2, <2>3, <2>4, <2>7, <2>8, <2>9 DEF Serves, e
  <2> USE DEF cmd
  <2>11. CASE cmd.op = "close"
    <3>1. DriverEnds([d EXCEPT !.responded = ch2.ok /\ ch2.kept = << >>], ch2.sent,
                     Replied(t, CloseAnswer(ch2)))
      BY <1>7, <2>11 DEF HandleCmd, Replied, d, u, ch
    <3> HIDE DEF cmd
    <3> QED BY <1>1, <1>2, <2>10, <2>11, <3>1 DEF cmd
  <2>12. CASE cmd.op # "close"
    <3>1. IF ch.ok
          THEN /\ DriverGoesOn(d, ch) /\ calls' = Replied(t, "ok") /\ cmds' = Tail(cmds)
               /\ writing' = << >>
               /\ UNCHANGED <<to_server, quota>>
          ELSE DriverEnds(d, ch.sent, Replied(t, "err"))
      BY <1>7, <2>12 DEF HandleCmd, Replied, d, u, ch
    <3> HIDE DEF cmd
    <3> QED BY <1>1, <1>2, <2>10, <2>12, <3>1 DEF cmd
  <2> QED BY <2>11, <2>12
<1> QED BY <1>5, <1>6, <1>7

(* A task is answered.                                                     *)
LEMMA RepliedType ==
  ASSUME TypeInv, NEW t \in Tasks, NEW a \in Answers
  PROVE  /\ Replied(t, a) \in [Tasks -> CallRecords]
         /\ \A v \in Tasks : /\ Replied(t, a)[v].cmd = calls[v].cmd
                             /\ Replied(t, a)[v].answer = IF v = t THEN a ELSE calls[v].answer
<1>1. calls \in [Tasks -> CallRecords]
  BY DEF TypeInv, CallsFit
<1>2. Replied(t, a) = [calls EXCEPT ![t] = [calls[t] EXCEPT !.answer = a]]
  BY <1>1 DEF Replied
<1>3. /\ [calls[t] EXCEPT !.answer = a] \in CallRecords
      /\ [calls[t] EXCEPT !.answer = a].answer = a /\ [calls[t] EXCEPT !.answer = a].cmd = calls[t].cmd
  BY <1>1 DEF CallRecords
<1> QED BY <1>1, <1>2, <1>3

(* A command was taken from the channel, and its task is answered.         *)
LEMMA RepliedFits ==
  ASSUME TypeInv, cmds # << >>, NEW t \in Tasks, NEW a \in Answers,
         calls' = Replied(t, a), cmds' = Tail(cmds)
  PROVE  CallsFit'
<1>1. /\ calls' \in [Tasks -> CallRecords]
      /\ \A v \in Tasks : calls'[v].cmd = calls[v].cmd
  BY RepliedType
<1>2. cmds \in Seq(Tasks) /\ \A k \in 1 .. Len(cmds) : calls[cmds[k]].cmd \in Commands
  BY DEF TypeInv, CallsFit
<1>3. cmds' \in Seq(Tasks)
  BY <1>2
<1>4. ASSUME NEW k \in 1 .. Len(cmds')
      PROVE  calls'[cmds'[k]].cmd \in Commands
  <2>1. k + 1 \in 1 .. Len(cmds) /\ cmds'[k] = cmds[k + 1]
    BY <1>2, <1>4
  <2>2. cmds[k + 1] \in Tasks
    BY <1>2, <2>1
  <2> QED BY <1>1, <1>2, <2>1, <2>2
<1> QED BY <1>1, <1>3, <1>4 DEF CallsFit

LEMMA NothingSent ==
  ASSUME NEW w \in Nat
  PROVE  << >> \in Seq(WireItems) /\ CapsuleCount(<< >>) <= w
<1>1. CapsuleCount(<< >>) = 0
  BY CountOne, Zenon
<1>2. << >> \in Seq(WireItems)
  OBVIOUS
<1>3. 0 <= w
  OBVIOUS
<1> QED BY <1>1, <1>2, <1>3

LEMMA HandleCmdTypeInv ==
  ASSUME TypeInv, HandleCmd
  PROVE  TypeInv'
<1> DEFINE t   == Head(cmds)
           cmd == calls[t].cmd
<1>1. /\ phase = "running" /\ cmds # << >> /\ t \in Tasks /\ cmd \in Commands
      /\ UNCHANGED <<plan, request, clientVars, owner, told>>
  BY HandleCmdCases
<1>2. window \in Nat
  BY DEF TypeInv, StreamFits
<1>3. CASE /\ calls' = Replied(t, "err") /\ cmds' = Tail(cmds) /\ writing' = << >>
           /\ UNCHANGED <<phase, driver, held, window, to_client, to_server, quota, emitted>>
  <2>1. CallsFit'
    <3> HIDE DEF t
    <3> QED BY <1>1, <1>3, RepliedFits DEF Answers
  <2>2. PlanFits' /\ DriverFits' /\ PeerFits' /\ Greeting'
    BY <1>1, <1>3 DEF TypeInv, PlanFits, DriverFits, PeerFits, Greeting, Answered200, clientVars
  <2>3. StreamFits'
    <3>1. << >> \in Seq(Capsules)
      OBVIOUS
    <3> QED BY <1>1, <1>3, <3>1 DEF TypeInv, StreamFits, clientVars
  <2>4. Budget'
    <3> DEFINE a == CapsuleCount(to_client)
    <3>1. a \in Nat /\ a' = a
      BY <1>3, WeightFacts DEF TypeInv, StreamFits
    <3>2. /\ window <= Window /\ Window \in Nat /\ window \in Nat
          /\ a + Len(writing) + unacked + window <= Window /\ Len(writing) \in Nat
          /\ unacked \in Nat
      BY <1>1, WtDriverAssumption DEF TypeInv, Budget, StreamFits
    <3> HIDE DEF a
    <3>3. a + 0 + unacked + window <= Window
      BY <3>1, <3>2
    <3>4. window' = window /\ unacked' = unacked /\ Len(writing') = 0 /\ phase' = "running"
      BY <1>1, <1>3 DEF clientVars
    <3> QED BY <3>1, <3>2, <3>3, <3>4 DEF Budget, a
  <2> QED BY <2>1, <2>2, <2>3, <2>4 DEF TypeInv
<1>4. CASE DriverEnds(driver, << >>, Replied(t, "err"))
  <2>1. Replied(t, "err") \in [Tasks -> CallRecords]
    <3> HIDE DEF t
    <3> QED BY <1>1, RepliedType DEF Answers
  <2>2. << >> \in Seq(WireItems) /\ CapsuleCount(<< >>) <= window
    BY <1>2, NothingSent
  <2>3. UNCHANGED <<plan, request, clientVars>>
    BY <1>1
  <2> HIDE DEF t
  <2> QED BY <1>1, <1>4, <2>1, <2>2, <2>3, EndsTypeInv, Zenon
<1>5. ASSUME NEW u, NEW d, NEW ch, Serves(cmd, u, d, ch),
             NEW ch2, NEW e, cmd.op = "close", ch2 = IF ch.ok THEN SendEnd(ch) ELSE ch,
             DriverEnds(e, ch2.sent, Replied(t, CloseAnswer(ch2)))
      PROVE  TypeInv'
  <2>1. Replied(t, CloseAnswer(ch2)) \in [Tasks -> CallRecords]
    <3>1. CloseAnswer(ch2) \in Answers
      BY DEF CloseAnswer, Answers
    <3> HIDE DEF t
    <3> QED BY <1>1, <3>1, RepliedType
  <2>2. Passed(ch, held, window, u.output)
    BY <1>5 DEF Serves
  <2>3. ch2.sent \in Seq(WireItems) /\ CapsuleCount(ch2.sent) <= window
    BY <1>2, <1>5, <2>2, PassedCount
  <2> QED BY <1>1, <1>5, <2>1, <2>3, EndsTypeInv
<1>6. ASSUME NEW u, NEW d, NEW ch, Serves(cmd, u, d, ch), ch.ok, DriverGoesOn(d, ch),
             calls' = Replied(t, "ok"), cmds' = Tail(cmds), writing' = << >>,
             UNCHANGED <<to_server, quota>>
      PROVE  TypeInv'
  <2>1. CallsFit'
    <3> HIDE DEF t
    <3> QED BY <1>1, <1>6, RepliedFits DEF Answers
  <2>2. /\ d \in Drivers /\ d.ok /\ ~d.responded /\ d.session.events = << >>
        /\ Passed(ch, held, window, d.session.output)
    BY <1>6 DEF Serves
  <2>3. to_server' \in Seq(WireItems) /\ quota' \in Int
    BY <1>6 DEF TypeInv, StreamFits
  <2> QED BY <1>1, <1>6, <2>1, <2>2, <2>3, GoesOnTypeInv
<1>7. ASSUME NEW u, NEW d, NEW ch, Serves(cmd, u, d, ch), ~ch.ok,
             DriverEnds(d, ch.sent, Replied(t, "err"))
      PROVE  TypeInv'
  <2>1. Replied(t, "err") \in [Tasks -> CallRecords]
    <3> HIDE DEF t
    <3> QED BY <1>1, RepliedType DEF Answers
  <2>2. Passed(ch, held, window, u.output)
    BY <1>7 DEF Serves
  <2>3. ch.sent \in Seq(WireItems) /\ CapsuleCount(ch.sent) <= window
    BY <1>2, <2>2, PassedCount
  <2> QED BY <1>1, <1>7, <2>1, <2>3, EndsTypeInv
<1> QED BY <1>3, <1>4, <1>5, <1>6, <1>7, HandleCmdCases, Zenon

(* handle_event for DATA, for a turn after which the loop goes on.         *)
Turns(n, d1, d2, d3, ch) ==
  /\ n \in 0 .. Len(to_server)
  /\ SubSeq(to_server, 1, n) \in Seq(Capsules)
  /\ d1 = ProcessAll(driver, SubSeq(to_server, 1, n)) /\ d1 \in Drivers /\ d1.ok
  /\ d2 = DispatchAll(d1) /\ d2 \in Drivers /\ d2.ok /\ d2.session.events = << >>
  /\ d2.session.state # "Closed"
  /\ GrowsAll(d2, d3) /\ d3 \in Drivers /\ d3.ok /\ ~d3.responded /\ d3.session.events = << >>
  /\ Passed(ch, held, window, d3.session.output) /\ ch.ok

LEMMA HandleDataCases ==
  ASSUME TypeInv, HandleData
  PROVE  /\ phase = "running" /\ cmds = << >> /\ writing = << >>
         /\ UNCHANGED <<plan, request, clientVars, owner, told>>
         /\ \/ \E d, items : /\ DriverEnds(d, items, calls)
                             /\ items \in Seq(WireItems) /\ CapsuleCount(items) <= window
            \/ \E n, d1, d2, d3, ch :
                 /\ Turns(n, d1, d2, d3, ch) /\ DriverGoesOn(d3, ch)
                 /\ to_server' = SubSeq(to_server, n + 1, Len(to_server)) /\ quota' = quota + n
                 /\ UNCHANGED <<cmds, calls, writing>>
<1>1. /\ phase = "running" /\ cmds = << >> /\ writing = << >>
      /\ UNCHANGED <<plan, request, clientVars, owner, told>>
  BY DEF HandleData
<1> DEFINE C(n)  == SubSeq(to_server, 1, n)
           D1(n) == ProcessAll(driver, C(n))
           D2(n) == DispatchAll(D1(n))
           D3(n) == GrowAll(D2(n))
           H(n)  == FlushOutput(Channel, D3(n).session.output)
<1>2. PICK n \in 0 .. Len(to_server), fin \in BOOLEAN :
        /\ \A i \in 1 .. n : to_server[i].type \notin {"END_STREAM", "RST_STREAM", "EOF"}
        /\ CASE ~D1(n).ok \/ ~D2(n).ok ->
                  DriverEnds(D2(n), <<[type |-> "RST_STREAM"]>>, calls)
             [] D1(n).ok /\ D2(n).ok /\ D2(n).session.state = "Closed" /\ ~D2(n).responded ->
                  DriverEnds([D2(n) EXCEPT !.responded = TRUE], SendEnd(Channel).sent, calls)
             [] OTHER ->
                  CASE ~D3(n).ok -> DriverEnds(D3(n), <<[type |-> "RST_STREAM"]>>, calls)
                    [] D3(n).ok /\ (~H(n).ok \/ fin) -> DriverEnds(D3(n), H(n).sent, calls)
                    [] OTHER ->
                         /\ DriverGoesOn(D3(n), H(n))
                         /\ to_server' = SubSeq(to_server, n + 1, Len(to_server))
                         /\ quota' = quota + n
                         /\ UNCHANGED <<cmds, calls, writing>>
  BY Zenon DEF HandleData
<1> DEFINE cs == C(n)
           d1 == D1(n)
           d2 == D2(n)
           d3 == D3(n)
           ch == H(n)
<1>a. /\ d1 = ProcessAll(driver, cs) /\ d2 = DispatchAll(d1) /\ d3 = GrowAll(d2)
      /\ ch = FlushOutput(Channel, d3.session.output)
  OBVIOUS
<1>b. (CASE ~d1.ok \/ ~d2.ok ->
              DriverEnds(d2, <<[type |-> "RST_STREAM"]>>, calls)
         [] d1.ok /\ d2.ok /\ d2.session.state = "Closed" /\ ~d2.responded ->
              DriverEnds([d2 EXCEPT !.responded = TRUE], SendEnd(Channel).sent, calls)
         [] OTHER ->
              CASE ~d3.ok -> DriverEnds(d3, <<[type |-> "RST_STREAM"]>>, calls)
                [] d3.ok /\ (~ch.ok \/ fin) -> DriverEnds(d3, ch.sent, calls)
                [] OTHER ->
                     /\ DriverGoesOn(d3, ch)
                     /\ to_server' = SubSeq(to_server, n + 1, Len(to_server))
                     /\ quota' = quota + n
                     /\ UNCHANGED <<cmds, calls, writing>>)
  BY <1>2, Zenon
<1>3. cs \in Seq(Capsules)
  <2>1. to_server \in Seq(WireItems)
    BY DEF TypeInv, StreamFits
  <2>2. ASSUME NEW i \in 1 .. n PROVE to_server[i] \in Capsules
    <3>1. to_server[i] \in WireItems
      BY <2>1, <2>2
    <3> QED BY <1>2, <3>1, ItemKinds DEF WireItems
  <2>3. cs = [i \in 1 .. n |-> to_server[i]]
    BY <2>1
  <2> QED BY <2>2, <2>3
<1> HIDE DEF d1, d2, d3, ch
<1>4. driver \in Drivers /\ driver.ok /\ ~driver.responded
  BY <1>1 DEF TypeInv, DriverFits
<1>5. window \in Nat /\ held \in Seq(Capsules)
  BY DEF TypeInv, StreamFits
<1> DEFINE Ended == \E d, items : /\ DriverEnds(d, items, calls)
                                  /\ items \in Seq(WireItems) /\ CapsuleCount(items) <= window
<1>6. ASSUME NEW e, DriverEnds(e, <<[type |-> "RST_STREAM"]>>, calls)
      PROVE  Ended
  <2> DEFINE items == <<[type |-> "RST_STREAM"]>>
  <2>1. items \in Seq(WireItems)
    BY ItemKinds DEF WireItems
  <2>2. CapsuleCount(items) = 0
    BY CountOne
  <2>3. DriverEnds(e, items, calls)
    BY <1>6
  <2> HIDE DEF items
  <2>4. CapsuleCount(items) <= window
    BY <1>5, <2>2
  <2> QED BY <2>1, <2>3, <2>4
<1>7. Goes(driver, d1)
  <2> HIDE DEF cs
  <2> QED BY <1>3, <1>4, <1>a, ProcessAllType
<1>8. CASE ~d1.ok \/ ~d2.ok
  BY <1>1, <1>b, <1>6, <1>8
<1>9. CASE d1.ok /\ d2.ok
  <2>1. d1 \in Drivers /\ ~d1.responded
    BY <1>4, <1>7, <1>9 DEF Goes, Turned
  <2>2. d2 \in Drivers /\ ~d2.responded /\ d2.session.events = << >>
    <3> QED BY <1>9, <1>a, <2>1, DispatchAllType DEF Goes, Turned
  <2>3. CASE d2.session.state = "Closed"
    <3>1. DriverEnds([d2 EXCEPT !.responded = TRUE], SendEnd(Channel).sent, calls)
      BY <1>b, <1>9, <2>2, <2>3
    <3>2. Passed(Channel, held, window, << >>)
      <4>1. Channel \in Channels /\ Channel.sent = << >> /\ Channel.kept = held /\ Channel.room = window
            /\ Len(held) <= Capacity
        BY <1>5 DEF Channel, Channels, TypeInv, StreamFits
      <4>2. << >> \o held = held \o << >> /\ Len(<< >>) + window = window
        BY <1>5
      <4> QED BY <4>1, <4>2 DEF Passed
    <3>3. SendEnd(Channel).sent \in Seq(WireItems) /\ CapsuleCount(SendEnd(Channel).sent) <= window
      BY <1>5, <3>2, PassedCount
    <3> QED BY <1>1, <3>1, <3>3
  <2>4. CASE d2.session.state # "Closed"
    <3>0. (CASE ~d3.ok -> DriverEnds(d3, <<[type |-> "RST_STREAM"]>>, calls)
             [] d3.ok /\ (~ch.ok \/ fin) -> DriverEnds(d3, ch.sent, calls)
             [] OTHER ->
                  /\ DriverGoesOn(d3, ch)
                  /\ to_server' = SubSeq(to_server, n + 1, Len(to_server))
                  /\ quota' = quota + n
                  /\ UNCHANGED <<cmds, calls, writing>>)
      BY <1>b, <1>9, <2>4
    <3>1. /\ Goes(d2, d3) /\ (d3.ok => GrowsAll(d2, d3) /\ d3.session.events = << >>)
      <4> QED BY <1>9, <1>a, <2>2, GrowAllType
    <3>2. CASE ~d3.ok
      BY <1>1, <1>6, <3>0, <3>2
    <3>3. CASE d3.ok
      <4>1. d3 \in Drivers /\ ~d3.responded /\ GrowsAll(d2, d3) /\ d3.session.events = << >>
        BY <2>2, <3>1, <3>3 DEF Goes, Turned
      <4>2. d3.session.output \in Seq(Capsules)
        BY <4>1, DriverFields DEF Sessions
      <4>3. Passed(ch, held, window, d3.session.output)
        <5> QED BY <1>a, <4>2, ChannelPasses
      <4>4. CASE ~ch.ok \/ fin
        <5>1. DriverEnds(d3, ch.sent, calls)
          BY <3>0, <3>3, <4>4
        <5>2. ch.sent \in Seq(WireItems) /\ CapsuleCount(ch.sent) <= window
          <6> QED BY <1>5, <4>3, PassedCount
        <5> QED BY <1>1, <5>1, <5>2
      <4>5. CASE ch.ok /\ ~fin
        <5>1. /\ DriverGoesOn(d3, ch)
              /\ to_server' = SubSeq(to_server, n + 1, Len(to_server))
              /\ quota' = quota + n
              /\ UNCHANGED <<cmds, calls, writing>>
          BY <3>0, <3>3, <4>5
        <5>2. Turns(n, d1, d2, d3, ch)
          <6>1. d1 = ProcessAll(driver, SubSeq(to_server, 1, n)) /\ d2 = DispatchAll(d1)
                /\ SubSeq(to_server, 1, n) \in Seq(Capsules)
            BY <1>3, <1>a
          <6> QED BY <1>9, <2>1, <2>2, <2>4, <3>3, <4>1, <4>3, <4>5, <6>1 DEF Turns
        <5> QED BY <1>1, <5>1, <5>2
      <4> QED BY <4>4, <4>5
    <3> QED BY <3>2, <3>3
  <2> QED BY <2>3, <2>4
<1>10. d1.ok \in BOOLEAN /\ (d1.ok => d2.ok \in BOOLEAN)
  <2>1. d1.ok \in BOOLEAN /\ (d1.ok => d1 \in Drivers)
    BY <1>7 DEF Goes, Turned
  <2> QED BY <2>1, <1>a, DispatchAllType DEF Goes, Turned
<1> QED BY <1>8, <1>9, <1>10

LEMMA HandleDataTypeInv ==
  ASSUME TypeInv, HandleData
  PROVE  TypeInv'
<1>1. /\ phase = "running" /\ cmds = << >> /\ writing = << >>
      /\ UNCHANGED <<plan, request, clientVars, owner, told>>
  BY HandleDataCases
<1>2. UNCHANGED <<plan, request, clientVars>>
  BY <1>1
<1>3. calls \in [Tasks -> CallRecords]
  BY DEF TypeInv, CallsFit
<1>4. ASSUME NEW d, NEW items \in Seq(WireItems), DriverEnds(d, items, calls),
             CapsuleCount(items) <= window
      PROVE  TypeInv'
  BY <1>1, <1>2, <1>3, <1>4, EndsTypeInv
<1>5. ASSUME NEW n, NEW d1, NEW d2, NEW d3, NEW ch, Turns(n, d1, d2, d3, ch), DriverGoesOn(d3, ch),
             to_server' = SubSeq(to_server, n + 1, Len(to_server)), quota' = quota + n,
             UNCHANGED <<cmds, calls, writing>>
      PROVE  TypeInv'
  <2>1. to_server \in Seq(WireItems) /\ n \in 0 .. Len(to_server) /\ quota \in Int
    BY <1>5 DEF TypeInv, StreamFits, Turns
  <2>2. to_server' \in Seq(WireItems) /\ quota' \in Int
    BY <1>5, <2>1
  <2>3. CallsFit' /\ writing' \in {writing, << >>}
    BY <1>5 DEF TypeInv, CallsFit
  <2>4. /\ d3 \in Drivers /\ d3.ok /\ ~d3.responded /\ d3.session.events = << >>
        /\ Passed(ch, held, window, d3.session.output)
    BY <1>5 DEF Turns
  <2> QED BY <1>1, <1>2, <1>5, <2>2, <2>3, <2>4, GoesOnTypeInv
<1> QED BY <1>4, <1>5, HandleDataCases

LEMMA EndingTypeInv ==
  ASSUME TypeInv, HandleEnd \/ DropSession
  PROVE  TypeInv'
<1>1. /\ phase = "running" /\ DriverEnds(driver, << >>, calls)
      /\ UNCHANGED <<plan, request, clientVars>>
  BY DEF HandleEnd, DropSession
<1>2. calls \in [Tasks -> CallRecords] /\ window \in Nat
  BY DEF TypeInv, CallsFit, StreamFits
<1>3. << >> \in Seq(WireItems) /\ CapsuleCount(<< >>) <= window
  BY <1>2, NothingSent
<1> QED BY <1>1, <1>2, <1>3, EndsTypeInv, Zenon

LEMMA AcceptTypeInv ==
  ASSUME TypeInv, Accept
  PROVE  TypeInv'
<1> DEFINE answer == AcceptAnswer(request, TRUE, request.selected)
<1>1. /\ phase = "request" /\ phase' = IF answer = "200" THEN "running" ELSE "refused"
      /\ driver' = IF answer = "200" THEN NewDriver(ServerStart) ELSE driver
      /\ to_client' = IF answer = "no response" THEN to_client
                      ELSE Append(to_client, [type |-> "RESPONSE", status |-> answer])
      /\ UNCHANGED <<plan, request, clientVars, held, writing, window, to_server, quota,
                     emitted, owner, cmds, calls, told>>
  BY DEF Accept, ServerStart
<1>a. peer' = peer /\ request' = request /\ unacked' = unacked /\ window' = window /\ writing' = writing
  BY <1>1 DEF clientVars
<1>2. answer \in Statuses /\ (answer = "200" => ~InitRefused(request.init))
  <2> DEFINE A == ~request.tls13 \/ ~request.https
             B == TRUE /\ request.origin = "other"
             C == InitRefused(request.init)
             E == request.selected # Absent /\ request.selected \notin request.protocols
  <2>1. answer = CASE A -> "PROTOCOL_ERROR" [] B -> "403" [] C -> "400" [] E -> "no response"
                   [] OTHER -> "200"
    BY DEF AcceptAnswer
  <2> HIDE DEF A, B, C, E, answer
  <2>2. answer \in Statuses
    BY <2>1 DEF Statuses
  <2>3. C => answer # "200"
    BY <2>1
  <2>4. answer = "200" => ~InitRefused(request.init)
    BY <2>3 DEF C
  <2> QED BY <2>2, <2>4
<1> HIDE DEF answer
<1>3. to_client = << >> /\ peer = Absent /\ request \in Requests
  BY <1>1 DEF TypeInv, Greeting, PlanFits
<1> DEFINE r == [type |-> "RESPONSE", status |-> answer]
<1>4. r \in Ways /\ r.type = "RESPONSE" /\ r.status = answer
  BY <1>2 DEF Ways, Responses
<1> HIDE DEF r
<1>5. to_client' = IF answer = "no response" THEN << >> ELSE <<r>>
  <2>1. Append(<< >>, r) = <<r>>
    OBVIOUS
  <2> QED BY <1>1, <1>3, <2>1 DEF r
<1>6. to_client' \in Seq(Ways) /\ CapsuleCount(to_client') = 0
  <2>1. CapsuleCount(<<r>>) = 0 /\ CapsuleCount(<< >>) = 0
    BY <1>4, CountOne
  <2>2. <<r>> \in Seq(Ways) /\ << >> \in Seq(Ways)
    BY <1>4
  <2> QED BY <1>5, <2>1, <2>2
<1>7. PlanFits' /\ PeerFits'
  BY <1>1 DEF TypeInv, PlanFits, PeerFits, clientVars
<1>8. DriverFits'
  <2>1. CASE answer = "200"
    <3>1. ServerStart \in Sessions /\ ServerStart.events = << >> /\ ServerStart.output = << >>
      BY <1>2, <1>3, <2>1, StartTypes
    <3> DEFINE d == NewDriver(ServerStart)
    <3>2. d.session = ServerStart /\ d.ok /\ ~d.responded
      BY DEF NewDriver
    <3>3. d \in Drivers
      <4>1. [id \in {} |-> << >>] \in Maps(Seq(Packets)) /\ [b \in BOOLEAN |-> 0] \in [BOOLEAN -> Nat]
        BY DEF Maps
      <4> QED BY <3>1, <4>1 DEF Drivers, NewDriver
    <3> HIDE DEF d
    <3>4. driver' = d
      BY <1>1, <2>1 DEF d
    <3> QED BY <3>1, <3>2, <3>3, <3>4 DEF DriverFits
  <2>2. CASE answer # "200"
    BY <1>1, <2>2 DEF DriverFits
  <2> QED BY <2>1, <2>2
<1>9. CallsFit' /\ StreamFits'
  BY <1>1, <1>6 DEF TypeInv, CallsFit, StreamFits, clientVars
<1>10. Budget'
  <2>1. /\ CapsuleCount(to_client) = 0 /\ CapsuleCount(to_client') = 0
    BY <1>3, <1>6, CountOne
  <2>2. window <= Window /\ 0 + Len(writing) + unacked + window <= Window
    BY <1>1, <2>1 DEF TypeInv, Budget
  <2>3. Len(writing) \in Nat /\ unacked \in Nat /\ window \in Nat /\ Window \in Nat
    BY WtDriverAssumption DEF TypeInv, StreamFits
  <2>4. 0 + Len(writing) + unacked + 0 <= Window
    BY <2>2, <2>3
  <2>5. /\ window' <= Window
        /\ CapsuleCount(to_client') + Len(writing') + unacked' + window' <= Window
        /\ CapsuleCount(to_client') + Len(writing') + unacked' + 0 <= Window
    BY <1>a, <2>1, <2>2, <2>4
  <2> QED BY <2>5 DEF Budget
<1>11. Greeting'
  <2>1. CASE answer = "no response"
    <3>1. Len(to_client') = 0 /\ to_client' = << >>
      BY <1>5, <2>1
    <3>2. phase' = "refused" /\ peer' = Absent
      BY <1>1, <1>a, <1>3, <2>1
    <3> QED BY <3>1, <3>2 DEF Greeting, Answered200
  <2>2. CASE answer # "no response"
    <3>1. Len(to_client') = 1 /\ to_client'[1] = r
      BY <1>5, <2>2
    <3>2. Answered200' <=> answer = "200"
      BY <1>1 DEF Answered200
    <3>3. phase' # "request" /\ peer' = Absent /\ request' = request
      BY <1>1, <1>a, <1>3
    <3>4. to_client' # << >>
      BY <3>1
    <3> QED BY <1>2, <1>4, <3>1, <3>2, <3>3, <3>4 DEF Greeting
  <2> QED BY <2>1, <2>2
<1> QED BY <1>7, <1>8, <1>9, <1>10, <1>11 DEF TypeInv

LEMMA PartsTypeInv ==
  ASSUME TypeInv, IntoParts \/ DropParts
  PROVE  TypeInv'
<1>1. UNCHANGED <<plan, request, clientVars, streamVars, phase, driver, cmds, calls>>
  BY DEF IntoParts, DropParts
<1> QED BY <1>1 DEF TypeInv, PlanFits, DriverFits, CallsFit, StreamFits, Budget, PeerFits, Greeting,
                    Answered200, clientVars, streamVars

LEMMA CallTypeInv ==
  ASSUME TypeInv, NEW t \in Tasks, Call(t)
  PROVE  TypeInv'
<1>1. UNCHANGED <<plan, request, clientVars, streamVars, phase, driver, owner, told>>
  BY DEF Call
<1>2. PICK cmd \in plan.commands :
        IF phase = "running"
        THEN cmds' = Append(cmds, t) /\ calls' = [calls EXCEPT ![t] = [cmd |-> cmd, answer |-> "waiting"]]
        ELSE calls' = [calls EXCEPT ![t] = [cmd |-> cmd, answer |-> "closed"]] /\ cmds' = cmds
  BY DEF Call
<1>3. cmd \in Commands
  BY PlansAssumption DEF TypeInv, PlanFits
<1>4. /\ calls \in [Tasks -> CallRecords] /\ cmds \in Seq(Tasks)
      /\ \A k \in 1 .. Len(cmds) : calls[cmds[k]].cmd \in Commands
  BY DEF TypeInv, CallsFit
<1>5. PICK r \in CallRecords : r.cmd \in Commands /\ calls' = [calls EXCEPT ![t] = r]
  <2>1. \A a \in {"waiting", "closed"} :
          [cmd |-> cmd, answer |-> a] \in CallRecords /\ [cmd |-> cmd, answer |-> a].cmd = cmd
    BY <1>3 DEF CallRecords, Answers
  <2> QED BY <1>2, <1>3, <2>1
<1>6. /\ calls' \in [Tasks -> CallRecords]
      /\ \A v \in Tasks : calls'[v] = IF v = t THEN r ELSE calls[v]
  BY <1>4, <1>5
<1>7. CASE cmds' = cmds
  <2>1. \A k \in 1 .. Len(cmds) : cmds[k] \in Tasks
    BY <1>4
  <2>2. CallsFit'
    BY <1>4, <1>5, <1>6, <1>7, <2>1 DEF CallsFit
  <2> QED BY <1>1, <2>2 DEF TypeInv, PlanFits, DriverFits, StreamFits, Budget, PeerFits, Greeting,
                            Answered200, clientVars, streamVars
<1>8. CASE cmds' = Append(cmds, t)
  <2>1. cmds' \in Seq(Tasks)
    BY <1>4, <1>8
  <2>2. ASSUME NEW k \in 1 .. Len(cmds')
        PROVE  calls'[cmds'[k]].cmd \in Commands
    <3>1. Len(cmds') = Len(cmds) + 1 /\ Len(cmds) \in Nat
      BY <1>4, <1>8
    <3>2. CASE k = Len(cmds) + 1
      <4>1. cmds'[k] = t
        BY <1>4, <1>8, <3>2
      <4> QED BY <1>5, <1>6, <4>1
    <3>3. CASE k # Len(cmds) + 1
      <4>1. k \in 1 .. Len(cmds) /\ cmds'[k] = cmds[k] /\ cmds[k] \in Tasks
        BY <1>4, <1>8, <2>2, <3>1, <3>3
      <4> QED BY <1>4, <1>5, <1>6, <4>1
    <3> QED BY <3>2, <3>3
  <2>3. CallsFit'
    BY <1>6, <2>1, <2>2 DEF CallsFit
  <2> QED BY <1>1, <2>3 DEF TypeInv, PlanFits, DriverFits, StreamFits, Budget, PeerFits, Greeting,
                            Answered200, clientVars, streamVars
<1> QED BY <1>2, <1>7, <1>8

(* recv takes a packet from the channel of a stream handle.                *)
LEMMA RecvDriver ==
  ASSUME NEW id, Recv(id), driver \in Drivers
  PROVE  /\ driver' \in Drivers
         /\ driver'.session = driver.session /\ driver'.ok = driver.ok
         /\ driver'.responded = driver.responded /\ driver'.channels = driver.channels
         /\ driver'.stopping = driver.stopping /\ driver'.closed = driver.closed
         /\ driver'.handles = driver.handles
<1> DEFINE d == driver
<1>1. CASE driver' = driver
  BY <1>1
<1>2. CASE d.packets[id] # << >> /\ driver' = [d EXCEPT !.packets[id] = Tail(@)]
  <2>1. id \in DOMAIN d.packets /\ d.packets \in Maps(Seq(Packets))
    BY DEF Recv, Drivers
  <2>2. d.packets[id] \in Seq(Packets)
    BY <2>1 DEF Maps
  <2>3. Tail(d.packets[id]) \in Seq(Packets)
    BY <1>2, <2>2
  <2> DEFINE p == [d.packets EXCEPT ![id] = Tail(d.packets[id])]
  <2>4. p \in Maps(Seq(Packets))
    BY <2>1, <2>3 DEF Maps
  <2>5. driver' = [d EXCEPT !.packets = p]
    BY <1>2, <2>1 DEF Drivers
  <2> HIDE DEF p
  <2> QED BY <2>4, <2>5 DEF Drivers
<1> QED BY <1>1, <1>2 DEF Recv

LEMMA RecvTypeInv ==
  ASSUME TypeInv, NEW id, Recv(id)
  PROVE  TypeInv'
<1>1. UNCHANGED <<plan, request, clientVars, streamVars, phase, owner, cmds, calls>>
  BY DEF Recv
<1>2. DriverFits'
  BY <1>1, RecvDriver DEF TypeInv, DriverFits
<1> QED BY <1>1, <1>2 DEF TypeInv, PlanFits, CallsFit, StreamFits, Budget, PeerFits, Greeting,
                          Answered200, clientVars, streamVars

LEMMA WindowUpdateTypeInv ==
  ASSUME TypeInv, WindowUpdate
  PROVE  TypeInv'
<1> DEFINE n == IF Len(held) < unacked + window THEN Len(held) ELSE unacked + window
<1>1. /\ phase = "running" /\ cmds = << >> /\ writing = << >>
      /\ writing' = SubSeq(held, 1, n) /\ held' = SubSeq(held, n + 1, Len(held))
      /\ window' = window + unacked - n /\ unacked' = 0
  BY DEF WindowUpdate
<1>2. UNCHANGED <<plan, request, peer, arrived, to_client, to_server, quota, emitted, phase, driver,
                  cmds, calls>>
  BY DEF WindowUpdate, serverVars
<1>3. held \in Seq(Capsules) /\ Len(held) <= Capacity /\ unacked \in Nat /\ window \in Nat
      /\ Len(held) \in Nat
  BY DEF TypeInv, StreamFits
<1>4. n \in Nat /\ n <= Len(held) /\ n <= unacked + window
  BY <1>3
<1> HIDE DEF n
<1>5. writing' \in Seq(Capsules) /\ Len(writing') = n
  BY <1>1, <1>3, <1>4
<1>6. held' \in Seq(Capsules) /\ Len(held') = Len(held) - n
  BY <1>1, <1>3, <1>4
<1>7. window' \in Nat /\ Len(held') <= Capacity
  BY <1>1, <1>3, <1>4, <1>6, WtDriverAssumption
<1>8. StreamFits'
  BY <1>1, <1>2, <1>5, <1>6, <1>7 DEF TypeInv, StreamFits
<1>9. Budget'
  <2> DEFINE a == CapsuleCount(to_client)
  <2>1. a \in Nat /\ CapsuleCount(to_client') = a
    BY <1>2, WeightFacts DEF TypeInv, StreamFits
  <2>2. a + 0 + unacked + window <= Window /\ Window \in Nat
    BY <1>1, WtDriverAssumption DEF TypeInv, Budget
  <2> HIDE DEF a
  <2>3. window' <= Window /\ a + n + 0 + window' <= Window
    BY <1>1, <1>3, <1>4, <2>1, <2>2
  <2> QED BY <1>1, <1>2, <1>5, <2>1, <2>3 DEF Budget
<1> QED BY <1>2, <1>8, <1>9 DEF TypeInv, PlanFits, DriverFits, CallsFit, PeerFits, Greeting, Answered200

LEMMA FinishWriteTypeInv ==
  ASSUME TypeInv, FinishWrite
  PROVE  TypeInv'
<1>1. /\ phase = "running" /\ to_client' = to_client \o writing /\ writing' = << >>
  BY DEF FinishWrite
<1>2. UNCHANGED <<plan, request, peer, arrived, unacked, held, window, to_server, quota, emitted, phase,
                  driver, cmds, calls>>
  BY DEF FinishWrite, serverVars, clientVars
<1>3. writing \in Seq(Capsules) /\ Len(writing) \in Nat /\ window \in Nat /\ unacked \in Nat
  BY DEF TypeInv, StreamFits
<1>4. writing \in Seq(WireItems) /\ CapsuleCount(writing) = Len(writing)
  BY <1>3, CountCapsules
<1>5. /\ Greeting' /\ to_client' \in Seq(Ways)
      /\ CapsuleCount(to_client)' = CapsuleCount(to_client) + Len(writing)
      /\ CapsuleCount(to_client) \in Nat
  BY <1>1, <1>2, <1>4, SentGrows DEF Answered200
<1>6. StreamFits'
  <2>1. writing' \in Seq(Capsules)
    BY <1>1
  <2> QED BY <1>2, <1>5, <2>1 DEF TypeInv, StreamFits
<1>7. Budget'
  <2>1. CapsuleCount(to_client) + Len(writing) + unacked + window <= Window /\ window <= Window
    BY <1>1 DEF TypeInv, Budget
  <2>2. Len(writing') = 0 /\ window' = window /\ unacked' = unacked /\ phase' = "running"
    BY <1>1, <1>2
  <2> DEFINE a == CapsuleCount(to_client)
             l == Len(writing)
  <2>3. CapsuleCount(to_client') = a + l /\ a \in Nat /\ l \in Nat /\ a + l + unacked + window <= Window
    BY <1>3, <1>5, <2>1
  <2> HIDE DEF a, l
  <2>4. (a + l) + 0 + unacked + window <= Window
    BY <1>3, <2>3
  <2> QED BY <2>1, <2>2, <2>3, <2>4 DEF Budget
<1> QED BY <1>2, <1>5, <1>6, <1>7 DEF TypeInv, PlanFits, DriverFits, CallsFit, PeerFits

(* What arrives at the client: the 200 that makes its session, an end, a   *)
(* capsule after the end, a capsule it refuses, or one it takes.           *)
Greets(item) ==
  /\ item.type = "RESPONSE" /\ item.status = "200" /\ peer' = ClientStart
  /\ UNCHANGED <<over, peer_failed, arrived, ended, unacked, to_server, quota>>
LeavesPeer(item) ==
  /\ (item \in Capsules => over) /\ (item \in Responses => item.status # "200")
  /\ over' = TRUE /\ UNCHANGED <<peer, peer_failed, arrived, ended, unacked, to_server, quota>>
PeerRefuses(item) ==
  /\ item \in Capsules /\ ~over /\ peer \in Sessions /\ Refused(peer, item)
  /\ peer_failed' = TRUE /\ over' = TRUE
  /\ to_server' = IF phase = "running" THEN Append(to_server, [type |-> "RST_STREAM"]) ELSE to_server
  /\ UNCHANGED <<peer, arrived, ended, unacked, quota>>
PeerTakes(item, s) ==
  /\ item \in Capsules /\ ~over /\ peer \in Sessions /\ ~Refused(peer, item)
  /\ s = Accepted(peer, item) /\ s \in Sessions /\ peer' = Flushed(PollAll(s))
  /\ to_server' = IF phase = "running" THEN to_server \o s.output ELSE to_server
  /\ quota' = quota - Len(s.output) /\ arrived' = arrived + 1 /\ unacked' = unacked + 1
  /\ ended' = IF s.output # << >> THEN [ended EXCEPT ![item.id] = "reset"] ELSE ended
  /\ UNCHANGED <<over, peer_failed>>

LEMMA ClientReceiveCases ==
  ASSUME TypeInv, ClientReceive
  PROVE  LET item == Head(to_client)
         IN  /\ to_client # << >> /\ item \in Ways /\ item = to_client[1]
             /\ to_client' = Tail(to_client)
             /\ UNCHANGED <<plan, request, written, held, writing, window, emitted, serverVars>>
             /\ item \notin Responses => peer # Absent
             /\ Greets(item) \/ LeavesPeer(item) \/ PeerRefuses(item) \/ \E s : PeerTakes(item, s)
<1> DEFINE item == Head(to_client)
           s    == Accepted(peer, item)
<1>1. /\ to_client # << >> /\ to_client' = Tail(to_client)
      /\ UNCHANGED <<plan, request, written, held, writing, window, emitted, serverVars>>
  BY DEF ClientReceive
<1>2. to_client \in Seq(Ways) /\ item \in Ways /\ item = to_client[1] /\ 1 \in 1 .. Len(to_client)
  BY <1>1 DEF TypeInv, StreamFits
<1>3. /\ item \in Responses <=> item.type = "RESPONSE"
      /\ item \in Terminators <=> item.type \in {"END_STREAM", "RST_STREAM", "EOF"}
      /\ item \in Capsules <=> item.type \notin {"RESPONSE", "END_STREAM", "RST_STREAM", "EOF"}
  <2> HIDE DEF item
  <2> QED BY <1>2, ItemKinds DEF Ways, WireItems
<1>4. item \notin Responses => peer # Absent
  <2>1. phase \in {"request", "running", "ended", "refused"}
    BY DEF TypeInv, PlanFits
  <2> QED BY <1>1, <1>2, <1>3, <2>1 DEF TypeInv, Greeting, Answered200
<1>5. item \in Capsules => peer \in Sessions /\ peer.output = << >>
  BY <1>3, <1>4, PeerIs
<1>6. CASE item.type = "RESPONSE" /\ item.status = "200"
  <2>1. Greets(item)
    BY <1>6 DEF ClientReceive, Greets, ClientStart
  <2> QED BY <1>1, <1>2, <1>4, <2>1
<1>7. CASE item.type \in {"END_STREAM", "RST_STREAM", "EOF"}
             \/ (item.type = "RESPONSE" /\ item.status # "200")
  <2>1. over' = TRUE /\ UNCHANGED <<peer, peer_failed, arrived, ended, unacked, to_server, quota>>
    BY <1>7 DEF ClientReceive
  <2>2. LeavesPeer(item)
    <3>1. item \notin Capsules /\ (item \in Responses => item.status # "200")
      BY <1>3, <1>7
    <3> QED BY <2>1, <3>1 DEF LeavesPeer
  <2> QED BY <1>1, <1>2, <1>4, <2>2
<1>8. CASE item.type \notin {"RESPONSE", "END_STREAM", "RST_STREAM", "EOF"}
  <2>1. item \in Capsules /\ peer \in Sessions /\ peer.output = << >>
    BY <1>3, <1>5, <1>8
  <2>2. CASE over
    <3>1. over' = TRUE /\ UNCHANGED <<peer, peer_failed, arrived, ended, unacked, to_server, quota>>
      BY <1>8, <2>2 DEF ClientReceive
    <3>2. LeavesPeer(item)
      BY <1>3, <1>8, <2>2, <3>1 DEF LeavesPeer
    <3> QED BY <1>1, <1>2, <1>4, <3>2
  <2>3. CASE ~over /\ Refused(peer, item)
    <3>1. PeerRefuses(item)
      BY <1>8, <2>1, <2>3 DEF ClientReceive, PeerRefuses
    <3> QED BY <1>1, <1>2, <1>4, <3>1
  <2>4. CASE ~over /\ ~Refused(peer, item)
    <3>1. s \in Sessions
      <4> HIDE DEF item
      <4> QED BY <2>1, <2>4, AcceptedType
    <3>2. PeerTakes(item, s)
      BY <1>8, <2>1, <2>4, <3>1 DEF ClientReceive, PeerTakes, Flushed
    <3> HIDE DEF s, item
    <3> QED BY <1>1, <1>2, <1>4, <3>2 DEF item
  <2> QED BY <2>2, <2>3, <2>4
<1> QED BY <1>6, <1>7, <1>8

(* The client after one more capsule.                                      *)
LEMMA PeerTakesType ==
  ASSUME TypeInv, NEW item, NEW s, PeerTakes(item, s)
  PROVE  /\ peer' \in Sessions /\ peer'.events = << >> /\ peer'.output = << >>
         /\ peer'.state = s.state /\ s.output \in Seq(Capsules)
<1>1. s \in Sessions /\ peer' = Flushed(PollAll(s))
  BY DEF PeerTakes
<1>2. PollAll(s) \in Sessions /\ PollAll(s).events = << >> /\ PollAll(s).state = s.state
  BY <1>1, PollAllType
<1> DEFINE q == PollAll(s)
<1> HIDE DEF q
<1>3. q \in Sessions /\ q.events = << >> /\ peer' = Flushed(q) /\ q.state = s.state
  BY <1>1, <1>2 DEF q
<1>4. Flushed(q) \in Sessions /\ Flushed(q).output = << >>
  BY <1>3, FlushedType
<1>5. Flushed(q).events = << >> /\ Flushed(q).state = q.state
  BY <1>3 DEF Flushed, Sessions
<1>6. s.output \in Seq(Capsules)
  BY <1>1 DEF Sessions
<1> QED BY <1>3, <1>4, <1>5, <1>6

LEMMA ClientReceiveTypeInv ==
  ASSUME TypeInv, ClientReceive
  PROVE  TypeInv'
<1> DEFINE item == Head(to_client)
<1>1. /\ to_client # << >> /\ item \in Ways /\ item = to_client[1] /\ to_client' = Tail(to_client)
      /\ item \notin Responses => peer # Absent
      /\ Greets(item) \/ LeavesPeer(item) \/ PeerRefuses(item) \/ \E s : PeerTakes(item, s)
  BY ClientReceiveCases
<1>2. UNCHANGED <<plan, request, held, writing, window, emitted, phase, driver, cmds, calls>>
  BY ClientReceiveCases DEF serverVars
<1>3. /\ to_client \in Seq(Ways) /\ to_server \in Seq(WireItems) /\ quota \in Int /\ arrived \in Nat
      /\ unacked \in Nat
  BY DEF TypeInv, StreamFits
<1>4. /\ to_client' \in Seq(Ways) /\ Len(to_client') = Len(to_client) - 1 /\ Len(to_client) \in Nat
      /\ \A k \in 1 .. Len(to_client') : k + 1 \in 1 .. Len(to_client) /\ to_client'[k] = to_client[k + 1]
      /\ Len(to_client) >= 1
  BY <1>1, <1>3
<1>5. \A k \in 1 .. Len(to_client') : to_client'[k].type # "RESPONSE"
  <2> SUFFICES ASSUME NEW k \in 1 .. Len(to_client'), to_client'[k].type = "RESPONSE" PROVE FALSE
    OBVIOUS
  <2>1. k + 1 \in 1 .. Len(to_client) /\ to_client[k + 1].type = "RESPONSE" /\ k + 1 # 1
    BY <1>4
  <2> QED BY <2>1 DEF TypeInv, Greeting
<1>6. /\ CapsuleCount(to_client) \in Nat /\ CapsuleCount(to_client') \in Nat
      /\ CapsuleCount(to_client) = CapsuleCount(to_client') +
           IF item.type \in {"RESPONSE", "END_STREAM", "RST_STREAM", "EOF"} THEN 0 ELSE 1
  BY <1>1, <1>3, <1>4, CountTail, WeightFacts
<1>a. CapsuleCount(to_client') <= CapsuleCount(to_client)
  BY <1>6
<1>7. PlanFits' /\ DriverFits' /\ CallsFit'
  BY <1>2 DEF TypeInv, PlanFits, DriverFits, CallsFit
<1>8. item.type = "RESPONSE" => (item.status = "200" <=> Answered200)
  BY <1>1, <1>4 DEF TypeInv, Greeting
<1>9. ASSUME unacked' = unacked PROVE Budget'
  <2>1. CapsuleCount(to_client') + Len(writing) + unacked +
          (IF phase \in {"request", "running"} THEN window ELSE 0) <= Window
    <3> DEFINE w == IF phase \in {"request", "running"} THEN window ELSE 0
               a == CapsuleCount(to_client)
               b == CapsuleCount(to_client')
               l == Len(writing)
    <3>1. /\ w \in Nat /\ l \in Nat /\ Window \in Nat /\ a + l + unacked + w <= Window
          /\ a \in Nat /\ b \in Nat /\ b <= a
      BY <1>6, <1>a, WtDriverAssumption DEF TypeInv, Budget, StreamFits
    <3> HIDE DEF w, a, b, l
    <3>2. b + l + unacked + w <= Window
      BY <1>3, <3>1
    <3> QED BY <3>2 DEF b, l, w
  <2> QED BY <1>2, <1>9, <2>1 DEF TypeInv, Budget
<1>b. ASSUME Answered200 => peer' # Absent, peer' = peer \/ Answered200
      PROVE  Greeting'
  <2>1. phase \in {"request", "running", "ended", "refused"}
    BY DEF TypeInv, PlanFits
  <2>2. phase # "request"
    BY <1>1 DEF TypeInv, Greeting
  <2>3. phase = "refused" => Len(to_client') = 0 /\ to_client' = << >>
    BY <1>4 DEF TypeInv, Greeting
  <2> QED BY <1>2, <1>5, <1>b, <2>1, <2>2, <2>3 DEF TypeInv, Greeting, Answered200
<1>10. CASE Greets(item)
  <2>1. peer' = ClientStart /\ UNCHANGED <<arrived, unacked, to_server, quota>> /\ Answered200
    BY <1>8, <1>10 DEF Greets
  <2>2. request \in Requests /\ ~InitRefused(request.init)
    BY <2>1 DEF TypeInv, PlanFits, Greeting
  <2>3. /\ ClientStart \in Sessions /\ ClientStart.events = << >> /\ ClientStart.output = << >>
    BY <2>2, StartTypes
  <2>4. PeerFits' /\ peer' # Absent
    BY <2>1, <2>3, AbsentAssumption DEF PeerFits
  <2>5. StreamFits' /\ Budget'
    BY <1>2, <1>4, <1>9, <2>1 DEF TypeInv, StreamFits
  <2> QED BY <1>7, <1>b, <2>1, <2>4, <2>5 DEF TypeInv
<1>11. CASE LeavesPeer(item)
  <2>1. UNCHANGED <<peer, arrived, unacked, to_server, quota>>
    BY <1>11 DEF LeavesPeer
  <2>2. StreamFits' /\ Budget' /\ PeerFits'
    BY <1>2, <1>4, <1>9, <2>1 DEF TypeInv, StreamFits, PeerFits
  <2>3. Answered200 => peer' # Absent
    <3>1. CASE item \in Responses
      <4>1. item.type = "RESPONSE" /\ item.status # "200"
        BY <1>11, <3>1, ItemKinds DEF LeavesPeer
      <4> QED BY <1>8, <4>1
    <3>2. CASE item \notin Responses
      BY <1>1, <2>1, <3>2
    <3> QED BY <3>1, <3>2
  <2> QED BY <1>7, <1>b, <2>1, <2>2, <2>3 DEF TypeInv
<1>12. CASE PeerRefuses(item)
  <2>1. /\ UNCHANGED <<peer, arrived, unacked, quota>> /\ peer \in Sessions
        /\ to_server' = IF phase = "running" THEN Append(to_server, [type |-> "RST_STREAM"])
                        ELSE to_server
    BY <1>12 DEF PeerRefuses
  <2>2. to_server' \in Seq(WireItems)
    <3>1. [type |-> "RST_STREAM"] \in WireItems
      BY ItemKinds DEF WireItems
    <3> QED BY <1>3, <2>1, <3>1
  <2>3. StreamFits' /\ Budget' /\ PeerFits'
    BY <1>2, <1>4, <1>9, <2>1, <2>2 DEF TypeInv, StreamFits, PeerFits
  <2>4. peer' # Absent
    BY <2>1, AbsentAssumption
  <2> QED BY <1>7, <1>b, <2>1, <2>3, <2>4 DEF TypeInv
<1>13. ASSUME NEW s, PeerTakes(item, s) PROVE TypeInv'
  <2>1. /\ peer' \in Sessions /\ peer'.events = << >> /\ peer'.output = << >>
        /\ s.output \in Seq(Capsules)
    <3> HIDE DEF item
    <3> QED BY <1>13, PeerTakesType
  <2>2. /\ item \in Capsules /\ peer \in Sessions
        /\ to_server' = IF phase = "running" THEN to_server \o s.output ELSE to_server
        /\ quota' = quota - Len(s.output) /\ arrived' = arrived + 1 /\ unacked' = unacked + 1
    BY <1>13 DEF PeerTakes
  <2>3. to_server' \in Seq(WireItems) /\ quota' \in Int
    <3>1. s.output \in Seq(WireItems) /\ Len(s.output) \in Int
      BY <2>1, CountCapsules
    <3> QED BY <1>3, <2>2, <3>1
  <2>4. StreamFits'
    BY <1>2, <1>3, <1>4, <2>2, <2>3 DEF TypeInv, StreamFits
  <2>5. Budget'
    <3> DEFINE w == IF phase \in {"request", "running"} THEN window ELSE 0
               a == CapsuleCount(to_client)
               b == CapsuleCount(to_client')
               l == Len(writing)
    <3>1. item.type \notin {"RESPONSE", "END_STREAM", "RST_STREAM", "EOF"}
      BY <2>2, ItemKinds
    <3>2. /\ w \in Nat /\ l \in Nat /\ Window \in Nat /\ a + l + unacked + w <= Window
          /\ a \in Nat /\ b \in Nat /\ a = b + 1
      BY <1>6, <3>1, WtDriverAssumption DEF TypeInv, Budget, StreamFits
    <3> HIDE DEF w, a, b, l
    <3>3. b + l + (unacked + 1) + w <= Window
      BY <1>3, <3>2
    <3>4. window <= Window
      BY DEF TypeInv, Budget
    <3> QED BY <1>2, <2>2, <3>3, <3>4 DEF b, l, w, Budget
  <2>6. PeerFits' /\ peer' # Absent
    BY <2>1, AbsentAssumption DEF PeerFits
  <2>7. Answered200
    BY <1>1, <2>2, AbsentAssumption, PeerIs DEF Answered200
  <2> QED BY <1>7, <1>b, <2>4, <2>5, <2>6, <2>7 DEF TypeInv
<1> QED BY <1>1, <1>10, <1>11, <1>12, <1>13

LEMMA TypeStep ==
  ASSUME TypeInv, [Next]_vars
  PROVE  TypeInv'
<1>1. CASE Accept
  BY <1>1, AcceptTypeInv
<1>2. CASE IntoParts \/ DropParts
  BY <1>2, PartsTypeInv
<1>3. CASE DropSession \/ HandleEnd
  BY <1>3, EndingTypeInv
<1>4. CASE HandleCmd
  BY <1>4, HandleCmdTypeInv
<1>5. CASE HandleData
  BY <1>5, HandleDataTypeInv
<1>6. CASE WindowUpdate
  BY <1>6, WindowUpdateTypeInv
<1>7. CASE FinishWrite
  BY <1>7, FinishWriteTypeInv
<1>8. CASE ClientReceive
  BY <1>8, ClientReceiveTypeInv
<1>9. CASE \E t \in Tasks : Call(t)
  BY <1>9, CallTypeInv
<1>10. CASE \E id \in Ids : Recv(id)
  BY <1>10, RecvTypeInv
<1>11. CASE \/ \E b \in BOOLEAN : ClientOpen(b)
            \/ \E id \in Ids, fin \in BOOLEAN : ClientSend(id, fin)
            \/ \E id \in Ids : ClientReset(id) \/ ClientStop(id)
            \/ ClientClose
            \/ \E type \in {"END_STREAM", "RST_STREAM", "EOF"} : ClientLeaves(type)
  BY <1>11, ClientCalls
<1>12. CASE UNCHANGED vars
  BY <1>12 DEF vars, clientVars, streamVars, serverVars, TypeInv, PlanFits, DriverFits, CallsFit,
               StreamFits, Budget, PeerFits, Greeting, Answered200
<1> QED BY <1>1, <1>2, <1>3, <1>4, <1>5, <1>6, <1>7, <1>8, <1>9, <1>10, <1>11, <1>12 DEF Next

(* The types of the driver, of its tasks and of the client hold in every   *)
(* state: no step of one of them takes another out of its type.            *)
THEOREM DriverInvariant == Spec => []TypeInv
<1>1. Init => TypeInv
  BY InitTypeInv
<1>2. TypeInv /\ [Next]_vars => TypeInv'
  BY TypeStep
<1> QED BY <1>1, <1>2, PTL DEF Spec

(* The driver, its send buffer and the windows keep their types: no turn   *)
(* of the loop leaves a failed or an answered driver running, the windows  *)
(* stay within what was announced, and the send buffer within its          *)
(* capacity.                                                               *)
THEOREM DriverTypeCorrect == Spec => []TypeOK
<1>1. TypeInv => TypeOK
  BY TypeInvImplies
<1> QED BY <1>1, DriverInvariant, PTL

-----------------------------------------------------------------------------
(* Nothing the session of the server writes goes missing.  The capsules    *)
(* are counted from before the session exists.  A command that drops the   *)
(* write of next_event would lose them, so the socket is one that never    *)
(* makes write_all wait.                                                   *)
IntactInv ==
  phase \in {"request", "running"} /\ ~over =>
    emitted = arrived + CapsuleCount(to_client) + Len(writing) + Len(held)

(* The terms of the sum.                                                   *)
LEMMA IntactTypes ==
  ASSUME TypeInv
  PROVE  /\ emitted \in Nat /\ arrived \in Nat /\ CapsuleCount(to_client) \in Nat
         /\ Len(writing) \in Nat /\ Len(held) \in Nat
  BY WeightFacts DEF TypeInv, StreamFits

LEMMA IntactSame ==
  ASSUME IntactInv, UNCHANGED <<emitted, arrived, to_client, writing, held, phase>>, over => over'
  PROVE  IntactInv'
  BY DEF IntactInv

LEMMA IntactEnds ==
  ASSUME NEW d, NEW items, NEW answered, DriverEnds(d, items, answered)
  PROVE  IntactInv'
  BY DEF IntactInv, DriverEnds

LEMMA IntactGoesOn ==
  ASSUME TypeInv, IntactInv, phase = "running", NEW d \in Drivers, NEW ch,
         Passed(ch, held, window, d.session.output), ch.ok, DriverGoesOn(d, ch),
         Len(writing') = Len(writing), UNCHANGED <<over, arrived>>
  PROVE  IntactInv'
<1> SUFFICES ASSUME ~over PROVE IntactInv'
  BY DEF IntactInv
<1>1. /\ ch.sent \in Seq(Capsules) /\ ch.kept \in Seq(Capsules)
      /\ ch.sent \o ch.kept = held \o d.session.output
  BY DEF Passed, Channels
<1>2. d.session.output \in Seq(Capsules) /\ held \in Seq(Capsules) /\ to_client \in Seq(Ways)
  BY DriverFields DEF Sessions, TypeInv, StreamFits
<1>3. Len(ch.sent) + Len(ch.kept) = Len(held) + Len(d.session.output)
  <2>1. Len(ch.sent \o ch.kept) = Len(ch.sent) + Len(ch.kept)
    BY <1>1, ConcatProperties
  <2> DEFINE o == d.session.output
  <2>2. o \in Seq(Capsules) /\ ch.sent \o ch.kept = held \o o
    BY <1>1, <1>2
  <2> HIDE DEF o
  <2>3. Len(held \o o) = Len(held) + Len(o)
    BY <1>2, <2>2, ConcatProperties
  <2> QED BY <2>1, <2>2, <2>3 DEF o
<1>4. /\ to_client' = to_client \o ch.sent /\ held' = ch.kept
      /\ emitted' = emitted + Len(d.session.output)
  BY DEF DriverGoesOn
<1>5. CapsuleCount(to_client') = CapsuleCount(to_client) + Len(ch.sent)
  <2>1. ch.sent \in Seq(Ways) /\ CapsuleCount(ch.sent) = Len(ch.sent)
    BY <1>1, CountCapsules
  <2> QED BY <1>2, <1>4, <2>1, CountJoin
<1>6. emitted = arrived + CapsuleCount(to_client) + Len(writing) + Len(held)
  BY DEF IntactInv
<1> DEFINE a == CapsuleCount(to_client)
           s == Len(ch.sent)
           k == Len(ch.kept)
           h == Len(held)
           o == Len(d.session.output)
           w == Len(writing)
<1>7. /\ a \in Nat /\ s \in Nat /\ k \in Nat /\ h \in Nat /\ o \in Nat /\ w \in Nat
      /\ emitted \in Nat /\ arrived \in Nat
  BY <1>1, <1>2, IntactTypes
<1>8. /\ emitted' = emitted + o /\ CapsuleCount(to_client') = a + s /\ Len(writing') = w
      /\ Len(held') = k /\ arrived' = arrived /\ s + k = h + o /\ emitted = arrived + a + w + h
  BY <1>3, <1>4, <1>5, <1>6
<1> HIDE DEF a, s, k, h, o, w
<1>9. emitted + o = arrived + (a + s) + w + k
  BY <1>7, <1>8
<1> QED BY <1>8, <1>9 DEF IntactInv

LEMMA IntactAccept ==
  ASSUME TypeInv, IntactInv, Accept
  PROVE  IntactInv'
<1> DEFINE answer == AcceptAnswer(request, TRUE, request.selected)
           r      == [type |-> "RESPONSE", status |-> answer]
<1>1. /\ phase = "request" /\ to_client' = IF answer = "no response" THEN to_client ELSE Append(to_client, r)
      /\ UNCHANGED <<emitted, arrived, writing, held, over>>
  BY DEF Accept, clientVars
<1>2. to_client = << >>
  BY <1>1 DEF TypeInv, Greeting
<1>3. r.type = "RESPONSE"
  OBVIOUS
<1> HIDE DEF answer, r
<1>4. CapsuleCount(to_client') = CapsuleCount(to_client)
  <2>1. CapsuleCount(<<r>>) = 0 /\ CapsuleCount(<< >>) = 0
    BY <1>3, CountOne
  <2>2. Append(<< >>, r) = <<r>>
    OBVIOUS
  <2> QED BY <1>1, <1>2, <2>1, <2>2
<1> QED BY <1>1, <1>4 DEF IntactInv

LEMMA IntactHandleCmd ==
  ASSUME TypeInv, IntactInv, ~SlowSocket, HandleCmd
  PROVE  IntactInv'
<1> DEFINE t   == Head(cmds)
           cmd == calls[t].cmd
<1>1. phase = "running" /\ writing = << >> /\ UNCHANGED <<plan, request, clientVars, owner, told>>
  BY HandleCmdCases
<1>2. UNCHANGED <<over, arrived>>
  BY <1>1 DEF clientVars
<1>3. CASE /\ writing' = << >>
           /\ UNCHANGED <<phase, driver, held, window, to_client, to_server, quota, emitted>>
  BY <1>1, <1>2, <1>3, IntactSame
<1>4. ASSUME NEW u, NEW d, NEW ch, Serves(cmd, u, d, ch), ch.ok, DriverGoesOn(d, ch), writing' = << >>
      PROVE  IntactInv'
  <2>1. d \in Drivers /\ Passed(ch, held, window, d.session.output)
    BY <1>4 DEF Serves
  <2> QED BY <1>1, <1>2, <1>4, <2>1, IntactGoesOn
<1> QED BY <1>3, <1>4, IntactEnds, HandleCmdCases, Zenon

LEMMA IntactHandleData ==
  ASSUME TypeInv, IntactInv, HandleData
  PROVE  IntactInv'
<1>1. phase = "running" /\ UNCHANGED <<plan, request, clientVars, owner, told>>
  BY HandleDataCases
<1>2. UNCHANGED <<over, arrived>>
  BY <1>1 DEF clientVars
<1>3. ASSUME NEW n, NEW d1, NEW d2, NEW d3, NEW ch, Turns(n, d1, d2, d3, ch), DriverGoesOn(d3, ch),
             UNCHANGED <<cmds, calls, writing>>
      PROVE  IntactInv'
  <2>1. d3 \in Drivers /\ Passed(ch, held, window, d3.session.output) /\ ch.ok
    BY <1>3 DEF Turns
  <2> QED BY <1>1, <1>2, <1>3, <2>1, IntactGoesOn
<1> QED BY <1>3, IntactEnds, HandleDataCases, Zenon

LEMMA IntactWindowUpdate ==
  ASSUME TypeInv, IntactInv, WindowUpdate
  PROVE  IntactInv'
<1> DEFINE n == IF Len(held) < unacked + window THEN Len(held) ELSE unacked + window
<1>1. /\ phase = "running" /\ writing = << >>
      /\ writing' = SubSeq(held, 1, n) /\ held' = SubSeq(held, n + 1, Len(held))
      /\ UNCHANGED <<over, arrived, to_client, emitted, phase>>
  BY DEF WindowUpdate, serverVars
<1>2. held \in Seq(Capsules) /\ Len(held) \in Nat /\ unacked \in Nat /\ window \in Nat
  BY DEF TypeInv, StreamFits
<1>3. n \in Nat /\ n <= Len(held)
  BY <1>2
<1> HIDE DEF n
<1>4. Len(writing') = n /\ Len(held') = Len(held) - n /\ Len(writing) = 0
  BY <1>1, <1>2, <1>3
<1>5. Len(writing) + Len(held) = Len(writing') + Len(held')
  BY <1>2, <1>3, <1>4
<1>6. /\ CapsuleCount(to_client) \in Nat /\ arrived \in Nat /\ Len(writing') \in Nat /\ Len(held') \in Nat
      /\ Len(writing) \in Nat /\ CapsuleCount(to_client') = CapsuleCount(to_client)
  BY <1>1, <1>2, <1>3, <1>4, IntactTypes
<1> DEFINE a == CapsuleCount(to_client)
<1> HIDE DEF a
<1>7. ASSUME emitted = arrived + a + Len(writing) + Len(held)
      PROVE  emitted = arrived + a + Len(writing') + Len(held')
  BY <1>2, <1>5, <1>6, <1>7 DEF a
<1> QED BY <1>1, <1>6, <1>7 DEF IntactInv, a

LEMMA IntactFinishWrite ==
  ASSUME TypeInv, IntactInv, FinishWrite
  PROVE  IntactInv'
<1>1. /\ phase = "running" /\ to_client' = to_client \o writing /\ writing' = << >>
      /\ UNCHANGED <<over, arrived, held, emitted, phase>>
  BY DEF FinishWrite, serverVars, clientVars
<1>2. writing \in Seq(Ways) /\ CapsuleCount(writing) = Len(writing) /\ to_client \in Seq(Ways)
  BY CountCapsules DEF TypeInv, StreamFits
<1>3. CapsuleCount(to_client') = CapsuleCount(to_client) + Len(writing) /\ Len(writing') = 0
  BY <1>1, <1>2, CountJoin
<1>4. /\ arrived \in Nat /\ CapsuleCount(to_client) \in Nat /\ Len(writing) \in Nat /\ Len(held) \in Nat
  BY IntactTypes
<1> DEFINE a == CapsuleCount(to_client)
           l == Len(writing)
<1> HIDE DEF a, l
<1>5. arrived + a + l + Len(held) = arrived + (a + l) + 0 + Len(held)
  BY <1>4 DEF a, l
<1> QED BY <1>1, <1>3, <1>5 DEF IntactInv, a, l

LEMMA IntactReceive ==
  ASSUME TypeInv, IntactInv, ClientReceive
  PROVE  IntactInv'
<1> DEFINE item == Head(to_client)
<1>1. /\ to_client # << >> /\ to_client' = Tail(to_client)
      /\ UNCHANGED <<plan, request, written, held, writing, window, emitted, serverVars>>
      /\ Greets(item) \/ LeavesPeer(item) \/ PeerRefuses(item) \/ \E s : PeerTakes(item, s)
  BY ClientReceiveCases
<1>2. UNCHANGED <<held, writing, emitted, phase>>
  BY <1>1 DEF serverVars
<1>3. CASE over'
  BY <1>3 DEF IntactInv
<1>4. CASE ~over'
  <2>1. CapsuleCount(to_client) = CapsuleCount(to_client') +
          IF item.type \in {"RESPONSE", "END_STREAM", "RST_STREAM", "EOF"} THEN 0 ELSE 1
    BY <1>1, CountTail DEF TypeInv, StreamFits
  <2>2. /\ CapsuleCount(to_client') \in Nat /\ arrived \in Nat /\ Len(writing) \in Nat /\ Len(held) \in Nat
    <3>1. to_client' \in Seq(Ways)
      BY <1>1 DEF TypeInv, StreamFits
    <3> QED BY <3>1, IntactTypes, WeightFacts
  <2> DEFINE b == CapsuleCount(to_client')
  <2>3. CASE Greets(item)
    <3>1. CapsuleCount(to_client) = b /\ UNCHANGED <<over, arrived>>
      BY <2>1, <2>2, <2>3 DEF Greets
    <3> QED BY <1>2, <3>1 DEF IntactInv
  <2>4. ASSUME NEW s, PeerTakes(item, s) PROVE IntactInv'
    <3>1. item \in Capsules /\ over' = over /\ arrived' = arrived + 1
      BY <2>4 DEF PeerTakes
    <3>2. CapsuleCount(to_client) = b + 1
      BY <2>1, <3>1, ItemKinds
    <3> HIDE DEF b
    <3>3. arrived + (b + 1) + Len(writing) + Len(held) = arrived' + b + Len(writing) + Len(held)
      BY <2>2, <3>1 DEF b
    <3> QED BY <1>2, <3>1, <3>2, <3>3 DEF IntactInv, b
  <2>5. ~LeavesPeer(item) /\ ~PeerRefuses(item)
    BY <1>4 DEF LeavesPeer, PeerRefuses
  <2> QED BY <1>1, <2>3, <2>4, <2>5
<1> QED BY <1>3, <1>4

LEMMA IntactStep ==
  ASSUME TypeInv, IntactInv, ~SlowSocket, [Next]_vars
  PROVE  IntactInv'
<1>1. CASE Accept
  BY <1>1, IntactAccept
<1>2. CASE IntoParts \/ DropParts \/ (\E t \in Tasks : Call(t)) \/ (\E id \in Ids : Recv(id))
  <2>1. UNCHANGED <<emitted, arrived, to_client, writing, held, phase, over>>
    BY <1>2 DEF IntoParts, DropParts, Call, Recv, clientVars, streamVars
  <2> QED BY <2>1, IntactSame
<1>3. CASE DropSession \/ HandleEnd
  <2>1. DriverEnds(driver, << >>, calls)
    BY <1>3 DEF DropSession, HandleEnd
  <2> QED BY <2>1, IntactEnds
<1>4. CASE HandleCmd
  BY <1>4, IntactHandleCmd
<1>5. CASE HandleData
  BY <1>5, IntactHandleData
<1>6. CASE WindowUpdate
  BY <1>6, IntactWindowUpdate
<1>7. CASE FinishWrite
  BY <1>7, IntactFinishWrite
<1>8. CASE ClientReceive
  BY <1>8, IntactReceive
<1>9. CASE \/ \E b \in BOOLEAN : ClientOpen(b)
           \/ \E id \in Ids, fin \in BOOLEAN : ClientSend(id, fin)
           \/ \E id \in Ids : ClientReset(id) \/ ClientStop(id)
           \/ ClientClose
           \/ \E type \in {"END_STREAM", "RST_STREAM", "EOF"} : ClientLeaves(type)
  <2>1. (over => over') /\ \E s, items : ClientBecomes(s, items)
    BY <1>9 DEF ClientOpen, ClientSend, ClientReset, ClientStop, ClientClose, ClientLeaves
  <2>2. UNCHANGED <<emitted, arrived, to_client, writing, held, phase>>
    BY <2>1 DEF ClientBecomes, serverVars
  <2> QED BY <2>1, <2>2, IntactSame
<1>10. CASE UNCHANGED vars
  <2>1. UNCHANGED <<emitted, arrived, to_client, writing, held, phase, over>>
    BY <1>10 DEF vars, clientVars, streamVars, serverVars
  <2> QED BY <2>1, IntactSame
<1> QED BY <1>1, <1>2, <1>3, <1>4, <1>5, <1>6, <1>7, <1>8, <1>9, <1>10 DEF Next

(* flush_wt_output and next_event lose no capsule of the server on a       *)
(* socket whose writes do not wait: every one has arrived, is on the way,  *)
(* is being written or is still in the send buffer, whatever commands and  *)
(* WINDOW_UPDATEs come in between.                                         *)
THEOREM NoCapsuleLost == ~SlowSocket => (Spec => []CapsulesIntact)
<1> SUFFICES ASSUME ~SlowSocket PROVE Spec => []CapsulesIntact
  OBVIOUS
<1>1. Init => IntactInv
  <2> SUFFICES ASSUME Init PROVE IntactInv
    OBVIOUS
  <2>1. /\ emitted = 0 /\ arrived = 0 /\ to_client = << >> /\ writing = << >> /\ held = << >>
    BY DEF Init
  <2>2. CapsuleCount(to_client) = 0 /\ Len(writing) = 0 /\ Len(held) = 0
    BY <2>1, CountOne
  <2> QED BY <2>1, <2>2 DEF IntactInv
<1>2. TypeInv /\ IntactInv /\ [Next]_vars => IntactInv'
  BY IntactStep
<1>3. IntactInv => CapsulesIntact
  BY DEF IntactInv, CapsulesIntact, Running
<1> QED BY <1>1, <1>2, <1>3, DriverInvariant, PTL DEF Spec

-----------------------------------------------------------------------------
(* A Close that succeeded.  Only the driver that ends can have answered    *)
(* it, and from then on the capsule and END_STREAM are on their way until  *)
(* the client has seen them.                                               *)
Underway ==
  \E i, j \in DOMAIN to_client :
    i < j /\ to_client[i].type = "CLOSE_SESSION" /\ to_client[j] = EndStream
Delivery == over \/ (peer # Absent /\ peer.state = "Closed") \/ Underway
CloseInv ==
  \A t \in Tasks : calls[t].cmd.op = "close" /\ calls[t].answer = "ok" => phase = "ended" /\ Delivery

(* While the driver runs no Close has succeeded.                           *)
NoneClosed(c) == \A t \in Tasks : ~(c[t].cmd.op = "close" /\ c[t].answer = "ok")

LEMMA CloseEnds ==
  ASSUME TypeInv, CloseInv, phase = "running", NEW answered \in [Tasks -> CallRecords],
         NoneClosed(answered), NEW d, NEW items, DriverEnds(d, items, answered)
  PROVE  CloseInv'
<1>1. calls' = Abandoned(answered)
  BY DEF DriverEnds
<1>2. ASSUME NEW t \in Tasks
      PROVE  ~(calls'[t].cmd.op = "close" /\ calls'[t].answer = "ok")
  <2>1. answered[t] \in CallRecords
    OBVIOUS
  <2>2. calls'[t] = IF answered[t].answer = "waiting" THEN [answered[t] EXCEPT !.answer = "closed"]
                    ELSE answered[t]
    BY <1>1 DEF Abandoned
  <2>3. [answered[t] EXCEPT !.answer = "closed"].answer = "closed"
    BY <2>1 DEF CallRecords
  <2> QED BY <2>2, <2>3 DEF NoneClosed
<1> QED BY <1>2 DEF CloseInv

(* The command that has just been served is the only new answer.           *)
LEMMA CloseReplied ==
  ASSUME TypeInv, CloseInv, phase = "running", NEW t \in Tasks, NEW a \in Answers,
         calls[t].cmd.op # "close" \/ a # "ok"
  PROVE  NoneClosed(Replied(t, a)) /\ NoneClosed(calls) /\ Replied(t, a) \in [Tasks -> CallRecords]
<1>1. NoneClosed(calls)
  BY DEF CloseInv, NoneClosed
<1>2. /\ Replied(t, a) \in [Tasks -> CallRecords]
      /\ \A v \in Tasks : /\ Replied(t, a)[v].cmd = calls[v].cmd
                          /\ Replied(t, a)[v].answer = IF v = t THEN a ELSE calls[v].answer
  BY RepliedType
<1> QED BY <1>1, <1>2 DEF NoneClosed

(* What is sent for a Close that succeeds.                                 *)
LEMMA CloseSent ==
  ASSUME TypeInv, phase = "running", NEW cmd, cmd.op = "close", NEW u, NEW d, NEW ch,
         Serves(cmd, u, d, ch), NEW ch2, ch2 = IF ch.ok THEN SendEnd(ch) ELSE ch,
         CloseAnswer(ch2) = "ok", to_client' = to_client \o ch2.sent \o <<[type |-> "EOF"]>>
  PROVE  Underway'
<1> DEFINE close == [type |-> "CLOSE_SESSION"]
           eof   == [type |-> "EOF"]
<1>1. ch2.ok /\ ch2.kept = << >>
  BY DEF CloseAnswer
<1>2. /\ Passed(ch, held, window, u.output) /\ ch \in Channels /\ ch.sent \in Seq(Capsules)
      /\ ch.kept \in Seq(Capsules)
  BY DEF Serves, Passed, Channels
<1>3. ch.ok /\ ch2 = SendEnd(ch)
  BY <1>1
<1>4. ch.kept = << >> /\ ch2.sent = Append(ch.sent, EndStream)
  <2>1. ch.kept # << >> => SendEnd(ch).kept = Append(ch.kept, EndStream)
    BY <1>2 DEF SendEnd, Channels
  <2>2. Append(ch.kept, EndStream) # << >>
    <3> DEFINE q == ch.kept
    <3>1. q \in Seq(Capsules)
      BY <1>2
    <3> HIDE DEF q
    <3>2. Append(q, EndStream) # << >>
      BY <3>1
    <3> QED BY <3>2 DEF q
  <2>3. ch.kept = << >>
    BY <1>1, <1>3, <2>1, <2>2
  <2>4. SendEnd(ch) = [ch EXCEPT !.sent = Append(ch.sent, EndStream)]
    BY <1>2, <2>3 DEF SendEnd
  <2> QED BY <1>2, <1>3, <2>3, <2>4 DEF Channels
<1>5. u.output = <<close>>
  <2>1. driver.session \in Sessions /\ driver.session.output = << >>
    BY DriverFields DEF TypeInv, DriverFits
  <2>2. u = Close(driver.session)
    BY DEF Serves, Operated
  <2> DEFINE s == driver.session
  <2> HIDE DEF s
  <2>3. s \in Sessions /\ s.output = << >> /\ u = Close(s)
    BY <2>1, <2>2 DEF s
  <2>4. Close(s).output = Append(s.output, [type |-> "CLOSE_SESSION"])
    BY <2>3 DEF Close, Emit, Sessions
  <2>5. Append(<< >>, close) = <<close>>
    OBVIOUS
  <2> QED BY <2>3, <2>4, <2>5
<1>6. held \in Seq(Capsules) /\ to_client \in Seq(Ways) /\ close \in Capsules
  BY DEF TypeInv, StreamFits, Capsules
<1>7. ch.sent = held \o <<close>>
  <2>1. ch.sent \o << >> = held \o u.output
    BY <1>2, <1>3, <1>4 DEF Passed
  <2>2. ch.sent \o << >> = ch.sent
    BY <1>2
  <2> QED BY <1>5, <2>1, <2>2
<1> HIDE DEF close
<1> DEFINE n == Len(held)
           m == Len(to_client)
<1>8. Len(ch.sent) = n + 1 /\ ch.sent[n + 1] = close /\ n \in Nat /\ m \in Nat
  BY <1>6, <1>7
<1>9. ch2.sent \in Seq(WireItems) /\ Len(ch2.sent) = n + 2 /\ ch2.sent[n + 1] = close
      /\ ch2.sent[n + 2] = EndStream
  <2>1. ch.sent \in Seq(WireItems) /\ EndStream \in WireItems
    BY <1>2, CountCapsules, ItemKinds DEF WireItems
  <2>2. Append(ch.sent, EndStream) \in Seq(WireItems)
    BY <2>1
  <2>3. /\ Len(Append(ch.sent, EndStream)) = Len(ch.sent) + 1
        /\ \A k \in 1 .. Len(ch.sent) : Append(ch.sent, EndStream)[k] = ch.sent[k]
        /\ Append(ch.sent, EndStream)[Len(ch.sent) + 1] = EndStream
    BY <2>1
  <2> HIDE DEF n
  <2>4. n + 1 \in 1 .. Len(ch.sent) /\ Len(ch.sent) + 1 = n + 2
    BY <1>8
  <2> QED BY <1>4, <1>8, <2>2, <2>3, <2>4
<1> DEFINE x == to_client \o ch2.sent
<1>10. x \in Seq(Ways) /\ Len(x) = m + n + 2 /\ x[m + n + 1] = close /\ x[m + n + 2] = EndStream
  <2>1. ch2.sent \in Seq(Ways)
    BY <1>9 DEF Ways
  <2>2. /\ x \in Seq(Ways) /\ Len(x) = m + Len(ch2.sent)
        /\ \A k \in 1 .. m + Len(ch2.sent) : x[k] = IF k <= m THEN to_client[k] ELSE ch2.sent[k - m]
    BY <1>6, <2>1, ConcatProperties
  <2> HIDE DEF x, m, n
  <2>3. /\ m + n + 1 \in 1 .. m + Len(ch2.sent) /\ ~(m + n + 1 <= m) /\ (m + n + 1) - m = n + 1
        /\ m + n + 2 \in 1 .. m + Len(ch2.sent) /\ ~(m + n + 2 <= m) /\ (m + n + 2) - m = n + 2
    BY <1>8, <1>9
  <2>4. x[m + n + 1] = ch2.sent[n + 1] /\ x[m + n + 2] = ch2.sent[n + 2]
    BY <2>2, <2>3
  <2> QED BY <1>8, <1>9, <2>2, <2>4
<1> HIDE DEF x
<1>11. /\ to_client' = x \o <<eof>> /\ Len(to_client') = Len(x) + 1
       /\ \A k \in 1 .. Len(x) : to_client'[k] = x[k]
  <2>1. to_client' = x \o <<eof>>
    BY DEF x
  <2> HIDE DEF eof
  <2>2. <<eof>> \in Seq({eof}) /\ Len(<<eof>>) = 1
    OBVIOUS
  <2>3. /\ Len(x \o <<eof>>) = Len(x) + 1
        /\ \A k \in 1 .. Len(x) : (x \o <<eof>>)[k] = x[k]
    BY <1>10, <2>2
  <2> QED BY <2>1, <2>3
<1> DEFINE i == m + n + 1
           j == m + n + 2
<1>12. /\ to_client'[i] = close /\ to_client'[j] = EndStream /\ i < j
       /\ i \in 1 .. Len(to_client') /\ j \in 1 .. Len(to_client')
  <2> HIDE DEF m, n
  <2>1. i \in 1 .. Len(x) /\ j \in 1 .. Len(x) /\ i < j /\ Len(x) \in Nat
    BY <1>8, <1>10
  <2>2. i \in 1 .. Len(x) + 1 /\ j \in 1 .. Len(x) + 1
    BY <2>1
  <2>3. to_client'[i] = x[i] /\ to_client'[j] = x[j]
    BY <1>11, <2>1
  <2>4. x[i] = close /\ x[j] = EndStream
    BY <1>10
  <2> QED BY <1>11, <2>1, <2>2, <2>3, <2>4
<1>13. DOMAIN to_client' = 1 .. Len(to_client')
  <2>1. to_client' \in Seq(Ways)
    <3>1. eof \in Ways
      BY ItemKinds DEF Ways, WireItems
    <3> HIDE DEF eof
    <3>2. <<eof>> \in Seq(Ways)
      BY <3>1
    <3>3. x \in Seq(Ways)
      BY <1>10
    <3>4. x \o <<eof>> \in Seq(Ways)
      BY <3>2, <3>3, CountJoin
    <3> QED BY <1>11, <3>4
  <2> QED BY <2>1
<1>14. close.type = "CLOSE_SESSION"
  BY DEF close
<1> HIDE DEF i, j
<1> QED BY <1>12, <1>13, <1>14 DEF Underway

(* handle_cmd.                                                             *)
LEMMA CloseHandleCmd ==
  ASSUME TypeInv, CloseInv, HandleCmd
  PROVE  CloseInv'
<1> DEFINE t   == Head(cmds)
           cmd == calls[t].cmd
<1>1. phase = "running" /\ t \in Tasks /\ cmd \in Commands
  BY HandleCmdCases
<1>2. ASSUME calls' = Replied(t, "err") PROVE CloseInv'
  <2>1. NoneClosed(Replied(t, "err"))
    <3> HIDE DEF t
    <3> QED BY <1>1, CloseReplied DEF Answers
  <2> QED BY <1>2, <2>1 DEF NoneClosed, CloseInv
<1>3. ASSUME NEW d, NEW items, DriverEnds(d, items, Replied(t, "err")) PROVE CloseInv'
  <2>1. NoneClosed(Replied(t, "err")) /\ Replied(t, "err") \in [Tasks -> CallRecords]
    <3> HIDE DEF t
    <3> QED BY <1>1, CloseReplied DEF Answers
  <2> HIDE DEF t
  <2> QED BY <1>1, <1>3, <2>1, CloseEnds
<1>4. ASSUME NEW u, NEW d, NEW ch, Serves(cmd, u, d, ch),
             NEW ch2, NEW e, cmd.op = "close", ch2 = IF ch.ok THEN SendEnd(ch) ELSE ch,
             DriverEnds(e, ch2.sent, Replied(t, CloseAnswer(ch2)))
      PROVE  CloseInv'
  <2>1. CloseAnswer(ch2) \in {"ok", "err"}
    BY DEF CloseAnswer
  <2>2. CASE CloseAnswer(ch2) = "ok"
    <3>1. phase' = "ended" /\ to_client' = to_client \o ch2.sent \o <<[type |-> "EOF"]>>
      BY <1>4 DEF DriverEnds
    <3>2. Underway'
      BY <1>1, <1>4, <2>2, <3>1, CloseSent
    <3> QED BY <3>1, <3>2 DEF CloseInv, Delivery
  <2>3. CASE CloseAnswer(ch2) = "err"
    BY <1>3, <1>4, <2>3
  <2> QED BY <2>1, <2>2, <2>3
<1>5. ASSUME cmd.op # "close", calls' = Replied(t, "ok") PROVE CloseInv'
  <2>1. NoneClosed(Replied(t, "ok"))
    <3> HIDE DEF t
    <3> QED BY <1>1, <1>5, CloseReplied DEF Answers
  <2> QED BY <1>5, <2>1 DEF NoneClosed, CloseInv
<1> QED BY <1>2, <1>3, <1>4, <1>5, HandleCmdCases, Zenon

(* The client comes closer to the end, or is there.                        *)
LEMMA ClosedStays ==
  ASSUME NEW s \in Sessions, NEW c \in Capsules, s.state = "Closed" \/ c.type = "CLOSE_SESSION"
  PROVE  Accepted(s, c).state = "Closed"
<1>1. CASE s.state = "Closed"
  BY <1>1 DEF Accepted
<1>2. CASE s.state # "Closed" /\ c.type = "CLOSE_SESSION"
  <2>1. Accepted(s, c) = Notify([s EXCEPT !.state = "Closed"], [type |-> "SessionClosed"])
    BY <1>2 DEF Accepted
  <2> QED BY <2>1 DEF Notify, Sessions
<1> QED BY <1>1, <1>2

LEMMA CloseReceive ==
  ASSUME TypeInv, Delivery, ClientReceive
  PROVE  Delivery'
<1> DEFINE item == Head(to_client)
<1>1. /\ to_client # << >> /\ item = to_client[1] /\ to_client' = Tail(to_client)
      /\ Greets(item) \/ LeavesPeer(item) \/ PeerRefuses(item) \/ \E s : PeerTakes(item, s)
  BY ClientReceiveCases
<1>2. CASE LeavesPeer(item) \/ PeerRefuses(item)
  BY <1>2 DEF LeavesPeer, PeerRefuses, Delivery
<1>3. CASE over /\ Greets(item)
  BY <1>3 DEF Greets, Delivery
<1>4. to_client \in Seq(Ways) /\ Len(to_client) \in Nat /\ 1 \in 1 .. Len(to_client)
  BY <1>1 DEF TypeInv, StreamFits
<1>5. ASSUME NEW s, PeerTakes(item, s), peer.state = "Closed" \/ item.type = "CLOSE_SESSION"
      PROVE  Delivery'
  <2>1. peer \in Sessions /\ item \in Capsules /\ s = Accepted(peer, item)
    BY <1>5 DEF PeerTakes
  <2>2. s.state = "Closed"
    <3> HIDE DEF item
    <3> QED BY <1>5, <2>1, ClosedStays
  <2>3. peer' \in Sessions /\ peer'.state = s.state
    <3> HIDE DEF item
    <3> QED BY <1>5, PeerTakesType
  <2> QED BY <2>2, <2>3, AbsentAssumption DEF Delivery
<1>6. CASE peer # Absent /\ peer.state = "Closed" /\ Greets(item)
  <2>1. item.type # "RESPONSE"
    BY <1>1, <1>4, <1>6, PeerIs
  <2> QED BY <1>6, <2>1 DEF Greets
<1>7. ASSUME Underway, ~LeavesPeer(item), ~PeerRefuses(item)
      PROVE  Delivery'
  <2>1. PICK i, j \in 1 .. Len(to_client) :
          i < j /\ to_client[i].type = "CLOSE_SESSION" /\ to_client[j] = EndStream
    BY <1>4, <1>7 DEF Underway
  <2>2. CASE i = 1
    <3>1. item.type = "CLOSE_SESSION"
      BY <1>1, <2>1, <2>2
    <3>2. ~Greets(item)
      BY <3>1 DEF Greets
    <3> QED BY <1>1, <1>5, <1>7, <3>1, <3>2
  <2>3. CASE i # 1
    <3>1. /\ to_client' \in Seq(Ways) /\ Len(to_client') = Len(to_client) - 1
          /\ \A k \in 1 .. Len(to_client') : to_client'[k] = to_client[k + 1]
      BY <1>1, <1>4
    <3>2. /\ i - 1 \in 1 .. Len(to_client') /\ j - 1 \in 1 .. Len(to_client') /\ i - 1 < j - 1
          /\ (i - 1) + 1 = i /\ (j - 1) + 1 = j
      BY <1>4, <2>1, <2>3, <3>1
    <3>3. to_client'[i - 1] = to_client[i] /\ to_client'[j - 1] = to_client[j]
      BY <3>1, <3>2
    <3>4. DOMAIN to_client' = 1 .. Len(to_client')
      BY <3>1
    <3> QED BY <2>1, <3>2, <3>3, <3>4 DEF Underway, Delivery
  <2> QED BY <2>2, <2>3
<1>8. ASSUME over, NEW s, PeerTakes(item, s) PROVE Delivery'
  BY <1>8 DEF PeerTakes
<1> QED BY <1>1, <1>2, <1>3, <1>5, <1>6, <1>7, <1>8 DEF Delivery

LEMMA CloseStep ==
  ASSUME TypeInv, CloseInv, [Next]_vars
  PROVE  CloseInv'
<1>1. CASE /\ calls' = calls /\ phase \in {"request", "running"}
  <2>1. NoneClosed(calls)
    BY <1>1 DEF CloseInv, NoneClosed
  <2> QED BY <1>1, <2>1 DEF CloseInv, NoneClosed
<1>2. CASE UNCHANGED <<calls, phase, over, peer, to_client>>
  BY <1>2 DEF CloseInv, Delivery, Underway
<1>3. CASE Accept \/ WindowUpdate \/ FinishWrite
  <2>1. calls' = calls /\ phase \in {"request", "running"}
    BY <1>3 DEF Accept, WindowUpdate, FinishWrite, serverVars
  <2> QED BY <1>1, <2>1
<1>4. CASE IntoParts \/ DropParts \/ \E id \in Ids : Recv(id)
  <2>1. UNCHANGED <<calls, phase, over, peer, to_client>>
    BY <1>4 DEF IntoParts, DropParts, Recv, clientVars, streamVars
  <2> QED BY <1>2, <2>1
<1>5. CASE DropSession \/ HandleEnd
  <2>1. phase = "running" /\ DriverEnds(driver, << >>, calls)
    BY <1>5 DEF DropSession, HandleEnd
  <2>2. NoneClosed(calls) /\ calls \in [Tasks -> CallRecords]
    BY <2>1 DEF CloseInv, NoneClosed, TypeInv, CallsFit
  <2> QED BY <2>1, <2>2, CloseEnds
<1>6. CASE HandleCmd
  BY <1>6, CloseHandleCmd
<1>7. CASE HandleData
  <2>1. phase = "running"
    BY <1>7 DEF HandleData
  <2>2. NoneClosed(calls) /\ calls \in [Tasks -> CallRecords]
    BY <2>1 DEF CloseInv, NoneClosed, TypeInv, CallsFit
  <2>3. ASSUME NEW d, NEW items, DriverEnds(d, items, calls) PROVE CloseInv'
    BY <2>1, <2>2, <2>3, CloseEnds
  <2>4. CASE calls' = calls
    BY <1>1, <2>1, <2>4
  <2> QED BY <1>7, <2>3, <2>4, HandleDataCases, Zenon
<1>8. ASSUME NEW t \in Tasks, Call(t) PROVE CloseInv'
  <2>1. UNCHANGED <<phase, over, peer, to_client>> /\ calls \in [Tasks -> CallRecords]
    BY <1>8 DEF Call, clientVars, streamVars, TypeInv, CallsFit
  <2>2. PICK r : calls' = [calls EXCEPT ![t] = r] /\ r.answer # "ok"
    BY <1>8 DEF Call
  <2>3. \A v \in Tasks : calls'[v] = IF v = t THEN r ELSE calls[v]
    BY <2>1, <2>2
  <2> QED BY <2>1, <2>2, <2>3 DEF CloseInv, Delivery, Underway
<1>9. CASE ClientReceive
  <2>1. UNCHANGED <<calls, phase>>
    BY <1>9 DEF ClientReceive, serverVars
  <2>2. Delivery => Delivery'
    BY <1>9, CloseReceive
  <2> QED BY <2>1, <2>2 DEF CloseInv
<1>10. CASE \/ \E b \in BOOLEAN : ClientOpen(b)
            \/ \E id \in Ids, fin \in BOOLEAN : ClientSend(id, fin)
            \/ \E id \in Ids : ClientReset(id) \/ ClientStop(id)
            \/ ClientClose
            \/ \E type \in {"END_STREAM", "RST_STREAM", "EOF"} : ClientLeaves(type)
  <2>1. phase = "running" /\ \E s, items : ClientBecomes(s, items)
    BY <1>10 DEF ClientOpen, ClientSend, ClientReset, ClientStop, ClientClose, ClientLeaves, ClientMay
  <2>2. calls' = calls
    BY <2>1 DEF ClientBecomes, serverVars
  <2> QED BY <1>1, <2>1, <2>2
<1>11. CASE UNCHANGED vars
  BY <1>2, <1>11 DEF vars, clientVars, streamVars, serverVars
<1> QED BY <1>3, <1>4, <1>5, <1>6, <1>7, <1>8, <1>9, <1>10, <1>11 DEF Next

(* close: a task that was told Ok can rely on it.  WT_CLOSE_SESSION and    *)
(* END_STREAM are on the way to the client, or it has seen them, also when *)
(* the window was exhausted and the send buffer in use before.             *)
THEOREM CloseReachesClient == Spec => []CloseDelivered
<1>1. Init => CloseInv
  BY DEF Init, CloseInv
<1>2. TypeInv /\ CloseInv /\ [Next]_vars => CloseInv'
  BY CloseStep
<1>3. CloseInv => CloseDelivered
  BY DEF CloseInv, Delivery, Underway, CloseDelivered
<1> QED BY <1>1, <1>2, <1>3, DriverInvariant, PTL DEF Spec

-----------------------------------------------------------------------------
(* The books of the driver.  Between two parts of a turn they lag behind   *)
(* the session by the events nobody has dispatched yet: Q is the queue of  *)
(* these, C the channels and S the record of stopped streams.              *)
Opens(e, x)  == e.type = "StreamOpened" /\ e.id = x
Closes(e, x) == (e.type = "StreamReset" \/ (e.type = "StreamData" /\ e.fin)) /\ e.id = x
Data(e, x)   == e.type = "StreamData" /\ e.id = x

Opening(Q, x) == \E k \in 1 .. Len(Q) : Opens(Q[k], x)
Closing(Q, x) == \E k \in 1 .. Len(Q) : Closes(Q[k], x)
Waiting(Q, x) == \E k \in 1 .. Len(Q) : Data(Q[k], x)

(* A stream is opened once and ended once, in this order.                  *)
Sorted(Q, x) ==
  \A j, k \in 1 .. Len(Q) : j < k =>
    /\ Opens(Q[k], x) => ~Opens(Q[j], x) /\ ~Closes(Q[j], x)
    /\ Closes(Q[k], x) => ~Closes(Q[j], x)

Stopped(s, x) == Known(s, x) /\ s.streams[x].stop_sending_sent

(* The entry of stream x.                                                  *)
Booked(Q, s, C, S, x) ==
  /\ Sorted(Q, x)
  /\ Opening(Q, x) \/ Closing(Q, x) => Remembered(s, x)
  /\ Closing(Q, x) => ~ReceivesOn(s, x)
  /\ Opening(Q, x) => ReceivesOn(s, x) \/ Closing(Q, x)
  /\ x \in C <=> ~Opening(Q, x) /\ (ReceivesOn(s, x) \/ Closing(Q, x))
  /\ x \in S => x \in C
  /\ ReceivesOn(s, x) => (x \in S <=> Stopped(s, x))

(* One more event, or one less.                                            *)
LEMMA EventAppended ==
  ASSUME NEW Q \in Seq(Events), NEW e \in Events, NEW x
  PROVE  LET P == Append(Q, e)
         IN  /\ Opening(P, x) <=> Opening(Q, x) \/ Opens(e, x)
             /\ Closing(P, x) <=> Closing(Q, x) \/ Closes(e, x)
             /\ Waiting(P, x) <=> Waiting(Q, x) \/ Data(e, x)
             /\ /\ Sorted(Q, x)
                /\ Opens(e, x) => ~Opening(Q, x) /\ ~Closing(Q, x)
                /\ Closes(e, x) => ~Closing(Q, x)
                => Sorted(P, x)
<1> DEFINE P == Append(Q, e)
           n == Len(Q)
<1>1. /\ n \in Nat /\ Len(P) = n + 1 /\ P[n + 1] = e
      /\ \A k \in 1 .. n : P[k] = Q[k]
  OBVIOUS
<1> HIDE DEF P
<1>2. \A k : k \in 1 .. Len(P) <=> k \in 1 .. n \/ k = n + 1
  BY <1>1
<1>3. /\ Opening(P, x) <=> Opening(Q, x) \/ Opens(e, x)
      /\ Closing(P, x) <=> Closing(Q, x) \/ Closes(e, x)
      /\ Waiting(P, x) <=> Waiting(Q, x) \/ Data(e, x)
  BY <1>1, <1>2 DEF Opening, Closing, Waiting
<1>4. ASSUME Sorted(Q, x), Opens(e, x) => ~Opening(Q, x) /\ ~Closing(Q, x),
             Closes(e, x) => ~Closing(Q, x)
      PROVE  Sorted(P, x)
  <2>1. SUFFICES ASSUME NEW j \in 1 .. n + 1, NEW k \in 1 .. n + 1, j < k
                 PROVE  /\ Opens(P[k], x) => ~Opens(P[j], x) /\ ~Closes(P[j], x)
                        /\ Closes(P[k], x) => ~Closes(P[j], x)
    BY <1>1 DEF Sorted
  <2>2. j \in 1 .. n /\ P[j] = Q[j]
    BY <1>1, <2>1
  <2>3. CASE k = n + 1
    BY <1>1, <1>4, <2>2, <2>3 DEF Opening, Closing
  <2>4. CASE k \in 1 .. n
    BY <1>1, <1>4, <2>1, <2>2, <2>4 DEF Sorted
  <2> QED BY <1>1, <2>1, <2>3, <2>4
<1> QED BY <1>3, <1>4 DEF P

LEMMA EventTakenOff ==
  ASSUME NEW Q \in Seq(Events), Q # << >>, NEW x
  PROVE  LET P == Tail(Q)
             e == Head(Q)
         IN  /\ Opening(Q, x) <=> Opening(P, x) \/ Opens(e, x)
             /\ Closing(Q, x) <=> Closing(P, x) \/ Closes(e, x)
             /\ Waiting(Q, x) <=> Waiting(P, x) \/ Data(e, x)
             /\ Sorted(Q, x) =>
                  /\ Sorted(P, x)
                  /\ Opens(e, x) => ~Opening(P, x)
                  /\ Closes(e, x) => ~Opening(P, x) /\ ~Closing(P, x)
<1> DEFINE P == Tail(Q)
           e == Head(Q)
           n == Len(P)
<1>1. /\ n \in Nat /\ Len(Q) = n + 1 /\ Q[1] = e
      /\ \A k \in 1 .. n : P[k] = Q[k + 1]
  OBVIOUS
<1> HIDE DEF P, e
<1>2. \A k \in 1 .. n : k + 1 \in 1 .. Len(Q) /\ 1 < k + 1 /\ 1 \in 1 .. Len(Q)
  BY <1>1
<1>3. \A k \in 1 .. Len(Q) : k = 1 \/ (k - 1 \in 1 .. n /\ P[k - 1] = Q[k])
  BY <1>1
<1>4. /\ Opening(Q, x) <=> Opening(P, x) \/ Opens(e, x)
      /\ Closing(Q, x) <=> Closing(P, x) \/ Closes(e, x)
      /\ Waiting(Q, x) <=> Waiting(P, x) \/ Data(e, x)
  <2>1. 1 \in 1 .. Len(Q)
    BY <1>1
  <2> QED BY <1>1, <1>2, <1>3, <2>1 DEF Opening, Closing, Waiting
<1>5. ASSUME Sorted(Q, x)
      PROVE  /\ Sorted(P, x)
             /\ Opens(e, x) => ~Opening(P, x)
             /\ Closes(e, x) => ~Opening(P, x) /\ ~Closing(P, x)
  <2>1. \A j, k \in 1 .. n : j < k => j + 1 < k + 1
    BY <1>1
  <2>2. Sorted(P, x)
    BY <1>1, <1>2, <1>5, <2>1 DEF Sorted
  <2>3. /\ Opens(e, x) => ~Opening(P, x)
        /\ Closes(e, x) => ~Opening(P, x) /\ ~Closing(P, x)
    BY <1>1, <1>2, <1>5 DEF Sorted, Opening, Closing
  <2> QED BY <2>2, <2>3
<1> QED BY <1>4, <1>5 DEF P, e

(* The streams a capsule brings into being are announced once each.        *)
LEMMA EventsJoined ==
  ASSUME NEW Q \in Seq(Events), NEW s \in Sessions, NEW id \in Ids, NEW x \in Ids
  PROVE  LET P == Q \o MadeEvents(s, id)
         IN  /\ Opening(P, x) <=> Opening(Q, x) \/ x \in MadeIds(s, id)
             /\ Closing(P, x) <=> Closing(Q, x)
             /\ Waiting(P, x) <=> Waiting(Q, x)
             /\ /\ Sorted(Q, x)
                /\ x \in MadeIds(s, id) => ~Opening(Q, x) /\ ~Closing(Q, x)
                => Sorted(P, x)
<1> DEFINE M == MadeEvents(s, id)
           D == MadeIds(s, id)
           P == Q \o M
<1>1. /\ M \in Seq(Events)
      /\ \A k \in 1 .. Len(M) : M[k].type = "StreamOpened" /\ M[k].id \in D
      /\ \A y \in D : \E k \in 1 .. Len(M) : M[k].id = y
      /\ \A k \in 1 .. Len(M) : \A j \in 1 .. k - 1 : M[j].id # M[k].id
  <2>1. CASE CreatesFor(s, id)
    <3> DEFINE L == MissingUpTo(s, id)
    <3>1. M = OpenedEvents(s, id) /\ D = NewIds(s, id)
      BY <2>1 DEF MadeEvents, MadeIds
    <3>2. /\ M \in Seq(Events) /\ DOMAIN M = DOMAIN L
          /\ \A k \in DOMAIN M : M[k].type = "StreamOpened" /\ M[k].id = L[k] /\ M[k].id \in D
      BY <3>1, OpenedEventsType
    <3>3. /\ L \in Seq(Ids) /\ {L[k] : k \in DOMAIN L} = D
          /\ \A k \in DOMAIN L : \A j \in 1 .. k - 1 : L[j] < L[k]
      BY <3>1, MissingFacts
    <3> HIDE DEF M, D, L
    <3>4. DOMAIN M = 1 .. Len(M) /\ DOMAIN L = 1 .. Len(M) /\ Len(M) \in Nat
      <4>1. DOMAIN M = 1 .. Len(M) /\ Len(M) \in Nat
        BY <3>2
      <4> QED BY <3>2, <4>1
    <3>5. \A k \in 1 .. Len(M) : L[k] \in Nat
      <4>1. \A k \in DOMAIN L : L[k] \in Ids
        BY <3>3
      <4> QED BY <3>4, <4>1, IdsAssumption
    <3>6. \A y \in D : \E k \in 1 .. Len(M) : M[k].id = y
      BY <3>2, <3>3, <3>4
    <3>7. ASSUME NEW k \in 1 .. Len(M), NEW j \in 1 .. k - 1
          PROVE  M[j].id # M[k].id
      <4>1. j \in 1 .. Len(M)
        BY <3>4
      <4>2. L[j] < L[k]
        BY <3>3, <3>4
      <4>3. L[j] # L[k]
        BY <3>5, <4>1, <4>2
      <4> QED BY <3>2, <3>4, <4>1, <4>3
    <3> QED BY <3>2, <3>4, <3>6, <3>7
  <2>2. CASE ~CreatesFor(s, id)
    <3>1. M = << >> /\ D = {}
      BY <2>2 DEF MadeEvents, MadeIds
    <3> HIDE DEF M, D
    <3> QED BY <3>1
  <2> QED BY <2>1, <2>2
<1> HIDE DEF M, D
<1> DEFINE n == Len(Q)
<1>2. /\ n \in Nat /\ Len(M) \in Nat /\ Len(P) = n + Len(M)
      /\ \A k \in 1 .. n : P[k] = Q[k]
      /\ \A k \in 1 .. Len(M) : P[n + k] = M[k]
  BY <1>1
<1> HIDE DEF P
<1>3. /\ \A k \in 1 .. n : k \in 1 .. Len(P)
      /\ \A k \in 1 .. Len(M) : n + k \in 1 .. Len(P)
      /\ \A k \in 1 .. Len(P) : k \in 1 .. n \/ (k - n \in 1 .. Len(M) /\ P[k] = M[k - n])
  <2>1. \A k \in 1 .. Len(P) : k \notin 1 .. n => k - n \in 1 .. Len(M) /\ n + (k - n) = k
    BY <1>2
  <2>2. ASSUME NEW k \in 1 .. Len(P), k \notin 1 .. n
        PROVE  k - n \in 1 .. Len(M) /\ P[k] = M[k - n]
    <3>1. k - n \in 1 .. Len(M) /\ n + (k - n) = k
      BY <2>1, <2>2
    <3>2. P[n + (k - n)] = M[k - n]
      BY <1>2, <3>1
    <3> QED BY <3>1, <3>2
  <2>3. /\ \A k \in 1 .. n : k \in 1 .. Len(P)
        /\ \A k \in 1 .. Len(M) : n + k \in 1 .. Len(P)
    BY <1>2
  <2> QED BY <2>2, <2>3
<1>4. \A k \in 1 .. Len(M) : ~Closes(M[k], x) /\ ~Data(M[k], x) /\ (Opens(M[k], x) <=> M[k].id = x)
  BY <1>1 DEF Closes, Data, Opens
<1>5. /\ Closing(P, x) <=> Closing(Q, x)
      /\ Waiting(P, x) <=> Waiting(Q, x)
  BY <1>2, <1>3, <1>4 DEF Closing, Waiting
<1>6. Opening(P, x) <=> Opening(Q, x) \/ x \in D
  <2>1. ASSUME x \in D PROVE Opening(P, x)
    <3>1. PICK k \in 1 .. Len(M) : M[k].id = x
      BY <1>1, <2>1
    <3> QED BY <1>2, <1>3, <1>4, <3>1 DEF Opening
  <2> QED BY <1>1, <1>2, <1>3, <1>4, <2>1 DEF Opening
<1>7. ASSUME Sorted(Q, x), x \in D => ~Opening(Q, x) /\ ~Closing(Q, x)
      PROVE  Sorted(P, x)
  <2>1. SUFFICES ASSUME NEW j \in 1 .. Len(P), NEW k \in 1 .. Len(P), j < k
                 PROVE  /\ Opens(P[k], x) => ~Opens(P[j], x) /\ ~Closes(P[j], x)
                        /\ Closes(P[k], x) => ~Closes(P[j], x)
    BY DEF Sorted
  <2>2. CASE k \in 1 .. n
    <3>1. j \in 1 .. n
      BY <1>2, <2>1, <2>2
    <3> QED BY <1>2, <1>7, <2>1, <2>2, <3>1 DEF Sorted
  <2>3. CASE k \notin 1 .. n
    <3>1. k - n \in 1 .. Len(M) /\ P[k] = M[k - n]
      BY <1>3, <2>1, <2>3
    <3>2. ~Closes(P[k], x)
      BY <1>4, <3>1
    <3>3. ASSUME Opens(P[k], x) PROVE ~Opens(P[j], x) /\ ~Closes(P[j], x)
      <4>1. M[k - n].id = x /\ x \in D
        BY <1>1, <3>1, <3>3 DEF Opens
      <4>2. CASE j \in 1 .. n
        BY <1>2, <1>7, <4>1, <4>2 DEF Opening, Closing
      <4>3. CASE j \notin 1 .. n
        <5>1. j - n \in 1 .. Len(M) /\ P[j] = M[j - n] /\ j - n \in 1 .. (k - n) - 1
          BY <1>2, <1>3, <2>1, <4>3, <3>1
        <5>2. M[j - n].id # x
          BY <1>1, <3>1, <4>1, <5>1
        <5> QED BY <1>4, <5>1, <5>2 DEF Opens
      <4> QED BY <4>2, <4>3
    <3> QED BY <3>2, <3>3
  <2> QED BY <2>2, <2>3
<1> QED BY <1>5, <1>6, <1>7 DEF P, M, D

(* Which streams were stopped.  SameStops holds where streams may have     *)
(* come into being, Retains where none have.                               *)
SameStops(s, t) == \A x : Known(t, x) => (Stopped(t, x) <=> Stopped(s, x))
Retains(s, t)   == \A x : Known(t, x) => Known(s, x) /\ (Stopped(t, x) <=> Stopped(s, x))

LEMMA RetainsTrans ==
  ASSUME NEW s, NEW t, NEW u, Retains(t, u)
  PROVE  /\ SameStops(s, t) => SameStops(s, u)
         /\ Retains(s, t) => Retains(s, u)
BY DEF SameStops, Retains

LEMMA RetainsSame ==
  ASSUME NEW s, NEW t, t.streams = s.streams
  PROVE  Retains(s, t) /\ SameStops(s, t)
BY DEF SameStops, Retains, Known, Stopped

LEMMA StoreRetains ==
  ASSUME NEW s \in Sessions, NEW t, NEW id, Known(s, id), NEW st \in WtStreams,
         t.streams = [s.streams EXCEPT ![id] = st],
         st.stop_sending_sent = s.streams[id].stop_sending_sent
  PROVE  Retains(s, t)
<1>1. DOMAIN t.streams = DOMAIN s.streams
  BY DEF Sessions, Maps
<1>2. \A x \in DOMAIN s.streams : t.streams[x] = IF x = id THEN st ELSE s.streams[x]
  BY DEF Sessions, Maps
<1> QED BY <1>1, <1>2 DEF Retains, Known, Stopped

LEMMA RemoveRetains ==
  ASSUME NEW s \in Sessions, NEW id
  PROVE  Retains(s, RemoveIfClosed(s, id))
<1> DEFINE t == RemoveIfClosed(s, id)
<1>1. t.streams = s.streams \/ t.streams = Without(s.streams, id)
  BY DEF RemoveIfClosed, Sessions
<1> HIDE DEF t
<1>2. \A x \in DOMAIN t.streams : x \in DOMAIN s.streams /\ t.streams[x] = s.streams[x]
  BY <1>1 DEF Without
<1>3. Retains(s, t)
  BY <1>2 DEF Retains, Known, Stopped
<1> QED BY <1>3 DEF t

LEMMA CreateStops ==
  ASSUME NEW s \in Sessions, NEW id \in Ids
  PROVE  SameStops(s, CreatePeerStreamsUpTo(s, id))
<1> DEFINE t == CreatePeerStreamsUpTo(s, id)
<1>1. /\ DOMAIN t.streams = DOMAIN s.streams \cup NewIds(s, id)
      /\ \A i \in NewIds(s, id) : t.streams[i] = FreshStream(s, id)
      /\ \A i \in DOMAIN s.streams : t.streams[i] = s.streams[i]
  BY CreateFacts
<1>2. ~FreshStream(s, id).stop_sending_sent
  BY DEF FreshStream, NewWtStream
<1>3. \A i \in NewIds(s, id) : ~Known(s, i)
  BY DEF NewIds, Remembered
<1> HIDE DEF t
<1>4. SameStops(s, t)
  BY <1>1, <1>2, <1>3 DEF SameStops, Known, Stopped
<1> QED BY <1>4 DEF t

LEMMA ImplicitStops ==
  ASSUME NEW s \in Sessions, NEW id \in Ids
  PROVE  SameStops(s, CreateImplicitly(s, id))
BY CreateStops, RetainsSame DEF CreateImplicitly

LEMMA DataStops ==
  ASSUME NEW s \in Sessions, NEW c \in Capsules, c.type = "STREAM", ~StreamDataRefused(s, c)
  PROVE  SameStops(s, StreamDataAccepted(s, c))
<1> DEFINE t  == WithStream(s, c.id)
           e  == [type |-> "StreamData", id |-> c.id, from |-> c.from, size |-> c.size, fin |-> c.fin]
           st == AfterRecvData(t.streams[c.id], c.size, c.fin)
           u  == StreamDataAccepted(s, c)
<1>1. /\ c.id \in Ids /\ t \in Sessions /\ Known(t, c.id) /\ t.streams[c.id] \in WtStreams
      /\ st \in WtStreams
      /\ u = Notify([t EXCEPT !.streams[c.id] = st, !.flow_control.recv_offset = @ + c.size], e)
  BY StreamDataFacts
<1>2. SameStops(s, t)
  BY <1>1, CreateStops, RetainsSame DEF WithStream
<1>3. st.stop_sending_sent = t.streams[c.id].stop_sending_sent
  BY <1>1 DEF AfterRecvData, WtStreams
<1> HIDE DEF t, st, u
<1>4. u.streams = [t.streams EXCEPT ![c.id] = st]
  BY <1>1 DEF Notify, Sessions
<1>5. Retains(t, u)
  BY <1>1, <1>3, <1>4, StoreRetains
<1>6. SameStops(s, u)
  BY <1>2, <1>5, RetainsTrans
<1> QED BY <1>6 DEF u

LEMMA ResetStops ==
  ASSUME NEW s \in Sessions, NEW c \in Capsules, c.type = "RESET_STREAM", ~ResetStreamRefused(s, c)
  PROVE  SameStops(s, ResetStreamAccepted(s, c))
<1> DEFINE st == AfterRecvReset(s.streams[c.id])
           u  == Notify([s EXCEPT !.streams[c.id] = st], [type |-> "StreamReset", id |-> c.id])
<1>1. /\ Known(s, c.id) /\ s.streams[c.id] \in WtStreams /\ st \in WtStreams /\ u \in Sessions
      /\ ResetStreamAccepted(s, c) = RemoveIfClosed(u, c.id)
  BY ResetStreamFacts
<1>2. st.stop_sending_sent = s.streams[c.id].stop_sending_sent
  BY <1>1 DEF AfterRecvReset, WtStreams
<1>3. u.streams = [s.streams EXCEPT ![c.id] = st]
  BY DEF Notify, Sessions
<1> HIDE DEF st, u
<1>4. Retains(s, u)
  BY <1>1, <1>2, <1>3, StoreRetains
<1>5. Retains(s, RemoveIfClosed(u, c.id))
  BY <1>1, <1>4, RemoveRetains, RetainsTrans
<1> QED BY <1>1, <1>5 DEF SameStops, Retains

LEMMA CreditStops ==
  ASSUME NEW s \in Sessions, NEW c \in Capsules, c.type = "MAX_STREAM_DATA"
  PROVE  SameStops(s, MaxStreamDataAccepted(s, c))
<1> DEFINE t == CreateImplicitly(s, c.id)
           u == MaxStreamDataAccepted(s, c)
<1>1. c.id \in Ids /\ c.maximum \in 0 .. MaxValue
  BY CapsuleFields
<1>2. t \in Sessions /\ SameStops(s, t)
  BY <1>1, CreateImplicitlyType, ImplicitStops
<1>3. \/ u.streams = s.streams
      \/ u = t
      \/ Known(t, c.id) /\ u = [t EXCEPT !.streams[c.id].send_max = c.maximum]
  BY DEF MaxStreamDataAccepted, Sessions
<1> HIDE DEF t, u
<1>4. ASSUME Known(t, c.id), u = [t EXCEPT !.streams[c.id].send_max = c.maximum]
      PROVE  SameStops(s, u)
  <2> DEFINE st == [t.streams[c.id] EXCEPT !.send_max = c.maximum]
  <2>1. t.streams[c.id] \in WtStreams
    BY <1>2, <1>4, KnownStream
  <2>2. st \in WtStreams /\ st.stop_sending_sent = t.streams[c.id].stop_sending_sent
    BY <1>1, <2>1 DEF WtStreams
  <2>3. u.streams = [t.streams EXCEPT ![c.id] = st]
    BY <1>2, <1>4 DEF Sessions
  <2> HIDE DEF st
  <2>4. Known(t, c.id) /\ t \in Sessions
    BY <1>2, <1>4
  <2>5. Retains(t, u)
    BY <2>2, <2>3, <2>4, StoreRetains
  <2> QED BY <1>2, <2>5, RetainsTrans
<1>5. SameStops(s, u)
  BY <1>2, <1>3, <1>4, RetainsSame
<1> QED BY <1>5 DEF u

LEMMA StopStops ==
  ASSUME NEW s \in Sessions, NEW c \in Capsules, c.type = "STOP_SENDING"
  PROVE  SameStops(s, StopSendingAccepted(s, c))
<1> DEFINE id == c.id
           t == CreateImplicitly(s, id)
           v == StopMarked(s, id)
           w == StopAnswer(s, id)
           e == [type |-> "StopSending", id |-> id]
           u == StopSendingAccepted(s, c)
<1>1. /\ id \in Ids /\ v \in Sessions /\ w \in Sessions /\ u = Notify(w, e)
  BY StopSendingFacts
<1>2. t \in Sessions /\ SameStops(s, t)
  BY <1>1, CreateImplicitlyType, ImplicitStops
<1>3. \/ v.streams = t.streams
      \/ Known(t, id) /\ v.streams = [t.streams EXCEPT ![id].stop_sending_received = TRUE]
  BY <1>2 DEF StopMarked, Sessions
<1>4. w = v \/ (CanResetStream(v, id) /\ w = ResetStream(v, id))
  BY DEF StopAnswer
<1> HIDE DEF t, v, w, u, id
<1>5. Retains(t, v)
  <2>1. CASE v.streams = t.streams
    BY <2>1, RetainsSame
  <2>2. CASE Known(t, id) /\ v.streams = [t.streams EXCEPT ![id].stop_sending_received = TRUE]
    <3> DEFINE st == [t.streams[id] EXCEPT !.stop_sending_received = TRUE]
    <3>1. t.streams[id] \in WtStreams
      BY <1>2, <2>2, KnownStream
    <3>2. st \in WtStreams /\ st.stop_sending_sent = t.streams[id].stop_sending_sent
      BY <3>1 DEF WtStreams
    <3>3. v.streams = [t.streams EXCEPT ![id] = st]
      BY <2>2
    <3> HIDE DEF st
    <3> QED BY <1>2, <2>2, <3>2, <3>3, StoreRetains
  <2> QED BY <1>3, <2>1, <2>2
<1>6. Retains(v, w)
  <2>1. CASE w = v
    BY <2>1, RetainsSame
  <2>2. CASE CanResetStream(v, id) /\ w = ResetStream(v, id)
    <3> DEFINE st == AfterSendReset(v.streams[id])
               r  == ResetSent(v, id)
    <3>1. r \in Sessions /\ w = RemoveIfClosed(r, id)
      BY <1>1, <2>2, ResetStreamType
    <3>2. Known(v, id) /\ v.streams[id] \in WtStreams
      BY <1>1, <2>2, KnownStream DEF CanResetStream
    <3>3. st \in WtStreams /\ st.stop_sending_sent = v.streams[id].stop_sending_sent
      BY <3>2 DEF AfterSendReset, WtStreams, SendStates
    <3>4. r.streams = [v.streams EXCEPT ![id] = st]
      BY <1>1 DEF ResetSent, Emit, Sessions
    <3> HIDE DEF st, r
    <3>5. Retains(v, r)
      BY <1>1, <3>2, <3>3, <3>4, StoreRetains
    <3> QED BY <3>1, <3>5, RemoveRetains, RetainsTrans
  <2> QED BY <1>4, <2>1, <2>2
<1>7. u.streams = w.streams
  BY <1>1 DEF Notify, Sessions
<1>8. SameStops(s, v)
  BY <1>2, <1>5, RetainsTrans
<1>9. SameStops(s, w)
  BY <1>8, <1>6, RetainsTrans
<1>10. SameStops(s, u)
  BY <1>9, <1>7, RetainsSame, RetainsTrans
<1> QED BY <1>10 DEF u

(* process stops no stream.                                                *)
LEMMA AcceptedStops ==
  ASSUME NEW s \in Sessions, s.output = << >>, NEW c \in Capsules, ~Refused(s, c)
  PROVE  SameStops(s, Accepted(s, c))
<1>1. CASE s.state = "Closed"
  BY <1>1, RetainsSame DEF Accepted
<1>2. CASE s.state # "Closed" /\ c.type = "STREAM"
  <2>1. ~StreamDataRefused(s, c) /\ Accepted(s, c) = StreamDataAccepted(s, c)
    BY <1>2 DEF Refused, Accepted
  <2> QED BY <1>2, <2>1, DataStops
<1>3. CASE s.state # "Closed" /\ c.type = "RESET_STREAM"
  <2>1. ~ResetStreamRefused(s, c) /\ Accepted(s, c) = ResetStreamAccepted(s, c)
    BY <1>3 DEF Refused, Accepted
  <2> QED BY <1>3, <2>1, ResetStops
<1>4. CASE s.state # "Closed" /\ c.type = "STOP_SENDING"
  <2>1. Accepted(s, c) = StopSendingAccepted(s, c)
    BY <1>4 DEF Accepted
  <2> QED BY <1>4, <2>1, StopStops
<1>5. CASE s.state # "Closed" /\ c.type = "MAX_STREAM_DATA"
  <2>1. Accepted(s, c) = MaxStreamDataAccepted(s, c)
    BY <1>5 DEF Accepted
  <2> QED BY <1>5, <2>1, CreditStops
<1>6. CASE s.state # "Closed" /\ c \in QuietCapsules
  <2>1. SameMaps(s, Accepted(s, c))
    BY <1>6, TakesQuietEffect DEF TakesQuiet
  <2> QED BY <2>1, RetainsSame DEF SameMaps
<1>7. c \in QuietCapsules \/ c.type \in {"STREAM", "RESET_STREAM", "STOP_SENDING", "MAX_STREAM_DATA"}
  BY DEF QuietCapsules
<1> QED BY <1>1, <1>2, <1>3, <1>4, <1>5, <1>6, <1>7

LEMMA PollStops ==
  ASSUME NEW s \in Sessions, s.events # << >>
  PROVE  SameStops(s, PollEvent(s))
<1> DEFINE e == Head(s.events)
           t == [s EXCEPT !.events = Tail(@)]
           p == Polled(s)
           u == PollEvent(s)
<1>1. /\ u \in Sessions /\ t \in Sessions
      /\ e.type = "StreamData" => p \in Sessions
  BY PollEventType
<1>2. IF e.type = "StreamData" /\ e.fin THEN u = RemoveIfClosed(p, e.id) ELSE u = t
  BY Zenon DEF PollEvent, Polled
<1>3. t.streams = s.streams
  BY DEF Sessions
<1>4. IF Known(t, e.id) THEN p = [t EXCEPT !.streams[e.id] = MarkDataRead(t.streams[e.id])] ELSE p = t
  BY DEF Polled
<1> HIDE DEF t, p, u, e
<1>5. Retains(s, t)
  BY <1>3, RetainsSame
<1>6. ASSUME e.type = "StreamData" /\ e.fin
      PROVE  Retains(s, u)
  <2>1. p \in Sessions /\ t \in Sessions /\ u = RemoveIfClosed(p, e.id)
    BY <1>1, <1>2, <1>6
  <2>2. Retains(t, p)
    <3>1. CASE Known(t, e.id)
      <4> DEFINE st == MarkDataRead(t.streams[e.id])
      <4>1. t.streams[e.id] \in WtStreams
        BY <2>1, <3>1, KnownStream
      <4>2. st \in WtStreams /\ st.stop_sending_sent = t.streams[e.id].stop_sending_sent
        BY <4>1 DEF MarkDataRead, WtStreams, RecvStates
      <4>3. p.streams = [t.streams EXCEPT ![e.id] = st]
        BY <1>4, <2>1, <3>1 DEF Sessions
      <4> HIDE DEF st
      <4> QED BY <2>1, <3>1, <4>2, <4>3, StoreRetains
    <3>2. CASE ~Known(t, e.id)
      BY <1>4, <3>2, RetainsSame
    <3> QED BY <3>1, <3>2
  <2>3. Retains(p, u)
    BY <2>1, RemoveRetains
  <2> QED BY <1>5, <2>2, <2>3, RetainsTrans
<1>7. Retains(s, u)
  BY <1>2, <1>5, <1>6
<1> QED BY <1>7 DEF u, SameStops, Retains

(* The credit of stream x: what is received stays within what was given,   *)
(* and at least half of the first credit is there, unless data of it has   *)
(* not been dispatched.                                                    *)
Stocked(Q, s, x) ==
  HasRecvPart(s.role, x) /\ Receiving(s, x) =>
    /\ Received(s, x) <= RecvMaxOf(s, x)
    /\ Granting(s, x) =>
         RecvMaxOf(s, x) - Received(s, x) >= HalfOf(InitialOf(s, x)) \/ Waiting(Q, x)

LEMMA ReceivesView ==
  ASSUME NEW s, NEW x
  PROVE  ReceivesOn(s, x) <=> Remembered(s, x) /\ Receiving(s, x) /\ HasRecvPart(s.role, x)
BY DEF ReceivesOn, Remembered, Receiving, Known

LEMMA AlikeReceives ==
  ASSUME NEW s, NEW t, NEW x, Alike(s, t, x), t.role = s.role, Remembered(t, x) <=> Remembered(s, x)
  PROVE  ReceivesOn(t, x) <=> ReceivesOn(s, x)
BY ReceivesView DEF Alike, RecvAlike

LEMMA StocksKept ==
  ASSUME NEW Q, NEW P, NEW s, NEW t, NEW x, Stocked(Q, s, x), HasRecvPart(s.role, x) => RecvAlike(s, t, x),
         SessionOK(t), Kept(s, t), Waiting(Q, x) => Waiting(P, x)
  PROVE  Stocked(P, t, x)
<1>1. SUFFICES ASSUME HasRecvPart(t.role, x), Receiving(t, x)
               PROVE  /\ Received(t, x) <= RecvMaxOf(t, x)
                      /\ Granting(t, x) =>
                           RecvMaxOf(t, x) - Received(t, x) >= HalfOf(InitialOf(t, x)) \/ Waiting(P, x)
  BY DEF Stocked
<1>2. HasRecvPart(s.role, x) /\ InitialOf(t, x) = InitialOf(s, x)
  BY <1>1 DEF Kept, InitialOf
<1>3. ~Gone(t, x)
  BY <1>1 DEF Receiving, Gone, SessionOK, Known, Remembered
<1>4. /\ Receiving(s, x) /\ Received(t, x) = Received(s, x) /\ RecvMaxOf(t, x) = RecvMaxOf(s, x)
      /\ Granting(t, x) => Granting(s, x)
  BY <1>1, <1>2, <1>3 DEF RecvAlike
<1> QED BY <1>2, <1>4 DEF Stocked

(* The entry and the credit of x do not change.                            *)
LEMMA BookSame ==
  ASSUME NEW Q, NEW s, NEW t, NEW C, NEW S, NEW x, Booked(Q, s, C, S, x),
         Remembered(t, x) <=> Remembered(s, x), ReceivesOn(t, x) <=> ReceivesOn(s, x),
         ReceivesOn(t, x) => (Stopped(t, x) <=> Stopped(s, x))
  PROVE  Booked(Q, t, C, S, x)
BY DEF Booked

(* An event of the session: it is not about the entry, or x ends.          *)
LEMMA BookEvent ==
  ASSUME NEW Q \in Seq(Events), NEW e \in Events, NEW s, NEW t, NEW C, NEW S, NEW x,
         Booked(Q, s, C, S, x), Remembered(t, x) <=> Remembered(s, x),
         \/ /\ ~Opens(e, x) /\ ~Closes(e, x) /\ (ReceivesOn(t, x) <=> ReceivesOn(s, x))
            /\ ReceivesOn(t, x) => (Stopped(t, x) <=> Stopped(s, x))
         \/ Closes(e, x) /\ ReceivesOn(s, x) /\ ~ReceivesOn(t, x)
  PROVE  Booked(Append(Q, e), t, C, S, x)
<1> DEFINE P == Append(Q, e)
<1>1. /\ Opening(P, x) <=> Opening(Q, x) \/ Opens(e, x)
      /\ Closing(P, x) <=> Closing(Q, x) \/ Closes(e, x)
      /\ /\ Sorted(Q, x)
         /\ Opens(e, x) => ~Opening(Q, x) /\ ~Closing(Q, x)
         /\ Closes(e, x) => ~Closing(Q, x)
         => Sorted(P, x)
  BY EventAppended
<1>2. Closes(e, x) => ~Opens(e, x)
  BY DEF Opens, Closes
<1> HIDE DEF P
<1>3. CASE /\ ~Opens(e, x) /\ ~Closes(e, x) /\ (ReceivesOn(t, x) <=> ReceivesOn(s, x))
           /\ ReceivesOn(t, x) => (Stopped(t, x) <=> Stopped(s, x))
  <2>1. Sorted(P, x) /\ (Opening(P, x) <=> Opening(Q, x)) /\ (Closing(P, x) <=> Closing(Q, x))
    BY <1>1, <1>3 DEF Booked
  <2>2. Booked(P, t, C, S, x)
    BY <1>3, <2>1 DEF Booked
  <2> QED BY <2>2 DEF P
<1>4. CASE Closes(e, x) /\ ReceivesOn(s, x) /\ ~ReceivesOn(t, x)
  <2>1. ~Closing(Q, x) /\ Remembered(s, x)
    BY <1>4, ReceivesView DEF Booked
  <2>2. Sorted(P, x) /\ (Opening(P, x) <=> Opening(Q, x)) /\ Closing(P, x)
    BY <1>1, <1>2, <1>4, <2>1 DEF Booked
  <2>3. Booked(P, t, C, S, x)
    BY <1>4, <2>1, <2>2 DEF Booked
  <2> QED BY <2>3 DEF P
<1> QED BY <1>3, <1>4

(* The streams a capsule brings into being.                                *)
LEMMA BookMade ==
  ASSUME NEW s \in Sessions, SessionOK(s), NEW id \in Ids, NEW C, NEW S, NEW x \in Ids,
         NEW Q \in Seq(Events), Booked(Q, s, C, S, x)
  PROVE  LET t == CreatedFor(s, id)
         IN  Booked(Q \o MadeEvents(s, id), t, C, S, x) /\ SameStops(s, t)
<1> DEFINE t == CreatedFor(s, id)
           P == Q \o MadeEvents(s, id)
           D == MadeIds(s, id)
<1>1. MadeFor(s, t, id)
  BY MadeViews
<1>2. SameStops(s, t)
  BY CreateStops, RetainsSame DEF CreatedFor
<1>3. /\ Opening(P, x) <=> Opening(Q, x) \/ x \in D
      /\ Closing(P, x) <=> Closing(Q, x)
      /\ /\ Sorted(Q, x)
         /\ x \in D => ~Opening(Q, x) /\ ~Closing(Q, x)
         => Sorted(P, x)
  BY EventsJoined
<1>4. x \in D => ~Remembered(s, x) /\ IsPeerInitiated(s.role, x)
  <2>1. SUFFICES ASSUME x \in D PROVE ~Remembered(s, x) /\ IsPeerInitiated(s.role, x)
    OBVIOUS
  <2>2. CreatesFor(s, id) /\ x \in NewIds(s, id)
    BY <2>1 DEF MadeIds
  <2>3. x \in Nat /\ id \in Nat /\ x % 4 = id % 4 /\ ~Remembered(s, x)
    BY <2>2, IdsAssumption DEF NewIds
  <2> QED BY <2>2, <2>3, SameType DEF CreatesFor
<1> HIDE DEF t, P, D
<1>5. /\ Alike(s, t, x) /\ t.role = s.role
      /\ Remembered(t, x) <=> Remembered(s, x) \/ x \in D
  BY <1>1 DEF MadeFor, AllAlike, Kept, D
<1>6. ASSUME x \in D PROVE Booked(P, t, C, S, x)
  <2>1. ~ReceivesOn(s, x) /\ Receiving(s, x) /\ HasRecvPart(s.role, x) /\ ~Stopped(s, x)
    BY <1>4, <1>6, ReceivesView DEF Receiving, HasRecvPart, Stopped, Remembered
  <2>2. ReceivesOn(t, x)
    BY <1>5, <1>6, <2>1, ReceivesView DEF Alike, RecvAlike
  <2>3. ~Stopped(t, x)
    BY <1>2, <2>1, <2>2 DEF SameStops, ReceivesOn
  <2>4. Remembered(t, x)
    BY <1>5, <1>6
  <2> QED BY <1>3, <1>4, <1>6, <2>1, <2>2, <2>3, <2>4 DEF Booked
<1>7. ASSUME x \notin D PROVE Booked(P, t, C, S, x)
  <2>1. ReceivesOn(t, x) <=> ReceivesOn(s, x)
    BY <1>5, <1>7, AlikeReceives
  <2>2. ReceivesOn(t, x) => (Stopped(t, x) <=> Stopped(s, x))
    BY <1>2 DEF SameStops, ReceivesOn
  <2> QED BY <1>3, <1>5, <1>7, <2>1, <2>2 DEF Booked
<1> QED BY <1>2, <1>6, <1>7 DEF t, P

(* Between two parts of a turn: the entries and the credits, and the       *)
(* credit of the session.                                                  *)
Audit(s, C, S) ==
  /\ SessionOK(s) /\ s.flow_control.recv_offset <= s.flow_control.recv_max
  /\ \A x \in Ids : Booked(s.events, s, C, S, x) /\ Stocked(s.events, s, x)

(* The receiving direction of x looks the same in v and u, which both come *)
(* from s.                                                                 *)
LEMMA ReceivesAlike ==
  ASSUME NEW s, NEW v, NEW u, NEW x, SameStops(s, v), SameStops(s, u), Kept(s, v), Kept(s, u),
         HasRecvPart(s.role, x) => RecvAlike(s, v, x) /\ RecvAlike(s, u, x),
         Remembered(u, x) <=> Remembered(v, x)
  PROVE  /\ ReceivesOn(u, x) <=> ReceivesOn(v, x)
         /\ ReceivesOn(u, x) => (Stopped(u, x) <=> Stopped(v, x))
<1>1. ReceivesOn(u, x) <=> ReceivesOn(v, x)
  BY ReceivesView DEF RecvAlike, Kept
<1> QED BY <1>1 DEF SameStops, ReceivesOn

(* The receiving direction of x over a capsule that made v of s, then u of *)
(* v with event e.                                                         *)
LEMMA AuditEvent ==
  ASSUME NEW s \in Sessions, SessionOK(s), NEW id \in Ids, NEW C, NEW S, NEW x \in Ids,
         NEW u \in Sessions, SessionOK(u), Kept(s, u), SameStops(s, u),
         Booked(s.events, s, C, S, x), Stocked(s.events, s, x), NEW e \in Events,
         HasRecvPart(s.role, x) => RecvAlike(s, u, x),
         Remembered(u, x) <=> Remembered(s, x) \/ x \in MadeIds(s, id),
         ~Opens(e, x), ~Closes(e, x),
         \/ u.events = Append(s.events \o MadeEvents(s, id), e)
         \/ u.events = s.events \o MadeEvents(s, id)
  PROVE  Booked(u.events, u, C, S, x) /\ Stocked(u.events, u, x)
<1> DEFINE v == CreatedFor(s, id)
           Q == s.events
           P == Q \o MadeEvents(s, id)
<1>1. MadeFor(s, v, id)
  BY MadeViews
<1>2. Q \in Seq(Events) /\ MadeEvents(s, id) \in Seq(Events)
  BY <1>1 DEF MadeFor, Sessions
<1>3. P \in Seq(Events)
  BY <1>2
<1>4. Booked(P, v, C, S, x) /\ SameStops(s, v)
  BY <1>2, BookMade
<1>5. Waiting(P, x) <=> Waiting(Q, x)
  BY <1>2, EventsJoined
<1>6. /\ Kept(s, v) /\ (HasRecvPart(s.role, x) => RecvAlike(s, v, x))
      /\ Remembered(u, x) <=> Remembered(v, x)
  BY <1>1 DEF MadeFor, AllAlike, Alike
<1> HIDE DEF v, P
<1>7. /\ ReceivesOn(u, x) <=> ReceivesOn(v, x)
      /\ ReceivesOn(u, x) => (Stopped(u, x) <=> Stopped(v, x))
  BY <1>4, <1>6, ReceivesAlike
<1>8. Booked(P, u, C, S, x)
  BY <1>4, <1>6, <1>7, BookSame
<1>9. Booked(Append(P, e), u, C, S, x)
  BY <1>3, <1>4, <1>6, <1>7, BookEvent
<1>10. Waiting(Append(P, e), x) <=> Waiting(P, x) \/ Data(e, x)
  BY <1>3, EventAppended
<1>11. Stocked(P, u, x) /\ Stocked(Append(P, e), u, x)
  BY <1>5, <1>10, StocksKept
<1> QED BY <1>8, <1>9, <1>11 DEF P

(* STREAM: the stream of the capsule waits for its event, and has stayed   *)
(* within its credit.                                                      *)
LEMMA DataWithin ==
  ASSUME NEW s \in Sessions, NEW c \in Capsules, c.type = "STREAM", ~StreamDataRefused(s, c)
  PROVE  LET u == StreamDataAccepted(s, c)
         IN  /\ Known(u, c.id) /\ u.streams[c.id].recv_offset <= u.streams[c.id].recv_max
             /\ u.flow_control.recv_offset <= u.flow_control.recv_max
<1> DEFINE t  == WithStream(s, c.id)
           e  == [type |-> "StreamData", id |-> c.id, from |-> c.from, size |-> c.size, fin |-> c.fin]
           r  == t.streams[c.id]
           st == AfterRecvData(r, c.size, c.fin)
           u  == StreamDataAccepted(s, c)
<1>1. /\ t \in Sessions /\ Known(t, c.id) /\ r \in WtStreams /\ c.size \in Nat
      /\ CanRecvDataOf(r, c.size)
      /\ u = Notify([t EXCEPT !.streams[c.id] = st, !.flow_control.recv_offset = @ + c.size], e)
      /\ t.flow_control = s.flow_control
  BY StreamDataFacts
<1>2. CanConsumeRecv(s.flow_control, c.size)
  BY DEF StreamDataRefused
<1> HIDE DEF t, u, e
<1>3. st.recv_offset <= st.recv_max
  BY <1>1 DEF AfterRecvData, CanRecvDataOf, WtStreams
<1> HIDE DEF st
<1>4. u.streams = [t.streams EXCEPT ![c.id] = st]
  BY <1>1 DEF Notify, Sessions
<1>5. u.flow_control = [t.flow_control EXCEPT !.recv_offset = @ + c.size]
  BY <1>1 DEF Notify, Sessions
<1>6. s.flow_control \in WtFlowControls
  BY DEF Sessions
<1>7. u.flow_control.recv_offset <= u.flow_control.recv_max
  BY <1>1, <1>2, <1>5, <1>6 DEF WtFlowControls, CanConsumeRecv
<1>8. Known(u, c.id) /\ u.streams[c.id] = st
  BY <1>1, <1>4 DEF Known
<1> QED BY <1>3, <1>7, <1>8 DEF u

LEMMA AuditData ==
  ASSUME NEW s \in Sessions, SessionOK(s), NEW C, NEW S, NEW c \in Capsules, c.type = "STREAM",
         ~StreamDataRefused(s, c), NEW u, u = StreamDataAccepted(s, c), TakesData(s, u, c),
         SameStops(s, u), Booked(s.events, s, C, S, c.id)
  PROVE  Booked(u.events, u, C, S, c.id) /\ Stocked(u.events, u, c.id)
<1> DEFINE id == c.id
           v  == CreatedFor(s, id)
           Q  == s.events
           P  == Q \o MadeEvents(s, id)
           e  == [type |-> "StreamData", id |-> c.id, from |-> c.from, size |-> c.size, fin |-> c.fin]
<1>1. /\ id \in Ids /\ e \in Events /\ c.fin \in BOOLEAN
  BY StreamDataFacts
<1>2. MadeFor(s, v, id)
  BY <1>1, MadeViews
<1>3. Q \in Seq(Events) /\ MadeEvents(s, id) \in Seq(Events)
  BY <1>2 DEF MadeFor, Sessions
<1>4. P \in Seq(Events)
  BY <1>3
<1>5. Booked(P, v, C, S, id) /\ SameStops(s, v)
  BY <1>1, <1>3, BookMade
<1>6. /\ Kept(s, v) /\ Alike(s, v, id)
      /\ Remembered(u, id) <=> Remembered(v, id)
  BY <1>1, <1>2 DEF MadeFor, AllAlike, TakesData
<1>7. /\ u.events = Append(P, e) /\ Remembered(u, id) /\ HasRecvPart(s.role, id)
      /\ Receiving(s, id) /\ (Receiving(u, id) <=> ~c.fin) /\ Kept(s, u) /\ SessionOK(u)
  BY DEF TakesData
<1>8. Opens(e, id) <=> FALSE
  BY DEF Opens
<1>9. (Closes(e, id) <=> c.fin) /\ Data(e, id)
  BY <1>1 DEF Closes, Data
<1>10. Known(u, id) /\ u.streams[id].recv_offset <= u.streams[id].recv_max
  BY DataWithin
<1> HIDE DEF v, P, e, id
<1>11. ReceivesOn(v, id) /\ (ReceivesOn(u, id) <=> ~c.fin)
  BY <1>6, <1>7, ReceivesView DEF Alike, RecvAlike, Kept
<1>12. ReceivesOn(u, id) => (Stopped(u, id) <=> Stopped(v, id))
  BY <1>5, <1>11 DEF SameStops, ReceivesOn
<1>13. Booked(Append(P, e), u, C, S, id)
  BY <1>1, <1>4, <1>5, <1>6, <1>8, <1>9, <1>11, <1>12, BookEvent
<1>14. Waiting(Append(P, e), id)
  BY <1>1, <1>4, <1>9, EventAppended
<1>15. Received(u, id) <= RecvMaxOf(u, id)
  BY <1>7, <1>10, KnownViews
<1>16. Stocked(u.events, u, id)
  BY <1>7, <1>14, <1>15 DEF Stocked
<1> QED BY <1>7, <1>13, <1>16 DEF id

(* RESET_STREAM.                                                           *)
LEMMA AuditReset ==
  ASSUME NEW s \in Sessions, SessionOK(s), NEW C, NEW S, NEW c, NEW u, TakesReset(s, u, c),
         Booked(s.events, s, C, S, c.id)
  PROVE  Booked(u.events, u, C, S, c.id) /\ Stocked(u.events, u, c.id)
<1> DEFINE id == c.id
           Q  == s.events
           e  == [type |-> "StreamReset", id |-> id]
<1>1. /\ id \in Ids /\ HasRecvPart(s.role, id) /\ Receiving(s, id) /\ ~Receiving(u, id)
      /\ Remembered(u, id) /\ (Remembered(u, id) <=> Remembered(s, id))
      /\ u.events = Append(Q, e) /\ Kept(s, u)
  BY DEF TakesReset, SameRemembered
<1>2. Q \in Seq(Events) /\ e \in Events /\ Closes(e, id)
  BY <1>1 DEF Sessions, Events, Closes
<1> HIDE DEF id, e
<1>3. ReceivesOn(s, id) /\ ~ReceivesOn(u, id)
  BY <1>1, ReceivesView DEF Kept
<1>4. Booked(Append(Q, e), u, C, S, id)
  BY <1>1, <1>2, <1>3, BookEvent DEF id
<1>5. Stocked(u.events, u, id)
  BY <1>1 DEF Stocked
<1> QED BY <1>1, <1>4, <1>5 DEF id

LEMMA AuditOthers ==
  ASSUME NEW s \in Sessions, NEW C, NEW S, Audit(s, C, S), NEW id \in Ids, NEW u \in Sessions,
         SessionOK(u), Kept(s, u), SameStops(s, u), OthersAlike(s, u, id),
         \A x : Remembered(u, x) <=> Remembered(s, x) \/ x \in MadeIds(s, id),
         NEW e \in Events, e.type = "StopSending" \/ (e.type \in {"StreamData", "StreamReset"} /\ e.id = id),
         \/ u.events = Append(s.events \o MadeEvents(s, id), e)
         \/ u.events = s.events \o MadeEvents(s, id),
         NEW x \in Ids, x # id \/ ((HasRecvPart(s.role, id) => RecvAlike(s, u, id)) /\ e.type = "StopSending")
  PROVE  Booked(u.events, u, C, S, x) /\ Stocked(u.events, u, x)
<1>1. ~Opens(e, x) /\ ~Closes(e, x)
  BY DEF Opens, Closes
<1>2. HasRecvPart(s.role, x) => RecvAlike(s, u, x)
  BY DEF OthersAlike, Alike
<1>3. SessionOK(s) /\ Booked(s.events, s, C, S, x) /\ Stocked(s.events, s, x)
  BY DEF Audit
<1>4. Remembered(u, x) <=> Remembered(s, x) \/ x \in MadeIds(s, id)
  OBVIOUS
<1> QED BY <1>1, <1>2, <1>3, <1>4, AuditEvent

LEMMA AuditQuiet ==
  ASSUME NEW s \in Sessions, NEW C, NEW S, Audit(s, C, S), NEW c, NEW u, TakesQuiet(s, u, c)
  PROVE  Audit(u, C, S)
<1>1. /\ u \in Sessions /\ SameMaps(s, u) /\ SessionOK(s) /\ Kept(s, u)
  BY DEF TakesQuiet, Audit, SameMaps
<1>2. AllAlike(s, u) /\ SameRemembered(s, u) /\ SessionOK(u)
  BY <1>1, SameViews
<1>3. SameStops(s, u)
  BY <1>1, RetainsSame DEF SameMaps
<1>4. SameStops(s, s) /\ Kept(s, s)
  BY DEF SameStops, Kept
<1>5. u.flow_control.recv_offset = s.flow_control.recv_offset /\ u.flow_control.recv_max = s.flow_control.recv_max
  <2>1. s.flow_control \in WtFlowControls
    BY DEF Sessions
  <2> QED BY <2>1 DEF TakesQuiet, WtFlowControls
<1>6. ASSUME NEW x \in Ids
      PROVE  Booked(u.events, u, C, S, x) /\ Stocked(u.events, u, x)
  <2>1. Booked(s.events, s, C, S, x) /\ Stocked(s.events, s, x)
    BY DEF Audit
  <2>2. Alike(s, u, x) /\ Alike(s, s, x) /\ (Remembered(u, x) <=> Remembered(s, x))
    BY <1>2, AlikeRefl DEF AllAlike, SameRemembered
  <2>3. /\ ReceivesOn(u, x) <=> ReceivesOn(s, x)
        /\ ReceivesOn(u, x) => (Stopped(u, x) <=> Stopped(s, x))
    BY <1>1, <1>3, <1>4, <2>2, ReceivesAlike DEF Alike
  <2>4. Booked(s.events, u, C, S, x)
    BY <2>1, <2>2, <2>3, BookSame
  <2>5. Stocked(s.events, u, x)
    BY <1>1, <1>2, <2>1, <2>2, StocksKept DEF Alike
  <2>6. ASSUME NEW e \in QuietEvents
        PROVE  /\ Booked(Append(s.events, e), u, C, S, x)
               /\ Stocked(Append(s.events, e), u, x)
    <3>1. e \in Events /\ ~Opens(e, x) /\ ~Closes(e, x) /\ s.events \in Seq(Events)
      BY DEF QuietEvents, Events, Opens, Closes, Sessions
    <3>2. Booked(Append(s.events, e), u, C, S, x)
      BY <2>1, <2>2, <2>3, <3>1, BookEvent
    <3>3. Waiting(s.events, x) => Waiting(Append(s.events, e), x)
      BY <3>1, EventAppended
    <3>4. Stocked(Append(s.events, e), u, x)
      BY <1>1, <1>2, <2>1, <2>2, <3>3, StocksKept DEF Alike
    <3> QED BY <3>2, <3>4
  <2>7. u.events = s.events \/ \E e \in QuietEvents : u.events = Append(s.events, e)
    BY DEF TakesQuiet
  <2> QED BY <2>4, <2>5, <2>6, <2>7
<1> QED BY <1>2, <1>5, <1>6 DEF Audit

(* process.                                                                *)
LEMMA AuditAccepted ==
  ASSUME Few, NEW s \in Sessions, NEW C, NEW S, Audit(s, C, S), s.output = << >>,
         NEW c \in Capsules, ~Refused(s, c)
  PROVE  Audit(Accepted(s, c), C, S)
<1> DEFINE u == Accepted(s, c)
<1>1. SessionOK(s) /\ s.flow_control.recv_offset <= s.flow_control.recv_max
      /\ \A x \in Ids : Booked(s.events, s, C, S, x) /\ Stocked(s.events, s, x)
  BY DEF Audit
<1>2. Takes(s, u, c) /\ SameStops(s, u)
  BY <1>1, TakesEffect, AcceptedStops
<1>3. u \in Sessions /\ SessionOK(u) /\ Kept(s, u)
  BY <1>1, <1>2, TakesOK
<1>4. ASSUME s.state # "Closed", c.type = "STREAM" PROVE ~StreamDataRefused(s, c) /\ u = StreamDataAccepted(s, c)
  BY <1>4 DEF Refused, Accepted
<1> HIDE DEF u
<1>5. ASSUME s.state # "Closed", c.type = "STREAM", TakesData(s, u, c) PROVE Audit(u, C, S)
  <2> DEFINE e == [type |-> "StreamData", id |-> c.id, from |-> c.from, size |-> c.size, fin |-> c.fin]
  <2>1. ~StreamDataRefused(s, c) /\ u = StreamDataAccepted(s, c)
    BY <1>4, <1>5
  <2>2. u.flow_control.recv_offset <= u.flow_control.recv_max
    BY <1>5, <2>1, DataWithin
  <2>3. e \in Events /\ c.id \in Ids /\ e.type = "StreamData" /\ e.id = c.id
    BY <1>5, <2>1, StreamDataFacts
  <2>4. Booked(u.events, u, C, S, c.id) /\ Stocked(u.events, u, c.id)
    BY <1>1, <1>2, <1>5, <2>1, <2>3, AuditData
  <2>5. /\ OthersAlike(s, u, c.id) /\ u.events = Append(s.events \o MadeEvents(s, c.id), e)
        /\ \A x : Remembered(u, x) <=> Remembered(s, x) \/ x \in MadeIds(s, c.id)
    BY <1>5 DEF TakesData
  <2> HIDE DEF e
  <2>6. \A x \in Ids \ {c.id} : Booked(u.events, u, C, S, x) /\ Stocked(u.events, u, x)
    BY <1>2, <1>3, <2>3, <2>5, AuditOthers
  <2> QED BY <1>3, <2>2, <2>4, <2>6 DEF Audit
<1>6. ASSUME c.type = "RESET_STREAM", TakesReset(s, u, c) PROVE Audit(u, C, S)
  <2> DEFINE e == [type |-> "StreamReset", id |-> c.id]
  <2>1. /\ OthersAlike(s, u, c.id) /\ u.events = Append(s.events, e) /\ SameRemembered(s, u)
        /\ Remembered(u, c.id) /\ c.id \in Ids /\ u.flow_control = s.flow_control
    BY <1>6 DEF TakesReset
  <2>2. e \in Events /\ e.type = "StreamReset" /\ e.id = c.id
    BY <2>1 DEF Events
  <2>3. ~CreatesFor(s, c.id)
    BY <2>1 DEF CreatesFor, SameRemembered
  <2>4. s.events \o MadeEvents(s, c.id) = s.events /\ MadeIds(s, c.id) = {}
    BY <2>3 DEF MadeEvents, MadeIds, Sessions
  <2>5. Booked(u.events, u, C, S, c.id) /\ Stocked(u.events, u, c.id)
    BY <1>1, <1>6, <2>1, AuditReset
  <2>6. \A x : Remembered(u, x) <=> Remembered(s, x) \/ x \in MadeIds(s, c.id)
    BY <2>1, <2>4 DEF SameRemembered
  <2> HIDE DEF e
  <2>7. u.events = Append(s.events \o MadeEvents(s, c.id), e)
    BY <2>1, <2>4
  <2>8. \A x \in Ids \ {c.id} : Booked(u.events, u, C, S, x) /\ Stocked(u.events, u, x)
    BY <1>2, <1>3, <2>1, <2>2, <2>6, <2>7, AuditOthers
  <2> QED BY <1>1, <1>3, <2>1, <2>5, <2>8 DEF Audit
<1>7. ASSUME TakesStop(s, u, c) \/ TakesCredit(s, u, c) PROVE Audit(u, C, S)
  <2> DEFINE e == [type |-> "StopSending", id |-> c.id]
  <2>1. /\ OthersAlike(s, u, c.id) /\ c.id \in Ids /\ u.flow_control = s.flow_control
        /\ \A x : Remembered(u, x) <=> Remembered(s, x) \/ x \in MadeIds(s, c.id)
        /\ HasRecvPart(s.role, c.id) => RecvAlike(s, u, c.id)
    BY <1>7 DEF TakesStop, TakesCredit
  <2>2. \/ u.events = Append(s.events \o MadeEvents(s, c.id), e)
        \/ u.events = s.events \o MadeEvents(s, c.id)
    BY <1>7 DEF TakesStop, TakesCredit
  <2>3. e \in Events /\ e.type = "StopSending"
    BY <2>1 DEF Events
  <2> HIDE DEF e
  <2>4. \A x \in Ids : Booked(u.events, u, C, S, x) /\ Stocked(u.events, u, x)
    BY <1>2, <1>3, <2>1, <2>2, <2>3, AuditOthers
  <2> QED BY <1>1, <1>3, <2>1, <2>4 DEF Audit
<1>8. ASSUME TakesQuiet(s, u, c) PROVE Audit(u, C, S)
  BY <1>8, AuditQuiet
<1>9. Audit(u, C, S)
  BY <1>2, <1>5, <1>6, <1>7, <1>8 DEF Takes
<1> QED BY <1>9 DEF u

(* The books do not look at output, state or limits of the session.        *)
LEMMA AuditMaps ==
  ASSUME NEW s, NEW C, NEW S, Audit(s, C, S), NEW u, SameMaps(s, u), u.events = s.events,
         u.flow_control.recv_offset <= u.flow_control.recv_max
  PROVE  Audit(u, C, S)
<1>1. AllAlike(s, u) /\ SameRemembered(s, u) /\ SessionOK(u)
  BY SameViews DEF Audit
<1>2. SameStops(s, u) /\ SameStops(s, s) /\ Kept(s, s) /\ Kept(s, u)
  BY RetainsSame DEF SameMaps, SameStops, Kept
<1>3. ASSUME NEW x \in Ids
      PROVE  Booked(u.events, u, C, S, x) /\ Stocked(u.events, u, x)
  <2>1. Booked(s.events, s, C, S, x) /\ Stocked(s.events, s, x)
    BY DEF Audit
  <2>2. Alike(s, u, x) /\ Alike(s, s, x) /\ (Remembered(u, x) <=> Remembered(s, x))
    BY <1>1, AlikeRefl DEF AllAlike, SameRemembered
  <2>3. /\ ReceivesOn(u, x) <=> ReceivesOn(s, x)
        /\ ReceivesOn(u, x) => (Stopped(u, x) <=> Stopped(s, x))
    BY <1>2, <2>2, ReceivesAlike DEF Alike
  <2>4. Booked(s.events, u, C, S, x)
    BY <2>1, <2>2, <2>3, BookSame
  <2>5. Stocked(s.events, u, x)
    BY <1>1, <1>2, <2>1, <2>2, StocksKept DEF Alike
  <2> QED BY <2>4, <2>5
<1> QED BY <1>1, <1>3 DEF Audit

LEMMA AuditOutput ==
  ASSUME NEW s, NEW C, NEW S, Audit(s, C, S), NEW u, SameButOutput(s, u)
  PROVE  Audit(u, C, S)
<1>1. SameMaps(s, u) /\ u.events = s.events /\ u.flow_control.recv_offset <= u.flow_control.recv_max
  BY DEF SameButOutput, SameMaps, Kept, Audit
<1> QED BY <1>1, AuditMaps

(* The capsules of one DATA frame.                                         *)
LEMMA AuditProcess ==
  ASSUME Few, NEW d \in Drivers, Audit(d.session, d.channels, d.stopping), NEW c \in Capsules,
         NEW e, Processed(d, e, c)
  PROVE  /\ Audit(e.session, e.channels, e.stopping)
         /\ e.channels = d.channels /\ e.stopping = d.stopping /\ e.closed = d.closed
         /\ e.session.role = d.session.role
<1> DEFINE t == d.session
           s == Flushed(t)
           u == Accepted(s, c)
           C == d.channels
           S == d.stopping
<1>1. t \in Sessions
  BY DEF Drivers
<1>2. ~Refused(t, c) /\ e.session = Accepted(t, c) /\ e.channels = C /\ e.stopping = S /\ e.closed = d.closed
  BY DEF Processed, Drivers
<1>3. /\ s \in Sessions /\ s.output = << >> /\ ~Refused(s, c)
      /\ SameButOutput(u, Accepted(t, c))
  BY <1>1, <1>2, HeldAccepted
<1>4. SameButOutput(t, s)
  BY <1>1 DEF SameButOutput, Flushed, Sessions
<1>5. Kept(t, Accepted(t, c))
  BY <1>1, <1>2, AcceptedKeeps
<1> HIDE DEF s, u, t, C, S
<1>6. Audit(s, C, S)
  BY <1>4, AuditOutput DEF t, C, S
<1>7. Audit(u, C, S)
  BY <1>3, <1>6, AuditAccepted DEF u
<1>8. Audit(Accepted(t, c), C, S)
  BY <1>3, <1>7, AuditOutput
<1> QED BY <1>2, <1>5, <1>8 DEF C, S, t, Kept

(* A driver whose books are in order, but for the events to come.          *)
Orderly(d) ==
  /\ d \in Drivers /\ Audit(d.session, d.channels, d.stopping) /\ d.session.role = "server"

LEMMA AuditProcessAll ==
  ASSUME Few, NEW d, Orderly(d), d.ok, NEW cs \in Seq(Capsules), ProcessAll(d, cs).ok
  PROVE  Orderly(ProcessAll(d, cs))
<1> DEFINE N == Len(cs)
<1>0. N \in Nat /\ d \in Drivers
  BY DEF Orderly
<1>1. PICK f : Processes(f, d, cs, N) /\ ProcessAll(d, cs) = f[N]
  BY <1>0, ProcessesLoop
<1> DEFINE S == {n \in Nat : n <= N => Turned(f[n]) /\ (f[n].ok => Orderly(f[n]))}
<1>2. 0 \in S
  <2>1. f[0] = d /\ Turned(d)
    BY <1>0, <1>1, DriverFields DEF Processes
  <2> QED BY <2>1
<1>3. \A n \in Nat : n \in S => n + 1 \in S
  <2> SUFFICES ASSUME NEW n \in Nat, n \in S, n + 1 <= N
               PROVE  Turned(f[n + 1]) /\ (f[n + 1].ok => Orderly(f[n + 1]))
    BY DEF S
  <2>1. Turned(f[n]) /\ (f[n].ok => Orderly(f[n]))
    BY <1>0 DEF S
  <2>2. n + 1 \in 1 .. N /\ (n + 1) - 1 = n
    BY <1>0
  <2>3. f[n + 1] = Process(f[n], cs[n + 1])
    BY <1>1, <2>2 DEF Processes
  <2>4. cs[n + 1] \in Capsules
    BY <2>2
  <2>5. Goes(f[n], f[n + 1]) /\ (f[n + 1].ok => Processed(f[n], f[n + 1], cs[n + 1]))
    BY <2>1, <2>3, <2>4, ProcessType
  <2>6. ASSUME f[n + 1].ok PROVE Orderly(f[n + 1])
    <3>1. Orderly(f[n]) /\ f[n + 1] \in Drivers /\ Processed(f[n], f[n + 1], cs[n + 1])
      BY <2>1, <2>5, <2>6 DEF Goes, Turned
    <3>2. /\ Audit(f[n + 1].session, f[n + 1].channels, f[n + 1].stopping)
          /\ f[n + 1].session.role = f[n].session.role
      BY <2>4, <3>1, AuditProcess DEF Orderly
    <3> QED BY <3>1, <3>2 DEF Orderly
  <2> QED BY <2>5, <2>6 DEF Goes
<1>4. Nat \subseteq S
  <2> HIDE DEF S
  <2> QED BY <1>2, <1>3, SetInduction
<1> QED BY <1>0, <1>1, <1>4 DEF S

-----------------------------------------------------------------------------
(* Dispatching an event brings the entry of its stream up to date.         *)
LEMMA DispatchedBooks ==
  ASSUME NEW d, NEW e, NEW event \in Events, Dispatched(d, e, event), NEW x
  PROVE  /\ x \in e.channels <=> (x \in d.channels \/ Opens(event, x)) /\ ~Closes(event, x)
         /\ x \in e.stopping <=> x \in d.stopping /\ ~Closes(event, x)
<1>1. event.type = "StreamData" => event.fin \in BOOLEAN
  BY DEF Events
<1>2. CASE event.type = "StreamOpened"
  BY <1>2 DEF Dispatched, Opens, Closes
<1>3. CASE event.type = "StreamData"
  <2>1. IF event.fin THEN TakesOut(d, e, event.id) ELSE KeepsIn(d, e)
    BY <1>3 DEF Dispatched
  <2> QED BY <1>1, <1>3, <2>1 DEF Opens, Closes, TakesOut, KeepsIn
<1>4. CASE event.type = "StreamReset"
  BY <1>4 DEF Dispatched, Opens, Closes, TakesOut
<1>5. CASE event.type \notin {"StreamOpened", "StreamData", "StreamReset"}
  BY <1>5 DEF Dispatched, Opens, Closes
<1> QED BY <1>2, <1>3, <1>4, <1>5

LEMMA BookDispatched ==
  ASSUME NEW Q \in Seq(Events), Q # << >>, NEW s, NEW w, NEW C, NEW S, NEW D, NEW T, NEW x,
         Booked(Q, s, C, S, x), Remembered(w, x) <=> Remembered(s, x),
         ReceivesOn(w, x) <=> ReceivesOn(s, x), ReceivesOn(w, x) => (Stopped(w, x) <=> Stopped(s, x)),
         x \in D <=> (x \in C \/ Opens(Head(Q), x)) /\ ~Closes(Head(Q), x),
         x \in T <=> x \in S /\ ~Closes(Head(Q), x)
  PROVE  Booked(Tail(Q), w, D, T, x)
<1> DEFINE P == Tail(Q)
           e == Head(Q)
<1>1. /\ Opening(Q, x) <=> Opening(P, x) \/ Opens(e, x)
      /\ Closing(Q, x) <=> Closing(P, x) \/ Closes(e, x)
      /\ Sorted(Q, x) =>
           /\ Sorted(P, x)
           /\ Opens(e, x) => ~Opening(P, x)
           /\ Closes(e, x) => ~Opening(P, x) /\ ~Closing(P, x)
  BY EventTakenOff
<1>2. ~(Opens(e, x) /\ Closes(e, x))
  BY DEF Opens, Closes
<1>3. /\ x \in D <=> (x \in C \/ Opens(e, x)) /\ ~Closes(e, x)
      /\ x \in T <=> x \in S /\ ~Closes(e, x)
  OBVIOUS
<1> HIDE DEF P, e
<1>4. Booked(P, w, D, T, x)
  BY <1>1, <1>2, <1>3 DEF Booked
<1> QED BY <1>4 DEF P

(* maybe_grow_stream_window, where the credit was not exceeded.            *)
GrowsCredit(t, w, id) ==
  /\ w \in Sessions /\ SessionOK(w) /\ Kept(t, w) /\ w.events = t.events
  /\ w.flow_control = t.flow_control
  /\ SameRemembered(t, w) /\ Retains(t, w)
  /\ \A x : ReceivesOn(w, x) <=> ReceivesOn(t, x)
  /\ \A x \in Ids \ {id} : Alike(t, w, x)
  /\ Received(w, id) = Received(t, id) /\ RecvMaxOf(w, id) >= RecvMaxOf(t, id)
  /\ Known(w, id) /\ CanRecv(w.streams[id]) /\ Received(t, id) <= RecvMaxOf(t, id) =>
       RecvMaxOf(w, id) - Received(w, id) >= HalfOf(InitialOf(w, id))

LEMMA GrownEffect ==
  ASSUME NEW t \in Sessions, SessionOK(t), NEW id \in Ids, NEW w, Grown(t, w, id)
  PROVE  GrowsCredit(t, w, id)
<1>1. InitialOf(t, id) \in Nat
  BY ConfigTypes
<1>2. ASSUME ~NeedsCredit(t, id), w = t PROVE GrowsCredit(t, w, id)
  <2>1. Received(t, id) \in Nat /\ RecvMaxOf(t, id) \in Nat
    <3>1. CASE Known(t, id)
      BY <3>1, KnownStream DEF Received, RecvMaxOf, WtStreams
    <3>2. CASE ~Known(t, id)
      BY <1>1, <3>2 DEF Received, RecvMaxOf, InitialRecvMax, InitialOf
    <3> QED BY <3>1, <3>2
  <2>2. /\ Kept(t, t) /\ SameRemembered(t, t) /\ Retains(t, t) /\ \A x : Alike(t, t, x)
    BY AlikeRefl DEF Kept, SameRemembered, Retains
  <2>3. ASSUME Known(t, id), CanRecv(t.streams[id]), Received(t, id) <= RecvMaxOf(t, id)
        PROVE  RecvMaxOf(t, id) - Received(t, id) >= HalfOf(InitialOf(t, id))
    <3>1. RecvAvailable(t.streams[id]) >= HalfOf(InitialOf(t, id))
      BY <1>2, <2>3 DEF NeedsCredit
    <3>2. Received(t, id) = t.streams[id].recv_offset /\ RecvMaxOf(t, id) = t.streams[id].recv_max
      BY <2>3 DEF Received, RecvMaxOf
    <3>3. HalfOf(InitialOf(t, id)) \in Nat
      BY <1>1 DEF HalfOf
    <3> QED BY <2>1, <2>3, <3>1, <3>2, <3>3 DEF RecvAvailable
  <2> QED BY <1>2, <2>1, <2>2, <2>3 DEF GrowsCredit
<1>3. ASSUME NeedsCredit(t, id), GrownMax(t, id) \in Nat, CanSendMaxStreamData(t, id, GrownMax(t, id)),
             w = SendMaxStreamData(t, id, GrownMax(t, id)), w \in Sessions
      PROVE  GrowsCredit(t, w, id)
  <2> DEFINE m  == GrownMax(t, id)
             r  == t.streams[id]
             st == AfterUpdateRecvMax(r, m)
  <2>1. Known(t, id) /\ r \in WtStreams /\ CanRecv(r) /\ HasRecvPart(t.role, id) /\ m <= MaxValue
        /\ m > r.recv_max
    BY <1>3, KnownStream DEF CanSendMaxStreamData
  <2>2. /\ st \in WtStreams /\ st.recv_max = m /\ st.recv_offset = r.recv_offset /\ CanRecv(st)
        /\ st.stop_sending_sent = r.stop_sending_sent
        /\ st.stop_sending_received = r.stop_sending_received
    BY <1>3, <2>1, MaxValueAssumption DEF AfterUpdateRecvMax, WtStreams, CanRecv
  <2>3. /\ w.streams = [t.streams EXCEPT ![id] = st]
        /\ w.closed_stream_send_max = t.closed_stream_send_max /\ Kept(t, w)
        /\ w.next_stream_id = t.next_stream_id /\ w.flow_control = t.flow_control
        /\ w.stop_sending_received_ids = t.stop_sending_received_ids /\ w.events = t.events
    BY <1>3 DEF SendMaxStreamData, Emit, Sessions, Kept
  <2>4. m = r.recv_max + InitialOf(t, id)
    BY DEF GrownMax
  <2> HIDE DEF st, m
  <2>5. Stores(t, w, id, st)
    BY <1>3, <2>1, <2>2, <2>3 DEF Stores, SessionOK, Kept, Known
  <2>6. Became(t, w, id, st) /\ SessionOK(w)
    BY <2>1, <2>2, <2>5, StoreViews
  <2>7. Retains(t, w)
    BY <2>1, <2>2, <2>3, StoreRetains
  <2>8. Known(w, id) /\ w.streams[id] = st
    BY <2>1, <2>3 DEF Known
  <2>9. SameRemembered(t, w) /\ \A x \in Ids \ {id} : Alike(t, w, x)
    BY <2>6 DEF Became, SameRemembered
  <2>10. \A x : ReceivesOn(w, x) <=> ReceivesOn(t, x)
    <3>1. DOMAIN w.streams = DOMAIN t.streams /\ w.role = t.role
          /\ \A x \in DOMAIN t.streams : x # id => w.streams[x] = t.streams[x]
      BY <2>3 DEF Kept
    <3> QED BY <2>1, <2>2, <2>8, <3>1 DEF ReceivesOn, Known
  <2>11. /\ Received(t, id) = r.recv_offset /\ RecvMaxOf(t, id) = r.recv_max
         /\ Received(w, id) = r.recv_offset /\ RecvMaxOf(w, id) = m
    BY <2>1, <2>2, <2>8 DEF Received, RecvMaxOf
  <2>12. InitialOf(w, id) = InitialOf(t, id)
    BY <2>3 DEF Kept, InitialOf
  <2>13. r.recv_offset \in Nat /\ r.recv_max \in Nat
    BY <2>1 DEF WtStreams
  <2>14. RecvMaxOf(w, id) >= RecvMaxOf(t, id)
    BY <2>1, <2>4, <2>11, <2>13, <1>1
  <2>15. r.recv_offset <= r.recv_max => m - r.recv_offset >= HalfOf(InitialOf(t, id))
    BY <1>1, <2>4, <2>13 DEF HalfOf
  <2> QED BY <1>3, <2>3, <2>6, <2>7, <2>9, <2>10, <2>11, <2>12, <2>14, <2>15 DEF GrowsCredit
<1> QED BY <1>2, <1>3 DEF Grown

(* The session after an event was taken and dispatched: t is the session   *)
(* without the event, w the session with the credit it led to.             *)
LEMMA StockDispatched ==
  ASSUME NEW Q \in Seq(Events), Q # << >>, NEW t \in Sessions, SessionOK(t), NEW w,
         NEW id \in Ids, Data(Head(Q), id), Stocked(Q, t, id), GrowsCredit(t, w, id)
  PROVE  Stocked(Tail(Q), w, id)
<1>1. SUFFICES ASSUME HasRecvPart(w.role, id), Receiving(w, id)
               PROVE  /\ Received(w, id) <= RecvMaxOf(w, id)
                      /\ RecvMaxOf(w, id) - Received(w, id) >= HalfOf(InitialOf(w, id))
  BY DEF Stocked
<1>2. /\ w \in Sessions /\ SessionOK(w) /\ Kept(t, w) /\ SameRemembered(t, w)
      /\ Received(w, id) = Received(t, id) /\ RecvMaxOf(w, id) >= RecvMaxOf(t, id)
      /\ ReceivesOn(w, id) <=> ReceivesOn(t, id)
      /\ Known(w, id) /\ CanRecv(w.streams[id]) /\ Received(t, id) <= RecvMaxOf(t, id) =>
           RecvMaxOf(w, id) - Received(w, id) >= HalfOf(InitialOf(w, id))
  BY DEF GrowsCredit
<1>3. InitialOf(w, id) \in Nat /\ HalfOf(InitialOf(w, id)) <= InitialOf(w, id)
      /\ HalfOf(InitialOf(w, id)) \in Nat
  BY <1>2, ConfigTypes DEF HalfOf
<1>4. CASE Known(w, id)
  <2>1. CanRecv(w.streams[id]) /\ ReceivesOn(w, id)
    BY <1>1, <1>4 DEF Receiving, Remembered, ReceivesOn
  <2>2. HasRecvPart(t.role, id) /\ Receiving(t, id)
    BY <1>2, <2>1, ReceivesView
  <2>3. Received(t, id) <= RecvMaxOf(t, id)
    BY <2>2 DEF Stocked
  <2>4. Known(t, id)
    BY <1>2, <2>1 DEF ReceivesOn
  <2>5. /\ Received(t, id) \in Int /\ RecvMaxOf(t, id) \in Int /\ RecvMaxOf(w, id) \in Int
    BY <1>2, <1>4, <2>4, KnownStream DEF Received, RecvMaxOf, WtStreams
  <2> QED BY <1>2, <1>4, <2>1, <2>3, <2>5
<1>5. CASE ~Known(w, id)
  <2>1. Received(w, id) = 0 /\ RecvMaxOf(w, id) = InitialOf(w, id)
    BY <1>5 DEF Received, RecvMaxOf, InitialRecvMax, InitialOf
  <2> QED BY <1>3, <2>1
<1> QED BY <1>4, <1>5

LEMMA AuditDispatchNext ==
  ASSUME Few, NEW d, Orderly(d), d.ok, d.session.events # << >>, NEW e, e = DispatchNext(d), e.ok
  PROVE  Orderly(e)
<1> DEFINE s == d.session
           Q == s.events
           v == Head(Q)
           t == PollEvent(s)
           w == e.session
           C == d.channels
           S == d.stopping
           k == Taken(d)
<1>1. d \in Drivers /\ s \in Sessions /\ SessionOK(s) /\ s.role = "server" /\ Q \in Seq(Events)
      /\ s.flow_control.recv_offset <= s.flow_control.recv_max
      /\ \A x \in Ids : Booked(Q, s, C, S, x) /\ Stocked(Q, s, x)
  BY DEF Orderly, Audit, Drivers, Sessions
<1>2. /\ Dispatched(k, e, v) /\ e.session.events = Tail(Q) /\ Goes(d, e)
  BY <1>1, DispatchNextType
<1>3. e \in Drivers
  BY <1>2 DEF Goes, Turned
<1>4. /\ k.session = t /\ k.channels = C /\ k.stopping = S /\ v \in Events
  BY <1>1, TakenType
<1>5. /\ t \in Sessions /\ SessionOK(t) /\ Kept(s, t)
      /\ AllAlike(s, t) /\ SameRemembered(s, t) /\ t.events = Tail(Q)
      /\ t.flow_control = s.flow_control
  BY <1>1, PollEffect
<1>6. SameStops(s, t)
  BY <1>1, PollStops
<1>7. \A x : /\ x \in e.channels <=> (x \in C \/ Opens(v, x)) /\ ~Closes(v, x)
             /\ x \in e.stopping <=> x \in S /\ ~Closes(v, x)
  BY <1>2, <1>4, DispatchedBooks
<1> HIDE DEF t, v, Q, s, C, S, k, w
(* What became of the session.                                             *)
<1>8. \/ w = t /\ (v.type = "StreamData" => v.id \in S)
      \/ v.type = "StreamData" /\ Grown(t, w, v.id)
  BY <1>2, <1>4 DEF Dispatched, w
<1>9. v.type = "StreamData" => v.id \in Ids
  BY <1>4 DEF Events
<1>10. \/ w = t /\ (v.type = "StreamData" => v.id \in S)
       \/ v.type = "StreamData" /\ GrowsCredit(t, w, v.id)
  BY <1>5, <1>8, <1>9, GrownEffect
<1>11. /\ w \in Sessions /\ SessionOK(w) /\ Kept(t, w) /\ SameRemembered(t, w) /\ SameStops(t, w)
       /\ w.flow_control = t.flow_control /\ \A x : ReceivesOn(w, x) <=> ReceivesOn(t, x)
  BY <1>5, <1>10 DEF GrowsCredit, Kept, SameRemembered, SameStops, Retains
<1>12. ASSUME NEW x \in Ids PROVE Booked(Tail(Q), w, e.channels, e.stopping, x)
  <2>1. Alike(s, t, x) /\ t.role = s.role /\ (Remembered(t, x) <=> Remembered(s, x))
    BY <1>5 DEF AllAlike, SameRemembered, Kept
  <2>2. ReceivesOn(t, x) <=> ReceivesOn(s, x)
    BY <2>1, AlikeReceives
  <2>3. Remembered(w, x) <=> Remembered(s, x)
    BY <1>11, <2>1 DEF SameRemembered
  <2>4. ReceivesOn(w, x) <=> ReceivesOn(s, x)
    BY <1>11, <2>2
  <2>5. ReceivesOn(w, x) => (Stopped(w, x) <=> Stopped(s, x))
    BY <1>6, <1>11 DEF SameStops, ReceivesOn
  <2>6. /\ x \in e.channels <=> (x \in C \/ Opens(Head(Q), x)) /\ ~Closes(Head(Q), x)
        /\ x \in e.stopping <=> x \in S /\ ~Closes(Head(Q), x)
    BY <1>7 DEF v
  <2>7. Booked(Q, s, C, S, x) /\ Q # << >>
    BY <1>1 DEF Q, s
  <2> QED BY <1>1, <2>3, <2>4, <2>5, <2>6, <2>7, BookDispatched
<1>13. ASSUME NEW x \in Ids PROVE Stocked(Tail(Q), w, x)
  <2>1. Alike(s, t, x) /\ Stocked(Q, s, x) /\ Booked(Q, s, C, S, x) /\ Q # << >>
    BY <1>1, <1>5 DEF AllAlike, Q, s
  <2>2. Stocked(Q, t, x)
    BY <1>5, <2>1, StocksKept DEF Alike
  <2>3. Waiting(Q, x) <=> Waiting(Tail(Q), x) \/ Data(v, x)
    BY <1>1, <2>1, EventTakenOff DEF v
  <2>4. CASE ~Data(v, x)
    <3>1. Alike(t, w, x)
      BY <1>9, <1>10, <2>4, AlikeRefl DEF GrowsCredit, Data
    <3> QED BY <1>11, <2>2, <2>3, <2>4, <3>1, StocksKept DEF Alike
  <2>5. ASSUME Data(v, x), GrowsCredit(t, w, x) PROVE Stocked(Tail(Q), w, x)
    BY <1>1, <1>5, <2>1, <2>2, <2>5, StockDispatched DEF v
  <2>6. ASSUME Data(v, x), w = t, x \in S PROVE Stocked(Tail(Q), w, x)
    <3>1. SUFFICES ASSUME HasRecvPart(t.role, x), Receiving(t, x)
                   PROVE  Received(t, x) <= RecvMaxOf(t, x) /\ ~Granting(t, x)
      BY <2>6 DEF Stocked
    <3>2. Received(t, x) <= RecvMaxOf(t, x)
      BY <2>2, <3>1 DEF Stocked
    <3>3. Remembered(s, x)
      BY <2>1, <2>6, ReceivesView DEF Booked
    <3>4. Remembered(t, x) /\ ReceivesOn(t, x) /\ ReceivesOn(s, x)
      BY <1>5, <2>1, <3>1, <3>3, ReceivesView, AlikeReceives DEF SameRemembered, Kept
    <3>5. Stopped(t, x)
      BY <1>6, <2>1, <2>6, <3>4 DEF Booked, SameStops, ReceivesOn
    <3> QED BY <3>2, <3>4, <3>5 DEF Granting, Stopped
  <2> QED BY <1>10, <2>4, <2>5, <2>6 DEF Data
<1>14. w.events = Tail(Q)
  BY <1>2 DEF w
<1>15. w.flow_control.recv_offset <= w.flow_control.recv_max
  BY <1>1, <1>5, <1>11
<1>16. Audit(w, e.channels, e.stopping)
  BY <1>11, <1>12, <1>13, <1>14, <1>15 DEF Audit
<1>17. w.role = "server"
  BY <1>1, <1>5, <1>11 DEF Kept
<1> QED BY <1>3, <1>16, <1>17 DEF Orderly, w

LEMMA AuditDispatchAll ==
  ASSUME Few, NEW d, Orderly(d), d.ok, DispatchAll(d).ok
  PROVE  Orderly(DispatchAll(d)) /\ DispatchAll(d).session.events = << >>
<1> DEFINE N == Len(d.session.events)
<1>0. d \in Drivers /\ d.session.events \in Seq(Events) /\ N \in Nat
  BY DriverFields DEF Orderly, Sessions
<1>1. PICK f : Dispatches(f, d, N) /\ DispatchAll(d) = f[N]
  BY <1>0, DispatchesLoop
<1> DEFINE Good(n) == /\ Turned(f[n])
                      /\ f[n].ok => Orderly(f[n]) /\ Len(f[n].session.events) = N - n
           S == {n \in Nat : n <= N => Good(n)}
<1> HIDE DEF N
<1>2. 0 \in S
  <2>1. f[0] = d /\ Turned(d)
    BY <1>0, <1>1, DriverFields DEF Dispatches
  <2> QED BY <1>0, <2>1 DEF N
<1>3. \A n \in Nat : n \in S => n + 1 \in S
  <2> SUFFICES ASSUME NEW n \in Nat, n \in S, n + 1 <= N PROVE Good(n + 1)
    BY DEF S
  <2>1. Good(n)
    BY <1>0 DEF S
  <2>2. n + 1 \in 1 .. N /\ (n + 1) - 1 = n
    BY <1>0
  <2>3. f[n + 1] = DispatchNext(f[n])
    BY <1>1, <2>2 DEF Dispatches
  <2>4. CASE ~f[n].ok
    BY <2>1, <2>3, <2>4, DispatchNextFailed
  <2>5. CASE f[n].ok
    <3>1. f[n] \in Drivers /\ Orderly(f[n])
      BY <2>1, <2>5 DEF Turned
    <3>2. f[n].session.events \in Seq(Events) /\ f[n].session.events # << >>
      <4>1. f[n].session.events \in Seq(Events)
        BY <3>1, DriverFields DEF Sessions
      <4>2. Len(f[n].session.events) # 0
        BY <1>0, <2>1, <2>2, <2>5
      <4> QED BY <4>1, <4>2
    <3>3. /\ Goes(f[n], f[n + 1])
          /\ f[n + 1].ok => Len(f[n + 1].session.events) = Len(f[n].session.events) - 1
      BY <2>3, <2>5, <3>1, <3>2, DispatchNextType
    <3>4. f[n + 1].ok => Orderly(f[n + 1])
      BY <2>3, <2>5, <3>1, <3>2, AuditDispatchNext
    <3>5. Turned(f[n + 1])
      BY <3>3 DEF Goes
    <3>6. Len(f[n].session.events) = N - n
      BY <2>1, <2>5
    <3>7. f[n + 1].ok => Len(f[n + 1].session.events) = N - (n + 1)
      BY <1>0, <3>3, <3>6
    <3> QED BY <3>4, <3>5, <3>7
  <2> QED BY <2>4, <2>5
<1>4. Nat \subseteq S
  <2> HIDE DEF S
  <2> QED BY <1>2, <1>3, SetInduction
<1>5. Good(N)
  BY <1>0, <1>4 DEF S
<1>6. Orderly(f[N])
  BY <1>1, <1>5
<1>7. DispatchAll(d).session.events = << >>
  BY <1>0, DispatchAllType
<1> QED BY <1>1, <1>6, <1>7

-----------------------------------------------------------------------------
(* The credit given at the end of a turn.                                  *)
Credited(s) == SessionRecvAvailable(s.flow_control) >= HalfOf(s.config.max_data)

LEMMA SessionGrowth ==
  ASSUME NEW d \in Drivers, Orderly(d), NEW e \in Drivers, GrowsSession(d, e)
  PROVE  Orderly(e) /\ Credited(e.session) /\ e.session.events = d.session.events
<1> DEFINE s  == d.session
           n  == s.config.max_data
           m  == SessionMax(s)
           fc == s.flow_control
<1>1. s \in Sessions /\ fc \in WtFlowControls /\ n \in Nat /\ HalfOf(n) \in Nat /\ HalfOf(n) <= n
  <2>1. s \in Sessions
    BY DEF Drivers
  <2>2. n \in Nat
    BY <2>1, ConfigTypes
  <2> QED BY <2>1, <2>2 DEF Sessions, HalfOf
<1>2. fc.recv_offset \in Nat /\ fc.recv_max \in Nat
  BY <1>1 DEF WtFlowControls
<1>3. fc.recv_offset <= fc.recv_max /\ Audit(s, d.channels, d.stopping) /\ s.role = "server"
  BY DEF Orderly, Audit
<1>4. m = fc.recv_max + n
  BY DEF SessionMax
<1>5. \/ ~ShouldSendMaxData(fc, n) /\ e = d
      \/ /\ CanSendMaxData(s, m) /\ m \in Nat
         /\ e = [d EXCEPT !.session = SendMaxData(s, m)]
  BY DEF GrowsSession
<1> HIDE DEF s, n, m, fc
<1>6. ASSUME ~ShouldSendMaxData(fc, n), e = d
      PROVE  Orderly(e) /\ Credited(e.session) /\ e.session.events = d.session.events
  <2>1. SessionRecvAvailable(fc) >= HalfOf(n)
    BY <1>1, <1>2, <1>6 DEF ShouldSendMaxData, SessionRecvAvailable
  <2>2. Credited(s)
    BY <2>1 DEF Credited, fc, n
  <2> QED BY <1>6, <2>2 DEF s
<1>7. ASSUME CanSendMaxData(s, m), m \in Nat, e = [d EXCEPT !.session = SendMaxData(s, m)]
      PROVE  Orderly(e) /\ Credited(e.session) /\ e.session.events = d.session.events
  <2> DEFINE u == SendMaxData(s, m)
  <2>1. e.session = u /\ e.channels = d.channels /\ e.stopping = d.stopping
    BY <1>7 DEF Drivers
  <2>2. /\ u.streams = s.streams /\ u.closed_stream_send_max = s.closed_stream_send_max
        /\ u.stop_sending_received_ids = s.stop_sending_received_ids
        /\ u.next_stream_id = s.next_stream_id /\ Kept(s, u) /\ u.events = s.events
        /\ u.flow_control = [fc EXCEPT !.recv_max = m]
    BY <1>1 DEF SendMaxData, Emit, Sessions, Kept, fc
  <2>3. /\ u.flow_control.recv_max = m /\ u.flow_control.recv_offset = fc.recv_offset
        /\ u.flow_control.opened_streams = fc.opened_streams
    BY <1>1, <2>2 DEF WtFlowControls
  <2> HIDE DEF u
  <2>4. SameMaps(s, u)
    BY <2>2, <2>3 DEF SameMaps, fc
  <2>5. u.flow_control.recv_offset <= u.flow_control.recv_max
    BY <1>1, <1>2, <1>3, <1>4, <2>3
  <2>6. Audit(u, d.channels, d.stopping)
    BY <1>3, <2>2, <2>4, <2>5, AuditMaps
  <2>7. SessionRecvAvailable(u.flow_control) >= HalfOf(n)
    BY <1>1, <1>2, <1>3, <1>4, <2>3 DEF SessionRecvAvailable
  <2>8. Credited(u) /\ u.role = "server"
    BY <1>3, <2>2, <2>7 DEF Credited, Kept, n
  <2> QED BY <2>1, <2>2, <2>6, <2>8 DEF Orderly, s
<1> QED BY <1>5, <1>6, <1>7

LEMMA StreamsGrowth ==
  ASSUME NEW d \in Drivers, Orderly(d), NEW e \in Drivers, NEW b \in BOOLEAN, GrowsStreams(d, e, b)
  PROVE  /\ Orderly(e) /\ FewClosed(e, b) /\ e.session.events = d.session.events
         /\ Credited(d.session) => Credited(e.session)
         /\ \A a \in BOOLEAN \ {b} : FewClosed(d, a) => FewClosed(e, a)
<1> DEFINE s  == d.session
           m  == StreamsMax(d, b)
           fc == s.flow_control
<1>1. s \in Sessions /\ fc \in WtFlowControls /\ s.config.max_streams[b] \in Nat
      /\ d.closed \in [BOOLEAN -> Nat]
  <2>1. s \in Sessions /\ d.closed \in [BOOLEAN -> Nat]
    BY DEF Drivers
  <2> QED BY <2>1, ConfigTypes DEF Sessions
<1>2. fc.recv_offset <= fc.recv_max /\ Audit(s, d.channels, d.stopping) /\ s.role = "server"
  BY DEF Orderly, Audit
<1>3. \/ FewClosed(d, b) /\ e = d
      \/ /\ ~FewClosed(d, b)
         /\ e = [d EXCEPT !.session = SendMaxStreams(s, m, b), !.closed[b] = 0]
  BY DEF GrowsStreams
<1> HIDE DEF m, fc
<1>4. ASSUME ~FewClosed(d, b), e = [d EXCEPT !.session = SendMaxStreams(s, m, b), !.closed[b] = 0]
      PROVE  /\ Orderly(e) /\ FewClosed(e, b) /\ e.session.events = d.session.events
             /\ Credited(d.session) => Credited(e.session)
             /\ \A a \in BOOLEAN \ {b} : FewClosed(d, a) => FewClosed(e, a)
  <2> DEFINE u == SendMaxStreams(s, m, b)
  <2>1. e.session = u /\ e.channels = d.channels /\ e.stopping = d.stopping
    BY <1>4 DEF Drivers
  <2>2. e.closed = [d.closed EXCEPT ![b] = 0]
    BY <1>4 DEF Drivers
  <2>3. /\ u.streams = s.streams /\ u.closed_stream_send_max = s.closed_stream_send_max
        /\ u.stop_sending_received_ids = s.stop_sending_received_ids
        /\ u.next_stream_id = s.next_stream_id /\ Kept(s, u) /\ u.events = s.events
        /\ u.flow_control = [fc EXCEPT !.max_streams_local[b] = m]
    BY <1>1 DEF SendMaxStreams, Emit, Sessions, Kept, fc
  <2>4. /\ u.flow_control.recv_max = fc.recv_max /\ u.flow_control.recv_offset = fc.recv_offset
        /\ u.flow_control.opened_streams = fc.opened_streams
    BY <1>1, <2>3 DEF WtFlowControls
  <2> HIDE DEF u
  <2>5. SameMaps(s, u)
    BY <2>3, <2>4 DEF SameMaps, fc
  <2>6. Audit(u, d.channels, d.stopping)
    BY <1>2, <2>3, <2>4, <2>5, AuditMaps
  <2>7. (Credited(s) => Credited(u)) /\ u.role = "server"
    BY <1>2, <2>3, <2>4 DEF Credited, Kept, SessionRecvAvailable, fc
  <2>8. e.closed[b] = 0 /\ \A a \in BOOLEAN \ {b} : e.closed[a] = d.closed[a]
    BY <1>1, <2>2
  <2>9. e.session.config = d.session.config
    BY <2>1, <2>3 DEF Kept
  <2>10. d.session.config.max_streams[b] # 0
    BY <1>4 DEF FewClosed
  <2>11. FewClosed(e, b)
    BY <1>1, <2>8, <2>9, <2>10 DEF FewClosed
  <2>12. \A a \in BOOLEAN \ {b} : FewClosed(d, a) => FewClosed(e, a)
    BY <2>8, <2>9 DEF FewClosed
  <2> QED BY <2>1, <2>3, <2>6, <2>7, <2>11, <2>12 DEF Orderly
<1> QED BY <1>3, <1>4

(* At the end of a turn the books are in order and the peer has credit.    *)
Settled(d) ==
  /\ Orderly(d) /\ d.session.events = << >> /\ Credited(d.session)
  /\ \A b \in BOOLEAN : FewClosed(d, b)

LEMMA AuditGrowth ==
  ASSUME NEW d \in Drivers, Orderly(d), d.session.events = << >>, NEW e \in Drivers, GrowsAll(d, e)
  PROVE  Settled(e)
<1>1. PICK d1, d2 : /\ d1 \in Drivers /\ d2 \in Drivers
                    /\ GrowsSession(d, d1) /\ GrowsStreams(d1, d2, TRUE) /\ GrowsStreams(d2, e, FALSE)
  BY DEF GrowsAll
<1>2. Orderly(d1) /\ Credited(d1.session) /\ d1.session.events = << >>
  BY <1>1, SessionGrowth
<1>3. Orderly(d2) /\ Credited(d2.session) /\ d2.session.events = << >> /\ FewClosed(d2, TRUE)
  BY <1>1, <1>2, StreamsGrowth
<1>4. Orderly(e) /\ Credited(e.session) /\ e.session.events = << >> /\ FewClosed(e, FALSE)
      /\ FewClosed(e, TRUE)
  BY <1>1, <1>3, StreamsGrowth
<1> QED BY <1>4 DEF Settled

LEMMA SettledFlushed ==
  ASSUME NEW d, Settled(d), NEW e, e = [d EXCEPT !.session.output = << >>]
  PROVE  Settled(e)
<1> DEFINE s == d.session
           u == Flushed(s)
<1>1. d \in Drivers /\ s \in Sessions /\ Audit(s, d.channels, d.stopping) /\ s.role = "server"
  BY DEF Settled, Orderly, Drivers
<1>2. u \in Sessions /\ SameButOutput(s, u)
  <2>1. u \in Sessions
    BY <1>1, FlushedType
  <2>2. SameButOutput(s, u)
    BY <1>1 DEF SameButOutput, Flushed, Sessions
  <2> QED BY <2>1, <2>2
<1>3. e = [d EXCEPT !.session = u]
  BY <1>1 DEF Drivers, Flushed
<1> HIDE DEF u
<1>4. /\ e \in Drivers /\ e.session = u /\ e.channels = d.channels /\ e.stopping = d.stopping
      /\ e.closed = d.closed
  BY <1>1, <1>2, <1>3 DEF Drivers
<1>5. Audit(u, d.channels, d.stopping)
  BY <1>1, <1>2, AuditOutput
<1> QED BY <1>1, <1>2, <1>4, <1>5 DEF Settled, Orderly, SameButOutput, Credited, FewClosed

-----------------------------------------------------------------------------
(* Commands are taken when no event is left.                               *)
LEMMA EntryAtRest ==
  ASSUME NEW s, NEW C, NEW S, NEW x
  PROVE  Booked(<< >>, s, C, S, x) <=> /\ x \in C <=> ReceivesOn(s, x)
                                       /\ x \in S <=> ReceivesOn(s, x) /\ Stopped(s, x)
<1>1. ~Opening(<< >>, x) /\ ~Closing(<< >>, x) /\ Sorted(<< >>, x)
  BY DEF Opening, Closing, Sorted
<1> QED BY <1>1 DEF Booked

(* An operation after which the same streams receive.                      *)
LEMMA AuditAtRest ==
  ASSUME NEW s, NEW u, NEW C, NEW S, NEW D, NEW T, Audit(s, C, S), s.events = << >>,
         u.events = << >>, SessionOK(u), Kept(s, u),
         u.flow_control.recv_offset <= u.flow_control.recv_max,
         \A x \in Ids : HasRecvPart(s.role, x) => RecvAlike(s, u, x),
         \A x \in Ids : x \in D <=> ReceivesOn(u, x),
         \A x \in Ids : x \in T <=> ReceivesOn(u, x) /\ Stopped(u, x)
  PROVE  Audit(u, D, T)
<1>1. ASSUME NEW x \in Ids PROVE Booked(u.events, u, D, T, x) /\ Stocked(u.events, u, x)
  <2>1. Booked(<< >>, u, D, T, x)
    BY EntryAtRest
  <2>2. Stocked(s.events, s, x)
    BY DEF Audit
  <2>3. Stocked(u.events, u, x)
    BY <2>2, StocksKept
  <2> QED BY <2>1, <2>3
<1> QED BY <1>1 DEF Audit

LEMMA BecameRecv ==
  ASSUME NEW s, SessionOK(s), NEW u, NEW id, Known(s, id), NEW st, Became(s, u, id, st),
         CanRecv(st) <=> CanRecv(s.streams[id]), st.recv_offset = s.streams[id].recv_offset,
         st.recv_max = s.streams[id].recv_max,
         s.streams[id].stop_sending_sent => st.stop_sending_sent
  PROVE  \A x \in Ids : HasRecvPart(s.role, x) => RecvAlike(s, u, x)
<1>1. ASSUME NEW x \in Ids, x # id, HasRecvPart(s.role, x) PROVE RecvAlike(s, u, x)
  BY <1>1 DEF Became, Alike
<1>2. ASSUME HasRecvPart(s.role, id) PROVE RecvAlike(s, u, id)
  <2>1. /\ Receiving(s, id) <=> CanRecv(s.streams[id])
        /\ Received(s, id) = s.streams[id].recv_offset
        /\ Granting(s, id) <=> ~s.streams[id].stop_sending_sent
        /\ RecvMaxOf(s, id) = s.streams[id].recv_max
        /\ ~Gone(s, id)
    BY KnownViews
  <2>2. /\ Receiving(u, id) <=> CanRecv(st)
        /\ CanRecv(st) => Received(u, id) = st.recv_offset
        /\ Granting(u, id) => ~st.stop_sending_sent
        /\ Gone(u, id) \/ RecvMaxOf(u, id) = st.recv_max
    BY <1>2 DEF Became
  <2> QED BY <2>1, <2>2 DEF RecvAlike
<1> QED BY <1>1, <1>2

(* An operation that is none of the receiving direction's business.        *)
LEMMA AuditRetained ==
  ASSUME NEW s, NEW u, NEW C, NEW S, Audit(s, C, S), s.events = << >>, u.events = << >>,
         SessionOK(u), Kept(s, u), u.flow_control.recv_offset <= u.flow_control.recv_max,
         \A x \in Ids : HasRecvPart(s.role, x) => RecvAlike(s, u, x),
         SameRemembered(s, u), SameStops(s, u)
  PROVE  Audit(u, C, S)
<1>1. ASSUME NEW x \in Ids
      PROVE  /\ x \in C <=> ReceivesOn(u, x)
             /\ x \in S <=> ReceivesOn(u, x) /\ Stopped(u, x)
  <2>1. Booked(<< >>, s, C, S, x)
    BY DEF Audit
  <2>2. (x \in C <=> ReceivesOn(s, x)) /\ (x \in S <=> ReceivesOn(s, x) /\ Stopped(s, x))
    BY <2>1, EntryAtRest
  <2>3. ReceivesOn(u, x) <=> ReceivesOn(s, x)
    BY ReceivesView DEF RecvAlike, SameRemembered, Kept
  <2>4. ReceivesOn(u, x) => (Stopped(u, x) <=> Stopped(s, x))
    BY DEF SameStops, ReceivesOn
  <2> QED BY <2>2, <2>3, <2>4
<1> QED BY <1>1, AuditAtRest

(* The limits of the session on what it receives.                          *)
SameRecvFlow(s, u) ==
  /\ u.flow_control.recv_offset = s.flow_control.recv_offset
  /\ u.flow_control.recv_max = s.flow_control.recv_max

LEMMA SendRetains ==
  ASSUME NEW s \in Sessions, NEW id, NEW fin \in BOOLEAN, CanSendStreamData(s, id, 1)
  PROVE  Retains(s, SendStreamData(s, id, 1, fin))
<1> DEFINE st == AfterSendData(s.streams[id], 1, fin)
           u  == DataSent(s, id, 1, fin)
<1>1. /\ u \in Sessions
      /\ SendStreamData(s, id, 1, fin) = IF fin THEN RemoveIfClosed(u, id) ELSE u
  BY SendStreamDataType
<1>2. s.streams[id] \in WtStreams /\ Known(s, id)
  BY KnownStream DEF CanSendStreamData
<1>3. st \in WtStreams
  BY <1>2, StreamMethods DEF CanSendStreamData
<1>4. st.stop_sending_sent = s.streams[id].stop_sending_sent
  BY <1>2 DEF AfterSendData, WtStreams
<1>5. u = Emit([s EXCEPT !.streams[id] = st, !.flow_control.send_offset = @ + 1],
               StreamCapsule(s, id, 1, fin))
  BY DEF DataSent
<1> HIDE DEF st, u
<1>6. u.streams = [s.streams EXCEPT ![id] = st]
  BY <1>5 DEF Emit, Sessions
<1>7. Retains(s, u)
  BY <1>2, <1>3, <1>4, <1>6, StoreRetains
<1>8. Retains(u, RemoveIfClosed(u, id))
  BY <1>1, RemoveRetains
<1>9. Retains(s, RemoveIfClosed(u, id))
  BY <1>7, <1>8, RetainsTrans
<1> QED BY <1>1, <1>7, <1>9

LEMMA ResetRetains ==
  ASSUME NEW s \in Sessions, NEW id, CanResetStream(s, id)
  PROVE  Retains(s, ResetStream(s, id))
<1> DEFINE st == AfterSendReset(s.streams[id])
           u  == ResetSent(s, id)
<1>1. u \in Sessions /\ ResetStream(s, id) = RemoveIfClosed(u, id)
  BY ResetStreamType
<1>2. s.streams[id] \in WtStreams /\ Known(s, id)
  BY KnownStream DEF CanResetStream
<1>3. st \in WtStreams /\ st.stop_sending_sent = s.streams[id].stop_sending_sent
  BY <1>2 DEF AfterSendReset, WtStreams, SendStates
<1>4. u = Emit([s EXCEPT !.streams[id] = st], ResetCapsule(s, id))
  BY DEF ResetSent
<1> HIDE DEF st, u
<1>5. u.streams = [s.streams EXCEPT ![id] = st]
  BY <1>4 DEF Emit, Sessions
<1>6. Retains(s, u)
  BY <1>2, <1>3, <1>5, StoreRetains
<1>7. Retains(u, RemoveIfClosed(u, id))
  BY <1>1, RemoveRetains
<1> QED BY <1>1, <1>6, <1>7, RetainsTrans

(* send and reset.                                                         *)
LEMMA AuditSend ==
  ASSUME Few, NEW s \in Sessions, NEW C, NEW S, Audit(s, C, S), s.events = << >>, s.output = << >>,
         NEW id, NEW fin \in BOOLEAN, CanSendStreamData(s, id, 1), NEW u, u = SendStreamData(s, id, 1, fin)
  PROVE  Audit(u, C, S) /\ SameRecvFlow(s, u) /\ Kept(s, u)
<1> DEFINE st == AfterSendData(s.streams[id], 1, fin)
<1>1. SessionOK(s) /\ s.flow_control.recv_offset <= s.flow_control.recv_max
      /\ s.flow_control \in WtFlowControls
  BY DEF Audit, Sessions
<1>2. SendsData(s, u, id, 1, fin) /\ Known(s, id)
  BY <1>1, DataEffect DEF CanSendStreamData
<1>3. /\ OnlyStream(s, u, id, st) /\ s.streams[id] \in WtStreams /\ u.events = << >>
      /\ u.flow_control = [s.flow_control EXCEPT !.send_offset = @ + 1]
  BY <1>2 DEF SendsData
<1>4. SameRecvFlow(s, u)
  BY <1>1, <1>3 DEF WtFlowControls, SameRecvFlow
<1>5. /\ CanRecv(st) <=> CanRecv(s.streams[id])
      /\ st.recv_offset = s.streams[id].recv_offset /\ st.recv_max = s.streams[id].recv_max
      /\ st.stop_sending_sent = s.streams[id].stop_sending_sent
  BY <1>3 DEF AfterSendData, WtStreams, CanRecv
<1> HIDE DEF st
<1>6. SessionOK(u) /\ Kept(s, u) /\ Became(s, u, id, st)
  BY <1>3 DEF OnlyStream
<1>7. \A x \in Ids : HasRecvPart(s.role, x) => RecvAlike(s, u, x)
  BY <1>1, <1>2, <1>5, <1>6, BecameRecv
<1>8. SameRemembered(s, u)
  BY <1>6 DEF Became, SameRemembered
<1>9. SameStops(s, u)
  BY SendRetains DEF Retains, SameStops
<1>10. u.flow_control.recv_offset <= u.flow_control.recv_max
  BY <1>1, <1>4 DEF SameRecvFlow
<1> QED BY <1>3, <1>4, <1>6, <1>7, <1>8, <1>9, <1>10, AuditRetained

LEMMA AuditResetCall ==
  ASSUME Few, NEW s \in Sessions, NEW C, NEW S, Audit(s, C, S), s.events = << >>, s.output = << >>,
         NEW id, CanResetStream(s, id), NEW u, u = ResetStream(s, id)
  PROVE  Audit(u, C, S) /\ SameRecvFlow(s, u) /\ Kept(s, u)
<1> DEFINE st == AfterSendReset(s.streams[id])
<1>1. SessionOK(s) /\ s.flow_control.recv_offset <= s.flow_control.recv_max
  BY DEF Audit
<1>2. /\ OnlyStream(s, u, id, st) /\ s.streams[id] \in WtStreams /\ u.events = << >>
      /\ u.flow_control = s.flow_control
  BY <1>1, ResetEffect
<1>3. Known(s, id)
  BY DEF CanResetStream
<1>4. SameRecvFlow(s, u)
  BY <1>2 DEF SameRecvFlow
<1>5. /\ CanRecv(st) <=> CanRecv(s.streams[id])
      /\ st.recv_offset = s.streams[id].recv_offset /\ st.recv_max = s.streams[id].recv_max
      /\ st.stop_sending_sent = s.streams[id].stop_sending_sent
  BY <1>2 DEF AfterSendReset, WtStreams, CanRecv
<1> HIDE DEF st
<1>6. SessionOK(u) /\ Kept(s, u) /\ Became(s, u, id, st)
  BY <1>2 DEF OnlyStream
<1>7. \A x \in Ids : HasRecvPart(s.role, x) => RecvAlike(s, u, x)
  BY <1>1, <1>3, <1>5, <1>6, BecameRecv
<1>8. SameRemembered(s, u)
  BY <1>6 DEF Became, SameRemembered
<1>9. SameStops(s, u)
  BY ResetRetains DEF Retains, SameStops
<1>10. u.flow_control.recv_offset <= u.flow_control.recv_max
  BY <1>1, <1>4 DEF SameRecvFlow
<1> QED BY <1>2, <1>4, <1>6, <1>7, <1>8, <1>9, <1>10, AuditRetained

(* stop: the record of stopped streams follows the session.                *)
LEMMA AuditStop ==
  ASSUME NEW s \in Sessions, NEW C, NEW S, Audit(s, C, S), s.events = << >>, s.output = << >>,
         NEW id, CanStopSending(s, id), NEW u, u = StopSending(s, id), NEW T,
         T = IF CanRecv(u.streams[id]) THEN S \cup {id} ELSE S
  PROVE  Audit(u, C, T) /\ SameRecvFlow(s, u) /\ Kept(s, u)
<1> DEFINE st == [s.streams[id] EXCEPT !.stop_sending_sent = TRUE]
<1>1. SessionOK(s) /\ s.flow_control.recv_offset <= s.flow_control.recv_max
  BY DEF Audit
<1>2. /\ OnlyStream(s, u, id, st) /\ s.streams[id] \in WtStreams /\ u.events = << >>
      /\ u.flow_control = s.flow_control /\ id \in Ids
  BY <1>1, StopEffect
<1>3. Known(s, id) /\ HasRecvPart(s.role, id)
  BY DEF CanStopSending
<1>4. SameRecvFlow(s, u)
  BY <1>2 DEF SameRecvFlow
<1>5. /\ CanRecv(st) <=> CanRecv(s.streams[id])
      /\ st.recv_offset = s.streams[id].recv_offset /\ st.recv_max = s.streams[id].recv_max
      /\ st.stop_sending_sent
  BY <1>2 DEF WtStreams, CanRecv
<1>6. u = Emit([s EXCEPT !.streams[id] = st], [type |-> "STOP_SENDING", id |-> id])
  BY <1>2 DEF StopSending
<1> HIDE DEF st
<1>7. u.streams = [s.streams EXCEPT ![id] = st]
  BY <1>6 DEF Emit, Sessions
<1>8. SessionOK(u) /\ Kept(s, u) /\ Became(s, u, id, st)
  BY <1>2 DEF OnlyStream
<1>9. \A x \in Ids : HasRecvPart(s.role, x) => RecvAlike(s, u, x)
  BY <1>1, <1>3, <1>5, <1>8, BecameRecv
<1>10. DOMAIN u.streams = DOMAIN s.streams /\ u.role = s.role /\ u.streams[id] = st
       /\ \A x \in DOMAIN s.streams : x # id => u.streams[x] = s.streams[x]
  BY <1>3, <1>7, <1>8 DEF Kept, Known
<1>11. ASSUME NEW x \in Ids
       PROVE  /\ x \in C <=> ReceivesOn(u, x)
              /\ x \in T <=> ReceivesOn(u, x) /\ Stopped(u, x)
  <2>1. Booked(<< >>, s, C, S, x)
    BY DEF Audit
  <2>2. (x \in C <=> ReceivesOn(s, x)) /\ (x \in S <=> ReceivesOn(s, x) /\ Stopped(s, x))
    BY <2>1, EntryAtRest
  <2>3. ReceivesOn(u, x) <=> ReceivesOn(s, x)
    BY <1>5, <1>10 DEF ReceivesOn, Known
  <2>4. CASE x # id
    <3>1. Stopped(u, x) <=> Stopped(s, x)
      BY <1>10, <2>4 DEF Stopped, Known
    <3>2. x \in T <=> x \in S
      BY <2>4
    <3> QED BY <2>2, <2>3, <3>1, <3>2
  <2>5. CASE x = id
    <3>1. Stopped(u, x)
      BY <1>3, <1>5, <1>10, <2>5 DEF Stopped, Known
    <3>2. ReceivesOn(u, x) <=> CanRecv(u.streams[id])
      BY <1>3, <1>10, <2>5 DEF ReceivesOn, Known
    <3>3. x \in T <=> CanRecv(u.streams[id]) \/ x \in S
      BY <2>5
    <3> QED BY <2>2, <2>3, <3>1, <3>2, <3>3
  <2> QED BY <2>4, <2>5
<1>12. u.flow_control.recv_offset <= u.flow_control.recv_max
  BY <1>1, <1>2
<1> QED BY <1>2, <1>4, <1>8, <1>9, <1>11, <1>12, AuditAtRest

(* open: a bidirectional stream gets a channel.                            *)
LEMMA AuditOpen ==
  ASSUME NEW s \in Sessions, NEW C, NEW S, Audit(s, C, S), s.events = << >>,
         NEW b \in BOOLEAN, CanOpen(s, b), s.next_stream_id[b] \in Ids, NEW u, u = OpenStream(s, b),
         NEW D, D = IF b THEN C \cup {u.next_stream_id[b] - 4} ELSE C
  PROVE  Audit(u, D, S) /\ SameRecvFlow(s, u) /\ Kept(s, u)
<1> DEFINE id == s.next_stream_id[b]
           send_max == IF b THEN s.peer_config.bidi_remote ELSE s.peer_config.uni
           recv_max == IF b THEN s.config.bidi_local ELSE s.config.uni
           st == NewWtStream(send_max, recv_max)
<1>1. SessionOK(s) /\ s.flow_control.recv_offset <= s.flow_control.recv_max
      /\ s.flow_control \in WtFlowControls
  BY DEF Audit, Sessions
<1>2. /\ SessionOK(u) /\ Kept(s, u) /\ AllAlike(s, u)
      /\ \A x : Remembered(u, x) <=> Remembered(s, x) \/ x = id
      /\ ~IsPeerInitiated(s.role, id)
      /\ (IsBidirectional(id) <=> b) /\ ~Remembered(s, id)
      /\ u.events = << >>
      /\ u.flow_control = [s.flow_control EXCEPT !.opened_streams[b] = @ + 1]
  BY <1>1, OpenEffect
<1>3. u = [s EXCEPT !.next_stream_id[b] = NextId(id), !.streams = With(@, id, st),
                    !.flow_control.opened_streams[b] = @ + 1]
  BY Zenon DEF OpenStream
<1>4. id \in Nat /\ s.next_stream_id \in [BOOLEAN -> Nat]
  BY IdsAssumption DEF Sessions
<1>5. ~st.stop_sending_sent
  BY DEF NewWtStream
<1> HIDE DEF id, st
<1>6. u.streams = With(s.streams, id, st) /\ u.next_stream_id = [s.next_stream_id EXCEPT ![b] = NextId(id)]
  BY <1>3 DEF Sessions
<1>7. u.next_stream_id[b] - 4 = id
  BY <1>4, <1>6 DEF NextId
<1>8. SameRecvFlow(s, u)
  BY <1>1, <1>2 DEF WtFlowControls, SameRecvFlow
<1>9. /\ Known(u, id) /\ u.streams[id] = st /\ ~Known(s, id)
      /\ \A x : x # id => (Known(u, x) <=> Known(s, x))
      /\ \A x : x # id /\ Known(s, x) => u.streams[x] = s.streams[x]
  BY <1>2, <1>6 DEF With, Known, Remembered
<1>10. \A x : Stopped(u, x) <=> Stopped(s, x)
  BY <1>5, <1>9 DEF Stopped
<1>11. u.role = s.role
  BY <1>2 DEF Kept
<1>12. \A x : x # id => (ReceivesOn(u, x) <=> ReceivesOn(s, x))
  BY <1>9, <1>11 DEF ReceivesOn
<1>13. ~ReceivesOn(s, id)
  BY <1>9 DEF ReceivesOn
<1>14. ReceivesOn(u, id) <=> b
  <2>1. HasRecvPart(s.role, id) <=> b
    BY <1>2 DEF HasRecvPart
  <2>2. CanRecv(st)
    BY DEF st, NewWtStream, CanRecv
  <2> QED BY <1>9, <1>11, <2>1, <2>2 DEF ReceivesOn
<1>15. ASSUME NEW x \in Ids
       PROVE  /\ x \in D <=> ReceivesOn(u, x)
              /\ x \in S <=> ReceivesOn(u, x) /\ Stopped(u, x)
  <2>1. Booked(<< >>, s, C, S, x)
    BY DEF Audit
  <2>2. (x \in C <=> ReceivesOn(s, x)) /\ (x \in S <=> ReceivesOn(s, x) /\ Stopped(s, x))
    BY <2>1, EntryAtRest
  <2>3. x \in D <=> x \in C \/ (b /\ x = id)
    BY <1>7
  <2>4. CASE x = id
    <3>1. ~Stopped(u, x)
      BY <1>9, <1>10, <2>4 DEF Stopped
    <3> QED BY <1>13, <1>14, <2>2, <2>3, <2>4, <3>1
  <2>5. CASE x # id
    BY <1>10, <1>12, <2>2, <2>3, <2>5
  <2> QED BY <2>4, <2>5
<1>16. u.flow_control.recv_offset <= u.flow_control.recv_max
  BY <1>1, <1>8 DEF SameRecvFlow
<1>17. \A x \in Ids : HasRecvPart(s.role, x) => RecvAlike(s, u, x)
  BY <1>2 DEF AllAlike, Alike
<1>18. SessionOK(u) /\ Kept(s, u) /\ u.events = << >>
  BY <1>2
<1>19. Audit(u, D, S)
  BY <1>15, <1>16, <1>17, <1>18, AuditAtRest
<1> QED BY <1>8, <1>18, <1>19

LEMMA AuditQuietCall ==
  ASSUME NEW s \in Sessions, NEW C, NEW S, Audit(s, C, S), s.output = << >>,
         NEW u, u \in {SendDatagram(s), Drain(s), Close(s), s}
  PROVE  Audit(u, C, S) /\ SameRecvFlow(s, u) /\ Kept(s, u)
<1>1. SameMaps(s, u) /\ u.events = s.events /\ u.flow_control = s.flow_control
  BY DEF SendDatagram, Drain, Close, Emit, Sessions, SameMaps, Kept
<1>2. u.flow_control.recv_offset <= u.flow_control.recv_max
  BY <1>1 DEF Audit
<1>3. Audit(u, C, S)
  BY <1>1, <1>2, AuditMaps
<1> QED BY <1>1, <1>3 DEF SameRecvFlow, SameMaps

(* handle_cmd: what it records keeps the books in order.                   *)
LEMMA AuditServed ==
  ASSUME Few, TypeInv, phase = "running", Settled(driver), NEW cmd \in Commands,
         NEW u, NEW d, NEW ch, Serves(cmd, u, d, ch)
  PROVE  Settled(d)
<1> DEFINE s == driver.session
           C == driver.channels
           S == driver.stopping
           k == [driver EXCEPT !.session = u]
<1>1. /\ s \in Sessions /\ Audit(s, C, S) /\ s.events = << >> /\ s.output = << >> /\ s.role = "server"
      /\ driver \in Drivers
  BY DEF TypeInv, DriverFits, Settled, Orderly, Drivers
<1>2. /\ u \in Sessions /\ Operated(s, u, cmd) /\ u.events = << >>
      /\ cmd.op = "open" => s.next_stream_id[cmd.bidirectional] \in Ids
      /\ Records(k, d, cmd) /\ d \in Drivers /\ d.session = u
  BY DEF Serves
<1>3. k.session = u /\ k.channels = C /\ k.stopping = S /\ k.closed = driver.closed
  BY <1>1 DEF Drivers
<1> HIDE DEF s, C, S, k
<1>4. d.closed = driver.closed
  BY <1>2, <1>3 DEF Records
<1>5. \/ /\ cmd.op = "stop" /\ CanRecv(u.streams[cmd.id]) /\ d.channels = C
         /\ d.stopping = S \cup {cmd.id}
      \/ /\ cmd.op = "open" /\ cmd.bidirectional /\ d.stopping = S
         /\ d.channels = C \cup {u.next_stream_id[cmd.bidirectional] - 4}
      \/ /\ ~(cmd.op = "stop" /\ CanRecv(u.streams[cmd.id]))
         /\ ~(cmd.op = "open" /\ cmd.bidirectional)
         /\ d.channels = C /\ d.stopping = S
  BY <1>2, <1>3 DEF Records
<1>6. ASSUME Audit(u, d.channels, d.stopping), SameRecvFlow(s, u), Kept(s, u) PROVE Settled(d)
  <2>1. u.role = "server" /\ u.config = s.config
    BY <1>1, <1>6 DEF Kept
  <2>2. Credited(u)
    BY <1>6, <2>1 DEF Settled, Credited, SameRecvFlow, SessionRecvAvailable, s
  <2>3. \A b \in BOOLEAN : FewClosed(d, b)
    BY <1>2, <1>4, <2>1 DEF Settled, FewClosed, s
  <2> QED BY <1>2, <1>6, <2>1, <2>2, <2>3 DEF Settled, Orderly
<1>7. ASSUME cmd.op = "send", CanSendStreamData(s, cmd.id, 1), u = SendStreamData(s, cmd.id, 1, cmd.fin)
      PROVE  Settled(d)
  <2>1. cmd.fin \in BOOLEAN
    BY <1>7, CommandFields
  <2>2. Audit(u, C, S) /\ SameRecvFlow(s, u) /\ Kept(s, u)
    BY <1>1, <1>7, <2>1, AuditSend
  <2> QED BY <1>5, <1>6, <1>7, <2>2
<1>8. ASSUME cmd.op = "open", CanOpen(s, cmd.bidirectional), u = OpenStream(s, cmd.bidirectional)
      PROVE  Settled(d)
  <2>1. cmd.bidirectional \in BOOLEAN
    BY <1>8, CommandFields
  <2>2. /\ d.channels = IF cmd.bidirectional THEN C \cup {u.next_stream_id[cmd.bidirectional] - 4} ELSE C
        /\ d.stopping = S
    BY <1>5, <1>8, <2>1
  <2>3. Audit(u, d.channels, S) /\ SameRecvFlow(s, u) /\ Kept(s, u)
    BY <1>1, <1>2, <1>8, <2>1, <2>2, AuditOpen
  <2> QED BY <1>6, <2>2, <2>3
<1>9. ASSUME cmd.op = "reset", CanResetStream(s, cmd.id), u = ResetStream(s, cmd.id)
      PROVE  Settled(d)
  <2>1. Audit(u, C, S) /\ SameRecvFlow(s, u) /\ Kept(s, u)
    BY <1>1, <1>9, AuditResetCall
  <2> QED BY <1>5, <1>6, <1>9, <2>1
<1>10. ASSUME cmd.op = "stop", CanStopSending(s, cmd.id), u = StopSending(s, cmd.id)
       PROVE  Settled(d)
  <2>1. /\ d.stopping = IF CanRecv(u.streams[cmd.id]) THEN S \cup {cmd.id} ELSE S
        /\ d.channels = C
    BY <1>5, <1>10
  <2> DEFINE T == d.stopping
             id == cmd.id
  <2>2. /\ T = IF CanRecv(u.streams[id]) THEN S \cup {id} ELSE S
        /\ CanStopSending(s, id) /\ u = StopSending(s, id)
    BY <1>10, <2>1
  <2> HIDE DEF T, id
  <2>3. Audit(u, C, T) /\ SameRecvFlow(s, u) /\ Kept(s, u)
    BY <1>1, <2>2, AuditStop
  <2> QED BY <1>6, <2>1, <2>3 DEF T
<1>11. ASSUME cmd.op \in {"datagram", "drain", "close", "export"},
              u \in {SendDatagram(s), Drain(s), Close(s), s}
       PROVE  Settled(d)
  <2>1. Audit(u, C, S) /\ SameRecvFlow(s, u) /\ Kept(s, u)
    BY <1>1, <1>11, AuditQuietCall
  <2> QED BY <1>5, <1>6, <1>11, <2>1
<1> QED BY <1>2, <1>7, <1>8, <1>9, <1>10, <1>11 DEF Operated

-----------------------------------------------------------------------------
(* The books and the credit after every turn.                              *)
SettledInv == phase = "running" => Settled(driver)

(* accept: there are no streams yet, and all credit is there.              *)
LEMMA NewSettled ==
  ASSUME request \in Requests, ~InitRefused(request.init), NewDriver(ServerStart) \in Drivers
  PROVE  Settled(NewDriver(ServerStart))
<1> DEFINE config == ServerConfig(ServerSettings)
           other  == ServerPeerConfig(ClientSettings, request.init)
           b == NewSession("server", config, other)
           s == Initiated(b)
           d == NewDriver(s)
<1>1. config \in Configs /\ other \in Configs /\ "server" \in Roles
  <2>1. /\ ServerSettings \in WtSettings /\ ClientSettings \in WtSettings
        /\ request.init \in InitFields \cup {Absent}
    BY WtDriverAssumption
  <2> QED BY <2>1, OverlayType, InitType DEF ServerConfig, ApplyAdvertisedSettings, Roles
<1>2. IsNew(b, "server", config, other)
  BY <1>1, NewSessionType
<1>3. s = ServerStart
  BY DEF ServerStart
<1>4. d.session = s /\ d.channels = {} /\ d.stopping = {} /\ d.closed = [a \in BOOLEAN |-> 0]
  BY DEF NewDriver
<1> HIDE DEF b, config, other
<1>5. SessionOK(s)
  BY <1>1, <1>2, NewOK
<1>6. /\ s \in Sessions /\ s.role = "server" /\ s.config = config /\ s.events = << >>
      /\ DOMAIN s.streams = {} /\ DOMAIN s.closed_stream_send_max = {}
      /\ s.flow_control = NewFlowControl(config, other)
  <2>1. /\ b \in Sessions /\ s = [b EXCEPT !.state = "Active"] /\ s \in Sessions
        /\ b.role = "server" /\ b.config = config /\ b.events = << >>
        /\ DOMAIN b.streams = {} /\ DOMAIN b.closed_stream_send_max = {}
        /\ b.flow_control = NewFlowControl(config, other)
    BY <1>2 DEF IsNew
  <2> QED BY <2>1 DEF Sessions
<1>7. config.max_data \in Nat /\ \A a \in BOOLEAN : config.max_streams[a] \in Nat
  BY <1>6, ConfigTypes
<1>8. s.flow_control.recv_offset = 0 /\ s.flow_control.recv_max = config.max_data
  BY <1>6 DEF NewFlowControl
<1> HIDE DEF s, d
<1>9. ASSUME NEW x \in Ids PROVE Booked(s.events, s, {}, {}, x) /\ Stocked(s.events, s, x)
  <2>1. ~Known(s, x) /\ ~ReceivesOn(s, x)
    BY <1>6 DEF Known, ReceivesOn
  <2>2. Booked(s.events, s, {}, {}, x)
    BY <1>6, <2>1, EntryAtRest
  <2>3. InitialOf(s, x) \in Nat
    BY <1>6, ConfigTypes
  <2>4. Received(s, x) = 0 /\ RecvMaxOf(s, x) = InitialOf(s, x)
    BY <2>1 DEF Received, RecvMaxOf, InitialRecvMax, InitialOf
  <2>5. Stocked(s.events, s, x)
    BY <2>3, <2>4 DEF Stocked, HalfOf
  <2> QED BY <2>2, <2>5
<1>10. Audit(s, {}, {})
  BY <1>5, <1>7, <1>8, <1>9 DEF Audit
<1>11. Credited(s)
  BY <1>6, <1>7, <1>8 DEF Credited, SessionRecvAvailable, HalfOf
<1>12. \A a \in BOOLEAN : FewClosed(d, a)
  BY <1>4, <1>6, <1>7 DEF FewClosed
<1>13. d \in Drivers /\ d = NewDriver(ServerStart)
  BY <1>3 DEF d
<1> QED BY <1>4, <1>6, <1>10, <1>11, <1>12, <1>13 DEF Settled, Orderly

LEMMA SettledGoesOn ==
  ASSUME NEW d, NEW ch, Settled(d), DriverGoesOn(d, ch)
  PROVE  SettledInv'
<1>1. driver' = [d EXCEPT !.session.output = << >>]
  BY DEF DriverGoesOn
<1> DEFINE e == driver'
<1>2. Settled(e)
  BY <1>1, SettledFlushed
<1> QED BY <1>2 DEF SettledInv

LEMMA SettledHandleCmd ==
  ASSUME Few, TypeInv, SettledInv, HandleCmd
  PROVE  SettledInv'
<1> DEFINE t   == Head(cmds)
           cmd == calls[t].cmd
<1>1. /\ phase = "running" /\ cmd \in Commands
      /\ \/ UNCHANGED <<phase, driver>>
         \/ \E e, items, a : DriverEnds(e, items, a)
         \/ \E u, d, ch : Serves(cmd, u, d, ch) /\ DriverGoesOn(d, ch)
  BY HandleCmdCases
<1> HIDE DEF cmd
<1>2. Settled(driver)
  BY <1>1 DEF SettledInv
<1>3. CASE UNCHANGED <<phase, driver>>
  BY <1>3 DEF SettledInv
<1>4. CASE \E e, items, a : DriverEnds(e, items, a)
  BY <1>4 DEF DriverEnds, SettledInv
<1>5. CASE \E u, d, ch : Serves(cmd, u, d, ch) /\ DriverGoesOn(d, ch)
  <2>1. PICK u, d, ch : Serves(cmd, u, d, ch) /\ DriverGoesOn(d, ch)
    BY <1>5
  <2>2. Settled(d)
    BY <1>1, <1>2, <2>1, AuditServed
  <2> QED BY <2>1, <2>2, SettledGoesOn
<1> QED BY <1>1, <1>3, <1>4, <1>5

LEMMA SettledHandleData ==
  ASSUME Few, TypeInv, SettledInv, HandleData
  PROVE  SettledInv'
<1>1. /\ phase = "running"
      /\ \/ \E d, items : DriverEnds(d, items, calls)
         \/ \E n, d1, d2, d3, ch : Turns(n, d1, d2, d3, ch) /\ DriverGoesOn(d3, ch)
  BY HandleDataCases
<1>2. Settled(driver) /\ Orderly(driver) /\ driver.ok
  BY <1>1 DEF SettledInv, Settled, TypeInv, DriverFits
<1>3. CASE \E d, items : DriverEnds(d, items, calls)
  BY <1>3 DEF DriverEnds, SettledInv
<1>4. CASE \E n, d1, d2, d3, ch : Turns(n, d1, d2, d3, ch) /\ DriverGoesOn(d3, ch)
  <2>1. PICK n, d1, d2, d3, ch : Turns(n, d1, d2, d3, ch) /\ DriverGoesOn(d3, ch)
    BY <1>4
  <2> DEFINE cs == SubSeq(to_server, 1, n)
  <2>2. /\ cs \in Seq(Capsules) /\ d1 = ProcessAll(driver, cs) /\ d1.ok
        /\ d2 = DispatchAll(d1) /\ d2 \in Drivers /\ d2.ok /\ d2.session.events = << >>
        /\ GrowsAll(d2, d3) /\ d3 \in Drivers
    BY <2>1 DEF Turns
  <2> HIDE DEF cs
  <2>3. Orderly(d1)
    BY <1>2, <2>2, AuditProcessAll
  <2>4. Orderly(d2)
    BY <2>2, <2>3, AuditDispatchAll
  <2>5. Settled(d3)
    BY <2>2, <2>4, AuditGrowth
  <2> QED BY <2>1, <2>5, SettledGoesOn
<1> QED BY <1>1, <1>3, <1>4

LEMMA SettledStep ==
  ASSUME Few, TypeInv, SettledInv, [Next]_vars
  PROVE  SettledInv'
<1>1. CASE Accept
  <2>1. TypeInv'
    BY <1>1, AcceptTypeInv
  <2>2. SUFFICES ASSUME phase' = "running" PROVE Settled(driver)'
    BY DEF SettledInv
  <2>3. driver' = NewDriver(ServerStart) /\ request' = request
    BY <1>1, <2>2 DEF Accept, ServerStart
  <2>4. driver' \in Drivers /\ request' \in Requests /\ ~InitRefused(request'.init)
    BY <2>1, <2>2 DEF TypeInv, DriverFits, PlanFits, Greeting, Answered200
  <2>5. Settled(NewDriver(ServerStart))
    BY <2>3, <2>4, NewSettled
  <2> QED BY <2>3, <2>5
<1>2. CASE IntoParts \/ DropParts \/ (\E t \in Tasks : Call(t)) \/ WindowUpdate \/ FinishWrite
             \/ ClientReceive
  <2>1. UNCHANGED <<phase, driver>>
    BY <1>2 DEF IntoParts, DropParts, Call, WindowUpdate, FinishWrite, ClientReceive, serverVars
  <2> QED BY <2>1 DEF SettledInv
<1>3. CASE \E id \in Ids : Recv(id)
  <2>1. PICK id \in Ids : Recv(id)
    BY <1>3
  <2>2. phase' = phase
    BY <2>1 DEF Recv
  <2>3. SUFFICES ASSUME phase = "running" PROVE Settled(driver)'
    BY <2>2 DEF SettledInv
  <2>4. driver \in Drivers /\ Settled(driver)
    BY <2>3 DEF SettledInv, TypeInv, DriverFits
  <2> DEFINE e == driver'
  <2>5. /\ e \in Drivers /\ e.session = driver.session /\ e.channels = driver.channels
        /\ e.stopping = driver.stopping /\ e.closed = driver.closed
    BY <2>1, <2>4, RecvDriver
  <2> HIDE DEF e
  <2>6. Settled(e)
    BY <2>4, <2>5 DEF Settled, Orderly, FewClosed
  <2> QED BY <2>6 DEF e
<1>4. CASE DropSession \/ HandleEnd
  BY <1>4 DEF DropSession, HandleEnd, DriverEnds, SettledInv
<1>5. CASE HandleCmd
  BY <1>5, SettledHandleCmd
<1>6. CASE HandleData
  BY <1>6, SettledHandleData
<1>7. CASE \/ \E b \in BOOLEAN : ClientOpen(b)
           \/ \E id \in Ids, fin \in BOOLEAN : ClientSend(id, fin)
           \/ \E id \in Ids : ClientReset(id) \/ ClientStop(id)
           \/ ClientClose
           \/ \E type \in {"END_STREAM", "RST_STREAM", "EOF"} : ClientLeaves(type)
  <2>1. \E s, items : ClientBecomes(s, items)
    BY <1>7 DEF ClientOpen, ClientSend, ClientReset, ClientStop, ClientClose, ClientLeaves
  <2>2. UNCHANGED <<phase, driver>>
    BY <2>1 DEF ClientBecomes, serverVars
  <2> QED BY <2>2 DEF SettledInv
<1>8. CASE UNCHANGED vars
  BY <1>8 DEF vars, serverVars, SettledInv
<1> QED BY <1>1, <1>2, <1>3, <1>4, <1>5, <1>6, <1>7, <1>8 DEF Next

(* What the books say of a driver that is running.                         *)
LEMMA SettledBooks ==
  ASSUME SettledInv
  PROVE  BooksAgree
<1> SUFFICES ASSUME phase = "running" PROVE BooksAgree
  BY DEF BooksAgree, Running
<1> DEFINE s == driver.session
           C == driver.channels
           S == driver.stopping
<1>1. /\ s \in Sessions /\ s.role = "server" /\ s.events = << >> /\ Audit(s, C, S)
      /\ C \subseteq Ids /\ S \subseteq Ids
  BY DriverFields DEF SettledInv, Settled, Orderly
<1>2. \A x : Known(s, x) => x \in Ids
  BY <1>1, KnownStream
<1> HIDE DEF s, C, S
<1>3. \A x \in Ids : /\ x \in C <=> ReceivesOn(s, x)
                     /\ x \in S <=> ReceivesOn(s, x) /\ Stopped(s, x)
  BY <1>1, EntryAtRest DEF Audit
<1>4. C = {id \in DOMAIN s.streams : HasRecvPart("server", id) /\ CanRecv(s.streams[id])}
  BY <1>1, <1>2, <1>3 DEF ReceivesOn, Known
<1>5. S = {id \in C : s.streams[id].stop_sending_sent}
  BY <1>1, <1>3 DEF ReceivesOn, Stopped
<1>6. {id \in Incoming : CanRecv(s.streams[id])} = C
  BY <1>4 DEF Incoming, s
<1> QED BY <1>5, <1>6 DEF BooksAgree, s, C, S

LEMMA SettledCredit ==
  ASSUME SettledInv
  PROVE  Replenished
<1> SUFFICES ASSUME phase = "running" PROVE Replenished
  BY DEF Replenished, Running
<1> DEFINE s == driver.session
           C == driver.channels
           S == driver.stopping
           Initial(id) == IF ~IsBidirectional(id) THEN s.config.uni
                          ELSE IF IsClientInitiated(id) THEN s.config.bidi_remote
                          ELSE s.config.bidi_local
<1>1. /\ s \in Sessions /\ s.role = "server" /\ s.events = << >> /\ Audit(s, C, S)
      /\ C \subseteq Ids /\ Credited(s) /\ \A b \in BOOLEAN : FewClosed(driver, b)
  BY DriverFields DEF SettledInv, Settled, Orderly
<1>2. SessionRecvAvailable(s.flow_control) >= HalfOf(s.config.max_data)
  BY <1>1 DEF Credited
<1>3. \A b \in BOOLEAN : s.config.max_streams[b] > 0 => driver.closed[b] * 2 < s.config.max_streams[b]
  BY <1>1 DEF FewClosed
<1>4. ASSUME NEW id \in C \ S PROVE RecvAvailable(s.streams[id]) >= HalfOf(Initial(id))
  <2>1. id \in Ids /\ Booked(<< >>, s, C, S, id) /\ Stocked(<< >>, s, id) /\ SessionOK(s)
    BY <1>1, <1>4 DEF Audit
  <2>2. ReceivesOn(s, id) /\ ~Stopped(s, id)
    BY <1>4, <2>1, EntryAtRest
  <2>3. Known(s, id) /\ HasRecvPart(s.role, id)
    BY <2>2 DEF ReceivesOn
  <2> DEFINE st == s.streams[id]
  <2>4. /\ Receiving(s, id) /\ Received(s, id) = st.recv_offset
        /\ Granting(s, id) /\ RecvMaxOf(s, id) = st.recv_max
    BY <2>1, <2>2, <2>3, KnownViews DEF ReceivesOn, Stopped
  <2>5. ~Waiting(<< >>, id)
    BY DEF Waiting
  <2>6. st.recv_offset <= st.recv_max /\ st.recv_max - st.recv_offset >= HalfOf(InitialOf(s, id))
    BY <2>1, <2>3, <2>4, <2>5 DEF Stocked
  <2>7. InitialOf(s, id) = Initial(id)
    BY <1>1 DEF InitialOf, IsPeerInitiated, IsClientInitiated
  <2>8. st.recv_offset \in Nat /\ st.recv_max \in Nat
    BY <1>1, <2>3, KnownStream DEF WtStreams
  <2> HIDE DEF st, Initial
  <2>9. RecvAvailable(st) >= HalfOf(Initial(id))
    BY <2>6, <2>7, <2>8 DEF RecvAvailable
  <2> QED BY <2>9 DEF st
<1> QED BY <1>2, <1>3, <1>4 DEF Replenished

LEMMA SettledAlways == Few => (Spec => []SettledInv)
<1> SUFFICES ASSUME Few PROVE Spec => []SettledInv
  OBVIOUS
<1>1. Init => SettledInv
  BY DEF Init, SettledInv
<1>2. TypeInv /\ SettledInv /\ [Next]_vars => SettledInv'
  BY SettledStep
<1> QED BY <1>1, <1>2, DriverInvariant, PTL DEF Spec

(* handle_cmd, dispatch_wt_event: between two turns of the loop there is a *)
(* channel for exactly the streams that still receive, and the record of   *)
(* stopped streams holds exactly the stopped ones among them, however FIN, *)
(* reset and STOP_SENDING cross.  No more identifiers are in use than      *)
(* closed streams are remembered.                                          *)
THEOREM BooksStayInStep == Few => (Spec => []BooksAgree)
<1> SUFFICES ASSUME Few PROVE Spec => []BooksAgree
  OBVIOUS
<1>1. SettledInv => BooksAgree
  BY SettledBooks
<1> QED BY <1>1, SettledAlways, PTL

(* maybe_grow_session_window, maybe_grow_stream_window and                 *)
(* maybe_grow_max_streams: whatever the client sends and the tasks ask     *)
(* for, after every turn the client has at least half of the initial       *)
(* credit, for the session, for each stream that still receives and was    *)
(* not stopped, and for new streams; for a credit of one as well.          *)
THEOREM CreditIsRenewed == Few => (Spec => []Replenished)
<1> SUFFICES ASSUME Few PROVE Spec => []Replenished
  OBVIOUS
<1>1. SettledInv => Replenished
  BY SettledCredit
<1> QED BY <1>1, SettledAlways, PTL
=============================================================================
