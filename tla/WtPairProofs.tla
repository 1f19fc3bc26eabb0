---------------------------- MODULE WtPairProofs ----------------------------
(***************************************************************************)
(* Proofs about the two ends of a WebTransport session, for every value of *)
(* the constants.                                                          *)
(***************************************************************************)
EXTENDS WtPair, WtAgreementProofs

PairType ==
  /\ session \in [Roles -> Sessions]
  /\ wire \in [Roles -> Seq(Capsules)]
  /\ failed \subseteq Roles
  /\ \A r \in Roles : session[r].role = r /\ session[r].output = << >>

LEMMA BecomesType ==
  ASSUME PairType, NEW r \in Roles, NEW s \in Sessions, s.role = r, Becomes(r, s),
         failed' \subseteq Roles
  PROVE  PairType'
<1>1. s.output \in Seq(Capsules)
  BY DEF Sessions
<1>2. Flushed(s) \in Sessions /\ Flushed(s).output = << >> /\ Flushed(s).role = r
  BY FlushedType DEF Kept
<1>3. session' = [session EXCEPT ![r] = Flushed(s)] /\ wire' = [wire EXCEPT ![r] = wire[r] \o s.output]
  BY DEF Becomes, Flushed
<1>4. wire[r] \o s.output \in Seq(Capsules)
  BY <1>1 DEF PairType
<1>5. wire' \in [Roles -> Seq(Capsules)]
  BY <1>3, <1>4 DEF PairType
<1> HIDE DEF Flushed
<1> QED BY <1>2, <1>3, <1>5 DEF PairType

LEMMA InitPairType ==
  ASSUME Init
  PROVE  PairType
<1>1. PICK server \in ServerSettings, client \in ClientSettings, init \in Inits :
        /\ ~InitRefused(init)
        /\ session = [r \in Roles |->
             IF r = "server"
             THEN Initiated(NewSession(r, ServerConfig(server), ServerPeerConfig(client, init)))
             ELSE NewSession(r, ClientConfig(client, init), ClientPeerConfig(server))]
  BY Zenon DEF Init
<1>2. server \in WtSettings /\ client \in WtSettings /\ init \in InitFields \cup {Absent}
  BY <1>1, LimitsAssumption
<1>3. /\ ServerConfig(server) \in Configs /\ ClientPeerConfig(server) \in Configs
      /\ ServerPeerConfig(client, init) \in Configs /\ ClientConfig(client, init) \in Configs
  BY <1>1, <1>2, OverlayType, InitType, InitAlike
     DEF ServerConfig, ClientPeerConfig, ApplyAdvertisedSettings
<1> DEFINE a == NewSession("client", ClientConfig(client, init), ClientPeerConfig(server))
           b == NewSession("server", ServerConfig(server), ServerPeerConfig(client, init))
<1>r. "client" \in Roles /\ "server" \in Roles
  BY DEF Roles
<1>a. /\ IsNew(a, "client", ClientConfig(client, init), ClientPeerConfig(server))
      /\ IsNew(b, "server", ServerConfig(server), ServerPeerConfig(client, init))
  BY <1>3, <1>r, NewSessionType
<1>4. a \in Sessions /\ a.role = "client" /\ a.output = << >>
  BY <1>a DEF IsNew
<1>5. b \in Sessions /\ Initiated(b) \in Sessions /\ b.role = "server" /\ b.output = << >>
      /\ Initiated(b) = [b EXCEPT !.state = "Active"]
  BY <1>a DEF IsNew
<1>6. session = [r \in Roles |-> IF r = "server" THEN Initiated(b) ELSE a]
  <2>1. \A r \in Roles : r # "server" => r = "client"
    BY DEF Roles
  <2> QED BY <1>1, <2>1
<1> HIDE DEF a, b
<1>7. Initiated(b).role = "server" /\ Initiated(b).output = << >>
  BY <1>5 DEF Sessions
<1>8. /\ session \in [Roles -> Sessions]
      /\ \A r \in Roles : session[r].role = r /\ session[r].output = << >>
  BY <1>4, <1>5, <1>6, <1>7 DEF Roles
<1>9. wire \in [Roles -> Seq(Capsules)] /\ failed \subseteq Roles
  BY DEF Init
<1> QED BY <1>8, <1>9 DEF PairType

LEMMA ProcessType ==
  ASSUME PairType, NEW r \in Roles, Process(r)
  PROVE  PairType'
<1> DEFINE q == Peer(r)
           s == session[r]
           c == Head(wire[q])
           t == Accepted(s, c)
<1>1. q \in Roles /\ q # r
  BY DEF Roles, Peer
<1>2. /\ wire[q] # << >> /\ wire[q] \in Seq(Capsules) /\ s \in Sessions /\ s.role = r
      /\ s.output = << >>
  BY <1>1, Zenon DEF Process, PairType
<1>3. c \in Capsules /\ Tail(wire[q]) \in Seq(Capsules)
  <2>1. wire[q] # << >> /\ wire[q] \in Seq(Capsules)
    BY <1>2
  <2> HIDE DEF q
  <2> QED BY <2>1
<1>4. CASE Refused(s, c)
  <2>1. failed' = failed \cup {r} /\ session' = session /\ wire' = [wire EXCEPT ![q] = Tail(@)]
    BY <1>4, Zenon DEF Process
  <2> HIDE DEF q
  <2> QED BY <1>1, <1>3, <2>1 DEF PairType
<1>5. CASE ~Refused(s, c)
  <2>1. /\ session' = [session EXCEPT ![r] = Flushed(t)] /\ failed' = failed
        /\ wire' = [wire EXCEPT ![q] = Tail(@), ![r] = @ \o t.output]
    BY <1>5, Zenon DEF Process, Flushed
  <2>2. t \in Sessions /\ Kept(s, t)
    BY <1>2, <1>3, <1>5, AcceptedType, AcceptedKeeps
  <2> HIDE DEF q, c, t, s
  <2>3. Flushed(t) \in Sessions /\ Flushed(t).output = << >> /\ Flushed(t).role = r
    BY <1>2, <2>2, FlushedType DEF Kept
  <2>4. t.output \in Seq(Capsules)
    BY <2>2 DEF Sessions
  <2>5. wire[r] \o t.output \in Seq(Capsules)
    BY <2>4 DEF PairType
  <2>6. wire' \in [Roles -> Seq(Capsules)]
    BY <1>1, <1>3, <2>1, <2>5 DEF PairType
  <2> HIDE DEF Flushed
  <2> QED BY <2>1, <2>3, <2>6 DEF PairType
<1> QED BY <1>4, <1>5

LEMMA NextPairType ==
  ASSUME PairType, [Next]_vars
  PROVE  PairType'
<1>1. CASE UNCHANGED vars
  BY <1>1 DEF vars, PairType
<1>2. CASE Next
  <2>1. PICK r \in Roles :
          \/ Initiate(r) \/ Datagram(r) \/ CloseSession(r) \/ DrainSession(r)
          \/ GrowData(r) \/ SendExtra(r) \/ Process(r) \/ Poll(r)
          \/ \E b \in BOOLEAN : Open(r, b) \/ GrowStreams(r, b)
          \/ \E id \in Ids :
               \/ Reset(r, id) \/ Stop(r, id) \/ GrowStreamData(r, id)
               \/ \E size \in Sizes, fin \in BOOLEAN : SendData(r, id, size, fin)
    BY <1>2, Zenon DEF Next
  <2> DEFINE s == session[r]
  <2>2. s \in Sessions /\ s.role = r
    BY DEF PairType
  <2>a. ASSUME NEW t \in Sessions, Becomes(r, t), Kept(s, t), failed' = failed PROVE PairType'
    <3>1. t.role = r /\ failed' \subseteq Roles
      BY <2>2, <2>a DEF Kept, PairType
    <3> QED BY <2>a, <3>1, BecomesType
  <2>3. CASE Initiate(r)
    <3>1. Initiated(s) \in Sessions
      BY <2>2 DEF Initiated, Sessions, SessionStates
    <3> QED BY <2>a, <2>2, <2>3, <3>1, CallsKeep DEF Initiate
  <2>4. CASE Datagram(r)
    <3>1. SendDatagram(s) \in Sessions
      <4>1. [type |-> "DATAGRAM"] \in Capsules
        BY DEF Capsules
      <4> QED BY <2>2, <4>1, EmitType DEF SendDatagram
    <3> QED BY <2>a, <2>2, <2>4, <3>1, CallsKeep DEF Datagram
  <2>5. CASE CloseSession(r)
    <3>1. Close(s) \in Sessions
      <4>1. [type |-> "CLOSE_SESSION"] \in Capsules
        BY DEF Capsules
      <4>2. [s EXCEPT !.state = "Closed"] \in Sessions
        BY <2>2 DEF Sessions, SessionStates
      <4> QED BY <4>1, <4>2, EmitType DEF Close
    <3> QED BY <2>a, <2>2, <2>5, <3>1, CallsKeep DEF CloseSession
  <2>6. CASE DrainSession(r)
    <3>1. Drain(s) \in Sessions
      <4>1. [type |-> "DRAIN_SESSION"] \in Capsules
        BY DEF Capsules
      <4>2. [s EXCEPT !.state = "Draining"] \in Sessions
        BY <2>2 DEF Sessions, SessionStates
      <4> QED BY <4>1, <4>2, EmitType DEF Drain
    <3> QED BY <2>a, <2>2, <2>6, <3>1, CallsKeep DEF DrainSession
  <2>7. CASE GrowData(r)
    <3>1. PICK n \in Growth :
            /\ CanSendMaxData(s, s.flow_control.recv_max + n)
            /\ Becomes(r, SendMaxData(s, s.flow_control.recv_max + n))
      BY <2>7 DEF GrowData
    <3>2. s.flow_control.recv_max + n \in Nat
      <4>1. s.flow_control \in WtFlowControls
        BY <2>2 DEF Sessions
      <4> QED BY <4>1, MaxValueAssumption, WtPairAssumption DEF WtFlowControls
    <3>3. SendMaxData(s, s.flow_control.recv_max + n) \in Sessions
      BY <2>2, <3>1, <3>2, CreditType
    <3>4. failed' = failed
      BY <2>7 DEF GrowData
    <3> QED BY <2>a, <2>2, <3>1, <3>3, <3>4, CallsKeep
  <2>8. CASE SendExtra(r)
    <3>1. PICK c \in Extras : wire' = [wire EXCEPT ![r] = Append(@, c)]
      BY <2>8 DEF SendExtra
    <3>2. session' = session /\ failed' = failed
      BY <2>8 DEF SendExtra
    <3>3. c \in Capsules
      BY ExtrasAssumption DEF Capsules
    <3>4. Append(wire[r], c) \in Seq(Capsules)
      BY <3>3 DEF PairType
    <3> QED BY <3>1, <3>2, <3>4 DEF PairType
  <2>9. CASE Process(r)
    BY <2>9, ProcessType
  <2>10. CASE Poll(r)
    <3>1. s.events # << >> /\ Becomes(r, PollEvent(s)) /\ failed' = failed
      BY <2>10, Zenon DEF Poll
    <3> QED BY <2>a, <2>2, <3>1, PollEventType, PollKeeps
  <2>11. ASSUME NEW b \in BOOLEAN, Open(r, b) PROVE PairType'
    <3>1. OpenStream(s, b) \in Sessions
      BY <2>2, <2>11, OpenStreamType DEF Open
    <3> QED BY <2>a, <2>2, <2>11, <3>1, CallsKeep DEF Open
  <2>12. ASSUME NEW b \in BOOLEAN, GrowStreams(r, b) PROVE PairType'
    <3> DEFINE m == s.flow_control.max_streams_local[b]
    <3>1. PICK n \in Growth :
            /\ CanSendMaxStreams(s, m + n, b)
            /\ Becomes(r, SendMaxStreams(s, m + n, b))
      BY <2>12 DEF GrowStreams
    <3>2. m + n \in Nat
      <4>1. s.flow_control \in WtFlowControls
        BY <2>2 DEF Sessions
      <4>2. m \in Nat
        BY <4>1, MaxStreamsAssumption DEF WtFlowControls
      <4> QED BY <4>2, WtPairAssumption
    <3>3. SendMaxStreams(s, m + n, b) \in Sessions
      BY <2>2, <3>1, <3>2, CreditType
    <3>4. failed' = failed
      BY <2>12 DEF GrowStreams
    <3> QED BY <2>a, <2>2, <3>1, <3>3, <3>4, CallsKeep
  <2>13. ASSUME NEW id \in Ids, Reset(r, id) PROVE PairType'
    <3>1. CanResetStream(s, id) /\ Becomes(r, ResetStream(s, id)) /\ failed' = failed
      BY <2>13 DEF Reset
    <3> QED BY <2>a, <2>2, <3>1, ResetStreamType, ResetKeeps
  <2>14. ASSUME NEW id \in Ids, Stop(r, id) PROVE PairType'
    <3>1. CanStopSending(s, id) /\ Becomes(r, StopSending(s, id)) /\ failed' = failed
      BY <2>14 DEF Stop
    <3> QED BY <2>a, <2>2, <3>1, StopSendingType, CallsKeep
  <2>15. ASSUME NEW id \in Ids, GrowStreamData(r, id) PROVE PairType'
    <3> DEFINE m == s.streams[id].recv_max
    <3>1. PICK n \in Growth :
            /\ CanSendMaxStreamData(s, id, m + n)
            /\ Becomes(r, SendMaxStreamData(s, id, m + n))
      BY <2>15 DEF GrowStreamData
    <3>2. m + n \in Nat
      <4>1. s.streams[id] \in WtStreams
        BY <2>2, <3>1, KnownStream DEF CanSendMaxStreamData
      <4> QED BY <4>1, MaxValueAssumption, WtPairAssumption DEF WtStreams
    <3>3. SendMaxStreamData(s, id, m + n) \in Sessions
      BY <2>2, <3>1, <3>2, SendMaxStreamDataType
    <3>4. failed' = failed
      BY <2>15 DEF GrowStreamData
    <3> QED BY <2>a, <2>2, <3>1, <3>3, <3>4, CallsKeep
  <2>16. ASSUME NEW id \in Ids, NEW size \in Sizes, NEW fin \in BOOLEAN, SendData(r, id, size, fin)
         PROVE  PairType'
    <3>1. /\ CanSendStreamData(s, id, size) /\ Becomes(r, SendStreamData(s, id, size, fin))
          /\ failed' = failed /\ size \in Nat
      BY <2>16, WtPairAssumption DEF SendData
    <3> QED BY <2>a, <2>2, <3>1, SendStreamDataType, DataKeeps
  <2> QED BY <2>1, <2>3, <2>4, <2>5, <2>6, <2>7, <2>8, <2>9, <2>10, <2>11, <2>12, <2>13, <2>14,
             <2>15, <2>16
<1> QED BY <1>1, <1>2

LEMMA PairTyped == Spec => []PairType
<1>1. Init => PairType
  BY InitPairType
<1>2. PairType /\ [Next]_vars => PairType'
  BY NextPairType
<1> QED BY <1>1, <1>2, PTL DEF Spec

(* Every value of the session state of both ends stays in its type, for    *)
(* every number of streams and whatever the other end sends: the offsets   *)
(* and limits in the range of a variable-length integer, the numbers of    *)
(* streams within the protocol's, no stream outside the identifiers.       *)
THEOREM PairTypeCorrect == Spec => []TypeOK
<1>1. PairType => TypeOK
  <2> SUFFICES ASSUME PairType PROVE TypeOK
    OBVIOUS
  <2>1. \A r \in Roles : session[r] \in Sessions /\ session[r].role = r /\ session[r].output = << >>
    BY DEF PairType
  <2>2. ASSUME NEW r \in Roles
        PROVE  /\ session[r].state \in SessionStates /\ session[r].flow_control \in WtFlowControls
               /\ \A id \in DOMAIN session[r].streams :
                    id \in Ids /\ session[r].streams[id] \in WtStreams
    <3>1. session[r].state \in SessionStates /\ session[r].flow_control \in WtFlowControls
      BY <2>1 DEF Sessions
    <3>2. \A id \in DOMAIN session[r].streams : id \in Ids /\ session[r].streams[id] \in WtStreams
      BY <2>1, KnownStream DEF Known
    <3> QED BY <3>1, <3>2
  <2> QED BY <2>1, <2>2 DEF TypeOK, PairType
<1> QED BY <1>1, PairTyped, PTL

-----------------------------------------------------------------------------
(* The steps of the pair, as far as streams and events are concerned.      *)
SessionsOK == \A r \in Roles : SessionOK(session[r])

(* What no step does: end r acts.                                          *)
EndStep(r) ==
  /\ session'[Peer(r)] = session[Peer(r)]
  /\ SessionsOK'
  /\ \A x : Remembered(session[r], x) => Remembered(session'[r], x)
  /\ session[r].state = "Closed" => session'[r].state = "Closed"

CallStep(r) ==
  /\ EndStep(r) /\ wire'[Peer(r)] = wire[Peer(r)] /\ failed' = failed
  /\ session'[r].events = session[r].events

(* A call, or a capsule added, that writes no data and ends no stream.     *)
QuietStep(r) ==
  /\ CallStep(r) /\ UNCHANGED history
  /\ \/ wire'[r] = wire[r]
     \/ \E c \in Capsules :
          c.type \notin {"STREAM", "RESET_STREAM"} /\ wire'[r] = Append(wire[r], c)
  /\ \A x \in Ids : SendsLess(session[r], session'[r], x)

DataStep(r, id, size, fin) ==
  /\ CallStep(r) /\ HasSendPart(r, id) /\ Sending(session[r], id)
  /\ wire'[r] = Append(wire[r], [type |-> "STREAM", id |-> id, from |-> Sent(session[r], id),
                                 size |-> size, fin |-> fin])
  /\ \A x \in Ids \ {id} : SendsLess(session[r], session'[r], x)
  /\ Sending(session'[r], id) => ~fin /\ Sent(session'[r], id) = Sent(session[r], id) + size
  /\ written' = [written EXCEPT ![Pipe(r, id)] = @ + size]
  /\ ended' = [ended EXCEPT ![Pipe(r, id)] = IF fin THEN "fin" ELSE @]
  /\ UNCHANGED <<read, seen>>

(* The sending direction of a stream is reset.                             *)
Resets(r, id) ==
  /\ HasSendPart(r, id) /\ Sending(session[r], id) /\ ~Sending(session'[r], id)
  /\ wire'[r] = Append(wire[r], [type |-> "RESET_STREAM", id |-> id,
                                 reliable_size |-> Sent(session[r], id)])
  /\ \A x \in Ids \ {id} : SendsLess(session[r], session'[r], x)
  /\ ended' = [ended EXCEPT ![Pipe(r, id)] = "reset"]

ResetStep(r, id) == CallStep(r) /\ Resets(r, id) /\ UNCHANGED <<written, read, seen>>

LEMMA BecomesFacts ==
  ASSUME PairType, SessionsOK, NEW r \in Roles, NEW t \in Sessions, SessionOK(t), Becomes(r, t)
  PROVE  /\ session'[Peer(r)] = session[Peer(r)] /\ wire'[Peer(r)] = wire[Peer(r)]
         /\ session'[r] = Flushed(t) /\ wire'[r] = wire[r] \o t.output
         /\ SessionsOK'
<1>1. Peer(r) \in Roles /\ Peer(r) # r /\ \A x \in Roles : x = r \/ x = Peer(r)
  BY PeerFacts
<1>2. /\ session' = [session EXCEPT ![r] = Flushed(t)]
      /\ wire' = [wire EXCEPT ![r] = @ \o t.output]
  BY DEF Becomes, Flushed
<1>3. SessionOK(Flushed(t))
  BY FlushedViews
<1> HIDE DEF Flushed
<1>4. /\ session'[Peer(r)] = session[Peer(r)] /\ wire'[Peer(r)] = wire[Peer(r)]
      /\ session'[r] = Flushed(t) /\ wire'[r] = wire[r] \o t.output
  BY <1>1, <1>2 DEF PairType
<1>5. SessionsOK'
  BY <1>1, <1>3, <1>4 DEF SessionsOK
<1> QED BY <1>4, <1>5

(* A call that leaves the session t.                                       *)
LEMMA CallFacts ==
  ASSUME PairType, SessionsOK, NEW r \in Roles, NEW t \in Sessions, SessionOK(t), Becomes(r, t),
         failed' = failed, t.events = session[r].events,
         \A x : Remembered(session[r], x) => Remembered(t, x),
         session[r].state = "Closed" => t.state = "Closed"
  PROVE  /\ CallStep(r)
         /\ wire[r] \in Seq(Capsules)
         /\ wire'[r] = wire[r] \o t.output
         /\ \A x \in Ids : SendsLess(session[r], t, x) => SendsLess(session[r], session'[r], x)
         /\ \A x : (Sending(session'[r], x) <=> Sending(t, x)) /\ Sent(session'[r], x) = Sent(t, x)
<1>1. /\ session'[Peer(r)] = session[Peer(r)] /\ wire'[Peer(r)] = wire[Peer(r)]
      /\ session'[r] = Flushed(t) /\ wire'[r] = wire[r] \o t.output
      /\ SessionsOK'
  BY BecomesFacts
<1> DEFINE u == Flushed(t)
<1>2. /\ AllAlike(t, u) /\ SameRemembered(t, u)
      /\ u.state = t.state /\ u.events = t.events
      /\ \A x : (Sending(u, x) <=> Sending(t, x)) /\ Sent(u, x) = Sent(t, x)
  BY FlushedViews
<1> HIDE DEF u
<1>3. session'[r] = u
  BY <1>1 DEF u
<1>4. CallStep(r)
  BY <1>1, <1>2, <1>3 DEF CallStep, EndStep, SameRemembered
<1>5. \A x \in Ids : SendsLess(session[r], t, x) => SendsLess(session[r], session'[r], x)
  BY <1>2, <1>3 DEF SendsLess
<1>6. wire[r] \in Seq(Capsules)
  BY DEF PairType
<1> QED BY <1>1, <1>2, <1>3, <1>4, <1>5, <1>6

LEMMA JoinPlaces ==
  ASSUME NEW V, NEW l \in Seq(V), NEW m \in Seq(V)
  PROVE  \A j \in Len(l) + 1 .. Len(l) + Len(m) : (l \o m)[j] = m[j - Len(l)]
  OBVIOUS

(* process accepts the next capsule; it may answer with a reset.           *)
TakeStep(r) ==
  LET q == Peer(r)
      c == Head(wire[q])
  IN  /\ EndStep(r) /\ wire[q] # << >> /\ r \notin failed
      /\ wire'[q] = Tail(wire[q]) /\ failed' = failed
      /\ \/ wire'[r] = wire[r] /\ ended' = ended
            /\ \A x \in Ids : SendsLess(session[r], session'[r], x)
         \/ \E id \in Ids : Resets(r, id)
      /\ \E t \in Sessions :
           /\ Takes(session[r], t, c)
           /\ session'[r].events = t.events /\ session'[r].state = t.state
           /\ SameRemembered(t, session'[r])
      /\ UNCHANGED <<written, read, seen>>

FailStep(r) ==
  /\ session' = session /\ wire[Peer(r)] # << >>
  /\ failed' = failed \cup {r}
  /\ wire'[r] = wire[r] /\ wire'[Peer(r)] = Tail(wire[Peer(r)])
  /\ UNCHANGED history

PollStep(r) ==
  LET event == Head(session[r].events)
      pipe  == Pipe(Peer(r), event.id)
  IN  /\ EndStep(r) /\ wire'[r] = wire[r] /\ wire'[Peer(r)] = wire[Peer(r)] /\ failed' = failed
      /\ session[r].events # << >> /\ session'[r].events = Tail(session[r].events)
      /\ session'[r].state = session[r].state
      /\ \A x \in Ids : SendsLess(session[r], session'[r], x)
      /\ read' = IF event.type = "StreamData"
                 THEN [read EXCEPT ![pipe] = @ \o [k \in 1 .. event.size |-> event.from + k]]
                 ELSE read
      /\ seen' = IF event.type = "StreamData" /\ event.fin
                 THEN [seen EXCEPT ![pipe] = "fin"]
                 ELSE IF event.type = "StreamReset" THEN [seen EXCEPT ![pipe] = "reset"]
                 ELSE seen
      /\ UNCHANGED <<written, ended>>

LEMMA QuietCallStep ==
  ASSUME PairType, SessionsOK, NEW r \in Roles, NEW t \in QuietCalls(session[r]), t \in Sessions,
         Becomes(r, t), failed' = failed, UNCHANGED history,
         session[r].state = "Closed" => t.state = "Closed"
  PROVE  QuietStep(r)
<1> DEFINE s == session[r]
<1>1. s \in Sessions /\ s.output = << >> /\ SessionOK(s)
  BY DEF PairType, SessionsOK
<1>2. /\ SameMaps(s, t) /\ t.events = s.events
      /\ t.output = << >> \/ \E c \in QuietCapsules : t.output = <<c>>
  BY <1>1, QuietEffect
<1>3. AllAlike(s, t) /\ SameRemembered(s, t) /\ SessionOK(t)
  BY <1>1, <1>2, SameViews
<1>4. \A x : Remembered(s, x) => Remembered(t, x)
  BY <1>3 DEF SameRemembered
<1>5. /\ CallStep(r) /\ wire[r] \in Seq(Capsules)
      /\ wire'[r] = wire[r] \o t.output
      /\ \A x \in Ids : SendsLess(s, t, x) => SendsLess(s, session'[r], x)
  BY <1>2, <1>3, <1>4, CallFacts
<1>6. \A x \in Ids : SendsLess(s, t, x)
  BY <1>3, AlikeSendsLess DEF AllAlike
<1>7. \/ wire'[r] = wire[r]
      \/ \E c \in Capsules :
           c.type \notin {"STREAM", "RESET_STREAM"} /\ wire'[r] = Append(wire[r], c)
  <2>1. CASE t.output = << >>
    BY <1>5, <2>1, JoinOne
  <2>2. CASE \E c \in QuietCapsules : t.output = <<c>>
    <3>1. PICK c \in QuietCapsules : t.output = <<c>>
      BY <2>2
    <3>2. c \in Capsules /\ c.type \notin {"STREAM", "RESET_STREAM"}
      BY DEF QuietCapsules
    <3>3. wire'[r] = Append(wire[r], c)
      BY <1>5, <3>1, JoinOne
    <3> QED BY <3>2, <3>3
  <2> QED BY <1>2, <2>1, <2>2
<1> QED BY <1>5, <1>6, <1>7 DEF QuietStep

(* A call on one stream that leaves its sending direction alone.           *)
LEMMA OneStreamStep ==
  ASSUME PairType, SessionsOK, NEW r \in Roles, NEW t, NEW id \in Ids, NEW st, NEW c \in Capsules,
         Known(session[r], id), OnlyStream(session[r], t, id, st),
         HasSendPart(r, id) => (CanSend(st) => CanSend(session[r].streams[id]))
                               /\ st.send_offset = session[r].streams[id].send_offset,
         t.events = session[r].events, t.output = <<c>>, c.type \notin {"STREAM", "RESET_STREAM"},
         Becomes(r, t), failed' = failed, UNCHANGED history
  PROVE  QuietStep(r)
<1> DEFINE s == session[r]
<1>1. s \in Sessions /\ s.output = << >> /\ SessionOK(s) /\ s.role = r
  BY DEF PairType, SessionsOK
<1>2. /\ t \in Sessions /\ SessionOK(t) /\ Kept(s, t) /\ Became(s, t, id, st) /\ t.state = s.state
  BY DEF OnlyStream
<1>3. \A x : Remembered(s, x) => Remembered(t, x)
  BY <1>2 DEF Became
<1>4. /\ CallStep(r) /\ wire[r] \in Seq(Capsules)
      /\ wire'[r] = wire[r] \o t.output
      /\ \A x \in Ids : SendsLess(s, t, x) => SendsLess(s, session'[r], x)
  BY <1>2, <1>3, CallFacts
<1>5. wire'[r] = Append(wire[r], c)
  BY <1>4, JoinOne
<1>6. \A x \in Ids \ {id} : SendsLess(s, t, x)
  BY <1>2, AlikeSendsLess DEF Became
<1>7. SendsLess(s, t, id)
  <2>1. SUFFICES ASSUME HasSendPart(s.role, id), Sending(t, id)
                 PROVE  Sending(s, id) /\ Sent(t, id) = Sent(s, id)
    BY DEF SendsLess
  <2>2. CanSend(st) /\ Sent(t, id) = st.send_offset
    BY <1>2, <2>1 DEF Became
  <2>3. (Sending(s, id) <=> CanSend(s.streams[id])) /\ Sent(s, id) = s.streams[id].send_offset
    BY <1>1, KnownViews
  <2>4. CanSend(s.streams[id]) /\ st.send_offset = s.streams[id].send_offset
    BY <1>1, <2>1, <2>2
  <2> QED BY <2>2, <2>3, <2>4
<1> QED BY <1>4, <1>5, <1>6, <1>7 DEF QuietStep

LEMMA OpenStep ==
  ASSUME PairType, SessionsOK, NEW r \in Roles, NEW b \in BOOLEAN, Open(r, b)
  PROVE  QuietStep(r)
<1> DEFINE s == session[r]
           t == OpenStream(s, b)
<1>1. s \in Sessions /\ s.output = << >> /\ SessionOK(s) /\ s.role = r
  BY DEF PairType, SessionsOK
<1>2. /\ CanOpen(s, b) /\ s.next_stream_id[b] \in Ids /\ Becomes(r, t)
      /\ failed' = failed /\ UNCHANGED history
  BY DEF Open
<1> HIDE DEF s
<1>3. /\ t \in Sessions /\ SessionOK(t) /\ AllAlike(s, t)
      /\ \A x : Remembered(t, x) <=> Remembered(s, x) \/ x = s.next_stream_id[b]
      /\ t.events = s.events /\ t.output = s.output /\ t.state = s.state
  <2> DEFINE id == s.next_stream_id[b]
  <2>1. /\ t \in Sessions /\ SessionOK(t) /\ Kept(s, t)
        /\ AllAlike(s, t)
        /\ \A x : Remembered(t, x) <=> Remembered(s, x) \/ x = id
        /\ id % 4 = FirstId(s.role, b) /\ ~IsPeerInitiated(s.role, id)
        /\ (IsBidirectional(id) <=> b) /\ ~Remembered(s, id)
        /\ t.events = s.events /\ t.output = s.output /\ t.state = s.state
        /\ t.stop_sending_received_ids = s.stop_sending_received_ids
        /\ t.flow_control = [s.flow_control EXCEPT !.opened_streams[b] = @ + 1]
    BY <1>1, <1>2, OpenEffect, Zenon
  <2> QED BY <2>1
<1> HIDE DEF t
<1> USE DEF s
<1>4. /\ CallStep(r) /\ wire[r] \in Seq(Capsules)
      /\ wire'[r] = wire[r] \o t.output
      /\ \A x \in Ids : SendsLess(s, t, x) => SendsLess(s, session'[r], x)
  BY <1>2, <1>3, CallFacts
<1>5. wire'[r] = wire[r]
  BY <1>1, <1>3, <1>4, JoinOne
<1>6. \A x \in Ids : SendsLess(s, t, x)
  BY <1>3, AlikeSendsLess DEF AllAlike
<1> QED BY <1>2, <1>4, <1>5, <1>6 DEF QuietStep

LEMMA DataStepOf ==
  ASSUME Few, PairType, SessionsOK, NEW r \in Roles, NEW id \in Ids, NEW size \in Nat,
         NEW fin \in BOOLEAN, SendData(r, id, size, fin)
  PROVE  DataStep(r, id, size, fin)
<1> DEFINE s  == session[r]
           t  == SendStreamData(s, id, size, fin)
           a  == s.streams[id]
           st == AfterSendData(a, size, fin)
<1>1. s \in Sessions /\ s.output = << >> /\ SessionOK(s) /\ s.role = r
  BY DEF PairType, SessionsOK
<1>2. /\ CanSendStreamData(s, id, size) /\ Becomes(r, t) /\ failed' = failed
      /\ written' = [written EXCEPT ![Pipe(r, id)] = @ + size]
      /\ ended' = [ended EXCEPT ![Pipe(r, id)] = IF fin THEN "fin" ELSE @]
      /\ UNCHANGED <<read, seen>>
  BY DEF SendData
<1>3. /\ OnlyStream(s, t, id, st) /\ st \in WtStreams /\ a \in WtStreams
      /\ t.events = s.events /\ t.output = <<StreamCapsule(s, id, size, fin)>>
  <2>1. SendsData(s, t, id, size, fin)
    BY <1>1, <1>2, DataEffect
  <2> QED BY <2>1, Zenon DEF SendsData
<1>4. Known(s, id) /\ HasSendPart(r, id) /\ CanSend(a)
  BY <1>1, <1>2 DEF CanSendStreamData, CanSendDataOf
<1>5. (Sending(s, id) <=> CanSend(a)) /\ Sent(s, id) = a.send_offset
  BY <1>1, <1>4, KnownViews
<1>6. /\ st.send_offset = a.send_offset + size
      /\ CanSend(st) => ~fin
  BY <1>3 DEF AfterSendData, WtStreams, CanSend
<1>7. StreamCapsule(s, id, size, fin) =
        [type |-> "STREAM", id |-> id, from |-> Sent(s, id), size |-> size, fin |-> fin]
  BY <1>5 DEF StreamCapsule
<1> HIDE DEF t, st, a
<1>8. t \in Sessions /\ SessionOK(t) /\ Kept(s, t) /\ Became(s, t, id, st) /\ t.state = s.state
  BY <1>3 DEF OnlyStream
<1>9. \A x : Remembered(s, x) => Remembered(t, x)
  BY <1>8 DEF Became
<1>10. /\ CallStep(r) /\ wire[r] \in Seq(Capsules)
       /\ wire'[r] = wire[r] \o t.output
       /\ \A x \in Ids : SendsLess(s, t, x) => SendsLess(s, session'[r], x)
       /\ \A x : (Sending(session'[r], x) <=> Sending(t, x)) /\ Sent(session'[r], x) = Sent(t, x)
  BY <1>2, <1>3, <1>8, <1>9, CallFacts
<1>11. wire'[r] = Append(wire[r], [type |-> "STREAM", id |-> id, from |-> Sent(s, id),
                                   size |-> size, fin |-> fin])
  BY <1>3, <1>7, <1>10, JoinOne
<1>12. \A x \in Ids \ {id} : SendsLess(s, session'[r], x)
  BY <1>8, <1>10, AlikeSendsLess DEF Became
<1>13. ASSUME Sending(session'[r], id)
       PROVE  ~fin /\ Sent(session'[r], id) = Sent(s, id) + size
  <2>1. Sending(t, id) /\ Sent(session'[r], id) = Sent(t, id)
    BY <1>10, <1>13
  <2>2. CanSend(st) /\ Sent(t, id) = st.send_offset
    BY <1>1, <1>4, <1>8, <2>1 DEF Became
  <2> QED BY <1>5, <1>6, <2>1, <2>2
<1> QED BY <1>2, <1>4, <1>5, <1>10, <1>11, <1>12, <1>13 DEF DataStep

LEMMA ResetStepOf ==
  ASSUME Few, PairType, SessionsOK, NEW r \in Roles, NEW id \in Ids, Reset(r, id)
  PROVE  ResetStep(r, id)
<1> DEFINE s  == session[r]
           t  == ResetStream(s, id)
           a  == s.streams[id]
           st == AfterSendReset(a)
<1>1. s \in Sessions /\ s.output = << >> /\ SessionOK(s) /\ s.role = r
  BY DEF PairType, SessionsOK
<1>2. /\ CanResetStream(s, id) /\ Becomes(r, t) /\ failed' = failed
      /\ ended' = [ended EXCEPT ![Pipe(r, id)] = "reset"]
      /\ UNCHANGED <<written, read, seen>>
  BY DEF Reset
<1>3. /\ OnlyStream(s, t, id, st) /\ st \in WtStreams /\ a \in WtStreams
      /\ t.events = s.events /\ t.output = <<ResetCapsule(s, id)>>
  BY <1>1, <1>2, ResetEffect
<1>4. Known(s, id) /\ HasSendPart(r, id) /\ CanSend(a)
  BY <1>1, <1>2 DEF CanResetStream
<1>5. (Sending(s, id) <=> CanSend(a)) /\ Sent(s, id) = a.send_offset
  BY <1>1, <1>4, KnownViews
<1>6. ~CanSend(st)
  BY <1>3 DEF AfterSendReset, WtStreams, CanSend
<1>7. ResetCapsule(s, id) = [type |-> "RESET_STREAM", id |-> id, reliable_size |-> Sent(s, id)]
  BY <1>5 DEF ResetCapsule
<1> HIDE DEF t, st, a
<1>8. t \in Sessions /\ SessionOK(t) /\ Kept(s, t) /\ Became(s, t, id, st) /\ t.state = s.state
  BY <1>3 DEF OnlyStream
<1>9. \A x : Remembered(s, x) => Remembered(t, x)
  BY <1>8 DEF Became
<1>10. /\ CallStep(r) /\ wire[r] \in Seq(Capsules)
       /\ wire'[r] = wire[r] \o t.output
       /\ \A x \in Ids : SendsLess(s, t, x) => SendsLess(s, session'[r], x)
       /\ \A x : (Sending(session'[r], x) <=> Sending(t, x)) /\ Sent(session'[r], x) = Sent(t, x)
  BY <1>2, <1>3, <1>8, <1>9, CallFacts
<1>11. wire'[r] = Append(wire[r], [type |-> "RESET_STREAM", id |-> id,
                                   reliable_size |-> Sent(s, id)])
  BY <1>3, <1>7, <1>10, JoinOne
<1>12. \A x \in Ids \ {id} : SendsLess(s, session'[r], x)
  BY <1>8, <1>10, AlikeSendsLess DEF Became
<1>13. ~Sending(session'[r], id)
  <2>1. Sending(t, id) <=> CanSend(st)
    BY <1>1, <1>4, <1>8 DEF Became
  <2> QED BY <1>6, <1>10, <2>1
<1> QED BY <1>2, <1>4, <1>5, <1>10, <1>11, <1>12, <1>13 DEF ResetStep, Resets

LEMMA StopStep ==
  ASSUME PairType, SessionsOK, NEW r \in Roles, NEW id \in Ids, Stop(r, id)
  PROVE  QuietStep(r)
<1> DEFINE s  == session[r]
           t  == StopSending(s, id)
           a  == s.streams[id]
           st == [a EXCEPT !.stop_sending_sent = TRUE]
           c  == [type |-> "STOP_SENDING", id |-> id]
<1>1. s \in Sessions /\ s.output = << >> /\ SessionOK(s) /\ s.role = r
  BY DEF PairType, SessionsOK
<1>2. CanStopSending(s, id) /\ Becomes(r, t) /\ failed' = failed /\ UNCHANGED history
  BY DEF Stop
<1>3. /\ OnlyStream(s, t, id, st) /\ st \in WtStreams /\ a \in WtStreams
      /\ t.events = s.events /\ t.output = <<c>>
  BY <1>1, <1>2, StopEffect
<1>4. Known(s, id)
  BY <1>2 DEF CanStopSending
<1>5. st.send_state = a.send_state /\ st.send_offset = a.send_offset
  BY <1>3 DEF WtStreams
<1>6. (CanSend(st) => CanSend(a)) /\ st.send_offset = a.send_offset
  BY <1>5 DEF CanSend
<1>7. c \in Capsules /\ c.type \notin {"STREAM", "RESET_STREAM"}
  BY DEF Capsules
<1> HIDE DEF t, st, c
<1> QED BY <1>2, <1>3, <1>4, <1>6, <1>7, OneStreamStep

LEMMA GrowStreamStep ==
  ASSUME PairType, SessionsOK, NEW r \in Roles, NEW id \in Ids, GrowStreamData(r, id)
  PROVE  QuietStep(r)
<1> DEFINE s == session[r]
           a == s.streams[id]
<1>1. s \in Sessions /\ s.output = << >> /\ SessionOK(s) /\ s.role = r
  BY DEF PairType, SessionsOK
<1>2. PICK n \in Growth :
        /\ CanSendMaxStreamData(s, id, a.recv_max + n)
        /\ Becomes(r, SendMaxStreamData(s, id, a.recv_max + n))
  BY DEF GrowStreamData
<1>3. failed' = failed /\ UNCHANGED history /\ Known(s, id)
  BY DEF GrowStreamData
<1>4. a \in WtStreams
  BY <1>1, <1>3, KnownStream
<1>5. a.recv_max + n \in Nat
  BY <1>4, MaxValueAssumption, WtPairAssumption DEF WtStreams
<1> DEFINE m  == a.recv_max + n
           t  == SendMaxStreamData(s, id, m)
           st == AfterUpdateRecvMax(a, m)
           c  == [type |-> "MAX_STREAM_DATA", id |-> id, maximum |-> m]
<1>6. m \in Nat /\ CanSendMaxStreamData(s, id, m) /\ Becomes(r, t)
  BY <1>2, <1>5
<1> HIDE DEF m
<1>7. /\ OnlyStream(s, t, id, st) /\ st \in WtStreams
      /\ t.events = s.events /\ t.output = <<c>>
  BY <1>1, <1>6, GrowStreamEffect
<1>8. st.send_state = a.send_state /\ st.send_offset = a.send_offset
  BY <1>4 DEF WtStreams, AfterUpdateRecvMax
<1>9. (CanSend(st) => CanSend(a)) /\ st.send_offset = a.send_offset
  BY <1>8 DEF CanSend
<1>10. c \in Capsules /\ c.type \notin {"STREAM", "RESET_STREAM"}
  BY <1>1, <1>6, SendMaxStreamDataType
<1> HIDE DEF t, st, c
<1> QED BY <1>3, <1>6, <1>7, <1>9, <1>10, OneStreamStep

LEMMA PollStepOf ==
  ASSUME Few, PairType, SessionsOK, NEW r \in Roles, Poll(r)
  PROVE  PollStep(r)
<1> DEFINE s == session[r]
           t == PollEvent(s)
           event == Head(s.events)
           pipe  == Pipe(Peer(r), event.id)
<1>1. s \in Sessions /\ s.output = << >> /\ SessionOK(s) /\ s.role = r /\ wire[r] \in Seq(Capsules)
  BY DEF PairType, SessionsOK
<1>2. /\ s.events # << >> /\ Becomes(r, t) /\ failed' = failed /\ UNCHANGED <<written, ended>>
      /\ read' = IF event.type = "StreamData"
                 THEN [read EXCEPT ![pipe] = @ \o [k \in 1 .. event.size |-> event.from + k]]
                 ELSE read
      /\ seen' = IF event.type = "StreamData" /\ event.fin
                 THEN [seen EXCEPT ![pipe] = "fin"]
                 ELSE IF event.type = "StreamReset" THEN [seen EXCEPT ![pipe] = "reset"]
                 ELSE seen
  BY Zenon DEF Poll
<1>3. /\ t \in Sessions /\ SessionOK(t) /\ Kept(s, t)
      /\ AllAlike(s, t) /\ SameRemembered(s, t)
      /\ t.events = Tail(s.events) /\ t.output = s.output /\ t.state = s.state
  BY <1>1, <1>2, PollEffect
<1> HIDE DEF t
<1>4. /\ session'[Peer(r)] = session[Peer(r)] /\ wire'[Peer(r)] = wire[Peer(r)]
      /\ session'[r] = Flushed(t) /\ wire'[r] = wire[r] \o t.output
      /\ SessionsOK'
  BY <1>2, <1>3, BecomesFacts
<1> DEFINE u == Flushed(t)
<1>5. /\ AllAlike(t, u) /\ SameRemembered(t, u)
      /\ u.state = t.state /\ u.events = t.events
      /\ \A x : (Sending(u, x) <=> Sending(t, x)) /\ Sent(u, x) = Sent(t, x)
  BY <1>3, FlushedViews
<1> HIDE DEF u
<1>6. session'[r] = u
  BY <1>4 DEF u
<1>7. wire'[r] = wire[r]
  BY <1>1, <1>3, <1>4, JoinOne
<1>8. \A x \in Ids : SendsLess(s, t, x)
  BY <1>3, AlikeSendsLess DEF AllAlike
<1>9. \A x \in Ids : SendsLess(s, session'[r], x)
  BY <1>5, <1>6, <1>8 DEF SendsLess
<1>10. EndStep(r)
  BY <1>3, <1>4, <1>5, <1>6 DEF EndStep, SameRemembered
<1>11. session'[r].events = Tail(s.events) /\ session'[r].state = s.state
  BY <1>3, <1>5, <1>6
<1> QED BY <1>2, <1>4, <1>7, <1>9, <1>10, <1>11, Zenon DEF PollStep

LEMMA ProcessStep ==
  ASSUME Few, PairType, SessionsOK, NEW r \in Roles, Process(r)
  PROVE  TakeStep(r) \/ FailStep(r)
<1> DEFINE q == Peer(r)
           s == session[r]
           c == Head(wire[q])
           t == Accepted(s, c)
<1>1. q \in Roles /\ q # r /\ \A x \in Roles : x = r \/ x = q
  BY PeerFacts
<1>2. /\ wire[q] # << >> /\ wire[q] \in Seq(Capsules) /\ s \in Sessions /\ s.role = r
      /\ s.output = << >> /\ SessionOK(s) /\ r \notin failed /\ wire[r] \in Seq(Capsules)
  BY <1>1, Zenon DEF Process, PairType, SessionsOK
<1>3. c \in Capsules
  <2>1. wire[q] # << >> /\ wire[q] \in Seq(Capsules)
    BY <1>2
  <2> HIDE DEF q
  <2> QED BY <2>1
<1>4. CASE Refused(s, c)
  <2>1. failed' = failed \cup {r} /\ session' = session /\ wire' = [wire EXCEPT ![q] = Tail(@)]
        /\ UNCHANGED history
    BY <1>4, Zenon DEF Process, history
  <2>2. wire'[q] = Tail(wire[q]) /\ wire'[r] = wire[r]
    <3> HIDE DEF q
    <3> QED BY <1>1, <2>1 DEF PairType
  <2>3. FailStep(r)
    BY <1>2, <2>1, <2>2 DEF FailStep
  <2> QED BY <2>3
<1>5. CASE ~Refused(s, c)
  <2>1. /\ session' = [session EXCEPT ![r] = Flushed(t)] /\ failed' = failed
        /\ wire' = [wire EXCEPT ![q] = Tail(@), ![r] = @ \o t.output]
        /\ ended' = IF t.output # << >> THEN [ended EXCEPT ![Pipe(r, c.id)] = "reset"] ELSE ended
        /\ written' = written /\ read' = read /\ seen' = seen
    BY <1>5, Zenon DEF Process, Flushed
  <2>2. Takes(s, t, c)
    BY <1>2, <1>3, <1>5, TakesEffect
  <2> HIDE DEF c, t
  <2>3. /\ t \in Sessions /\ SessionOK(t) /\ Kept(s, t)
        /\ \A x : Remembered(s, x) => Remembered(t, x)
    BY <1>2, <2>2, TakesOK
  <2> DEFINE u == Flushed(t)
  <2>4. /\ SameRemembered(t, u) /\ SessionOK(u)
        /\ u.state = t.state /\ u.events = t.events
        /\ \A x : (Sending(u, x) <=> Sending(t, x)) /\ Sent(u, x) = Sent(t, x)
    BY <2>3, FlushedViews
  <2> HIDE DEF u
  <2>5. session'[r] = u /\ session'[q] = session[q]
    <3> HIDE DEF q
    <3> QED BY <1>1, <2>1 DEF PairType, u
  <2>6. wire'[q] = Tail(wire[q]) /\ wire'[r] = wire[r] \o t.output
    <3> HIDE DEF q
    <3> QED BY <1>1, <2>1 DEF PairType
  <2>7. s.state = "Closed" => u.state = "Closed"
    BY <2>2, <2>4, TakesState
  <2>8. EndStep(r)
    <3>1. SessionsOK'
      BY <1>1, <2>4, <2>5 DEF SessionsOK
    <3> QED BY <2>3, <2>4, <2>5, <2>7, <3>1 DEF EndStep, SameRemembered
  <2>9. \/ wire'[r] = wire[r] /\ ended' = ended /\ \A x \in Ids : SendsLess(s, session'[r], x)
        \/ \E id \in Ids : Resets(r, id)
    <3>1. \/ t.output = << >> /\ \A x \in Ids : SendsLess(s, t, x)
          \/ /\ c.id \in Ids /\ HasSendPart(s.role, c.id) /\ Sending(s, c.id) /\ ~Sending(t, c.id)
             /\ t.output = <<[type |-> "RESET_STREAM", id |-> c.id, reliable_size |-> Sent(s, c.id)]>>
             /\ \A x \in Ids \ {c.id} : SendsLess(s, t, x)
      BY <1>2, <2>2, TakesOutput
    <3>2. CASE t.output = << >> /\ \A x \in Ids : SendsLess(s, t, x)
      <4>1. wire'[r] = wire[r] /\ ended' = ended
        BY <1>2, <2>1, <2>6, <3>2, JoinOne
      <4>2. \A x \in Ids : SendsLess(s, session'[r], x)
        BY <2>4, <2>5, <3>2 DEF SendsLess
      <4> QED BY <4>1, <4>2
    <3>3. CASE /\ c.id \in Ids /\ HasSendPart(s.role, c.id) /\ Sending(s, c.id) /\ ~Sending(t, c.id)
               /\ t.output = <<[type |-> "RESET_STREAM", id |-> c.id, reliable_size |-> Sent(s, c.id)]>>
               /\ \A x \in Ids \ {c.id} : SendsLess(s, t, x)
      <4> DEFINE id == c.id
                 e  == [type |-> "RESET_STREAM", id |-> id, reliable_size |-> Sent(s, id)]
      <4>1. id \in Ids /\ HasSendPart(r, id) /\ Sending(s, id) /\ ~Sending(session'[r], id)
        BY <1>2, <2>4, <2>5, <3>3
      <4>2. \A x \in Ids \ {id} : SendsLess(s, session'[r], x)
        BY <2>4, <2>5, <3>3 DEF SendsLess
      <4>3. t.output = <<e>>
        BY <3>3
      <4>4. ended' = [ended EXCEPT ![Pipe(r, id)] = "reset"]
        <5>1. t.output # << >>
          BY <4>3
        <5> QED BY <2>1, <5>1, Zenon
      <4> HIDE DEF e
      <4>5. wire'[r] = Append(wire[r], e)
        BY <1>2, <2>6, <4>3, JoinOne
      <4>6. Resets(r, id)
        BY <4>1, <4>2, <4>4, <4>5 DEF Resets, e
      <4> QED BY <4>1, <4>6
    <3> QED BY <3>1, <3>2, <3>3
  <2>10. \E v \in Sessions :
           /\ Takes(s, v, c)
           /\ session'[r].events = v.events /\ session'[r].state = v.state
           /\ SameRemembered(v, session'[r])
    BY <2>2, <2>3, <2>4, <2>5
  <2>11. TakeStep(r)
    BY <1>2, <2>1, <2>6, <2>8, <2>9, <2>10, Zenon DEF TakeStep, c
  <2> QED BY <2>11
<1> QED BY <1>4, <1>5

PairStep(r) ==
  \/ QuietStep(r) \/ TakeStep(r) \/ FailStep(r) \/ PollStep(r)
  \/ \E id \in Ids : ResetStep(r, id)
  \/ \E id \in Ids, size \in Nat, fin \in BOOLEAN : DataStep(r, id, size, fin)

LEMMA StepsOf ==
  ASSUME Few, PairType, SessionsOK, Next
  PROVE  \E r \in Roles : PairStep(r)
<1>1. PICK r \in Roles :
        \/ Initiate(r) \/ Datagram(r) \/ CloseSession(r) \/ DrainSession(r)
        \/ GrowData(r) \/ SendExtra(r) \/ Process(r) \/ Poll(r)
        \/ \E b \in BOOLEAN : Open(r, b) \/ GrowStreams(r, b)
        \/ \E id \in Ids :
             \/ Reset(r, id) \/ Stop(r, id) \/ GrowStreamData(r, id)
             \/ \E size \in Sizes, fin \in BOOLEAN : SendData(r, id, size, fin)
  BY Zenon DEF Next
<1> DEFINE s == session[r]
<1>2. s \in Sessions /\ s.role = r
  BY DEF PairType
<1>a. ASSUME QuietStep(r) PROVE PairStep(r)
  BY <1>a DEF PairStep
<1>3. CASE Initiate(r)
  <2>a. Initiated(s) \in QuietCalls(s)
    BY DEF QuietCalls
  <2>b. s.state # "Closed"
    BY <1>3 DEF Initiate, CanInitiate
  <2>c. Initiated(s) \in Sessions
    BY <1>2 DEF Initiated, Sessions, SessionStates
  <2>1. Initiated(s) \in Sessions /\ s.state # "Closed" /\ Initiated(s) \in QuietCalls(s)
    BY <2>a, <2>b, <2>c
  <2>2. QuietStep(r)
    BY <1>3, <2>1, QuietCallStep DEF Initiate
  <2> QED BY <1>a, <2>2
<1>4. CASE Datagram(r)
  <2>1. SendDatagram(s) \in Sessions
    <3>1. [type |-> "DATAGRAM"] \in Capsules
      BY DEF Capsules
    <3> QED BY <1>2, <3>1, EmitType DEF SendDatagram
  <2>2. SendDatagram(s) \in QuietCalls(s)
    BY DEF QuietCalls
  <2>3. SendDatagram(s).state = s.state
    BY <1>2, QuietState
  <2>4. QuietStep(r)
    BY <1>4, <2>1, <2>2, <2>3, QuietCallStep DEF Datagram
  <2> QED BY <1>a, <2>4
<1>5. CASE CloseSession(r)
  <2>1. Close(s) \in Sessions
    <3>1. [type |-> "CLOSE_SESSION"] \in Capsules
      BY DEF Capsules
    <3>2. [s EXCEPT !.state = "Closed"] \in Sessions
      BY <1>2 DEF Sessions, SessionStates
    <3> QED BY <3>1, <3>2, EmitType DEF Close
  <2>2. Close(s) \in QuietCalls(s)
    BY DEF QuietCalls
  <2>3. Close(s).state = "Closed"
    BY <1>2, QuietState
  <2>4. QuietStep(r)
    BY <1>5, <2>1, <2>2, <2>3, QuietCallStep DEF CloseSession
  <2> QED BY <1>a, <2>4
<1>6. CASE DrainSession(r)
  <2>1. Drain(s) \in Sessions
    <3>1. [type |-> "DRAIN_SESSION"] \in Capsules
      BY DEF Capsules
    <3>2. [s EXCEPT !.state = "Draining"] \in Sessions
      BY <1>2 DEF Sessions, SessionStates
    <3> QED BY <3>1, <3>2, EmitType DEF Drain
  <2>2. Drain(s) \in QuietCalls(s)
    BY DEF QuietCalls
  <2>3. s.state # "Closed"
    BY <1>6 DEF DrainSession, CanDrain
  <2>4. QuietStep(r)
    BY <1>6, <2>1, <2>2, <2>3, QuietCallStep DEF DrainSession
  <2> QED BY <1>a, <2>4
<1>7. CASE GrowData(r)
  <2>1. PICK n \in Growth :
          /\ CanSendMaxData(s, s.flow_control.recv_max + n)
          /\ Becomes(r, SendMaxData(s, s.flow_control.recv_max + n))
    BY <1>7 DEF GrowData
  <2> DEFINE m == s.flow_control.recv_max + n
             t == SendMaxData(s, m)
  <2>2. m \in Nat
    <3>1. s.flow_control \in WtFlowControls
      BY <1>2 DEF Sessions
    <3> QED BY <3>1, MaxValueAssumption, WtPairAssumption DEF WtFlowControls
  <2>3. t \in Sessions
    BY <1>2, <2>1, <2>2, CreditType
  <2>4. failed' = failed /\ UNCHANGED history /\ Becomes(r, t)
    BY <1>7, <2>1 DEF GrowData
  <2> HIDE DEF m
  <2>5. t \in QuietCalls(s)
    BY <2>2 DEF QuietCalls
  <2>6. t.state = s.state
    BY <1>2, QuietState
  <2> HIDE DEF t
  <2>7. QuietStep(r)
    BY <2>3, <2>4, <2>5, <2>6, QuietCallStep
  <2> QED BY <1>a, <2>7
<1>8. CASE SendExtra(r)
  <2>1. PICK c \in Extras : wire' = [wire EXCEPT ![r] = Append(@, c)]
    BY <1>8 DEF SendExtra
  <2>2. session' = session /\ failed' = failed /\ UNCHANGED history
    BY <1>8 DEF SendExtra
  <2>3. c \in Capsules /\ c.type \notin {"STREAM", "RESET_STREAM"}
    BY ExtrasAssumption DEF Capsules, NoticeCapsules
  <2>4. Peer(r) \in Roles /\ Peer(r) # r
    BY PeerFacts
  <2>5. wire'[r] = Append(wire[r], c) /\ wire'[Peer(r)] = wire[Peer(r)]
    BY <2>1, <2>4 DEF PairType
  <2>6. CallStep(r)
    <3>1. SessionsOK'
      BY <2>2 DEF SessionsOK
    <3> QED BY <2>2, <2>5, <3>1 DEF CallStep, EndStep
  <2>7. \A x \in Ids : SendsLess(session[r], session'[r], x)
    BY <2>2 DEF SendsLess
  <2>8. QuietStep(r)
    BY <2>2, <2>3, <2>5, <2>6, <2>7 DEF QuietStep
  <2> QED BY <1>a, <2>8
<1>9. CASE Process(r)
  BY <1>9, ProcessStep DEF PairStep
<1>10. CASE Poll(r)
  BY <1>10, PollStepOf DEF PairStep
<1>11. ASSUME NEW b \in BOOLEAN, Open(r, b) PROVE PairStep(r)
  BY <1>a, <1>11, OpenStep
<1>12. ASSUME NEW b \in BOOLEAN, GrowStreams(r, b) PROVE PairStep(r)
  <2> DEFINE k == s.flow_control.max_streams_local[b]
  <2>1. PICK n \in Growth :
          /\ CanSendMaxStreams(s, k + n, b)
          /\ Becomes(r, SendMaxStreams(s, k + n, b))
    BY <1>12 DEF GrowStreams
  <2> DEFINE m == k + n
             t == SendMaxStreams(s, m, b)
  <2>2. m \in Nat
    <3>1. s.flow_control \in WtFlowControls
      BY <1>2 DEF Sessions
    <3>2. k \in Nat
      BY <3>1, MaxStreamsAssumption DEF WtFlowControls
    <3> QED BY <3>2, WtPairAssumption
  <2>3. t \in Sessions
    BY <1>2, <2>1, <2>2, CreditType
  <2>4. failed' = failed /\ UNCHANGED history /\ Becomes(r, t)
    BY <1>12, <2>1 DEF GrowStreams
  <2> HIDE DEF m
  <2>5. t \in QuietCalls(s)
    BY <2>2 DEF QuietCalls
  <2>6. t.state = s.state
    BY <1>2, QuietState
  <2> HIDE DEF t
  <2>7. QuietStep(r)
    BY <2>3, <2>4, <2>5, <2>6, QuietCallStep
  <2> QED BY <1>a, <2>7
<1>13. ASSUME NEW id \in Ids, Reset(r, id) PROVE PairStep(r)
  BY <1>13, ResetStepOf DEF PairStep
<1>14. ASSUME NEW id \in Ids, Stop(r, id) PROVE PairStep(r)
  BY <1>a, <1>14, StopStep
<1>15. ASSUME NEW id \in Ids, GrowStreamData(r, id) PROVE PairStep(r)
  BY <1>a, <1>15, GrowStreamStep
<1>16. ASSUME NEW id \in Ids, NEW size \in Sizes, NEW fin \in BOOLEAN, SendData(r, id, size, fin)
       PROVE  PairStep(r)
  <2>1. size \in Nat
    BY WtPairAssumption
  <2> QED BY <1>16, <2>1, DataStepOf DEF PairStep
<1> QED BY <1>1, <1>3, <1>4, <1>5, <1>6, <1>7, <1>8, <1>9, <1>10, <1>11, <1>12, <1>13, <1>14,
           <1>15, <1>16

LEMMA StepKeepsOK ==
  ASSUME SessionsOK, NEW r \in Roles, PairStep(r)
  PROVE  SessionsOK'
<1>1. CASE FailStep(r)
  BY <1>1 DEF FailStep, SessionsOK
<1>2. CASE EndStep(r)
  BY <1>2 DEF EndStep
<1> QED BY <1>1, <1>2 DEF PairStep, QuietStep, TakeStep, PollStep, ResetStep, DataStep, CallStep

(* The sessions at the start.                                              *)
InitPair ==
  /\ \A r \in Roles :
       /\ session[r] \in Sessions /\ SessionOK(session[r]) /\ session[r].role = r
       /\ session[r].events = << >> /\ session[r].state # "Closed"
       /\ DOMAIN session[r].streams = {} /\ DOMAIN session[r].closed_stream_send_max = {}
       /\ session[r].stop_sending_received_ids = {}
       /\ session[r].flow_control = NewFlowControl(session[r].config, session[r].peer_config)
       /\ session[r].peer_config = session[Peer(r)].config
  /\ wire = [r \in Roles |-> << >>]
  /\ failed = {}
  /\ Pipes!Init

LEMMA InitFacts ==
  ASSUME Init
  PROVE  InitPair
<1>1. PICK server \in ServerSettings, client \in ClientSettings, init \in Inits :
        /\ ~InitRefused(init)
        /\ session = [r \in Roles |->
             IF r = "server"
             THEN Initiated(NewSession(r, ServerConfig(server), ServerPeerConfig(client, init)))
             ELSE NewSession(r, ClientConfig(client, init), ClientPeerConfig(server))]
  BY Zenon DEF Init
<1>2. server \in WtSettings /\ client \in WtSettings /\ init \in InitFields \cup {Absent}
  BY <1>1, LimitsAssumption
<1>3. /\ ServerConfig(server) \in Configs /\ ClientPeerConfig(server) \in Configs
      /\ ServerPeerConfig(client, init) \in Configs /\ ClientConfig(client, init) \in Configs
  BY <1>1, <1>2, OverlayType, InitType, InitAlike
     DEF ServerConfig, ClientPeerConfig, ApplyAdvertisedSettings
<1>b. /\ ClientConfig(client, init) = ServerPeerConfig(client, init)
      /\ ServerConfig(server) = ClientPeerConfig(server)
  BY <1>2, InitAlike DEF ServerConfig, ClientPeerConfig, ApplyAdvertisedSettings
<1> DEFINE cc == ClientConfig(client, init)
           sc == ServerConfig(server)
           a  == NewSession("client", cc, ClientPeerConfig(server))
           b  == NewSession("server", sc, ServerPeerConfig(client, init))
<1>r. "client" \in Roles /\ "server" \in Roles
  BY DEF Roles
<1>4. IsNew(a, "client", cc, sc) /\ IsNew(b, "server", sc, cc)
  BY <1>3, <1>b, <1>r, NewSessionType
<1>5. session = [r \in Roles |-> IF r = "server" THEN Initiated(b) ELSE a]
  <2>1. \A r \in Roles : r # "server" => r = "client"
    BY DEF Roles
  <2> QED BY <1>1, <2>1
<1> HIDE DEF a, b, cc, sc
<1>6. session["client"] = a /\ session["server"] = Initiated(b)
  BY <1>r, <1>5
<1>7. SessionOK(a) /\ SessionOK(Initiated(b))
  BY <1>r, <1>4, NewOK
<1> DEFINE d == Initiated(b)
<1>8. /\ d \in Sessions
      /\ d.role = "server" /\ d.config = sc /\ d.peer_config = cc
      /\ d.events = << >> /\ d.state = "Active"
      /\ DOMAIN d.streams = {} /\ DOMAIN d.closed_stream_send_max = {}
      /\ d.stop_sending_received_ids = {}
      /\ d.flow_control = NewFlowControl(sc, cc)
  <2>1. /\ b \in Sessions /\ d \in Sessions
        /\ b.role = "server" /\ b.config = sc /\ b.peer_config = cc
        /\ b.events = << >>
        /\ DOMAIN b.streams = {} /\ DOMAIN b.closed_stream_send_max = {}
        /\ b.stop_sending_received_ids = {}
        /\ b.flow_control = NewFlowControl(sc, cc)
        /\ d = [b EXCEPT !.state = "Active"]
    BY <1>4 DEF IsNew
  <2> HIDE DEF d
  <2>2. /\ d.role = b.role /\ d.config = b.config /\ d.peer_config = b.peer_config
        /\ d.events = b.events /\ d.state = "Active"
        /\ d.streams = b.streams /\ d.closed_stream_send_max = b.closed_stream_send_max
        /\ d.stop_sending_received_ids = b.stop_sending_received_ids
        /\ d.flow_control = b.flow_control
    BY <2>1 DEF Sessions
  <2> QED BY <2>1, <2>2
<1>9. /\ a \in Sessions
      /\ a.role = "client" /\ a.config = cc /\ a.peer_config = sc
      /\ a.events = << >> /\ a.state = "Initial"
      /\ DOMAIN a.streams = {} /\ DOMAIN a.closed_stream_send_max = {}
      /\ a.stop_sending_received_ids = {}
      /\ a.flow_control = NewFlowControl(cc, sc)
  BY <1>4 DEF IsNew
<1> HIDE DEF d
<1>10. session["server"] = d /\ SessionOK(d)
  BY <1>6, <1>7 DEF d
<1> DEFINE Good(r) ==
       /\ session[r] \in Sessions /\ SessionOK(session[r]) /\ session[r].role = r
       /\ session[r].events = << >> /\ session[r].state # "Closed"
       /\ DOMAIN session[r].streams = {} /\ DOMAIN session[r].closed_stream_send_max = {}
       /\ session[r].stop_sending_received_ids = {}
       /\ session[r].flow_control = NewFlowControl(session[r].config, session[r].peer_config)
       /\ session[r].peer_config = session[Peer(r)].config
<1>11. Good("client")
  <2>1. Peer("client") = "server"
    BY DEF Peer
  <2> QED BY <1>6, <1>7, <1>8, <1>9, <1>10, <2>1
<1>12. Good("server")
  <2>1. Peer("server") = "client"
    BY DEF Peer
  <2> QED BY <1>6, <1>7, <1>8, <1>9, <1>10, <2>1
<1> HIDE DEF Good
<1>13. \A r \in Roles : Good(r)
  BY <1>11, <1>12 DEF Roles
<1>14. wire = [r \in Roles |-> << >>] /\ failed = {} /\ Pipes!Init
  BY DEF Init
<1> QED BY <1>13, <1>14 DEF InitPair, Good

-----------------------------------------------------------------------------
(* Streams are announced once, and first.                                  *)

HistoryType ==
  /\ written \in [StreamPipes -> Nat]
  /\ ended \in [StreamPipes -> {"open", "fin", "reset"}]
  /\ read \in [StreamPipes -> Seq(Nat)]
  /\ seen \in [StreamPipes -> {"open", "fin", "reset"}]

HasId(e) == "id" \in DOMAIN e

(* The events a capsule adds: streams that become known, in order, and at  *)
(* most one event more, on a stream that is known by then.                 *)
Announces(s, t, m) ==
  /\ m \in Seq(Events)
  /\ \A k \in 1 .. Len(m) :
       /\ m[k].type = "StreamOpened" /\ m[k].id \in Ids
       /\ IsPeerInitiated(s.role, m[k].id)
       /\ ~Remembered(s, m[k].id) /\ Remembered(t, m[k].id)
       /\ \A j \in 1 .. k - 1 : m[j].id # m[k].id

Tells(t, rest) ==
  /\ rest \in Seq(Events) /\ Len(rest) <= 1
  /\ \A k \in 1 .. Len(rest) :
       rest[k].type # "StreamOpened" /\ (HasId(rest[k]) => Remembered(t, rest[k].id))

GrowsBy(s, t) ==
  \E m, rest : Announces(s, t, m) /\ Tells(t, rest) /\ t.events = (s.events \o m) \o rest

LEMMA MadeAnnounces ==
  ASSUME NEW s, NEW id \in Ids, NEW t, MadeEvents(s, id) \in Seq(Events),
         \A x : Remembered(t, x) <=> Remembered(s, x) \/ x \in MadeIds(s, id)
  PROVE  Announces(s, t, MadeEvents(s, id))
<1>1. CASE ~CreatesFor(s, id)
  BY <1>1 DEF MadeEvents, Announces
<1>2. CASE CreatesFor(s, id)
  <2> DEFINE m == OpenedEvents(s, id)
             w == MissingUpTo(s, id)
  <2>1. MadeEvents(s, id) = m /\ MadeIds(s, id) = NewIds(s, id) /\ IsPeerInitiated(s.role, id)
    BY <1>2 DEF MadeEvents, MadeIds, CreatesFor
  <2>2. /\ m \in Seq(Events) /\ DOMAIN m = DOMAIN w
        /\ \A k \in DOMAIN m : /\ m[k].type = "StreamOpened"
                               /\ m[k].id = w[k]
                               /\ m[k].id \in NewIds(s, id)
    BY OpenedEventsType
  <2>3. /\ w \in Seq(Ids)
        /\ \A k \in DOMAIN w : \A j \in 1 .. k - 1 : w[j] < w[k]
        /\ NewIds(s, id) \subseteq Ids
    BY MissingFacts
  <2> HIDE DEF m, w
  <2>4. DOMAIN m = 1 .. Len(m) /\ Len(m) \in Nat /\ DOMAIN w = 1 .. Len(w)
    BY <2>2, <2>3
  <2>5. ASSUME NEW x \in NewIds(s, id)
        PROVE  x \in Ids /\ IsPeerInitiated(s.role, x) /\ ~Remembered(s, x)
    <3>1. x \in Ids /\ id \in Nat /\ x \in Nat /\ x % 4 = id % 4 /\ ~Remembered(s, x)
      BY <2>3, <2>5, IdsAssumption DEF NewIds
    <3> QED BY <2>1, <3>1, SameType
  <2>6. ASSUME NEW k \in 1 .. Len(m), NEW j \in 1 .. k - 1 PROVE m[j].id # m[k].id
    <3>1. j \in 1 .. Len(m)
      BY <2>4
    <3>2. w[j] < w[k] /\ w[j] \in Nat /\ w[k] \in Nat /\ m[j].id = w[j] /\ m[k].id = w[k]
      BY <2>2, <2>3, <2>4, <3>1, IdsAssumption
    <3> QED BY <3>2
  <2>7. Announces(s, t, m)
    BY <2>1, <2>2, <2>4, <2>5, <2>6 DEF Announces
  <2> QED BY <2>1, <2>7
<1> QED BY <1>1, <1>2

LEMMA TakesGrows ==
  ASSUME NEW s \in Sessions, NEW t, NEW c, Takes(s, t, c)
  PROVE  GrowsBy(s, t)
<1>0. s.events \in Seq(Events) /\ s.events \o << >> = s.events
  BY DEF Sessions
<1>a. Announces(s, t, << >>) /\ Tells(t, << >>)
  BY DEF Announces, Tells
<1>b. ASSUME NEW m, NEW e \in Events, Announces(s, t, m), t.events = Append(s.events \o m, e),
             e.type # "StreamOpened", HasId(e) => Remembered(t, e.id)
      PROVE  GrowsBy(s, t)
  <2>1. Tells(t, <<e>>)
    BY <1>b DEF Tells
  <2>2. s.events \o m \in Seq(Events)
    BY <1>0, <1>b DEF Announces
  <2>3. t.events = (s.events \o m) \o <<e>>
    BY <1>b, <2>2, JoinOne
  <2> QED BY <1>b, <2>1, <2>3 DEF GrowsBy
<1>c. ASSUME NEW e \in Events, t.events = Append(s.events, e),
             e.type # "StreamOpened", HasId(e) => Remembered(t, e.id)
      PROVE  GrowsBy(s, t)
  <2>1. t.events = Append(s.events \o << >>, e)
    BY <1>0, <1>c
  <2> QED BY <1>a, <1>b, <1>c, <2>1
<1>d. ASSUME NEW m, Announces(s, t, m), t.events = s.events \o m PROVE GrowsBy(s, t)
  <2>1. s.events \o m \in Seq(Events)
    BY <1>0, <1>d DEF Announces
  <2>2. t.events = (s.events \o m) \o << >>
    BY <1>d, <2>1
  <2> QED BY <1>a, <1>d, <2>2 DEF GrowsBy
<1>e. ASSUME t.events = s.events PROVE GrowsBy(s, t)
  BY <1>0, <1>a, <1>d, <1>e
<1>1. CASE t = s
  BY <1>1, <1>e
<1>2. CASE TakesQuiet(s, t, c)
  <2>1. CASE t.events = s.events
    BY <1>e, <2>1
  <2>2. CASE \E e \in QuietEvents : t.events = Append(s.events, e)
    <3>1. PICK e \in QuietEvents : t.events = Append(s.events, e)
      BY <2>2
    <3>2. e \in Events /\ e.type # "StreamOpened" /\ ~HasId(e)
      BY DEF QuietEvents, Events, HasId
    <3> QED BY <1>c, <3>1, <3>2
  <2> QED BY <1>2, <2>1, <2>2 DEF TakesQuiet
<1>3. CASE TakesData(s, t, c)
  <2> DEFINE e == [type |-> "StreamData", id |-> c.id, from |-> c.from, size |-> c.size,
                   fin |-> c.fin]
  <2>1. /\ c.id \in Ids /\ MadeEvents(s, c.id) \in Seq(Events) /\ Remembered(t, c.id)
        /\ \A x : Remembered(t, x) <=> Remembered(s, x) \/ x \in MadeIds(s, c.id)
        /\ t.events = Append(s.events \o MadeEvents(s, c.id), e) /\ t \in Sessions
    BY <1>3 DEF TakesData
  <2>2. Announces(s, t, MadeEvents(s, c.id))
    BY <2>1, MadeAnnounces
  <2>3. e.type # "StreamOpened" /\ e.id = c.id
    OBVIOUS
  <2>4. e \in Events
    <3> DEFINE l == s.events \o MadeEvents(s, c.id)
    <3>1. l \in Seq(Events) /\ t.events \in Seq(Events) /\ t.events = Append(l, e)
      BY <1>0, <2>1 DEF Sessions
    <3> HIDE DEF l, e
    <3>2. Len(l) + 1 \in DOMAIN t.events /\ t.events[Len(l) + 1] = e
      BY <3>1
    <3> QED BY <3>1, <3>2
  <2> HIDE DEF e
  <2> QED BY <1>b, <2>1, <2>2, <2>3, <2>4
<1>4. CASE TakesReset(s, t, c)
  <2> DEFINE e == [type |-> "StreamReset", id |-> c.id]
  <2>1. /\ c.id \in Ids /\ Remembered(t, c.id) /\ t.events = Append(s.events, e)
    BY <1>4 DEF TakesReset
  <2>2. e \in Events /\ e.type # "StreamOpened" /\ e.id = c.id
    BY <2>1 DEF Events
  <2> HIDE DEF e
  <2> QED BY <1>c, <2>1, <2>2
<1>5. CASE TakesStop(s, t, c)
  <2> DEFINE e == [type |-> "StopSending", id |-> c.id]
  <2>1. /\ c.id \in Ids /\ MadeEvents(s, c.id) \in Seq(Events) /\ Remembered(t, c.id)
        /\ \A x : Remembered(t, x) <=> Remembered(s, x) \/ x \in MadeIds(s, c.id)
        /\ t.events = Append(s.events \o MadeEvents(s, c.id), e)
    BY <1>5 DEF TakesStop
  <2>2. Announces(s, t, MadeEvents(s, c.id))
    BY <2>1, MadeAnnounces
  <2>3. e \in Events /\ e.type # "StreamOpened" /\ e.id = c.id
    BY <2>1 DEF Events
  <2> HIDE DEF e
  <2> QED BY <1>b, <2>1, <2>2, <2>3
<1>6. CASE TakesCredit(s, t, c)
  <2>1. /\ c.id \in Ids /\ MadeEvents(s, c.id) \in Seq(Events)
        /\ \A x : Remembered(t, x) <=> Remembered(s, x) \/ x \in MadeIds(s, c.id)
        /\ t.events = s.events \o MadeEvents(s, c.id)
    BY <1>6 DEF TakesCredit
  <2>2. Announces(s, t, MadeEvents(s, c.id))
    BY <2>1, MadeAnnounces
  <2> QED BY <1>d, <2>1, <2>2
<1> QED BY <1>1, <1>2, <1>3, <1>4, <1>5, <1>6 DEF Takes

(* What is known of the events of end r, a session s, when U are the peer's *)
(* streams of which the application has been given nothing.                *)
Told(r, s, U) ==
  /\ \A i \in 1 .. Len(s.events) : HasId(s.events[i]) => Remembered(s, s.events[i].id)
  /\ \A i \in 1 .. Len(s.events) : s.events[i].type = "StreamOpened" =>
       /\ s.events[i].id \in U
       /\ \A j \in 1 .. i - 1 : HasId(s.events[j]) => s.events[j].id # s.events[i].id
  /\ \A x \in Ids : IsPeerInitiated(r, x) /\ ~Remembered(s, x) => x \in U

LEMMA SameTold ==
  ASSUME NEW r, NEW s, NEW t, NEW U, Told(r, s, U), t.events = s.events,
         \A x : Remembered(s, x) => Remembered(t, x)
  PROVE  Told(r, t, U)
BY DEF Told

LEMMA OpenedHasId ==
  ASSUME NEW e \in Events, e.type = "StreamOpened"
  PROVE  HasId(e)
BY DEF Events, HasId

(* Streams announced were not known, so no event before is about them.     *)
LEMMA GrowTold ==
  ASSUME NEW r, NEW s \in Sessions, s.role = r, NEW t, NEW U, Told(r, s, U), GrowsBy(s, t),
         \A x : Remembered(s, x) => Remembered(t, x)
  PROVE  Told(r, t, U)
<1>1. PICK m, rest : Announces(s, t, m) /\ Tells(t, rest) /\ t.events = (s.events \o m) \o rest
  BY DEF GrowsBy
<1> DEFINE E == s.events
           F == t.events
           a == Len(E)
           b == Len(m)
<1>2. E \in Seq(Events) /\ m \in Seq(Events) /\ rest \in Seq(Events)
  BY <1>1 DEF Sessions, Announces, Tells
<1>3. /\ a \in Nat /\ b \in Nat /\ Len(F) = a + b + Len(rest) /\ Len(rest) \in Nat /\ Len(rest) <= 1
      /\ \A i \in 1 .. a : F[i] = E[i] /\ E[i] \in Events
      /\ \A i \in a + 1 .. a + b : F[i] = m[i - a] /\ m[i - a] \in Events
      /\ \A i \in a + b + 1 .. Len(F) : F[i] = rest[i - a - b]
  <2> DEFINE l == E \o m
  <2>1. /\ l \in Seq(Events) /\ Len(l) = a + b
        /\ \A i \in 1 .. a : l[i] = E[i]
        /\ \A i \in a + 1 .. a + b : l[i] = m[i - a]
    BY <1>2
  <2>2. F = l \o rest /\ Len(rest) <= 1
    BY <1>1 DEF Tells
  <2> HIDE DEF l
  <2>3. a \in Nat /\ b \in Nat /\ Len(rest) \in Nat
    BY <1>2
  <2>4. \A i \in 1 .. a : E[i] \in Events
    BY <1>2
  <2>5. \A i \in a + 1 .. a + b : m[i - a] \in Events
    <3> TAKE i \in a + 1 .. a + b
    <3>1. i - a \in 1 .. Len(m)
      BY <2>3
    <3> QED BY <1>2, <3>1
  <2>6. Len(F) = a + b + Len(rest) /\ \A i \in 1 .. a + b : F[i] = l[i]
    <3>1. /\ Len(l \o rest) = Len(l) + Len(rest)
          /\ \A i \in 1 .. Len(l) : (l \o rest)[i] = l[i]
      <4>1. l \in Seq(Events) /\ rest \in Seq(Events)
        BY <1>2, <2>1
      <4> QED BY <4>1
    <3> HIDE DEF F, a, b
    <3> QED BY <2>1, <2>2, <3>1
  <2>7. \A i \in a + b + 1 .. Len(F) : F[i] = rest[i - a - b]
    <3> TAKE i \in a + b + 1 .. Len(F)
    <3>1. \A j \in Len(l) + 1 .. Len(l) + Len(rest) : (l \o rest)[j] = rest[j - Len(l)]
      BY <1>2, <2>1, JoinPlaces
    <3>2. i - a - b = i - Len(l) /\ i \in Len(l) + 1 .. Len(l) + Len(rest)
      <4> HIDE DEF F, a, b
      <4> QED BY <2>1, <2>3, <2>6
    <3>3. (l \o rest)[i] = rest[i - Len(l)]
      BY <3>1, <3>2
    <3>4. F[i] = (l \o rest)[i]
      BY <2>2
    <3> QED BY <3>2, <3>3, <3>4, Zenon
  <2> QED BY <2>1, <2>2, <2>3, <2>4, <2>5, <2>6, <2>7
<1> HIDE DEF E, F, a, b
<1>4. ASSUME NEW i \in 1 .. a
      PROVE  /\ HasId(F[i]) => Remembered(s, F[i].id)
             /\ F[i].type = "StreamOpened" =>
                  F[i].id \in U /\ \A j \in 1 .. i - 1 : HasId(F[j]) => F[j].id # F[i].id
  <2>1. i \in 1 .. Len(s.events) /\ \A j \in 1 .. i - 1 : j \in 1 .. a
    BY <1>3 DEF a, E
  <2> QED BY <1>3, <2>1 DEF Told, E
<1>5. ASSUME NEW i \in a + 1 .. a + b
      PROVE  /\ F[i].type = "StreamOpened" /\ HasId(F[i])
             /\ F[i].id \in U /\ ~Remembered(s, F[i].id) /\ Remembered(t, F[i].id)
             /\ \A j \in a + 1 .. i - 1 : F[j].id # F[i].id
  <2>1. i - a \in 1 .. Len(m) /\ F[i] = m[i - a] /\ m[i - a] \in Events
    BY <1>3 DEF b
  <2>2. /\ m[i - a].type = "StreamOpened" /\ m[i - a].id \in Ids
        /\ IsPeerInitiated(r, m[i - a].id)
        /\ ~Remembered(s, m[i - a].id) /\ Remembered(t, m[i - a].id)
        /\ \A j \in 1 .. i - a - 1 : m[j].id # m[i - a].id
    BY <1>1, <2>1 DEF Announces
  <2>3. m[i - a].id \in U
    BY <2>2 DEF Told
  <2>4. ASSUME NEW j \in a + 1 .. i - 1 PROVE F[j].id # F[i].id
    <3>1. j - a \in 1 .. i - a - 1 /\ j \in a + 1 .. a + b
      BY <1>3
    <3> QED BY <1>3, <2>1, <2>2, <3>1
  <2> QED BY <2>1, <2>2, <2>3, <2>4, OpenedHasId
<1>6. ASSUME NEW i \in a + b + 1 .. Len(F)
      PROVE  F[i].type # "StreamOpened" /\ (HasId(F[i]) => Remembered(t, F[i].id))
  <2>1. i - a - b \in 1 .. Len(rest) /\ F[i] = rest[i - a - b]
    BY <1>3
  <2> QED BY <1>1, <2>1 DEF Tells
<1>7. \A i \in 1 .. Len(F) : i \in 1 .. a \/ i \in a + 1 .. a + b \/ i \in a + b + 1 .. Len(F)
  BY <1>3
<1>8. \A i \in 1 .. Len(F) : HasId(F[i]) => Remembered(t, F[i].id)
  BY <1>4, <1>5, <1>6, <1>7
<1>9. ASSUME NEW i \in 1 .. Len(F), F[i].type = "StreamOpened"
      PROVE  F[i].id \in U /\ \A j \in 1 .. i - 1 : HasId(F[j]) => F[j].id # F[i].id
  <2>1. CASE i \in 1 .. a
    BY <1>4, <1>9, <2>1
  <2>2. CASE i \in a + 1 .. a + b
    <3>1. ASSUME NEW j \in 1 .. i - 1, HasId(F[j]) PROVE F[j].id # F[i].id
      <4>1. CASE j \in 1 .. a
        BY <1>4, <1>5, <2>2, <3>1, <4>1
      <4>2. CASE j \in a + 1 .. i - 1
        BY <1>5, <2>2, <4>2
      <4> QED BY <1>3, <2>2, <4>1, <4>2
    <3> QED BY <1>5, <2>2, <3>1
  <2> QED BY <1>6, <1>7, <1>9, <2>1, <2>2
<1>10. \A x \in Ids : IsPeerInitiated(r, x) /\ ~Remembered(t, x) => x \in U
  BY DEF Told
<1> QED BY <1>8, <1>9, <1>10 DEF Told, F

(* The first event is taken: nothing that follows announces its stream.    *)
LEMMA TailTold ==
  ASSUME NEW r, NEW s \in Sessions, NEW t, NEW U, NEW W, Told(r, s, U), s.events # << >>,
         t.events = Tail(s.events), \A x : Remembered(s, x) => Remembered(t, x),
         \A x \in U : (HasId(Head(s.events)) => Head(s.events).id # x) => x \in W
  PROVE  Told(r, t, W)
<1> DEFINE E == s.events
           F == t.events
<1>1. E \in Seq(Events) /\ F = Tail(E) /\ E # << >>
  BY DEF Sessions
<1>2. /\ Len(E) \in Nat \ {0} /\ Len(F) = Len(E) - 1 /\ Head(E) = E[1]
      /\ \A i \in 1 .. Len(F) : F[i] = E[i + 1]
  BY <1>1
<1>a. \A i \in 1 .. Len(E) : HasId(E[i]) => Remembered(s, E[i].id)
  BY DEF Told
<1>b. \A i \in 1 .. Len(E) : E[i].type = "StreamOpened" =>
         /\ E[i].id \in U
         /\ \A j \in 1 .. i - 1 : HasId(E[j]) => E[j].id # E[i].id
  BY DEF Told
<1>c. \A x \in U : (HasId(E[1]) => E[1].id # x) => x \in W
  BY <1>2
<1>d. \A x \in Ids : IsPeerInitiated(r, x) /\ ~Remembered(t, x) => x \in U /\ ~Remembered(s, x)
  BY DEF Told
<1> HIDE DEF E, F
<1>3. \A i \in 1 .. Len(F) : i + 1 \in 1 .. Len(E) /\ F[i] = E[i + 1]
  BY <1>2
<1>4. \A i \in 1 .. Len(F) : HasId(F[i]) => Remembered(t, F[i].id)
  BY <1>a, <1>3
<1>5. ASSUME NEW i \in 1 .. Len(F), F[i].type = "StreamOpened"
      PROVE  F[i].id \in W /\ \A j \in 1 .. i - 1 : HasId(F[j]) => F[j].id # F[i].id
  <2>1. /\ F[i].id \in U
        /\ \A j \in 1 .. i : HasId(E[j]) => E[j].id # F[i].id
    <3>1. \A j \in 1 .. i : j \in 1 .. (i + 1) - 1
      BY <1>2
    <3> QED BY <1>b, <1>3, <1>5, <3>1
  <2>2. 1 \in 1 .. i /\ \A j \in 1 .. i - 1 : j + 1 \in 1 .. i /\ j \in 1 .. Len(F)
    BY <1>2
  <2> QED BY <1>c, <1>3, <2>1, <2>2
<1>6. \A x \in Ids : IsPeerInitiated(r, x) /\ ~Remembered(t, x) => x \in W
  <2>1. 1 \in 1 .. Len(E)
    BY <1>2
  <2> QED BY <1>a, <1>c, <1>d, <2>1
<1> QED BY <1>4, <1>5, <1>6 DEF Told, F

(* The streams the peer of r opens on which r has read nothing.            *)
Untouched(r) ==
  {x \in Ids : /\ IsPeerInitiated(r, x)
               /\ read[Pipe(Peer(r), x)] = << >> /\ seen[Pipe(Peer(r), x)] = "open"}

AllTold == \A r \in Roles : Told(r, session[r], Untouched(r))

LEMMA PeerPipe ==
  ASSUME NEW r \in Roles, NEW x \in Ids, IsPeerInitiated(r, x)
  PROVE  Pipe(Peer(r), x) \in StreamPipes
<1>1. Peer(r) \in Roles /\ ~IsPeerInitiated(Peer(r), x)
  <2>1. IsClientInitiated(x) \in BOOLEAN
    BY DEF IsClientInitiated
  <2>2. CASE r = "client"
    <3>1. Peer(r) = "server" /\ IsClientInitiated(x) = FALSE
      BY <2>1, <2>2 DEF Peer, IsPeerInitiated
    <3> QED BY <3>1 DEF IsPeerInitiated, Roles
  <2>3. CASE r = "server"
    <3>1. Peer(r) = "client" /\ IsClientInitiated(x) = TRUE
      BY <2>1, <2>3 DEF Peer, IsPeerInitiated
    <3> QED BY <3>1 DEF IsPeerInitiated, Roles
  <2> QED BY <2>2, <2>3 DEF Roles
<1> QED BY <1>1 DEF Pipe, StreamPipes, HasSendPart

LEMMA PipesApart ==
  ASSUME NEW r, NEW x, NEW q, NEW y, Pipe(r, x) = Pipe(q, y)
  PROVE  r = q /\ x = y
BY DEF Pipe

LEMMA HistoryKept ==
  ASSUME PairType, HistoryType, NEW r \in Roles, PairStep(r)
  PROVE  HistoryType'
<1>1. CASE UNCHANGED history
  BY <1>1 DEF history, HistoryType
<1>2. CASE \E id \in Ids, size \in Nat, fin \in BOOLEAN : DataStep(r, id, size, fin)
  <2>1. PICK id \in Ids, size \in Nat, fin \in BOOLEAN : DataStep(r, id, size, fin)
    BY <1>2
  <2>2. /\ written' = [written EXCEPT ![Pipe(r, id)] = @ + size]
        /\ ended' = [ended EXCEPT ![Pipe(r, id)] = IF fin THEN "fin" ELSE @]
        /\ UNCHANGED <<read, seen>>
    BY <2>1 DEF DataStep
  <2>3. written' \in [StreamPipes -> Nat]
    <3>1. ASSUME NEW f \in [StreamPipes -> Nat], NEW p
          PROVE  [f EXCEPT ![p] = @ + size] \in [StreamPipes -> Nat]
      <4>1. \A x \in Nat : x + size \in Nat
        BY <2>1
      <4> QED BY <4>1
    <3> QED BY <2>2, <3>1 DEF HistoryType
  <2>4. ended' \in [StreamPipes -> {"open", "fin", "reset"}]
    BY <2>2 DEF HistoryType
  <2> QED BY <2>2, <2>3, <2>4 DEF HistoryType
<1>3. CASE \E id \in Ids : Resets(r, id) /\ UNCHANGED <<written, read, seen>>
  <2>1. PICK id \in Ids : Resets(r, id) /\ UNCHANGED <<written, read, seen>>
    BY <1>3
  <2>2. ended' = [ended EXCEPT ![Pipe(r, id)] = "reset"]
    BY <2>1 DEF Resets
  <2> QED BY <2>1, <2>2 DEF HistoryType
<1>4. CASE PollStep(r)
  <2> DEFINE event == Head(session[r].events)
             pipe  == Pipe(Peer(r), event.id)
             more  == [k \in 1 .. event.size |-> event.from + k]
  <2>1. /\ session[r].events # << >>
        /\ read' = IF event.type = "StreamData" THEN [read EXCEPT ![pipe] = @ \o more] ELSE read
        /\ seen' = IF event.type = "StreamData" /\ event.fin
                   THEN [seen EXCEPT ![pipe] = "fin"]
                   ELSE IF event.type = "StreamReset" THEN [seen EXCEPT ![pipe] = "reset"]
                   ELSE seen
        /\ UNCHANGED <<written, ended>>
    BY <1>4 DEF PollStep
  <2>2. event \in Events
    BY <2>1 DEF PairType, Sessions
  <2>3. event.type = "StreamData" => more \in Seq(Nat)
    BY <2>2, EventFields
  <2> HIDE DEF more, pipe, event
  <2>4. read' \in [StreamPipes -> Seq(Nat)]
    <3>1. ASSUME NEW f \in [StreamPipes -> Seq(Nat)], event.type = "StreamData"
          PROVE  [f EXCEPT ![pipe] = @ \o more] \in [StreamPipes -> Seq(Nat)]
      <4>1. more \in Seq(Nat)
        BY <2>3, <3>1
      <4>2. \A x \in Seq(Nat) : x \o more \in Seq(Nat)
        BY <4>1
      <4> QED BY <4>2
    <3> QED BY <2>1, <3>1 DEF HistoryType
  <2>5. seen' \in [StreamPipes -> {"open", "fin", "reset"}]
    BY <2>1 DEF HistoryType
  <2> QED BY <2>1, <2>4, <2>5 DEF HistoryType
<1>5. CASE TakeStep(r) /\ ended' = ended
  BY <1>5 DEF TakeStep, HistoryType
<1>6. CASE TakeStep(r) /\ \E id \in Ids : Resets(r, id)
  BY <1>3, <1>6 DEF TakeStep
<1>7. TakeStep(r) => ended' = ended \/ \E id \in Ids : Resets(r, id)
  BY DEF TakeStep
<1>8. ASSUME NEW id \in Ids, ResetStep(r, id) PROVE HistoryType'
  BY <1>3, <1>8 DEF ResetStep
<1>9. QuietStep(r) \/ FailStep(r) => UNCHANGED history
  BY DEF QuietStep, FailStep
<1> QED BY <1>1, <1>2, <1>4, <1>5, <1>6, <1>7, <1>8, <1>9 DEF PairStep

LEMMA ToldKept ==
  ASSUME PairType, HistoryType, AllTold, NEW r \in Roles, PairStep(r)
  PROVE  AllTold'
<1> DEFINE q == Peer(r)
<1>1. q \in Roles /\ q # r /\ Peer(q) = r /\ \A x \in Roles : x = r \/ x = q
  BY PeerFacts
<1>2. Told(r, session[r], Untouched(r)) /\ Told(q, session[q], Untouched(q))
  BY <1>1 DEF AllTold
<1>3. session[r] \in Sessions /\ session[r].role = r /\ wire[q] \in Seq(Capsules)
  BY <1>1 DEF PairType
<1>4. SUFFICES Told(r, session'[r], Untouched(r)') /\ Told(q, session'[q], Untouched(q)')
  BY <1>1 DEF AllTold
<1>5. ASSUME UNCHANGED <<read, seen>>, session'[q] = session[q]
      PROVE  Untouched(r)' = Untouched(r) /\ Told(q, session'[q], Untouched(q)')
  <2>1. Untouched(r)' = Untouched(r) /\ Untouched(q)' = Untouched(q)
    BY <1>5 DEF Untouched
  <2> QED BY <1>2, <1>5, <2>1
<1>6. CASE UNCHANGED <<read, seen>> /\ EndStep(r) /\ session'[r].events = session[r].events
  <2>1. session'[q] = session[q] /\ \A x : Remembered(session[r], x) => Remembered(session'[r], x)
    BY <1>6 DEF EndStep
  <2>2. Told(r, session'[r], Untouched(r))
    BY <1>2, <1>6, <2>1, SameTold
  <2> QED BY <1>5, <1>6, <2>1, <2>2
<1>7. CASE FailStep(r)
  <2>1. session' = session /\ UNCHANGED <<read, seen>>
    BY <1>7 DEF FailStep, history
  <2> QED BY <1>2, <1>5, <2>1
<1>8. CASE TakeStep(r)
  <2>1. /\ EndStep(r) /\ UNCHANGED <<read, seen>>
        /\ \E t \in Sessions :
             /\ Takes(session[r], t, Head(wire[q]))
             /\ session'[r].events = t.events /\ session'[r].state = t.state
             /\ SameRemembered(t, session'[r])
    BY <1>8 DEF TakeStep
  <2>2. PICK t \in Sessions :
             /\ Takes(session[r], t, Head(wire[q]))
             /\ session'[r].events = t.events
             /\ SameRemembered(t, session'[r])
    BY <2>1
  <2>3. session'[q] = session[q] /\ \A x : Remembered(session[r], x) => Remembered(session'[r], x)
    BY <2>1 DEF EndStep
  <2>4. GrowsBy(session[r], t)
    BY <1>3, <2>2, TakesGrows
  <2>5. \A x : Remembered(session[r], x) => Remembered(t, x)
    BY <2>2, <2>3 DEF SameRemembered
  <2>6. Told(r, t, Untouched(r))
    BY <1>2, <1>3, <2>4, <2>5, GrowTold
  <2>7. \A x : Remembered(t, x) => Remembered(session'[r], x)
    BY <2>2 DEF SameRemembered
  <2>8. Told(r, session'[r], Untouched(r))
    BY <2>2, <2>6, <2>7, SameTold
  <2> QED BY <1>5, <2>1, <2>3, <2>8
<1>9. CASE PollStep(r)
  <2> DEFINE event == Head(session[r].events)
             pipe  == Pipe(q, event.id)
             more  == [k \in 1 .. event.size |-> event.from + k]
  <2>1. /\ EndStep(r) /\ session[r].events # << >> /\ session'[r].events = Tail(session[r].events)
        /\ read' = IF event.type = "StreamData" THEN [read EXCEPT ![pipe] = @ \o more] ELSE read
        /\ seen' = IF event.type = "StreamData" /\ event.fin
                   THEN [seen EXCEPT ![pipe] = "fin"]
                   ELSE IF event.type = "StreamReset" THEN [seen EXCEPT ![pipe] = "reset"]
                   ELSE seen
    BY <1>9 DEF PollStep
  <2>2. session'[q] = session[q] /\ \A x : Remembered(session[r], x) => Remembered(session'[r], x)
    BY <2>1 DEF EndStep
  <2>3. event \in Events
    BY <1>3, <2>1 DEF Sessions
  <2>4. event.type \in {"StreamData", "StreamReset"} => HasId(event)
    BY <2>3 DEF Events, HasId
  <2> HIDE DEF more, event
  <2>5. ASSUME NEW p \in StreamPipes, HasId(event) => p # pipe
        PROVE  read'[p] = read[p] /\ seen'[p] = seen[p]
    <3> HIDE DEF pipe
    <3>1. read'[p] = read[p]
      BY <2>1, <2>4, <2>5 DEF HistoryType
    <3>2. seen'[p] = seen[p]
      BY <2>1, <2>4, <2>5 DEF HistoryType
    <3> QED BY <3>1, <3>2
  <2>6. Untouched(q)' = Untouched(q)
    <3>1. ASSUME NEW x \in Ids, IsPeerInitiated(q, x)
          PROVE  read'[Pipe(Peer(q), x)] = read[Pipe(Peer(q), x)]
                   /\ seen'[Pipe(Peer(q), x)] = seen[Pipe(Peer(q), x)]
      <4>1. Pipe(Peer(q), x) \in StreamPipes /\ Pipe(Peer(q), x) # pipe
        BY <1>1, <3>1, PeerPipe, PipesApart
      <4> QED BY <2>5, <4>1
    <3> QED BY <3>1 DEF Untouched
  <2>7. ASSUME NEW x \in Untouched(r), HasId(event) => event.id # x
        PROVE  x \in Untouched(r)'
    <3>1. x \in Ids /\ IsPeerInitiated(r, x)
      BY <2>7 DEF Untouched
    <3>2. Pipe(q, x) \in StreamPipes /\ (HasId(event) => Pipe(q, x) # pipe)
      BY <2>7, <3>1, PeerPipe, PipesApart
    <3>3. read'[Pipe(q, x)] = read[Pipe(q, x)] /\ seen'[Pipe(q, x)] = seen[Pipe(q, x)]
      BY <2>5, <3>2
    <3> QED BY <2>7, <3>1, <3>3 DEF Untouched
  <2>8. \A x \in Untouched(r) : (HasId(Head(session[r].events)) => Head(session[r].events).id # x)
            => x \in Untouched(r)'
    BY <2>7 DEF event
  <2> DEFINE U == Untouched(r)
             W == Untouched(r)'
             s == session[r]
             t == session'[r]
  <2>9. Told(r, s, U) /\ s \in Sessions /\ s.events # << >> /\ t.events = Tail(s.events)
        /\ (\A x : Remembered(s, x) => Remembered(t, x))
        /\ \A x \in U : (HasId(Head(s.events)) => Head(s.events).id # x) => x \in W
    BY <1>2, <1>3, <2>1, <2>2, <2>8
  <2> HIDE DEF U, W, s, t
  <2>10. Told(r, t, W)
    BY <2>9, TailTold
  <2> QED BY <1>2, <2>2, <2>6, <2>10 DEF t, W
<1>10. QuietStep(r) \/ (\E id \in Ids : ResetStep(r, id))
         \/ (\E id \in Ids, size \in Nat, fin \in BOOLEAN : DataStep(r, id, size, fin))
         => UNCHANGED <<read, seen>> /\ EndStep(r) /\ session'[r].events = session[r].events
  BY DEF QuietStep, ResetStep, DataStep, CallStep, history
<1> QED BY <1>6, <1>7, <1>8, <1>9, <1>10 DEF PairStep

(* What holds of the sessions and the history in every state.              *)
PairInv == PairType /\ SessionsOK /\ HistoryType /\ AllTold

LEMMA InitInv ==
  ASSUME Init
  PROVE  PairInv
<1>1. PairType /\ InitPair
  BY InitPairType, InitFacts
<1>2. SessionsOK
  BY <1>1 DEF InitPair, SessionsOK
<1>3. Pipes!Init
  BY <1>1 DEF InitPair
<1>4. HistoryType
  BY <1>3 DEF Pipes!Init, HistoryType
<1>5. AllTold
  <2> SUFFICES ASSUME NEW r \in Roles PROVE Told(r, session[r], Untouched(r))
    BY DEF AllTold
  <2>1. session[r].events = << >>
    BY <1>1 DEF InitPair
  <2>2. ASSUME NEW x \in Ids, IsPeerInitiated(r, x) PROVE x \in Untouched(r)
    <3>1. Pipe(Peer(r), x) \in StreamPipes
      BY <2>2, PeerPipe
    <3> QED BY <1>3, <2>2, <3>1 DEF Pipes!Init, Untouched
  <2> QED BY <2>1, <2>2 DEF Told
<1> QED BY <1>1, <1>2, <1>4, <1>5 DEF PairInv

LEMMA StepInv ==
  ASSUME Few, PairInv, [Next]_vars
  PROVE  PairInv'
<1>1. CASE Next
  <2>1. PairType'
    BY <1>1, NextPairType DEF PairInv
  <2>2. PICK r \in Roles : PairStep(r)
    BY <1>1, StepsOf DEF PairInv
  <2>3. SessionsOK' /\ HistoryType' /\ AllTold'
    BY <2>2, StepKeepsOK, HistoryKept, ToldKept DEF PairInv
  <2> QED BY <2>1, <2>3 DEF PairInv
<1>2. CASE UNCHANGED vars
  BY <1>2 DEF vars, PairInv, PairType, SessionsOK, HistoryType, AllTold, Untouched
<1> QED BY <1>1, <1>2

LEMMA PairInvariant ==
  ASSUME Few
  PROVE  Spec => []PairInv
<1>1. Init => PairInv
  BY InitInv
<1>2. PairInv /\ [Next]_vars => PairInv'
  BY StepInv
<1> QED BY <1>1, <1>2, PTL DEF Spec

(* However a stream became known, the application is told that it was      *)
(* opened once and before anything else of it.                             *)
THEOREM StreamsOpenedFirst ==
  ASSUME Few
  PROVE  Spec => []OpenedFirst
<1>1. PairInv => OpenedFirst
  <2> SUFFICES ASSUME PairInv, NEW r \in Roles, NEW i \in DOMAIN session[r].events,
                      session[r].events[i].type = "StreamOpened"
               PROVE  LET event == session[r].events[i]
                          pipe  == Pipe(Peer(r), event.id)
                      IN  /\ \A j \in 1 .. i - 1 :
                               LET e == session[r].events[j] IN "id" \in DOMAIN e => e.id # event.id
                          /\ read[pipe] = << >> /\ seen[pipe] = "open"
    BY DEF OpenedFirst
  <2>1. Told(r, session[r], Untouched(r)) /\ session[r].events \in Seq(Events)
    BY DEF PairInv, AllTold, PairType, Sessions
  <2>2. i \in 1 .. Len(session[r].events)
    BY <2>1
  <2>3. /\ session[r].events[i].id \in Untouched(r)
        /\ \A j \in 1 .. i - 1 :
             HasId(session[r].events[j]) => session[r].events[j].id # session[r].events[i].id
    BY <2>1, <2>2 DEF Told
  <2> QED BY <2>3 DEF Untouched, HasId
<1> QED BY <1>1, PairInvariant, PTL

Queue(V, D, R, s, base, end) ==
  /\ s \in Seq(V) /\ base \in Int
  /\ Placed(s, D, base)
  /\ \A k \in 1 .. Len(s) :
       /\ s[k] \in D /\ s[k].fin => end = "fin"
       /\ s[k] \in R => end = "reset"
  /\ EndsLast(s, Final(D, R), D \cup R)

(* A member of neither kind makes no difference.                           *)
LEMMA QueueOther ==
  ASSUME NEW V, NEW D, NEW R, Items(V, D, R), NEW s, NEW base, NEW end, Queue(V, D, R, s, base, end),
         NEW x \in V, x \notin D \cup R
  PROVE  /\ Queue(V, D, R, Append(s, x), base, end)
         /\ SumOf(Weigh(Append(s, x), D)) = SumOf(Weigh(s, D))
         /\ NoneOf(s, Final(D, R)) <=> NoneOf(Append(s, x), Final(D, R))
         /\ NoneOf(s, D \cup R) <=> NoneOf(Append(s, x), D \cup R)
<1> DEFINE t == Append(s, x)
<1>1. /\ s \in Seq(V) /\ base \in Int /\ Weighable(V, D) /\ Placed(s, D, base)
      /\ EndsLast(s, Final(D, R), D \cup R)
      /\ \A k \in 1 .. Len(s) : /\ s[k] \in D /\ s[k].fin => end = "fin"
                                /\ s[k] \in R => end = "reset"
  BY DEF Queue, Items
<1>2. /\ t \in Seq(V) /\ Len(t) = Len(s) + 1 /\ Len(s) \in Nat /\ t[Len(s) + 1] = x
      /\ \A k \in 1 .. Len(s) : t[k] = s[k]
  BY <1>1
<1>3. Placed(t, D, base)
  BY <1>1, PlacedAppend
<1>4. SumOf(Weigh(t, D)) = SumOf(Weigh(s, D)) + 0 /\ SumOf(Weigh(s, D)) \in Nat
  BY <1>1, WeighAppend, WeighType
<1> HIDE DEF t
<1>5. x \notin Final(D, R)
  BY DEF Final
<1>6. EndsLast(t, Final(D, R), D \cup R)
  BY <1>1, <1>2, <1>5 DEF EndsLast
<1>7. \A k \in 1 .. Len(t) : /\ t[k] \in D /\ t[k].fin => end = "fin"
                             /\ t[k] \in R => end = "reset"
  BY <1>1, <1>2
<1>8. /\ NoneOf(s, Final(D, R)) <=> NoneOf(t, Final(D, R))
      /\ NoneOf(s, D \cup R) <=> NoneOf(t, D \cup R)
  BY <1>2, <1>5 DEF NoneOf
<1> QED BY <1>1, <1>2, <1>3, <1>4, <1>6, <1>7, <1>8 DEF Queue, t

(* Data or a reset follows what has not ended.                             *)
LEMMA QueueItem ==
  ASSUME NEW V, NEW D, NEW R, Items(V, D, R), NEW s, NEW base, NEW end, NEW next,
         Queue(V, D, R, s, base, end), NoneOf(s, Final(D, R)),
         NEW x \in D \cup R, x \in D => x.from = base + SumOf(Weigh(s, D)),
         x \in D /\ x.fin => next = "fin", x \in R => next = "reset"
  PROVE  /\ Queue(V, D, R, Append(s, x), base, next)
         /\ SumOf(Weigh(Append(s, x), D)) = SumOf(Weigh(s, D)) + IF x \in D THEN x.size ELSE 0
         /\ x \notin Final(D, R) => NoneOf(Append(s, x), Final(D, R))
<1> DEFINE t == Append(s, x)
<1>1. /\ s \in Seq(V) /\ base \in Int /\ Weighable(V, D) /\ Placed(s, D, base) /\ x \in V
  BY DEF Queue, Items, Weighable
<1>2. /\ t \in Seq(V) /\ Len(t) = Len(s) + 1 /\ Len(s) \in Nat /\ t[Len(s) + 1] = x
      /\ \A k \in 1 .. Len(s) : t[k] = s[k]
  BY <1>1
<1>3. Placed(t, D, base)
  BY <1>1, PlacedAppend
<1>4. SumOf(Weigh(t, D)) = SumOf(Weigh(s, D)) + IF x \in D THEN x.size ELSE 0
  BY <1>1, WeighAppend
<1> HIDE DEF t
<1>5. \A k \in 1 .. Len(s) : t[k] \notin Final(D, R)
  BY <1>2 DEF NoneOf
<1>6. EndsLast(t, Final(D, R), D \cup R)
  <2> SUFFICES ASSUME NEW k \in 1 .. Len(t), t[k] \in Final(D, R), NEW j \in k + 1 .. Len(t)
               PROVE  FALSE
    BY DEF EndsLast
  <2>1. k \in 1 .. Len(s)
    BY <1>2
  <2> QED BY <1>5, <2>1
<1>7. \A k \in 1 .. Len(t) : /\ t[k] \in D /\ t[k].fin => next = "fin"
                             /\ t[k] \in R => next = "reset"
  <2> SUFFICES ASSUME NEW k \in 1 .. Len(t)
               PROVE  /\ t[k] \in D /\ t[k].fin => next = "fin"
                      /\ t[k] \in R => next = "reset"
    OBVIOUS
  <2>1. CASE k \in 1 .. Len(s)
    BY <1>5, <2>1 DEF Final
  <2>2. CASE k = Len(s) + 1
    BY <1>2, <2>2
  <2> QED BY <1>2, <2>1, <2>2
<1>8. x \notin Final(D, R) => NoneOf(t, Final(D, R))
  <2> SUFFICES ASSUME x \notin Final(D, R), NEW k \in 1 .. Len(t) PROVE t[k] \notin Final(D, R)
    BY DEF NoneOf
  <2> QED BY <1>2, <1>5
<1> QED BY <1>1, <1>2, <1>3, <1>4, <1>6, <1>7, <1>8 DEF Queue, t

(* The first is taken.                                                     *)
Shortens(V, D, R, s, base, end) ==
  LET x == Head(s)
      w == IF x \in D THEN x.size ELSE 0
  IN  /\ x \in V /\ w \in Nat
      /\ Queue(V, D, R, Tail(s), base + w, end)
      /\ SumOf(Weigh(s, D)) = w + SumOf(Weigh(Tail(s), D))
      /\ NoneOf(s, Final(D, R)) => NoneOf(Tail(s), Final(D, R)) /\ x \notin Final(D, R)
      /\ NoneOf(s, D \cup R) => NoneOf(Tail(s), D \cup R) /\ x \notin D \cup R
      /\ x \in Final(D, R) => NoneOf(Tail(s), D \cup R)
      /\ x \in D => x.from = base
      /\ x \in D /\ x.fin => end = "fin"
      /\ x \in R => end = "reset"

LEMMA QueueTail ==
  ASSUME NEW V, NEW D, NEW R, Items(V, D, R), NEW s, NEW base, NEW end, Queue(V, D, R, s, base, end),
         s # << >>
  PROVE  Shortens(V, D, R, s, base, end)
<1> DEFINE t == Tail(s)
           x == Head(s)
           w == IF x \in D THEN x.size ELSE 0
<1>1. /\ s \in Seq(V) /\ base \in Int /\ Weighable(V, D) /\ Placed(s, D, base)
      /\ EndsLast(s, Final(D, R), D \cup R)
      /\ \A k \in 1 .. Len(s) : /\ s[k] \in D /\ s[k].fin => end = "fin"
                                /\ s[k] \in R => end = "reset"
  BY DEF Queue, Items
<1>2. /\ t \in Seq(V) /\ Len(t) = Len(s) - 1 /\ Len(s) \in Nat \ {0} /\ x = s[1] /\ x \in V
      /\ \A k \in 1 .. Len(t) : t[k] = s[k + 1] /\ k + 1 \in 1 .. Len(s)
  <2>1. /\ t \in Seq(V) /\ Len(t) = Len(s) - 1 /\ Len(s) \in Nat \ {0} /\ x = s[1] /\ x \in V
        /\ \A k \in 1 .. Len(t) : t[k] = s[k + 1]
    BY <1>1
  <2> HIDE DEF t
  <2> QED BY <2>1
<1>3. Placed(t, D, base + w)
  BY <1>1, PlacedTail
<1>4. SumOf(Weigh(s, D)) = w + SumOf(Weigh(t, D)) /\ w \in Nat
  BY <1>1, WeighTail
<1>4a. PartialSums(Weigh(s, D))[0] = 0
  <2>1. Weigh(s, D) \in Seq(Int) /\ 0 \in 0 .. Len(Weigh(s, D))
    BY <1>1, WeighType
  <2> QED BY <2>1, PartialSumsFacts DEF Accumulates
<1> HIDE DEF t, w, x
<1>5. EndsLast(t, Final(D, R), D \cup R)
  <2> SUFFICES ASSUME NEW k \in 1 .. Len(t), t[k] \in Final(D, R), NEW j \in k + 1 .. Len(t)
               PROVE  t[j] \notin D \cup R
    BY DEF EndsLast
  <2>1. k + 1 \in 1 .. Len(s) /\ j \in 1 .. Len(t) /\ j + 1 \in (k + 1) + 1 .. Len(s)
    BY <1>2
  <2> QED BY <1>1, <1>2, <2>1 DEF EndsLast
<1>6. \A k \in 1 .. Len(t) : /\ t[k] \in D /\ t[k].fin => end = "fin"
                             /\ t[k] \in R => end = "reset"
  BY <1>1, <1>2
<1>7. NoneOf(s, Final(D, R)) => NoneOf(t, Final(D, R)) /\ x \notin Final(D, R)
  BY <1>2 DEF NoneOf
<1>8. NoneOf(s, D \cup R) => NoneOf(t, D \cup R) /\ x \notin D \cup R
  BY <1>2 DEF NoneOf
<1>9. x \in Final(D, R) => NoneOf(t, D \cup R)
  <2> SUFFICES ASSUME x \in Final(D, R), NEW k \in 1 .. Len(t) PROVE t[k] \notin D \cup R
    BY DEF NoneOf
  <2>1. 1 \in 1 .. Len(s) /\ k + 1 \in 1 + 1 .. Len(s)
    BY <1>2
  <2> QED BY <1>1, <1>2, <2>1 DEF EndsLast
<1>10. x \in D => x.from = base
  <2>1. 1 \in 1 .. Len(s) /\ 1 - 1 = 0
    BY <1>2
  <2>2. x \in D => x.from = base + PartialSums(Weigh(s, D))[0]
    BY <1>1, <1>2, <2>1 DEF Placed
  <2> QED BY <1>1, <1>4a, <2>2
<1>11. (x \in D /\ x.fin => end = "fin") /\ (x \in R => end = "reset")
  BY <1>1, <1>2
<1>12. Queue(V, D, R, t, base + w, end)
  BY <1>1, <1>2, <1>3, <1>4, <1>5, <1>6 DEF Queue
<1> QED BY <1>2, <1>4, <1>7, <1>8, <1>9, <1>10, <1>11, <1>12 DEF Shortens, t, w, x

(* Several members of neither kind.                                        *)
LEMMA QueueOthers ==
  ASSUME NEW V, NEW D, NEW R, Items(V, D, R), NEW s, NEW base, NEW end, Queue(V, D, R, s, base, end),
         NEW m \in Seq(V), NoneOf(m, D \cup R)
  PROVE  /\ Queue(V, D, R, s \o m, base, end)
         /\ SumOf(Weigh(s \o m, D)) = SumOf(Weigh(s, D))
         /\ NoneOf(s, Final(D, R)) <=> NoneOf(s \o m, Final(D, R))
         /\ NoneOf(s, D \cup R) <=> NoneOf(s \o m, D \cup R)
<1> DEFINE Good(u) == /\ Queue(V, D, R, s \o u, base, end)
                      /\ SumOf(Weigh(s \o u, D)) = SumOf(Weigh(s, D))
                      /\ NoneOf(s, Final(D, R)) <=> NoneOf(s \o u, Final(D, R))
                      /\ NoneOf(s, D \cup R) <=> NoneOf(s \o u, D \cup R)
           S == {k \in Nat : \A u \in Seq(V) : Len(u) = k /\ NoneOf(u, D \cup R) => Good(u)}
<1> HIDE DEF Good
<1>1. s \in Seq(V)
  BY DEF Queue
<1>2. 0 \in S
  <2> SUFFICES ASSUME NEW u \in Seq(V), Len(u) = 0 PROVE Good(u)
    OBVIOUS
  <2>1. s \o u = s
    BY <1>1
  <2> QED BY <2>1 DEF Good
<1>3. ASSUME NEW k \in Nat, k \in S PROVE k + 1 \in S
  <2>0. k + 1 \in Nat
    OBVIOUS
  <2> SUFFICES ASSUME NEW u \in Seq(V), Len(u) = k + 1, NoneOf(u, D \cup R) PROVE Good(u)
    BY <2>0, Zenon
  <2> DEFINE v == [i \in 1 .. k |-> u[i]]
             x == u[k + 1]
             l == s \o v
  <2>1. v \in Seq(V) /\ Len(v) = k /\ x \in V /\ \A i \in 1 .. k : v[i] = u[i]
    OBVIOUS
  <2>2. u = Append(v, x)
    OBVIOUS
  <2>3. NoneOf(v, D \cup R) /\ x \notin D \cup R
    BY <2>1 DEF NoneOf
  <2> HIDE DEF v, x
  <2>4. Good(v)
    BY <1>3, <2>1, <2>3
  <2>5. s \o u = Append(l, x)
    BY <1>1, <2>1, <2>2
  <2>6. /\ Queue(V, D, R, l, base, end)
        /\ SumOf(Weigh(l, D)) = SumOf(Weigh(s, D))
        /\ NoneOf(s, Final(D, R)) <=> NoneOf(l, Final(D, R))
        /\ NoneOf(s, D \cup R) <=> NoneOf(l, D \cup R)
    BY <2>4 DEF Good
  <2> HIDE DEF l
  <2>7. /\ Queue(V, D, R, Append(l, x), base, end)
        /\ SumOf(Weigh(Append(l, x), D)) = SumOf(Weigh(l, D))
        /\ NoneOf(l, Final(D, R)) <=> NoneOf(Append(l, x), Final(D, R))
        /\ NoneOf(l, D \cup R) <=> NoneOf(Append(l, x), D \cup R)
    BY <2>1, <2>3, <2>6, QueueOther
  <2> QED BY <2>5, <2>6, <2>7 DEF Good
<1>4. \A k \in Nat : k \in S => k + 1 \in S
  BY <1>3
<1>5. Nat \subseteq S
  <2> HIDE DEF S
  <2> QED BY <1>2, <1>4, SetInduction
<1>6. Len(m) \in Nat
  OBVIOUS
<1>7. Good(m)
  BY <1>5, <1>6
<1> QED BY <1>7 DEF Good

LEMMA QueueOpen ==
  ASSUME NEW V, NEW D, NEW R, NEW s, NEW base, Queue(V, D, R, s, base, "open")
  PROVE  NoneOf(s, Final(D, R))
BY DEF Queue, NoneOf, Final

LEMMA QueueEnd ==
  ASSUME NEW V, NEW D, NEW R, NEW s, NEW base, NEW end, NEW next, Queue(V, D, R, s, base, end),
         NoneOf(s, Final(D, R))
  PROVE  Queue(V, D, R, s, base, next)
BY DEF Queue, NoneOf, Final
InEvents(E, x) == SumOf(Weigh(E, DataEvents(x)))
QuietTold(E, x)   == NoneOf(E, DataEvents(x) \cup ResetEvents(x))
EndInWire(W, x)   == ~NoneOf(W, Final(DataCapsules(x), ResetCapsules(x)))
EndTold(E, x)     == ~NoneOf(E, Final(DataEvents(x), ResetEvents(x)))

WireQueue(W, x, base, end) == Queue(Capsules, DataCapsules(x), ResetCapsules(x), W, base, end)
ToldQueue(E, x, base, end) == Queue(Events, DataEvents(x), ResetEvents(x), E, base, end)

(* In every state.                                                         *)
PipeBase(x, W, E, n, end, rd, told) ==
  /\ n \in Nat /\ rd \in Seq(Nat) /\ rd = Pipes!FirstBytes(Len(rd))
  /\ WireQueue(W, x, n - InWire(W, x), end)
  /\ ToldQueue(E, x, Len(rd), end)
  /\ Len(rd) + InEvents(E, x) <= n
  /\ EndTold(E, x) => Len(rd) + InEvents(E, x) = n
  /\ told # "open" => end = told /\ QuietTold(E, x)

(* As long as the reader processes capsules.                               *)
PipeFlow(x, W, E, n, rd, told) ==
  /\ Len(rd) + InEvents(E, x) + InWire(W, x) = n
  /\ EndTold(E, x) \/ told # "open" => QuietWire(W, x)

LEMMA PipeNumbers ==
  ASSUME NEW x, NEW W, NEW E, NEW n, NEW end, NEW rd, NEW told,
         PipeBase(x, W, E, n, end, rd, told)
  PROVE  /\ W \in Seq(Capsules) /\ E \in Seq(Events)
         /\ InWire(W, x) \in Nat /\ InEvents(E, x) \in Nat /\ n \in Nat /\ Len(rd) \in Nat
<1>1. W \in Seq(Capsules) /\ E \in Seq(Events) /\ n \in Nat /\ rd \in Seq(Nat)
  BY DEF PipeBase, WireQueue, ToldQueue, Queue
<1>2. Weighable(Capsules, DataCapsules(x)) /\ Weighable(Events, DataEvents(x))
  BY PipeItems DEF Items
<1>3. InWire(W, x) \in Nat /\ InEvents(E, x) \in Nat
  BY <1>1, <1>2, WeighType DEF InWire, InEvents
<1>4. Len(rd) \in Nat
  BY <1>1
<1> QED BY <1>1, <1>3, <1>4

(* The writer writes something else.                                       *)
LEMMA PipeWriteOther ==
  ASSUME NEW x, NEW W, NEW E, NEW n, NEW end, NEW rd, NEW told,
         PipeBase(x, W, E, n, end, rd, told),
         NEW c \in Capsules, c \notin DataCapsules(x) \cup ResetCapsules(x)
  PROVE  /\ PipeBase(x, Append(W, c), E, n, end, rd, told)
         /\ PipeFlow(x, W, E, n, rd, told) => PipeFlow(x, Append(W, c), E, n, rd, told)
<1> DEFINE t == Append(W, c)
<1>1. WireQueue(W, x, n - InWire(W, x), end)
  BY DEF PipeBase
<1>2. /\ WireQueue(t, x, n - InWire(W, x), end)
      /\ InWire(t, x) = InWire(W, x)
      /\ QuietWire(W, x) <=> QuietWire(t, x)
  BY <1>1, PipeItems, QueueOther DEF WireQueue, InWire, QuietWire
<1> HIDE DEF t
<1>3. PipeBase(x, t, E, n, end, rd, told)
  BY <1>2 DEF PipeBase
<1>4. PipeFlow(x, W, E, n, rd, told) => PipeFlow(x, t, E, n, rd, told)
  BY <1>2 DEF PipeFlow
<1> QED BY <1>3, <1>4 DEF t

(* The writer writes data, or resets the stream.                           *)
LEMMA PipeWrite ==
  ASSUME NEW x, NEW W, NEW E, NEW n, NEW rd, NEW told,
         PipeBase(x, W, E, n, "open", rd, told),
         NEW c \in DataCapsules(x) \cup ResetCapsules(x), NEW next, NEW size \in Nat,
         c \in DataCapsules(x) => c.from = n /\ c.size = size /\ (c.fin => next = "fin"),
         c \in ResetCapsules(x) => size = 0 /\ next = "reset"
  PROVE  /\ PipeBase(x, Append(W, c), E, n + size, next, rd, told)
         /\ PipeFlow(x, W, E, n, rd, told) => PipeFlow(x, Append(W, c), E, n + size, rd, told)
<1> DEFINE t == Append(W, c)
           D == DataCapsules(x)
           R == ResetCapsules(x)
<1>0. InWire(W, x) \in Nat /\ InEvents(E, x) \in Nat /\ n \in Nat /\ Len(rd) \in Nat
  BY PipeNumbers
<1>1. /\ WireQueue(W, x, n - InWire(W, x), "open") /\ ToldQueue(E, x, Len(rd), "open")
      /\ rd \in Seq(Nat) /\ rd = Pipes!FirstBytes(Len(rd))
      /\ Len(rd) + InEvents(E, x) <= n
      /\ told # "open" => "open" = told
  BY DEF PipeBase
<1>2. NoneOf(W, Final(D, R)) /\ ~EndTold(E, x)
  BY <1>1, QueueOpen DEF WireQueue, ToldQueue, EndTold
<1>3. ToldQueue(E, x, Len(rd), next)
  BY <1>1, <1>2, QueueEnd DEF ToldQueue, EndTold
<1>4. Items(Capsules, D, R) /\ D \cap R = {}
  BY PipeItems DEF Items
<1> HIDE DEF D, R
<1>5. /\ Queue(Capsules, D, R, W, n - InWire(W, x), "open")
      /\ InWire(W, x) = SumOf(Weigh(W, D)) /\ c \in D \cup R
      /\ c \in D => c.from = n /\ c.size = size /\ (c.fin => next = "fin")
      /\ c \in R => size = 0 /\ next = "reset"
  BY <1>1 DEF WireQueue, InWire, D, R
<1>6. c \in D => c.from = (n - InWire(W, x)) + SumOf(Weigh(W, D))
  BY <1>0, <1>5
<1>7. /\ Queue(Capsules, D, R, t, n - InWire(W, x), next)
      /\ SumOf(Weigh(t, D)) = SumOf(Weigh(W, D)) + IF c \in D THEN c.size ELSE 0
  <2>1. (c \in D /\ c.fin => next = "fin") /\ (c \in R => next = "reset")
    BY <1>5
  <2> QED BY <1>2, <1>4, <1>5, <1>6, <2>1, QueueItem
<1> HIDE DEF t
<1>8. (IF c \in D THEN c.size ELSE 0) = size
  BY <1>4, <1>5
<1>9. InWire(t, x) = InWire(W, x) + size
  BY <1>5, <1>7, <1>8 DEF InWire, D
<1>10. (n + size) - InWire(t, x) = n - InWire(W, x) /\ n + size \in Nat
  BY <1>0, <1>9
<1>11. WireQueue(t, x, (n + size) - InWire(t, x), next)
  BY <1>7, <1>10 DEF WireQueue, D, R
<1>12. Len(rd) + InEvents(E, x) <= n + size
  BY <1>0, <1>1
<1>13. told = "open"
  BY <1>1
<1>14. PipeBase(x, t, E, n + size, next, rd, told)
  BY <1>1, <1>2, <1>3, <1>10, <1>11, <1>12, <1>13 DEF PipeBase
<1>15. PipeFlow(x, W, E, n, rd, told) => PipeFlow(x, t, E, n + size, rd, told)
  BY <1>0, <1>2, <1>9, <1>13 DEF PipeFlow
<1> QED BY <1>14, <1>15 DEF t

(* A capsule is dropped: the reader has failed, or its session is closed.  *)
LEMMA PipeDrop ==
  ASSUME NEW x, NEW W, NEW E, NEW n, NEW end, NEW rd, NEW told,
         PipeBase(x, W, E, n, end, rd, told), W # << >>
  PROVE  PipeBase(x, Tail(W), E, n, end, rd, told)
<1> DEFINE t == Tail(W)
           D == DataCapsules(x)
           w == IF Head(W) \in D THEN Head(W).size ELSE 0
<1>0. InWire(W, x) \in Nat /\ n \in Nat
  BY PipeNumbers
<1>1. WireQueue(W, x, n - InWire(W, x), end)
  BY DEF PipeBase
<1>2. /\ WireQueue(t, x, (n - InWire(W, x)) + w, end) /\ w \in Nat
      /\ InWire(W, x) = w + InWire(t, x)
  <2> DEFINE R == ResetCapsules(x)
  <2>1. Items(Capsules, D, R)
    BY PipeItems
  <2> HIDE DEF D, R
  <2>2. Shortens(Capsules, D, R, W, n - InWire(W, x), end)
    BY <1>1, <2>1, QueueTail DEF WireQueue, D, R
  <2> QED BY <2>2 DEF Shortens, WireQueue, InWire, D, R
<1>3. t \in Seq(Capsules)
  BY <1>2 DEF WireQueue, Queue
<1> HIDE DEF t, w
<1>4. InWire(t, x) \in Nat
  BY <1>3, PipeItems, WeighType DEF InWire, Items
<1>5. (n - InWire(W, x)) + w = n - InWire(t, x)
  BY <1>0, <1>2, <1>4
<1>6. WireQueue(t, x, n - InWire(t, x), end)
  BY <1>2, <1>5
<1>7. PipeBase(x, t, E, n, end, rd, told)
  BY <1>6 DEF PipeBase
<1> QED BY <1>7 DEF t

(* What an accepted capsule adds to the events: of stream x the data or    *)
(* the reset it brings, and nothing else.                                  *)
Delivered(x, c, E, F) ==
  \E m \in Seq(Events) :
    /\ QuietTold(m, x)
    /\ \/ c \notin DataCapsules(x) \cup ResetCapsules(x) /\ F = E \o m
       \/ /\ c \in DataCapsules(x)
          /\ \E e \in DataEvents(x) :
               F = Append(E \o m, e) /\ e.from = c.from /\ e.size = c.size /\ e.fin = c.fin
       \/ /\ c \in ResetCapsules(x)
          /\ \E e \in ResetEvents(x) : F = Append(E \o m, e)

LEMMA PipeShortens ==
  ASSUME NEW x, NEW W, NEW E, NEW n, NEW end, NEW rd, NEW told,
         PipeBase(x, W, E, n, end, rd, told)
  PROVE  /\ W # << >> => Shortens(Capsules, DataCapsules(x), ResetCapsules(x), W, n - InWire(W, x), end)
         /\ E # << >> => Shortens(Events, DataEvents(x), ResetEvents(x), E, Len(rd), end)
<1>1. /\ Queue(Capsules, DataCapsules(x), ResetCapsules(x), W, n - InWire(W, x), end)
      /\ Queue(Events, DataEvents(x), ResetEvents(x), E, Len(rd), end)
  BY DEF PipeBase, WireQueue, ToldQueue
<1> QED BY <1>1, PipeItems, QueueTail

LEMMA PipeDeliver ==
  ASSUME NEW x, NEW W, NEW E, NEW n, NEW end, NEW rd, NEW told,
         PipeBase(x, W, E, n, end, rd, told), PipeFlow(x, W, E, n, rd, told), W # << >>,
         NEW F, Delivered(x, Head(W), E, F)
  PROVE  PipeBase(x, Tail(W), F, n, end, rd, told) /\ PipeFlow(x, Tail(W), F, n, rd, told)
<1> DEFINE D == DataCapsules(x)
           R == ResetCapsules(x)
           A == DataEvents(x)
           B == ResetEvents(x)
           c == Head(W)
           T == Tail(W)
           w == IF c \in D THEN c.size ELSE 0
<1>0. /\ Items(Capsules, D, R) /\ Items(Events, A, B) /\ D \cap R = {} /\ A \cap B = {}
  BY PipeItems DEF Items
<1>1. /\ W \in Seq(Capsules) /\ E \in Seq(Events) /\ n \in Nat /\ Len(rd) \in Nat
      /\ InWire(W, x) \in Nat /\ InEvents(E, x) \in Nat
  BY PipeNumbers
<1>2. PipeBase(x, T, E, n, end, rd, told)
  BY PipeDrop
<1>3. InWire(T, x) \in Nat /\ T \in Seq(Capsules)
  BY <1>2, PipeNumbers
<1>4. Shortens(Capsules, D, R, W, n - InWire(W, x), end)
  BY PipeShortens
<1>5. PICK m \in Seq(Events) :
        /\ NoneOf(m, A \cup B)
        /\ \/ c \notin D \cup R /\ F = E \o m
           \/ /\ c \in D
              /\ \E e \in A : F = Append(E \o m, e) /\ e.from = c.from /\ e.size = c.size /\ e.fin = c.fin
           \/ c \in R /\ \E e \in B : F = Append(E \o m, e)
  BY Zenon DEF Delivered, QuietTold
<1> DEFINE G == E \o m
<1>6. ToldQueue(E, x, Len(rd), end)
  BY DEF PipeBase
<1>7. /\ Queue(Events, A, B, G, Len(rd), end)
      /\ SumOf(Weigh(G, A)) = InEvents(E, x)
      /\ NoneOf(E, Final(A, B)) <=> NoneOf(G, Final(A, B))
      /\ NoneOf(E, A \cup B) <=> NoneOf(G, A \cup B)
  BY <1>0, <1>5, <1>6, QueueOthers DEF ToldQueue, InEvents
<1> HIDE DEF G, D, R, A, B, c, T
<1>8. /\ w \in Nat /\ InWire(W, x) = w + InWire(T, x)
      /\ NoneOf(W, D \cup R) => NoneOf(T, D \cup R) /\ c \notin D \cup R
      /\ c \in Final(D, R) => NoneOf(T, D \cup R)
      /\ c \in D => c.from = n - InWire(W, x)
      /\ c \in D /\ c.fin => end = "fin"
      /\ c \in R => end = "reset"
  BY <1>4 DEF Shortens, InWire, D, c, T
<1> HIDE DEF w
<1>9. /\ Len(rd) + InEvents(E, x) + InWire(W, x) = n
      /\ ~NoneOf(E, Final(A, B)) \/ told # "open" => NoneOf(W, D \cup R)
  BY DEF PipeFlow, QuietWire, EndTold, A, B, D, R
<1>10. CASE c \notin D \cup R
  <2>1. F = G /\ w = 0
    BY <1>5, <1>10 DEF w, G
  <2>2. /\ ToldQueue(F, x, Len(rd), end) /\ InEvents(F, x) = InEvents(E, x)
        /\ EndTold(F, x) <=> EndTold(E, x)
        /\ QuietTold(F, x) <=> QuietTold(E, x)
    BY <1>7, <2>1 DEF ToldQueue, InEvents, EndTold, QuietTold, A, B
  <2>3. PipeBase(x, T, F, n, end, rd, told)
    BY <1>2, <2>2 DEF PipeBase
  <2>4. InWire(T, x) = InWire(W, x)
    BY <1>3, <1>8, <2>1
  <2>5. EndTold(F, x) \/ told # "open" => QuietWire(T, x)
    BY <1>8, <1>9, <2>2 DEF EndTold, QuietWire, A, B, D, R
  <2>6. PipeFlow(x, T, F, n, rd, told)
    BY <1>9, <2>2, <2>4, <2>5 DEF PipeFlow
  <2> QED BY <2>3, <2>6 DEF T
<1>11. CASE c \in D \cup R
  <2>1. told = "open" /\ NoneOf(E, Final(A, B)) /\ NoneOf(G, Final(A, B))
    BY <1>7, <1>8, <1>9, <1>11
  <2>2. PICK e \in A \cup B :
          /\ F = Append(G, e)
          /\ e \in A => c \in D /\ e.from = c.from /\ e.size = c.size /\ e.fin = c.fin
          /\ e \in B => c \in R
    BY <1>0, <1>5, <1>11 DEF G
  <2>3. e \in A <=> c \in D
    BY <1>0, <2>2
  <2>4. e \in A => e.from = Len(rd) + SumOf(Weigh(G, A))
    BY <1>1, <1>7, <1>8, <1>9, <2>2
  <2>5. (e \in A /\ e.fin => end = "fin") /\ (e \in B => end = "reset")
    BY <1>8, <2>2
  <2>6. /\ Queue(Events, A, B, F, Len(rd), end)
        /\ SumOf(Weigh(F, A)) = SumOf(Weigh(G, A)) + IF e \in A THEN e.size ELSE 0
        /\ e \notin Final(A, B) => NoneOf(F, Final(A, B))
    <3> DEFINE H == Append(G, e)
    <3>1. /\ Queue(Events, A, B, H, Len(rd), end)
          /\ SumOf(Weigh(H, A)) = SumOf(Weigh(G, A)) + IF e \in A THEN e.size ELSE 0
          /\ e \notin Final(A, B) => NoneOf(H, Final(A, B))
      BY <1>0, <1>7, <2>1, <2>2, <2>4, <2>5, QueueItem
    <3> QED BY <2>2, <3>1
  <2>7. InEvents(F, x) = InEvents(E, x) + w
    BY <1>7, <2>2, <2>3, <2>6 DEF InEvents, A, w
  <2>8. Len(rd) + InEvents(F, x) + InWire(T, x) = n
    BY <1>1, <1>3, <1>8, <1>9, <2>7
  <2>9. EndTold(F, x) => NoneOf(T, D \cup R)
    <3>1. e \in Final(A, B) => c \in Final(D, R)
      BY <2>2 DEF Final
    <3>2. EndTold(F, x) => e \in Final(A, B)
      BY <2>6 DEF EndTold, A, B
    <3> QED BY <1>8, <3>1, <3>2
  <2>10. EndTold(F, x) => Len(rd) + InEvents(F, x) = n
    <3> SUFFICES ASSUME EndTold(F, x) PROVE Len(rd) + InEvents(F, x) = n
      OBVIOUS
    <3>1. InWire(T, x) = 0
      BY <1>0, <1>3, <2>9, NoneSum DEF InWire, D
    <3> QED BY <1>1, <1>8, <2>7, <2>8, <3>1
  <2>11. Len(rd) + InEvents(F, x) <= n
    BY <1>1, <1>3, <1>8, <2>7, <2>8
  <2>12. ToldQueue(F, x, Len(rd), end)
    BY <2>6 DEF ToldQueue, A, B
  <2>13. PipeBase(x, T, F, n, end, rd, told)
    BY <1>2, <2>1, <2>10, <2>11, <2>12 DEF PipeBase
  <2>14. PipeFlow(x, T, F, n, rd, told)
    BY <2>1, <2>8, <2>9 DEF PipeFlow, QuietWire, D, R
  <2> QED BY <2>13, <2>14 DEF T
<1> QED BY <1>10, <1>11

(* The application takes an event that is not about the pipe.              *)
LEMMA PipePollOther ==
  ASSUME NEW x, NEW W, NEW E, NEW n, NEW end, NEW rd, NEW told,
         PipeBase(x, W, E, n, end, rd, told), E # << >>,
         Head(E) \notin DataEvents(x) \cup ResetEvents(x)
  PROVE  /\ PipeBase(x, W, Tail(E), n, end, rd, told)
         /\ PipeFlow(x, W, E, n, rd, told) => PipeFlow(x, W, Tail(E), n, rd, told)
<1> DEFINE A == DataEvents(x)
           B == ResetEvents(x)
           e == Head(E)
           T == Tail(E)
<1>1. Shortens(Events, A, B, E, Len(rd), end) /\ Len(rd) \in Nat /\ InEvents(E, x) \in Nat
  BY PipeShortens, PipeNumbers
<1> HIDE DEF A, B
<1>2. /\ Queue(Events, A, B, T, Len(rd) + 0, end)
      /\ SumOf(Weigh(E, A)) = 0 + SumOf(Weigh(T, A))
      /\ NoneOf(E, Final(A, B)) => NoneOf(T, Final(A, B))
      /\ NoneOf(E, A \cup B) => NoneOf(T, A \cup B)
  BY <1>1 DEF Shortens, A
<1> HIDE DEF T, e
<1>3. SumOf(Weigh(T, A)) \in Nat
  <2>1. T \in Seq(Events) /\ Weighable(Events, A)
    BY <1>2, PipeItems DEF Queue, Items, A
  <2> QED BY <2>1, WeighType
<1>4. /\ ToldQueue(T, x, Len(rd), end) /\ InEvents(T, x) = InEvents(E, x)
      /\ EndTold(T, x) => EndTold(E, x)
      /\ QuietTold(E, x) => QuietTold(T, x)
  <2>1. Len(rd) + 0 = Len(rd) /\ SumOf(Weigh(E, A)) = SumOf(Weigh(T, A))
    BY <1>1, <1>2, <1>3
  <2> QED BY <1>2, <2>1 DEF ToldQueue, InEvents, EndTold, QuietTold, A, B
<1>5. PipeBase(x, W, T, n, end, rd, told)
  BY <1>4 DEF PipeBase
<1>6. PipeFlow(x, W, E, n, rd, told) => PipeFlow(x, W, T, n, rd, told)
  BY <1>4 DEF PipeFlow
<1> QED BY <1>5, <1>6 DEF T

(* The application is given data, or told of the reset.                    *)
Gives(x, e, rd, told, more, now) ==
  /\ more = IF e \in DataEvents(x) THEN rd \o [k \in 1 .. e.size |-> e.from + k] ELSE rd
  /\ now = IF e \in DataEvents(x) THEN IF e.fin THEN "fin" ELSE told ELSE "reset"

LEMMA PipePoll ==
  ASSUME NEW x, NEW W, NEW E, NEW n, NEW end, NEW rd, NEW told,
         PipeBase(x, W, E, n, end, rd, told), E # << >>,
         NEW e, e = Head(E), e \in DataEvents(x) \cup ResetEvents(x),
         NEW more, NEW now, Gives(x, e, rd, told, more, now)
  PROVE  /\ PipeBase(x, W, Tail(E), n, end, more, now)
         /\ PipeFlow(x, W, E, n, rd, told) => PipeFlow(x, W, Tail(E), n, more, now)
         /\ told = "open" /\ Len(more) \in Len(rd) .. n /\ more = Pipes!FirstBytes(Len(more))
         /\ now # "open" => end = now /\ Len(more) = n
<1> DEFINE A == DataEvents(x)
           B == ResetEvents(x)
           T == Tail(E)
           w == IF e \in A THEN e.size ELSE 0
<1>1. /\ Shortens(Events, A, B, E, Len(rd), end) /\ Len(rd) \in Nat /\ InEvents(E, x) \in Nat
      /\ n \in Nat /\ Items(Events, A, B) /\ A \cap B = {}
  BY PipeShortens, PipeNumbers, PipeItems DEF Items
<1> HIDE DEF A, B
<1>2. /\ Queue(Events, A, B, T, Len(rd) + w, end)
      /\ SumOf(Weigh(E, A)) = w + SumOf(Weigh(T, A)) /\ w \in Nat
      /\ NoneOf(E, Final(A, B)) => NoneOf(T, Final(A, B)) /\ e \notin Final(A, B)
      /\ NoneOf(E, A \cup B) => e \notin A \cup B
      /\ e \in Final(A, B) => NoneOf(T, A \cup B)
      /\ e \in A => e.from = Len(rd)
      /\ e \in A /\ e.fin => end = "fin"
      /\ e \in B => end = "reset"
  BY <1>1 DEF Shortens, A
<1> HIDE DEF T
<1>3. T \in Seq(Events) /\ SumOf(Weigh(T, A)) \in Nat
  <2>1. T \in Seq(Events) /\ Weighable(Events, A)
    BY <1>1, <1>2 DEF Queue, Items
  <2> QED BY <2>1, WeighType
<1>4. /\ rd \in Seq(Nat) /\ rd = Pipes!FirstBytes(Len(rd))
      /\ Len(rd) + InEvents(E, x) <= n
      /\ EndTold(E, x) => Len(rd) + InEvents(E, x) = n
      /\ told # "open" => NoneOf(E, A \cup B)
  BY DEF PipeBase, QuietTold, A, B
<1>5. told = "open" /\ e \in A \cup B
  BY <1>2, <1>4 DEF A, B
<1>6. more \in Seq(Nat) /\ Len(more) = Len(rd) + w /\ more = Pipes!FirstBytes(Len(more))
  <2>1. CASE e \in A
    <3> DEFINE size == e.size
               tail == [k \in 1 .. size |-> e.from + k]
    <3>0. more = rd \o tail
      BY <2>1 DEF A, Gives
    <3>1. size \in Nat /\ w = size /\ e.from = Len(rd) /\ more = rd \o tail
      <4>1. w = size
        BY <2>1
      <4>2. w \in Nat /\ e.from = Len(rd)
        BY <1>2, <2>1
      <4> HIDE DEF w, size, tail
      <4> QED BY <3>0, <4>1, <4>2
    <3>2. tail = [k \in 1 .. size |-> Len(rd) + k]
      BY <3>1
    <3> HIDE DEF size, tail
    <3>3. tail \in Seq(Nat) /\ Len(tail) = size /\ \A k \in 1 .. size : tail[k] = Len(rd) + k
      BY <1>1, <3>1, <3>2
    <3>4. more \in Seq(Nat) /\ Len(more) = Len(rd) + size
      <4>1. rd \in Seq(Nat) /\ tail \in Seq(Nat)
        BY <1>4, <3>3
      <4>2. rd \o tail \in Seq(Nat) /\ Len(rd \o tail) = Len(rd) + Len(tail)
        BY <4>1
      <4> HIDE DEF w
      <4> QED BY <3>1, <3>3, <4>2
    <3>5. \A k \in 1 .. Len(rd) : rd[k] = k
      BY <1>1, <1>4 DEF Pipes!FirstBytes
    <3>6. ASSUME NEW k \in 1 .. Len(more) PROVE more[k] = k
      <4>1. CASE k <= Len(rd)
        BY <1>1, <1>4, <3>1, <3>3, <3>5, <4>1
      <4>2. CASE k > Len(rd)
        <5>1. k - Len(rd) \in 1 .. size
          BY <1>1, <3>1, <3>4, <4>2
        <5>2. more[k] = tail[k - Len(rd)]
          BY <1>1, <1>4, <3>1, <3>3, <3>4, <4>2
        <5> QED BY <1>1, <3>3, <5>1, <5>2
      <4> QED BY <1>1, <3>4, <4>1, <4>2
    <3>7. more = [k \in 1 .. Len(more) |-> k]
      BY <3>4, <3>6
    <3> QED BY <3>1, <3>4, <3>7 DEF Pipes!FirstBytes
  <2>2. CASE e \notin A
    <3>1. more = rd /\ w = 0
      BY <2>2 DEF A, w, Gives
    <3> QED BY <1>1, <1>4, <3>1
  <2> QED BY <2>1, <2>2
<1> HIDE DEF w
<1>7. InEvents(E, x) = w + InEvents(T, x) /\ InEvents(T, x) \in Nat
  BY <1>2, <1>3 DEF InEvents, A
<1>8. Len(more) + InEvents(T, x) = Len(rd) + InEvents(E, x)
  BY <1>1, <1>2, <1>6, <1>7
<1>9. EndTold(T, x) \/ e \in Final(A, B) => EndTold(E, x)
  BY <1>2 DEF EndTold, A, B
<1>10. now # "open" => e \in Final(A, B) /\ end = now
  BY <1>2, <1>5 DEF Final, A, Gives
<1>11. /\ now # "open" => NoneOf(T, A \cup B) /\ EndTold(E, x)
       /\ now # "open" => InEvents(T, x) = 0
  <2>1. now # "open" => NoneOf(T, A \cup B) /\ EndTold(E, x)
    BY <1>2, <1>9, <1>10
  <2>2. now # "open" => InEvents(T, x) = 0
    BY <1>1, <1>3, <2>1, NoneSum DEF InEvents, A
  <2> QED BY <2>1, <2>2
<1>12. ToldQueue(T, x, Len(more), end)
  BY <1>2, <1>6 DEF ToldQueue, A, B
<1>13. PipeBase(x, W, T, n, end, more, now)
  <2>1. n \in Nat /\ WireQueue(W, x, n - InWire(W, x), end)
    BY DEF PipeBase
  <2>2. Len(more) + InEvents(T, x) <= n /\ (EndTold(T, x) => Len(more) + InEvents(T, x) = n)
    BY <1>4, <1>8, <1>9
  <2>3. now # "open" => end = now /\ QuietTold(T, x)
    BY <1>10, <1>11 DEF QuietTold, A, B
  <2> QED BY <1>6, <1>12, <2>1, <2>2, <2>3 DEF PipeBase
<1>14. PipeFlow(x, W, E, n, rd, told) => PipeFlow(x, W, T, n, more, now)
  <2> SUFFICES ASSUME PipeFlow(x, W, E, n, rd, told) PROVE PipeFlow(x, W, T, n, more, now)
    OBVIOUS
  <2>1. Len(more) + InEvents(T, x) + InWire(W, x) = n
    BY <1>8 DEF PipeFlow
  <2>2. EndTold(T, x) \/ now # "open" => QuietWire(W, x)
    BY <1>9, <1>11 DEF PipeFlow
  <2> QED BY <2>1, <2>2 DEF PipeFlow
<1>15. Len(more) \in Len(rd) .. n
  BY <1>1, <1>2, <1>4, <1>6, <1>7
<1>16. now # "open" => Len(more) = n
  BY <1>4, <1>6, <1>1, <1>2, <1>8, <1>11
<1> QED BY <1>5, <1>6, <1>10, <1>13, <1>14, <1>15, <1>16 DEF T

QuietAppended(x, m, e, E) ==
  /\ Append(m, e) \in Seq(Events) /\ QuietTold(Append(m, e), x)
  /\ Append(E \o m, e) = E \o Append(m, e)

LEMMA AppendQuiet ==
  ASSUME NEW x, NEW m \in Seq(Events), QuietTold(m, x), NEW e \in Events,
         e \notin DataEvents(x) \cup ResetEvents(x), NEW E \in Seq(Events)
  PROVE  QuietAppended(x, m, e, E)
<1> DEFINE t == Append(m, e)
<1>1. /\ t \in Seq(Events) /\ Len(t) = Len(m) + 1 /\ Len(m) \in Nat /\ t[Len(m) + 1] = e
      /\ \A k \in 1 .. Len(m) : t[k] = m[k]
  OBVIOUS
<1>2. Append(E \o m, e) = E \o t
  OBVIOUS
<1> HIDE DEF t
<1>3. QuietTold(t, x)
  BY <1>1 DEF QuietTold, NoneOf
<1> QED BY <1>1, <1>2, <1>3 DEF t, QuietAppended

LEMMA DeliverOther ==
  ASSUME NEW x, NEW c, c \notin DataCapsules(x) \cup ResetCapsules(x), NEW E \in Seq(Events),
         NEW m \in Seq(Events), QuietTold(m, x), NEW e \in Events,
         e \notin DataEvents(x) \cup ResetEvents(x)
  PROVE  Delivered(x, c, E, E \o m) /\ Delivered(x, c, E, Append(E \o m, e))
<1> DEFINE t == Append(m, e)
<1>1. t \in Seq(Events) /\ QuietTold(t, x) /\ Append(E \o m, e) = E \o t
  <2>1. QuietAppended(x, m, e, E)
    BY AppendQuiet
  <2> QED BY <2>1, Zenon DEF QuietAppended
<1> HIDE DEF t
<1>2. Delivered(x, c, E, E \o m)
  BY DEF Delivered
<1>3. Delivered(x, c, E, E \o t)
  BY <1>1 DEF Delivered
<1> QED BY <1>1, <1>2, <1>3

LEMMA TakesDelivered ==
  ASSUME NEW s \in Sessions, NEW t, NEW c \in Capsules, Takes(s, t, c), s.state # "Closed",
         NEW x \in Ids
  PROVE  Delivered(x, c, s.events, t.events)
<1> DEFINE E == s.events
<1>0. E \in Seq(Events) /\ E \o << >> = E
  BY DEF Sessions
<1>a. << >> \in Seq(Events) /\ QuietTold(<< >>, x)
  BY DEF QuietTold, NoneOf
<1>b. ASSUME NEW m, Announces(s, t, m) PROVE m \in Seq(Events) /\ QuietTold(m, x)
  <2>1. m \in Seq(Events) /\ \A k \in 1 .. Len(m) : m[k].type = "StreamOpened"
    BY <1>b DEF Announces
  <2> QED BY <2>1 DEF QuietTold, NoneOf, DataEvents, ResetEvents
<1>c. /\ c.type # "STREAM" => c \notin DataCapsules(x)
      /\ c.type # "RESET_STREAM" => c \notin ResetCapsules(x)
      /\ c.id # x => c \notin DataCapsules(x) \cup ResetCapsules(x)
  BY DEF DataCapsules, ResetCapsules
<1>1. CASE c \in QuietCapsules /\ TakesQuiet(s, t, c)
  <2>1. c \notin DataCapsules(x) \cup ResetCapsules(x)
    BY <1>1, <1>c DEF QuietCapsules
  <2> DEFINE o == [type |-> "StreamOpened", id |-> x]
  <2>2. o \in Events /\ o \notin DataEvents(x) \cup ResetEvents(x)
    BY DEF Events, DataEvents, ResetEvents
  <2> HIDE DEF o
  <2>3. CASE t.events = E
    <3>1. Delivered(x, c, E, E \o << >>)
      BY <1>0, <1>a, <2>1, <2>2, DeliverOther
    <3> QED BY <1>0, <2>3, <3>1
  <2>4. CASE \E e \in QuietEvents : t.events = Append(E, e)
    <3>1. PICK e \in QuietEvents : t.events = Append(E, e)
      BY <2>4
    <3>2. e \in Events /\ e \notin DataEvents(x) \cup ResetEvents(x)
      BY DEF QuietEvents, Events, DataEvents, ResetEvents
    <3>3. Delivered(x, c, E, Append(E \o << >>, e))
      BY <1>0, <1>a, <2>1, <3>2, DeliverOther
    <3> QED BY <1>0, <3>1, <3>3
  <2> QED BY <1>1, <2>3, <2>4 DEF TakesQuiet
<1>2. CASE c.type = "STREAM" /\ TakesData(s, t, c)
  <2> DEFINE e == [type |-> "StreamData", id |-> c.id, from |-> c.from, size |-> c.size,
                   fin |-> c.fin]
             m == MadeEvents(s, c.id)
  <2>1. /\ c.id \in Ids /\ m \in Seq(Events)
        /\ \A y : Remembered(t, y) <=> Remembered(s, y) \/ y \in MadeIds(s, c.id)
        /\ t.events = Append(E \o m, e)
    BY <1>2 DEF TakesData
  <2>2. Announces(s, t, m)
    BY <2>1, MadeAnnounces
  <2>3. e.type = "StreamData" /\ e.id = c.id /\ e.from = c.from /\ e.size = c.size /\ e.fin = c.fin
    OBVIOUS
  <2>4. e \in Events
    BY <1>2, CapsuleFields DEF Events
  <2> HIDE DEF e, m
  <2>5. QuietTold(m, x)
    BY <1>b, <2>2
  <2>6. CASE c.id = x
    <3>1. c \in DataCapsules(x) /\ e \in DataEvents(x)
      BY <1>2, <2>3, <2>4, <2>6 DEF DataCapsules, DataEvents
    <3> QED BY <2>1, <2>3, <2>5, <3>1 DEF Delivered
  <2>7. CASE c.id # x
    <3>1. e \notin DataEvents(x) \cup ResetEvents(x)
      BY <2>3, <2>7 DEF DataEvents, ResetEvents
    <3> QED BY <1>0, <1>c, <2>1, <2>4, <2>5, <2>7, <3>1, DeliverOther
  <2> QED BY <2>6, <2>7
<1>3. CASE c.type = "RESET_STREAM" /\ TakesReset(s, t, c)
  <2> DEFINE e == [type |-> "StreamReset", id |-> c.id]
  <2>1. c.id \in Ids /\ t.events = Append(E \o << >>, e)
    BY <1>0, <1>3 DEF TakesReset
  <2>2. e.type = "StreamReset" /\ e.id = c.id /\ e \in Events
    BY <2>1 DEF Events
  <2> HIDE DEF e
  <2>3. CASE c.id = x
    <3>1. c \in ResetCapsules(x) /\ e \in ResetEvents(x)
      BY <1>3, <2>2, <2>3 DEF ResetCapsules, ResetEvents
    <3> QED BY <1>a, <2>1, <3>1 DEF Delivered
  <2>4. CASE c.id # x
    <3>1. e \notin DataEvents(x) \cup ResetEvents(x)
      BY <2>2, <2>4 DEF DataEvents, ResetEvents
    <3>2. Delivered(x, c, E, Append(E \o << >>, e))
      BY <1>0, <1>a, <1>c, <2>2, <2>4, <3>1, DeliverOther
    <3> QED BY <2>1, <3>2
  <2> QED BY <2>3, <2>4
<1>4. CASE c.type = "STOP_SENDING" /\ TakesStop(s, t, c)
  <2> DEFINE e == [type |-> "StopSending", id |-> c.id]
             m == MadeEvents(s, c.id)
  <2>1. /\ c.id \in Ids /\ m \in Seq(Events)
        /\ \A y : Remembered(t, y) <=> Remembered(s, y) \/ y \in MadeIds(s, c.id)
        /\ t.events = Append(E \o m, e)
    BY <1>4 DEF TakesStop
  <2>2. Announces(s, t, m)
    BY <2>1, MadeAnnounces
  <2>3. e.type = "StopSending" /\ e \in Events
    BY <2>1 DEF Events
  <2> HIDE DEF e, m
  <2>4. QuietTold(m, x) /\ e \notin DataEvents(x) \cup ResetEvents(x)
    BY <1>b, <2>2, <2>3 DEF DataEvents, ResetEvents
  <2> QED BY <1>0, <1>4, <1>c, <2>1, <2>3, <2>4, DeliverOther
<1>5. CASE c.type = "MAX_STREAM_DATA" /\ TakesCredit(s, t, c)
  <2> DEFINE o == [type |-> "StreamOpened", id |-> x]
             m == MadeEvents(s, c.id)
  <2>1. /\ c.id \in Ids /\ m \in Seq(Events)
        /\ \A y : Remembered(t, y) <=> Remembered(s, y) \/ y \in MadeIds(s, c.id)
        /\ t.events = E \o m
    BY <1>5 DEF TakesCredit
  <2>2. Announces(s, t, m)
    BY <2>1, MadeAnnounces
  <2>3. o \in Events /\ o \notin DataEvents(x) \cup ResetEvents(x)
    BY DEF Events, DataEvents, ResetEvents
  <2> HIDE DEF o, m
  <2>4. QuietTold(m, x)
    BY <1>b, <2>2
  <2> QED BY <1>0, <1>5, <1>c, <2>1, <2>3, <2>4, DeliverOther
<1> QED BY <1>1, <1>2, <1>3, <1>4, <1>5 DEF Takes

-----------------------------------------------------------------------------
(* The pipes of the pair.                                                  *)

Alive(q) == q \notin failed /\ session[q].state # "Closed"

Based(w, x) ==
  LET p == Pipe(w, x)
  IN  PipeBase(x, wire[w], session[Peer(w)].events, written[p], ended[p], read[p], seen[p])

Flows(w, x) ==
  LET p == Pipe(w, x)
  IN  PipeFlow(x, wire[w], session[Peer(w)].events, written[p], read[p], seen[p])

Writes(w, x) ==
  Sending(session[w], x) =>
    ended[Pipe(w, x)] = "open" /\ Sent(session[w], x) = written[Pipe(w, x)]

PipeInv(w, x) == Based(w, x) /\ (Alive(Peer(w)) => Flows(w, x)) /\ Writes(w, x)

PipesInv == \A w \in Roles, x \in Ids : HasSendPart(w, x) => PipeInv(w, x)

(* Nothing happens to a pipe.                                              *)
SamePipe(p) ==
  /\ written'[p] = written[p] /\ ended'[p] = ended[p]
  /\ read'[p] = read[p] /\ seen'[p] = seen[p]

(* End r writes at most something else, and sends no more than before.     *)
LEMMA WriterOther ==
  ASSUME NEW r \in Roles, NEW x \in Ids, HasSendPart(r, x), PipeInv(r, x), session[r].role = r,
         session'[Peer(r)] = session[Peer(r)], Peer(r) \in failed => Peer(r) \in failed',
         SamePipe(Pipe(r, x)), SendsLess(session[r], session'[r], x),
         \/ wire'[r] = wire[r]
         \/ \E c \in Capsules : /\ c \notin DataCapsules(x) \cup ResetCapsules(x)
                                /\ wire'[r] = Append(wire[r], c)
  PROVE  PipeInv(r, x)'
<1> DEFINE p == Pipe(r, x)
           q == Peer(r)
           E == session[q].events
<1>1. PipeBase(x, wire[r], E, written[p], ended[p], read[p], seen[p])
  BY DEF PipeInv, Based
<1>2. /\ PipeBase(x, wire'[r], E, written[p], ended[p], read[p], seen[p])
      /\ PipeFlow(x, wire[r], E, written[p], read[p], seen[p]) =>
           PipeFlow(x, wire'[r], E, written[p], read[p], seen[p])
  <2>1. CASE wire'[r] = wire[r]
    BY <1>1, <2>1
  <2>2. CASE \E c \in Capsules : /\ c \notin DataCapsules(x) \cup ResetCapsules(x)
                                 /\ wire'[r] = Append(wire[r], c)
    <3>1. PICK c \in Capsules : /\ c \notin DataCapsules(x) \cup ResetCapsules(x)
                                /\ wire'[r] = Append(wire[r], c)
      BY <2>2
    <3> DEFINE W == wire[r]
               n == written[p]
               end == ended[p]
               rd == read[p]
               told == seen[p]
    <3> HIDE DEF W, n, end, rd, told, E
    <3>2. /\ PipeBase(x, Append(W, c), E, n, end, rd, told)
          /\ PipeFlow(x, W, E, n, rd, told) => PipeFlow(x, Append(W, c), E, n, rd, told)
      BY <1>1, <3>1, PipeWriteOther DEF W, n, end, rd, told
    <3> QED BY <3>1, <3>2 DEF W, n, end, rd, told
  <2> QED BY <2>1, <2>2
<1>3. Based(r, x)'
  BY <1>2 DEF Based, SamePipe
<1>4. Flows(r, x) => Flows(r, x)'
  BY <1>2 DEF Flows, SamePipe
<1>5. Alive(q)' => Alive(q)
  BY DEF Alive
<1>6. Writes(r, x)'
  BY DEF Writes, SamePipe, SendsLess, PipeInv
<1> QED BY <1>3, <1>4, <1>5, <1>6 DEF PipeInv

(* End r writes data, or resets the stream.                                *)
LEMMA WriterItem ==
  ASSUME NEW r \in Roles, NEW x \in Ids, PipeInv(r, x), Sending(session[r], x),
         session'[Peer(r)] = session[Peer(r)], Peer(r) \in failed => Peer(r) \in failed',
         NEW c \in DataCapsules(x) \cup ResetCapsules(x), NEW size \in Nat,
         wire'[r] = Append(wire[r], c),
         c \in DataCapsules(x) => /\ c.from = Sent(session[r], x) /\ c.size = size
                                  /\ c.fin => ended'[Pipe(r, x)] = "fin",
         c \in ResetCapsules(x) => size = 0 /\ ended'[Pipe(r, x)] = "reset",
         written'[Pipe(r, x)] = written[Pipe(r, x)] + size,
         read'[Pipe(r, x)] = read[Pipe(r, x)], seen'[Pipe(r, x)] = seen[Pipe(r, x)],
         Writes(r, x)'
  PROVE  PipeInv(r, x)' /\ ended[Pipe(r, x)] = "open"
<1> DEFINE p == Pipe(r, x)
           q == Peer(r)
           E == session[q].events
           W == wire[r]
           n == written[p]
           next == ended'[p]
           rd == read[p]
           told == seen[p]
<1>1. ended[p] = "open" /\ Sent(session[r], x) = n
  BY DEF PipeInv, Writes
<1>2. PipeBase(x, W, E, n, "open", rd, told)
  BY <1>1 DEF PipeInv, Based
<1>3. /\ c \in DataCapsules(x) => c.from = n /\ c.size = size /\ (c.fin => next = "fin")
      /\ c \in ResetCapsules(x) => size = 0 /\ next = "reset"
  BY <1>1
<1> HIDE DEF E, W, n, next, rd, told
<1>4. /\ PipeBase(x, Append(W, c), E, n + size, next, rd, told)
      /\ PipeFlow(x, W, E, n, rd, told) => PipeFlow(x, Append(W, c), E, n + size, rd, told)
  BY <1>2, <1>3, PipeWrite
<1>5. /\ wire'[r] = Append(W, c) /\ session'[q].events = E /\ written'[p] = n + size
      /\ ended'[p] = next /\ read'[p] = rd /\ seen'[p] = told
  BY DEF W, E, n, next, rd, told
<1>6. Based(r, x)'
  BY <1>4, <1>5 DEF Based
<1>7. Flows(r, x) => Flows(r, x)'
  BY <1>4, <1>5 DEF Flows, W, E, n, rd, told
<1>8. Alive(q)' => Alive(q)
  BY DEF Alive
<1> QED BY <1>1, <1>6, <1>7, <1>8 DEF PipeInv

(* What end r does leaves what it reads alone.                             *)
LEMMA ReaderSame ==
  ASSUME NEW r \in Roles, NEW x \in Ids, PipeInv(Peer(r), x),
         session'[Peer(r)] = session[Peer(r)], wire'[Peer(r)] = wire[Peer(r)],
         session'[r].events = session[r].events, Alive(r)' => Alive(r),
         SamePipe(Pipe(Peer(r), x))
  PROVE  PipeInv(Peer(r), x)'
<1>1. Peer(Peer(r)) = r
  BY PeerFacts
<1>2. Based(Peer(r), x)'
  BY <1>1 DEF PipeInv, Based, SamePipe
<1>3. Flows(Peer(r), x) => Flows(Peer(r), x)'
  BY <1>1 DEF Flows, SamePipe
<1>4. Writes(Peer(r), x)'
  BY DEF PipeInv, Writes, SamePipe
<1> QED BY <1>1, <1>2, <1>3, <1>4 DEF PipeInv

(* End r processes a capsule, or drops it.                                 *)
LEMMA ReaderTakes ==
  ASSUME NEW r \in Roles, NEW x \in Ids, PipeInv(Peer(r), x),
         session'[Peer(r)] = session[Peer(r)], wire[Peer(r)] # << >>,
         wire'[Peer(r)] = Tail(wire[Peer(r)]), SamePipe(Pipe(Peer(r), x)),
         \/ session'[r].events = session[r].events /\ ~Alive(r)'
         \/ Alive(r) /\ Delivered(x, Head(wire[Peer(r)]), session[r].events, session'[r].events)
  PROVE  PipeInv(Peer(r), x)'
<1> DEFINE q == Peer(r)
           p == Pipe(q, x)
           E == session[r].events
           F == session'[r].events
           W == wire[q]
           n == written[p]
           end == ended[p]
           rd == read[p]
           told == seen[p]
<1>1. Peer(q) = r
  BY PeerFacts
<1>2. /\ PipeBase(x, W, E, n, end, rd, told)
      /\ Alive(r) => PipeFlow(x, W, E, n, rd, told)
      /\ W # << >>
  BY <1>1 DEF PipeInv, Based, Flows
<1>3. /\ wire'[q] = Tail(W) /\ written'[p] = n /\ ended'[p] = end /\ read'[p] = rd /\ seen'[p] = told
      /\ session'[Peer(q)].events = F
  BY <1>1 DEF SamePipe
<1>4. (F = E /\ ~Alive(r)') \/ (Alive(r) /\ Delivered(x, Head(W), E, F))
  OBVIOUS
<1>5. Writes(q, x)'
  BY DEF PipeInv, Writes, SamePipe
<1> HIDE DEF E, F, W, n, end, rd, told
<1>6. PipeBase(x, Tail(W), F, n, end, rd, told) /\ (Alive(r)' => PipeFlow(x, Tail(W), F, n, rd, told))
  <2>1. CASE F = E /\ ~Alive(r)'
    BY <1>2, <2>1, PipeDrop
  <2>2. CASE Alive(r) /\ Delivered(x, Head(W), E, F)
    BY <1>2, <2>2, PipeDeliver
  <2> QED BY <1>4, <2>1, <2>2
<1>7. Based(q, x)'
  BY <1>3, <1>6 DEF Based
<1>8. Alive(r)' => Flows(q, x)'
  BY <1>3, <1>6 DEF Flows
<1> QED BY <1>1, <1>5, <1>7, <1>8 DEF PipeInv

(* End r polls.                                                            *)
LEMMA ReaderPolls ==
  ASSUME NEW r \in Roles, NEW x \in Ids, PipeInv(Peer(r), x),
         session'[Peer(r)] = session[Peer(r)], wire'[Peer(r)] = wire[Peer(r)],
         session[r].events # << >>, session'[r].events = Tail(session[r].events),
         Alive(r)' => Alive(r),
         written'[Pipe(Peer(r), x)] = written[Pipe(Peer(r), x)],
         ended'[Pipe(Peer(r), x)] = ended[Pipe(Peer(r), x)],
         IF Head(session[r].events) \in DataEvents(x) \cup ResetEvents(x)
         THEN Gives(x, Head(session[r].events), read[Pipe(Peer(r), x)], seen[Pipe(Peer(r), x)],
                    read'[Pipe(Peer(r), x)], seen'[Pipe(Peer(r), x)])
         ELSE /\ read'[Pipe(Peer(r), x)] = read[Pipe(Peer(r), x)]
              /\ seen'[Pipe(Peer(r), x)] = seen[Pipe(Peer(r), x)]
  PROVE  /\ PipeInv(Peer(r), x)'
         /\ Head(session[r].events) \in DataEvents(x) \cup ResetEvents(x) =>
              LET p == Pipe(Peer(r), x)
              IN  /\ seen[p] = "open" /\ Len(read'[p]) \in Len(read[p]) .. written[p]
                  /\ read'[p] = Pipes!FirstBytes(Len(read'[p]))
                  /\ seen'[p] # "open" => ended[p] = seen'[p] /\ Len(read'[p]) = written[p]
<1> DEFINE q == Peer(r)
           p == Pipe(q, x)
           E == session[r].events
           W == wire[q]
           n == written[p]
           end == ended[p]
           rd == read[p]
           told == seen[p]
           more == read'[p]
           now == seen'[p]
           e == Head(E)
<1>1. Peer(q) = r
  BY PeerFacts
<1>2. /\ PipeBase(x, W, E, n, end, rd, told)
      /\ Alive(r) => PipeFlow(x, W, E, n, rd, told)
      /\ E # << >>
  BY <1>1 DEF PipeInv, Based, Flows
<1>3. /\ wire'[q] = W /\ written'[p] = n /\ ended'[p] = end /\ read'[p] = more /\ seen'[p] = now
      /\ session'[Peer(q)].events = Tail(E)
  BY <1>1
<1>4. /\ e \in DataEvents(x) \cup ResetEvents(x) => Gives(x, e, rd, told, more, now)
      /\ e \notin DataEvents(x) \cup ResetEvents(x) => more = rd /\ now = told
  OBVIOUS
<1>5. Writes(q, x)'
  BY DEF PipeInv, Writes
<1> HIDE DEF E, W, n, end, rd, told, more, now
<1>6. /\ PipeBase(x, W, Tail(E), n, end, more, now)
      /\ PipeFlow(x, W, E, n, rd, told) => PipeFlow(x, W, Tail(E), n, more, now)
      /\ e \in DataEvents(x) \cup ResetEvents(x) =>
           /\ told = "open" /\ Len(more) \in Len(rd) .. n /\ more = Pipes!FirstBytes(Len(more))
           /\ now # "open" => end = now /\ Len(more) = n
  <2>1. CASE e \in DataEvents(x) \cup ResetEvents(x)
    <3>1. Gives(x, e, rd, told, more, now)
      BY <1>4, <2>1
    <3> QED BY <1>2, <2>1, <3>1, PipePoll
  <2>2. CASE e \notin DataEvents(x) \cup ResetEvents(x)
    BY <1>2, <1>4, <2>2, PipePollOther
  <2> QED BY <2>1, <2>2
<1>7. Based(q, x)'
  BY <1>3, <1>6 DEF Based
<1>8. Alive(r)' => Flows(q, x)'
  BY <1>2, <1>3, <1>6 DEF Flows
<1>9. PipeInv(q, x)'
  BY <1>1, <1>5, <1>7, <1>8 DEF PipeInv
<1> QED BY <1>6, <1>9 DEF E, n, end, rd, told, more, now

LEMMA AliveLess ==
  ASSUME NEW r, EndStep(r), failed' = failed
  PROVE  Alive(r)' => Alive(r)
BY DEF Alive, EndStep

LEMMA OwnPipe ==
  ASSUME NEW r \in Roles, NEW x \in Ids, HasSendPart(r, x)
  PROVE  Pipe(r, x) \in StreamPipes
BY DEF Pipe, StreamPipes

LEMMA CallReads ==
  ASSUME PipesInv, NEW r \in Roles, CallStep(r), NEW x \in Ids, HasSendPart(Peer(r), x),
         SamePipe(Pipe(Peer(r), x))
  PROVE  PipeInv(Peer(r), x)'
<1>1. Peer(r) \in Roles /\ PipeInv(Peer(r), x)
  BY PeerFacts DEF PipesInv
<1>2. Alive(r)' => Alive(r)
  BY AliveLess DEF CallStep
<1>3. /\ session'[Peer(r)] = session[Peer(r)] /\ wire'[Peer(r)] = wire[Peer(r)]
      /\ session'[r].events = session[r].events
  BY DEF CallStep, EndStep
<1> QED BY <1>1, <1>2, <1>3, ReaderSame

(* The invariant of every pipe, by its writer.                             *)
LEMMA BothEnds ==
  ASSUME NEW r \in Roles, \A x \in Ids : HasSendPart(r, x) => PipeInv(r, x)',
         \A x \in Ids : HasSendPart(Peer(r), x) => PipeInv(Peer(r), x)'
  PROVE  PipesInv'
<1>1. \A w \in Roles : w = r \/ w = Peer(r)
  BY PeerFacts
<1> QED BY <1>1 DEF PipesInv

LEMMA QuietPipes ==
  ASSUME PairType, PipesInv, NEW r \in Roles, QuietStep(r)
  PROVE  PipesInv' /\ UNCHANGED Pipes!vars
<1>1. /\ CallStep(r) /\ UNCHANGED history
      /\ \/ wire'[r] = wire[r]
         \/ \E c \in Capsules :
              c.type \notin {"STREAM", "RESET_STREAM"} /\ wire'[r] = Append(wire[r], c)
      /\ \A x \in Ids : SendsLess(session[r], session'[r], x)
  BY DEF QuietStep
<1>2. \A p : SamePipe(p)
  BY <1>1 DEF SamePipe, history
<1>3. \A x \in Ids : HasSendPart(Peer(r), x) => PipeInv(Peer(r), x)'
  BY <1>1, <1>2, CallReads
<1>4. ASSUME NEW x \in Ids, HasSendPart(r, x) PROVE PipeInv(r, x)'
  <2>1. \/ wire'[r] = wire[r]
        \/ \E c \in Capsules : /\ c \notin DataCapsules(x) \cup ResetCapsules(x)
                               /\ wire'[r] = Append(wire[r], c)
    BY <1>1 DEF DataCapsules, ResetCapsules
  <2>2. PipeInv(r, x) /\ session[r].role = r /\ session'[Peer(r)] = session[Peer(r)] /\ failed' = failed
    BY <1>1, <1>4 DEF PipesInv, PairType, CallStep, EndStep
  <2> QED BY <1>1, <1>2, <1>4, <2>1, <2>2, WriterOther
<1>5. PipesInv'
  BY <1>3, <1>4, BothEnds
<1> QED BY <1>1, <1>5 DEF history, Pipes!vars

(* A change at one pipe is none at the others.                             *)
LEMMA Elsewhere ==
  ASSUME HistoryType, NEW p \in StreamPipes, NEW q, q # p, NEW a, NEW b, NEW c, NEW d,
         written' = [written EXCEPT ![q] = a] \/ written' = written,
         ended' = [ended EXCEPT ![q] = b] \/ ended' = ended,
         read' = [read EXCEPT ![q] = c] \/ read' = read,
         seen' = [seen EXCEPT ![q] = d] \/ seen' = seen
  PROVE  SamePipe(p)
<1>1. written'[p] = written[p]
  BY DEF HistoryType
<1>2. ended'[p] = ended[p]
  BY DEF HistoryType
<1>3. read'[p] = read[p]
  BY DEF HistoryType
<1>4. seen'[p] = seen[p]
  BY DEF HistoryType
<1> QED BY <1>1, <1>2, <1>3, <1>4 DEF SamePipe

LEMMA DataPipes ==
  ASSUME PairType, HistoryType, PipesInv, NEW r \in Roles, NEW id \in Ids, NEW size \in Nat,
         NEW fin \in BOOLEAN, DataStep(r, id, size, fin)
  PROVE  PipesInv' /\ Pipes!Next
<1> DEFINE c == [type |-> "STREAM", id |-> id, from |-> Sent(session[r], id), size |-> size,
                 fin |-> fin]
           p == Pipe(r, id)
           q == Peer(r)
<1>1. /\ CallStep(r) /\ HasSendPart(r, id) /\ Sending(session[r], id)
      /\ wire'[r] = Append(wire[r], c)
      /\ \A x \in Ids \ {id} : SendsLess(session[r], session'[r], x)
      /\ Sending(session'[r], id) => ~fin /\ Sent(session'[r], id) = Sent(session[r], id) + size
      /\ written' = [written EXCEPT ![p] = @ + size]
      /\ ended' = [ended EXCEPT ![p] = IF fin THEN "fin" ELSE @]
      /\ UNCHANGED <<read, seen>>
  BY DEF DataStep
<1>2. p \in StreamPipes
  BY <1>1, OwnPipe
<1>3. q \in Roles /\ q # r
  BY PeerFacts
<1>4. \A x, y : Pipe(q, y) # p /\ (x # id => Pipe(r, x) # p)
  BY <1>3, PipesApart
<1>5. \A y \in StreamPipes : y # p => SamePipe(y)
  BY <1>1, Elsewhere
<1>6. /\ written'[p] = written[p] + size /\ ended'[p] = (IF fin THEN "fin" ELSE ended[p])
      /\ read'[p] = read[p] /\ seen'[p] = seen[p]
  BY <1>1, <1>2 DEF HistoryType
<1>7. \A x \in Ids : HasSendPart(q, x) => PipeInv(q, x)'
  <2> SUFFICES ASSUME NEW x \in Ids, HasSendPart(q, x) PROVE PipeInv(q, x)'
    OBVIOUS
  <2>1. SamePipe(Pipe(q, x))
    BY <1>3, <1>4, <1>5, OwnPipe
  <2> QED BY <1>1, <2>1, CallReads
<1>8. /\ session[r].role = r /\ session'[q] = session[q] /\ failed' = failed
      /\ \A x \in Ids : HasSendPart(r, x) => PipeInv(r, x)
  BY <1>1 DEF PairType, CallStep, EndStep, PipesInv
<1>9. c.type = "STREAM" /\ c.id = id /\ c.from = Sent(session[r], id) /\ c.size = size /\ c.fin = fin
  OBVIOUS
<1>10. c \in Capsules
  <2>1. session[r] \in Sessions
    BY DEF PairType
  <2>2. Known(session[r], id) => session[r].streams[id] \in WtStreams
    BY <2>1, KnownStream
  <2>3. Sent(session[r], id) \in Nat
    BY <2>2 DEF Sent, WtStreams
  <2> QED BY <2>3 DEF Capsules
<1> HIDE DEF c
<1>11. ASSUME NEW x \in Ids, HasSendPart(r, x) PROVE PipeInv(r, x)'
  <2>1. CASE x # id
    <3>1. c \notin DataCapsules(x) \cup ResetCapsules(x)
      BY <1>9, <2>1 DEF DataCapsules, ResetCapsules
    <3>2. SamePipe(Pipe(r, x))
      BY <1>4, <1>5, <1>11, <2>1, OwnPipe
    <3>3. \E d \in Capsules : /\ d \notin DataCapsules(x) \cup ResetCapsules(x)
                              /\ wire'[r] = Append(wire[r], d)
      BY <1>1, <1>10, <3>1
    <3>4. SendsLess(session[r], session'[r], x) /\ PipeInv(r, x)
      BY <1>1, <1>8, <1>11, <2>1
    <3> QED BY <1>8, <1>11, <3>2, <3>3, <3>4, WriterOther
  <2>2. CASE x = id
    <3>1. c \in DataCapsules(x) /\ c \notin ResetCapsules(x)
      BY <1>9, <1>10, <2>2 DEF DataCapsules, ResetCapsules
    <3>2. PipeInv(r, x) /\ ended[p] = "open" /\ Sent(session[r], id) = written[p]
      BY <1>1, <1>8, <1>11, <2>2 DEF PipeInv, Writes
    <3>3. Writes(r, x)'
      BY <1>1, <1>6, <2>2, <3>2 DEF Writes
    <3>4. c.fin => ended'[p] = "fin"
      BY <1>6, <1>9
    <3> QED BY <1>1, <1>6, <1>8, <1>9, <2>2, <3>1, <3>2, <3>3, <3>4, WriterItem
  <2> QED BY <2>1, <2>2
<1>12. PipesInv'
  BY <1>7, <1>11, BothEnds
<1>13. Pipes!Write(p)
  <2>1. ended[p] = "open"
    BY <1>1, <1>8 DEF PipeInv, Writes
  <2>2. written'[p] >= written[p] /\ written' = [written EXCEPT ![p] = written'[p]]
    <3>1. written[p] \in Nat
      BY <1>2 DEF HistoryType
    <3>2. written'[p] >= written[p]
      BY <1>6, <3>1
    <3> QED BY <1>1, <1>6, <3>2
  <2>3. \E e \in {"open", "fin"} : ended' = [ended EXCEPT ![p] = e]
    BY <1>1, <2>1
  <2> QED BY <1>1, <2>1, <2>2, <2>3 DEF Pipes!Write
<1> QED BY <1>2, <1>12, <1>13 DEF Pipes!Next

(* The sending direction of id is reset.                                   *)
LEMMA ResetWrites ==
  ASSUME PairType, HistoryType, PipesInv, NEW r \in Roles, NEW id \in Ids, Resets(r, id),
         session'[Peer(r)] = session[Peer(r)], failed' = failed, UNCHANGED <<written, read, seen>>
  PROVE  /\ \A x \in Ids : HasSendPart(r, x) => PipeInv(r, x)'
         /\ \A x \in Ids : HasSendPart(Peer(r), x) => SamePipe(Pipe(Peer(r), x))
         /\ Pipes!Next
<1> DEFINE c == [type |-> "RESET_STREAM", id |-> id, reliable_size |-> Sent(session[r], id)]
           p == Pipe(r, id)
           q == Peer(r)
<1>1. /\ HasSendPart(r, id) /\ Sending(session[r], id) /\ ~Sending(session'[r], id)
      /\ wire'[r] = Append(wire[r], c)
      /\ \A x \in Ids \ {id} : SendsLess(session[r], session'[r], x)
      /\ ended' = [ended EXCEPT ![p] = "reset"]
  BY DEF Resets
<1>2. p \in StreamPipes
  BY <1>1, OwnPipe
<1>3. q \in Roles /\ q # r
  BY PeerFacts
<1>4. \A x, y : Pipe(q, y) # p /\ (x # id => Pipe(r, x) # p)
  BY <1>3, PipesApart
<1>5. \A y \in StreamPipes : y # p => SamePipe(y)
  BY <1>1, Elsewhere
<1>6. ended'[p] = "reset" /\ written'[p] = written[p] + 0 /\ read'[p] = read[p] /\ seen'[p] = seen[p]
  BY <1>1, <1>2 DEF HistoryType
<1>7. \A x \in Ids : HasSendPart(q, x) => SamePipe(Pipe(q, x))
  BY <1>3, <1>4, <1>5, OwnPipe
<1>8. session[r].role = r /\ \A x \in Ids : HasSendPart(r, x) => PipeInv(r, x)
  BY DEF PairType, PipesInv
<1>9. c.type = "RESET_STREAM" /\ c.id = id
  OBVIOUS
<1>10. c \in Capsules
  <2>1. session[r] \in Sessions
    BY DEF PairType
  <2>2. Known(session[r], id) => session[r].streams[id] \in WtStreams
    BY <2>1, KnownStream
  <2>3. Sent(session[r], id) \in Nat
    BY <2>2 DEF Sent, WtStreams
  <2> QED BY <2>3 DEF Capsules
<1> HIDE DEF c
<1>11. ASSUME NEW x \in Ids, HasSendPart(r, x) PROVE PipeInv(r, x)'
  <2>1. CASE x # id
    <3>1. c \notin DataCapsules(x) \cup ResetCapsules(x)
      BY <1>9, <2>1 DEF DataCapsules, ResetCapsules
    <3>2. SamePipe(Pipe(r, x))
      BY <1>4, <1>5, <1>11, <2>1, OwnPipe
    <3>3. \E d \in Capsules : /\ d \notin DataCapsules(x) \cup ResetCapsules(x)
                              /\ wire'[r] = Append(wire[r], d)
      BY <1>1, <1>10, <3>1
    <3>4. SendsLess(session[r], session'[r], x) /\ PipeInv(r, x)
      BY <1>1, <1>8, <1>11, <2>1
    <3> QED BY <1>8, <1>11, <3>2, <3>3, <3>4, WriterOther
  <2>2. CASE x = id
    <3>1. c \in ResetCapsules(x) /\ c \notin DataCapsules(x)
      BY <1>9, <1>10, <2>2 DEF DataCapsules, ResetCapsules
    <3>2. PipeInv(r, x)
      BY <1>8, <1>11
    <3>3. Writes(r, x)'
      BY <1>1, <2>2 DEF Writes
    <3> QED BY <1>1, <1>6, <2>2, <3>1, <3>2, <3>3, WriterItem
  <2> QED BY <2>1, <2>2
<1>12. Pipes!Reset(p)
  <2>1. ended[p] = "open"
    BY <1>1, <1>8 DEF PipeInv, Writes
  <2> QED BY <1>1, <2>1 DEF Pipes!Reset
<1> QED BY <1>2, <1>7, <1>11, <1>12 DEF Pipes!Next

LEMMA ResetPipes ==
  ASSUME PairType, HistoryType, PipesInv, NEW r \in Roles, NEW id \in Ids, ResetStep(r, id)
  PROVE  PipesInv' /\ Pipes!Next
<1>1. /\ CallStep(r) /\ Resets(r, id) /\ UNCHANGED <<written, read, seen>>
      /\ session'[Peer(r)] = session[Peer(r)] /\ failed' = failed
  BY DEF ResetStep, CallStep, EndStep
<1>2. /\ \A x \in Ids : HasSendPart(r, x) => PipeInv(r, x)'
      /\ \A x \in Ids : HasSendPart(Peer(r), x) => SamePipe(Pipe(Peer(r), x))
      /\ Pipes!Next
  BY <1>1, ResetWrites
<1>3. \A x \in Ids : HasSendPart(Peer(r), x) => PipeInv(Peer(r), x)'
  BY <1>1, <1>2, CallReads
<1> QED BY <1>2, <1>3, BothEnds

LEMMA TakePipes ==
  ASSUME PairType, HistoryType, PipesInv, NEW r \in Roles, TakeStep(r)
  PROVE  PipesInv' /\ [Pipes!Next]_(Pipes!vars)
<1> DEFINE q == Peer(r)
           c == Head(wire[q])
<1>1. /\ EndStep(r) /\ wire[q] # << >> /\ r \notin failed
      /\ wire'[q] = Tail(wire[q]) /\ failed' = failed
      /\ \/ wire'[r] = wire[r] /\ ended' = ended
            /\ \A x \in Ids : SendsLess(session[r], session'[r], x)
         \/ \E id \in Ids : Resets(r, id)
      /\ \E t \in Sessions :
           /\ Takes(session[r], t, c)
           /\ session'[r].events = t.events /\ session'[r].state = t.state
           /\ SameRemembered(t, session'[r])
      /\ UNCHANGED <<written, read, seen>>
  BY DEF TakeStep
<1>2. /\ session'[q] = session[q] /\ session[r].role = r /\ session[r] \in Sessions
      /\ q \in Roles /\ c \in Capsules
      /\ \A x \in Ids : HasSendPart(r, x) => PipeInv(r, x)
      /\ \A x \in Ids : HasSendPart(q, x) => PipeInv(q, x)
  <2>1. q \in Roles
    BY PeerFacts
  <2>2. wire[q] \in Seq(Capsules)
    BY <2>1 DEF PairType
  <2>3. c \in Capsules
    BY <1>1, <2>2
  <2> QED BY <1>1, <2>1, <2>3 DEF EndStep, PairType, PipesInv
<1>3. PICK t \in Sessions :
        /\ Takes(session[r], t, c)
        /\ session'[r].events = t.events /\ session'[r].state = t.state
  BY <1>1
<1>4. ASSUME NEW x \in Ids
      PROVE  \/ session'[r].events = session[r].events /\ ~Alive(r)'
             \/ Alive(r) /\ Delivered(x, c, session[r].events, session'[r].events)
  <2>1. CASE session[r].state = "Closed"
    <3>1. t = session[r]
      BY <1>3, <2>1 DEF Takes
    <3> QED BY <1>3, <2>1, <3>1 DEF Alive
  <2>2. CASE session[r].state # "Closed"
    <3>1. Delivered(x, c, session[r].events, t.events)
      BY <1>2, <1>3, <2>2, TakesDelivered
    <3> QED BY <1>1, <1>3, <2>2, <3>1 DEF Alive
  <2> QED BY <2>1, <2>2
<1> HIDE DEF c
<1>5. ASSUME \A x \in Ids : HasSendPart(q, x) => SamePipe(Pipe(q, x))
      PROVE  \A x \in Ids : HasSendPart(q, x) => PipeInv(q, x)'
  <2> SUFFICES ASSUME NEW x \in Ids, HasSendPart(q, x) PROVE PipeInv(q, x)'
    OBVIOUS
  <2>1. \/ session'[r].events = session[r].events /\ ~Alive(r)'
        \/ Alive(r) /\ Delivered(x, Head(wire[Peer(r)]), session[r].events, session'[r].events)
    BY <1>4 DEF c
  <2> QED BY <1>1, <1>2, <1>5, <2>1, ReaderTakes
<1>6. CASE \E id \in Ids : Resets(r, id)
  <2>1. PICK id \in Ids : Resets(r, id)
    BY <1>6
  <2>2. /\ \A x \in Ids : HasSendPart(r, x) => PipeInv(r, x)'
        /\ \A x \in Ids : HasSendPart(q, x) => SamePipe(Pipe(q, x))
        /\ Pipes!Next
    BY <1>1, <1>2, <2>1, ResetWrites
  <2> QED BY <1>5, <2>2, BothEnds
<1>7. CASE /\ wire'[r] = wire[r] /\ ended' = ended
           /\ \A x \in Ids : SendsLess(session[r], session'[r], x)
  <2>1. \A p : SamePipe(p)
    BY <1>1, <1>7 DEF SamePipe
  <2>2. \A x \in Ids : HasSendPart(r, x) => PipeInv(r, x)'
    BY <1>1, <1>2, <1>7, <2>1, WriterOther
  <2>3. PipesInv'
    BY <1>5, <2>1, <2>2, BothEnds
  <2> QED BY <1>1, <1>7, <2>3 DEF Pipes!vars
<1> QED BY <1>1, <1>6, <1>7

LEMMA FailPipes ==
  ASSUME PairType, PipesInv, NEW r \in Roles, FailStep(r)
  PROVE  PipesInv' /\ UNCHANGED Pipes!vars
<1> DEFINE q == Peer(r)
<1>1. /\ session' = session /\ wire[q] # << >> /\ failed' = failed \cup {r}
      /\ wire'[r] = wire[r] /\ wire'[q] = Tail(wire[q])
      /\ UNCHANGED history
  BY DEF FailStep
<1>2. \A p : SamePipe(p)
  BY <1>1 DEF SamePipe, history
<1>3. ~Alive(r)' /\ q \in Roles /\ session[r].role = r
  BY <1>1, PeerFacts DEF Alive, PairType
<1>4. \A x \in Ids : HasSendPart(q, x) => PipeInv(q, x)'
  BY <1>1, <1>2, <1>3, ReaderTakes DEF PipesInv
<1>5. \A x \in Ids : SendsLess(session[r], session'[r], x)
  BY <1>1 DEF SendsLess
<1>6. \A x \in Ids : HasSendPart(r, x) => PipeInv(r, x)'
  BY <1>1, <1>2, <1>3, <1>5, WriterOther DEF PipesInv
<1>7. PipesInv'
  BY <1>4, <1>6, BothEnds
<1> QED BY <1>1, <1>7 DEF history, Pipes!vars

LEMMA PollPipes ==
  ASSUME PairType, HistoryType, PipesInv, NEW r \in Roles, PollStep(r)
  PROVE  PipesInv' /\ [Pipes!Next]_(Pipes!vars)
<1> DEFINE q == Peer(r)
           event == Head(session[r].events)
           pipe == Pipe(q, event.id)
           more == [k \in 1 .. event.size |-> event.from + k]
<1>1. /\ EndStep(r) /\ wire'[r] = wire[r] /\ wire'[q] = wire[q] /\ failed' = failed
      /\ session[r].events # << >> /\ session'[r].events = Tail(session[r].events)
      /\ \A x \in Ids : SendsLess(session[r], session'[r], x)
      /\ read' = IF event.type = "StreamData" THEN [read EXCEPT ![pipe] = @ \o more] ELSE read
      /\ seen' = IF event.type = "StreamData" /\ event.fin
                 THEN [seen EXCEPT ![pipe] = "fin"]
                 ELSE IF event.type = "StreamReset" THEN [seen EXCEPT ![pipe] = "reset"]
                 ELSE seen
      /\ UNCHANGED <<written, ended>>
  BY DEF PollStep
<1>2. /\ session'[q] = session[q] /\ session[r].role = r /\ event \in Events
      /\ q \in Roles /\ q # r
      /\ \A x \in Ids : HasSendPart(r, x) => PipeInv(r, x)
      /\ \A x \in Ids : HasSendPart(q, x) => PipeInv(q, x)
  <2>1. q \in Roles /\ q # r
    BY PeerFacts
  <2>2. session[r].events \in Seq(Events) /\ session[r].role = r
    BY DEF PairType, Sessions
  <2>3. event \in Events
    <3>1. session[r].events # << >>
      BY <1>1
    <3> HIDE <1>1
    <3> QED BY <3>1, <2>2
  <2> QED BY <1>1, <2>1, <2>2, <2>3 DEF EndStep, PipesInv
<1> HIDE DEF more, event
<1>3. \A x, y : Pipe(r, x) # Pipe(q, y) /\ (x # y => Pipe(q, x) # Pipe(q, y))
  BY <1>2, PipesApart
<1>4. \A p \in StreamPipes : p # pipe => SamePipe(p)
  BY <1>1, Elsewhere
<1>5. \A x \in Ids : HasSendPart(r, x) => PipeInv(r, x)'
  <2> SUFFICES ASSUME NEW x \in Ids, HasSendPart(r, x) PROVE PipeInv(r, x)'
    OBVIOUS
  <2>1. SamePipe(Pipe(r, x))
    BY <1>3, <1>4, OwnPipe
  <2> QED BY <1>1, <1>2, <2>1, WriterOther
<1>6. ASSUME NEW x \in Ids, HasSendPart(q, x)
      PROVE  LET p == Pipe(q, x)
             IN  IF event \in DataEvents(x) \cup ResetEvents(x)
                 THEN Gives(x, event, read[p], seen[p], read'[p], seen'[p])
                 ELSE read'[p] = read[p] /\ seen'[p] = seen[p]
  <2> DEFINE p == Pipe(q, x)
  <2>1. p \in StreamPipes
    BY <1>2, <1>6, OwnPipe
  <2>2. CASE event.id # x
    <3>1. SamePipe(p) /\ event \notin DataEvents(x) \cup ResetEvents(x)
      BY <1>3, <1>4, <2>1, <2>2 DEF DataEvents, ResetEvents
    <3> QED BY <3>1 DEF SamePipe
  <2>3. CASE event.id = x
    <3>1. p = pipe
      BY <2>3
    <3> HIDE DEF p, pipe
    <3>2. read \in [StreamPipes -> Seq(Nat)] /\ seen \in [StreamPipes -> {"open", "fin", "reset"}]
      BY DEF HistoryType
    <3>3. CASE event.type = "StreamData"
      <4>1. event \in DataEvents(x)
        BY <1>2, <2>3, <3>3 DEF DataEvents
      <4>2. read'[p] = read[p] \o more
        BY <1>1, <2>1, <3>1, <3>2, <3>3
      <4>3. seen'[p] = IF event.fin THEN "fin" ELSE seen[p]
        BY <1>1, <2>1, <3>1, <3>2, <3>3
      <4>4. Gives(x, event, read[p], seen[p], read'[p], seen'[p])
        BY <4>1, <4>2, <4>3 DEF Gives, more
      <4> QED BY <4>1, <4>4 DEF p
    <3>4. CASE event.type = "StreamReset"
      <4>1. event \in ResetEvents(x) /\ event \notin DataEvents(x)
        BY <1>2, <2>3, <3>4 DEF DataEvents, ResetEvents
      <4>2. read'[p] = read[p] /\ seen'[p] = "reset"
        BY <1>1, <2>1, <3>1, <3>2, <3>4
      <4>3. Gives(x, event, read[p], seen[p], read'[p], seen'[p])
        BY <4>1, <4>2 DEF Gives
      <4> QED BY <4>1, <4>3 DEF p
    <3>5. CASE event.type \notin {"StreamData", "StreamReset"}
      <4>1. event \notin DataEvents(x) \cup ResetEvents(x)
        BY <3>5 DEF DataEvents, ResetEvents
      <4>2. read' = read /\ seen' = seen
        BY <1>1, <3>5
      <4> QED BY <4>1, <4>2
    <3> QED BY <3>3, <3>4, <3>5
  <2> QED BY <2>2, <2>3
<1>7. ASSUME NEW x \in Ids, HasSendPart(q, x)
      PROVE  /\ PipeInv(q, x)'
             /\ event \in DataEvents(x) \cup ResetEvents(x) =>
                  LET p == Pipe(q, x)
                  IN  /\ seen[p] = "open" /\ Len(read'[p]) \in Len(read[p]) .. written[p]
                      /\ read'[p] = Pipes!FirstBytes(Len(read'[p]))
                      /\ seen'[p] # "open" => ended[p] = seen'[p] /\ Len(read'[p]) = written[p]
  <2>1. IF Head(session[r].events) \in DataEvents(x) \cup ResetEvents(x)
        THEN Gives(x, Head(session[r].events), read[Pipe(q, x)], seen[Pipe(q, x)],
                   read'[Pipe(q, x)], seen'[Pipe(q, x)])
        ELSE /\ read'[Pipe(q, x)] = read[Pipe(q, x)]
             /\ seen'[Pipe(q, x)] = seen[Pipe(q, x)]
    BY <1>6, <1>7 DEF event
  <2>2. PipeInv(q, x) /\ (Alive(r)' => Alive(r))
    BY <1>1, <1>2, <1>7, AliveLess
  <2> QED BY <1>1, <1>2, <2>1, <2>2, ReaderPolls DEF event
<1>8. PipesInv'
  BY <1>5, <1>7, BothEnds
<1>9. [Pipes!Next]_(Pipes!vars)
  <2>1. CASE event.type \notin {"StreamData", "StreamReset"} \/ pipe \notin StreamPipes
    <3>1. read \in [StreamPipes -> Seq(Nat)] /\ seen \in [StreamPipes -> {"open", "fin", "reset"}]
      BY DEF HistoryType
    <3> HIDE DEF pipe
    <3>2. read' = read
      BY <1>1, <2>1, <3>1
    <3>3. seen' = seen
      BY <1>1, <2>1, <3>1
    <3> QED BY <1>1, <3>2, <3>3 DEF Pipes!vars
  <2>2. CASE event.type \in {"StreamData", "StreamReset"} /\ pipe \in StreamPipes
    <3> DEFINE x == event.id
    <3>1. x \in Ids /\ HasSendPart(q, x)
      BY <2>2 DEF StreamPipes, Pipe
    <3>2. event \in DataEvents(x) \cup ResetEvents(x)
      BY <1>2, <2>2 DEF DataEvents, ResetEvents
    <3>3. /\ seen[pipe] = "open" /\ Len(read'[pipe]) \in Len(read[pipe]) .. written[pipe]
          /\ read'[pipe] = Pipes!FirstBytes(Len(read'[pipe]))
          /\ seen'[pipe] # "open" => ended[pipe] = seen'[pipe] /\ Len(read'[pipe]) = written[pipe]
      BY <1>7, <3>1, <3>2
    <3>4. read \in [StreamPipes -> Seq(Nat)] /\ seen \in [StreamPipes -> {"open", "fin", "reset"}]
      BY DEF HistoryType
    <3> HIDE DEF pipe, x
    <3>5. CASE event.type = "StreamData"
      <4>1. read' = [read EXCEPT ![pipe] = @ \o more]
        BY <1>1, <3>5
      <4>2. read' = [read EXCEPT ![pipe] = read'[pipe]]
        BY <2>2, <3>4, <4>1
      <4>3. \E n \in Len(read[pipe]) .. written[pipe] : read' = [read EXCEPT ![pipe] = Pipes!FirstBytes(n)]
        BY <3>3, <4>2
      <4>4. CASE event.fin
        <5>1. seen' = [seen EXCEPT ![pipe] = "fin"]
          BY <1>1, <3>5, <4>4
        <5>2. seen'[pipe] = "fin"
          BY <2>2, <3>4, <5>1
        <5>3. Pipes!Read(pipe)
          BY <1>1, <3>3, <4>3, <5>1, <5>2 DEF Pipes!Read
        <5> QED BY <2>2, <5>3 DEF Pipes!Next
      <4>5. CASE ~event.fin
        <5>1. seen' = seen
          BY <1>1, <3>5, <4>5
        <5>2. Pipes!Read(pipe)
          BY <1>1, <3>3, <4>3, <5>1 DEF Pipes!Read
        <5> QED BY <2>2, <5>2 DEF Pipes!Next
      <4> QED BY <4>4, <4>5
    <3>6. CASE event.type = "StreamReset"
      <4>1. read' = read /\ seen' = [seen EXCEPT ![pipe] = "reset"]
        BY <1>1, <3>6
      <4>2. seen'[pipe] = "reset"
        BY <2>2, <3>4, <4>1
      <4>3. Pipes!SeeReset(pipe)
        BY <1>1, <3>3, <4>1, <4>2 DEF Pipes!SeeReset
      <4> QED BY <2>2, <4>3 DEF Pipes!Next
    <3> QED BY <2>2, <3>5, <3>6
  <2> QED BY <2>1, <2>2
<1> QED BY <1>8, <1>9

LEMMA InitPipes ==
  ASSUME Init
  PROVE  PipesInv
<1>1. InitPair
  BY InitFacts
<1> SUFFICES ASSUME NEW w \in Roles, NEW x \in Ids, HasSendPart(w, x) PROVE PipeInv(w, x)
  BY DEF PipesInv
<1> DEFINE p == Pipe(w, x)
<1>2. Peer(w) \in Roles /\ p \in StreamPipes
  BY PeerFacts, OwnPipe
<1>3. /\ wire[w] = << >> /\ session[Peer(w)].events = << >>
      /\ DOMAIN session[w].streams = {} /\ DOMAIN session[w].closed_stream_send_max = {}
      /\ Pipes!Init
  BY <1>1, <1>2 DEF InitPair
<1>4. written[p] = 0 /\ ended[p] = "open" /\ read[p] = << >> /\ seen[p] = "open"
  BY <1>2, <1>3 DEF Pipes!Init
<1>5. \A S : Weigh(<< >>, S) = << >>
  BY DEF Weigh
<1>6. InWire(<< >>, x) = 0 /\ InEvents(<< >>, x) = 0
  BY <1>5, SumEmpty DEF InWire, InEvents
<1>7. WireQueue(<< >>, x, 0 - 0, "open") /\ ToldQueue(<< >>, x, 0, "open")
  BY DEF WireQueue, ToldQueue, Queue, Placed, EndsLast
<1>8. ~EndTold(<< >>, x)
  BY DEF EndTold, NoneOf
<1>9. << >> = Pipes!FirstBytes(0) /\ << >> \in Seq(Nat) /\ Len(<< >>) = 0
  BY DEF Pipes!FirstBytes
<1>10. PipeBase(x, << >>, << >>, 0, "open", << >>, "open")
  BY <1>6, <1>7, <1>8, <1>9 DEF PipeBase
<1>11. PipeFlow(x, << >>, << >>, 0, << >>, "open")
  BY <1>6, <1>8, <1>9 DEF PipeFlow
<1>12. Based(w, x) /\ Flows(w, x)
  BY <1>3, <1>4, <1>10, <1>11 DEF Based, Flows
<1>13. Writes(w, x)
  BY <1>3, <1>4 DEF Writes, Sent, Known
<1> QED BY <1>12, <1>13 DEF PipeInv

LEMMA StepPipes ==
  ASSUME Few, PairInv, PipesInv, [Next]_vars
  PROVE  PipesInv' /\ [Pipes!Next]_(Pipes!vars)
<1>1. CASE Next
  <2>1. PICK r \in Roles : PairStep(r)
    BY <1>1, StepsOf DEF PairInv
  <2>2. PairType /\ HistoryType
    BY DEF PairInv
  <2> QED BY <2>1, <2>2, QuietPipes, DataPipes, ResetPipes, TakePipes, FailPipes, PollPipes DEF PairStep
<1>2. CASE UNCHANGED vars
  <2>1. PipesInv'
    BY <1>2 DEF vars, PipesInv, PipeInv, Based, Flows, Writes, Alive
  <2> QED BY <1>2, <2>1 DEF vars, Pipes!vars
<1> QED BY <1>1, <1>2

(* The two ends and the wire between them implement the pipes BytePipe     *)
(* describes: whatever the applications do, in whatever order capsules are *)
(* processed and events polled, bytes arrive in order, once, and the end   *)
(* of a stream after all of them.                                          *)
THEOREM PairImplementsPipes ==
  ASSUME Few
  PROVE  Spec => ImplementsPipe
<1>1. Init => PipesInv /\ Pipes!Init
  BY InitPipes, InitFacts DEF InitPair
<1>2. PairInv /\ PipesInv /\ [Next]_vars => PipesInv' /\ [Pipes!Next]_(Pipes!vars)
  BY StepPipes
<1>3. Spec => Pipes!Spec
  BY <1>1, <1>2, PairInvariant, PTL DEF Spec, Pipes!Spec
<1> QED BY <1>3 DEF ImplementsPipe

Agreement ==
  /\ failed = {}
  /\ \A r \in Roles :
       /\ session[r].peer_config = session[Peer(r)].config
       /\ Toward(session[r], session[Peer(r)], wire[r])

-----------------------------------------------------------------------------
(* The pair.                                                               *)

(* What the two ends have to do for the agreement: no end resets a stream  *)
(* the other has not heard of, none sends a capsule with neither data nor  *)
(* FIN, and of the notices none sends one handle_capsule would refuse.     *)
Courteous ==
  /\ ~ResetFresh /\ ~SendEmpty
  /\ \A c \in Extras :
       /\ c.type # "STREAM_DATA_BLOCKED"
       /\ c.type = "STREAMS_BLOCKED" => ~(c.maximum > MaxStreamsLimit)

(* The pipes give the order of data and resets on the wire.                *)
LEMMA PipesInOrder ==
  ASSUME PipesInv, NEW r \in Roles, NEW x \in Ids, HasSendPart(r, x)
  PROVE  InOrder(session[r], wire[r], x)
<1> DEFINE D == DataCapsules(x)
           R == ResetCapsules(x)
           base == written[Pipe(r, x)] - InWire(wire[r], x)
<1>1. PipeInv(r, x)
  BY DEF PipesInv
<1>2. Queue(Capsules, D, R, wire[r], base, ended[Pipe(r, x)])
  BY <1>1 DEF PipeInv, Based, PipeBase, WireQueue
<1>3. EndsLast(wire[r], Final(D, R), D \cup R)
  BY <1>2 DEF Queue
<1>4. ASSUME Sending(session[r], x) PROVE NoneOf(wire[r], Final(D, R))
  <2>1. ended[Pipe(r, x)] = "open"
    BY <1>1, <1>4 DEF PipeInv, Writes
  <2>2. Queue(Capsules, D, R, wire[r], base, "open")
    BY <1>2, <2>1
  <2> HIDE DEF D, R, base
  <2> QED BY <2>2, QueueOpen
<1> QED BY <1>3, <1>4 DEF InOrder

(* End r, and the other.                                                   *)
Between(r) ==
  /\ Talking(session[r], session[Peer(r)], wire[r], wire[Peer(r)])
  /\ session[r] \in Sessions /\ session[r].output = << >> /\ SessionOK(session[r])
  /\ session[r].role = r /\ session[Peer(r)].role = Peer(r)
  /\ \A x \in Ids : HasSendPart(r, x) => InOrder(session[r], wire[r], x)
  /\ \A x \in Ids : HasSendPart(Peer(r), x) => InOrder(session[Peer(r)], wire[Peer(r)], x)

LEMMA PairBetween ==
  ASSUME PairType, SessionsOK, PipesInv, Agreement, NEW r \in Roles
  PROVE  Between(r)
<1> DEFINE q == Peer(r)
<1>1. q \in Roles /\ Peer(q) = r
  BY PeerFacts
<1> HIDE DEF q
<1>2. /\ session[r] \in Sessions /\ session[q] \in Sessions
      /\ wire[r] \in Seq(Capsules) /\ wire[q] \in Seq(Capsules)
      /\ session[r].role = r /\ session[q].role = q /\ session[r].output = << >>
      /\ SessionOK(session[r]) /\ SessionOK(session[q])
  BY <1>1 DEF PairType, SessionsOK
<1>3. Toward(session[r], session[q], wire[r]) /\ Toward(session[q], session[r], wire[q])
  BY <1>1 DEF Agreement, q
<1>4. Talking(session[r], session[q], wire[r], wire[q])
  BY <1>1, <1>2, <1>3 DEF Talking, Ends, q
<1>5. /\ \A x \in Ids : HasSendPart(r, x) => InOrder(session[r], wire[r], x)
      /\ \A x \in Ids : HasSendPart(q, x) => InOrder(session[q], wire[q], x)
  BY <1>1, PipesInOrder
<1> QED BY <1>2, <1>4, <1>5 DEF Between, q

(* End r becomes t, and the other end is as it was.                        *)
LEMMA TurnAgrees ==
  ASSUME Agreement, NEW r \in Roles, NEW t \in Sessions, Kept(session[r], t),
         session'[Peer(r)] = session[Peer(r)], session'[r] = Flushed(t), failed' = failed,
         Toward(t, session[Peer(r)], wire'[r]), Toward(session[Peer(r)], t, wire'[Peer(r)])
  PROVE  Agreement'
<1> DEFINE q == Peer(r)
<1>1. q \in Roles /\ Peer(q) = r /\ \A p \in Roles : p = r \/ p = q
  BY PeerFacts
<1>2. /\ session[r].peer_config = session[q].config /\ session[q].peer_config = session[r].config
      /\ failed = {}
  BY <1>1 DEF Agreement
<1>3. /\ session'[r].peer_config = session'[q].config
      /\ session'[q].peer_config = session'[r].config
  BY <1>2, FlushedType DEF Kept
<1>4. /\ Toward(session'[r], session'[q], wire'[r])
      /\ Toward(session'[q], session'[r], wire'[q])
  BY FlushedToward
<1>5. ASSUME NEW p \in Roles
      PROVE  /\ session'[p].peer_config = session'[Peer(p)].config
             /\ Toward(session'[p], session'[Peer(p)], wire'[p])
  BY <1>1, <1>3, <1>4, <1>5
<1>6. failed' = {}
  BY <1>2
<1> HIDE DEF q
<1> QED BY <1>5, <1>6 DEF Agreement, Toward, Always, Hears, Bounds, Knows, StreamBound, Flow, AllNamed

(* A call.                                                                 *)
LEMMA CallAgrees ==
  ASSUME PairType, Agreement, NEW r \in Roles, NEW t \in Sessions, Kept(session[r], t),
         Becomes(r, t), failed' = failed,
         Toward(t, session[Peer(r)], wire[r] \o t.output),
         Toward(session[Peer(r)], t, wire[Peer(r)])
  PROVE  Agreement'
<1>1. Peer(r) \in Roles /\ Peer(r) # r
  BY PeerFacts
<1>2. /\ session'[Peer(r)] = session[Peer(r)] /\ wire'[Peer(r)] = wire[Peer(r)]
      /\ session'[r] = Flushed(t) /\ wire'[r] = wire[r] \o t.output
  BY <1>1 DEF Becomes, Flushed, PairType
<1> QED BY <1>2, TurnAgrees

LEMMA SessionCallsAgree ==
  ASSUME PairType, Agreement, NEW r \in Roles, Between(r)
  PROVE  /\ Initiate(r) => Agreement'
         /\ Datagram(r) => Agreement'
         /\ CloseSession(r) => Agreement'
         /\ DrainSession(r) => Agreement'
<1> DEFINE s == session[r]
           o == session[Peer(r)]
<1>1. /\ s \in Sessions /\ s.output = << >> /\ Talking(s, o, wire[r], wire[Peer(r)])
  BY DEF Between
<1> HIDE DEF s, o
<1>2. ASSUME NEW t, PlainOutput(s, t), t.state # "Closed" => s.state # "Closed", Becomes(r, t),
             failed' = failed
      PROVE  Agreement'
  <2>1. t \in Sessions /\ Kept(s, t)
    BY <1>2 DEF PlainOutput, SameMaps
  <2>2. Toward(t, o, wire[r] \o t.output) /\ Toward(o, t, wire[Peer(r)])
    BY <1>1, <1>2, PlainTalk
  <2> QED BY <1>2, <2>1, <2>2, CallAgrees DEF s, o
<1>3. /\ PlainOutput(s, Initiated(s)) /\ PlainOutput(s, SendDatagram(s))
      /\ PlainOutput(s, Close(s)) /\ PlainOutput(s, Drain(s))
  BY <1>1, PlainCalls
<1>4. ASSUME Initiate(r) PROVE Agreement'
  BY <1>2, <1>3, <1>4 DEF Initiate, CanInitiate, s
<1>5. ASSUME Datagram(r) PROVE Agreement'
  BY <1>2, <1>3, <1>5 DEF Datagram, CanSendDatagram, Live, s
<1>6. ASSUME CloseSession(r) PROVE Agreement'
  <2>1. Close(s).state = "Closed"
    BY <1>1, QuietState
  <2> QED BY <1>2, <1>3, <1>6, <2>1 DEF CloseSession, s
<1>7. ASSUME DrainSession(r) PROVE Agreement'
  BY <1>2, <1>3, <1>7 DEF DrainSession, CanDrain, s
<1> QED BY <1>4, <1>5, <1>6, <1>7

LEMMA CreditCallsAgree ==
  ASSUME PairType, Agreement, NEW r \in Roles, Between(r)
  PROVE  /\ GrowData(r) => Agreement'
         /\ \A b \in BOOLEAN : GrowStreams(r, b) => Agreement'
         /\ \A id \in Ids : GrowStreamData(r, id) => Agreement'
<1> DEFINE s == session[r]
           o == session[Peer(r)]
<1>1. /\ s \in Sessions /\ s.output = << >> /\ Talking(s, o, wire[r], wire[Peer(r)])
  BY DEF Between
<1>2. Growth \subseteq Nat
  BY WtPairAssumption
<1> HIDE DEF s, o
<1>3. ASSUME GrowData(r) PROVE Agreement'
  <2>1. PICK n \in Growth :
          /\ CanSendMaxData(s, s.flow_control.recv_max + n)
          /\ Becomes(r, SendMaxData(s, s.flow_control.recv_max + n))
    BY <1>3 DEF GrowData, s
  <2>2. failed' = failed
    BY <1>3 DEF GrowData
  <2> DEFINE m == s.flow_control.recv_max + n
             t == SendMaxData(s, m)
  <2>3. m \in Nat
    BY <1>1, <1>2, FlowTypes
  <2>4. CanSendMaxData(s, m) /\ Becomes(r, t)
    BY <2>1
  <2> HIDE DEF m
  <2>5. t \in Sessions /\ Kept(s, t)
    BY <1>1, <2>3, <2>4, CreditType, CallsKeep
  <2>6. Toward(t, o, wire[r] \o t.output) /\ Toward(o, t, wire[Peer(r)])
    BY <1>1, <2>3, <2>4, MaxDataCall
  <2> HIDE DEF t
  <2> QED BY <2>2, <2>4, <2>5, <2>6, CallAgrees DEF s, o
<1>4. ASSUME NEW b \in BOOLEAN, GrowStreams(r, b) PROVE Agreement'
  <2>1. PICK n \in Growth :
          /\ CanSendMaxStreams(s, s.flow_control.max_streams_local[b] + n, b)
          /\ Becomes(r, SendMaxStreams(s, s.flow_control.max_streams_local[b] + n, b))
    BY <1>4 DEF GrowStreams, s
  <2>2. failed' = failed
    BY <1>4 DEF GrowStreams
  <2> DEFINE m == s.flow_control.max_streams_local[b] + n
             t == SendMaxStreams(s, m, b)
  <2>3. m \in Nat
    BY <1>1, <1>2, FlowTypes
  <2>4. CanSendMaxStreams(s, m, b) /\ Becomes(r, t)
    BY <2>1
  <2> HIDE DEF m
  <2>5. t \in Sessions /\ Kept(s, t)
    BY <1>1, <2>3, <2>4, CreditType, CallsKeep
  <2>6. Toward(t, o, wire[r] \o t.output) /\ Toward(o, t, wire[Peer(r)])
    BY <1>1, <2>3, <2>4, MaxStreamsCall
  <2> HIDE DEF t
  <2> QED BY <2>2, <2>4, <2>5, <2>6, CallAgrees DEF s, o
<1>5. ASSUME NEW id \in Ids, GrowStreamData(r, id) PROVE Agreement'
  <2>1. PICK n \in Growth :
          /\ CanSendMaxStreamData(s, id, s.streams[id].recv_max + n)
          /\ Becomes(r, SendMaxStreamData(s, id, s.streams[id].recv_max + n))
    BY <1>5 DEF GrowStreamData, s
  <2>2. failed' = failed /\ Known(s, id)
    BY <1>5 DEF GrowStreamData, s
  <2> DEFINE m == s.streams[id].recv_max + n
             t == SendMaxStreamData(s, id, m)
  <2>3. m \in Nat
    BY <1>1, <1>2, <2>2, KnownStream, MaxValueAssumption DEF WtStreams
  <2>4. CanSendMaxStreamData(s, id, m) /\ Becomes(r, t)
    BY <2>1
  <2> HIDE DEF m
  <2>5. t \in Sessions /\ Kept(s, t)
    BY <1>1, <2>3, <2>4, SendMaxStreamDataType, CallsKeep
  <2>6. Toward(t, o, wire[r] \o t.output) /\ Toward(o, t, wire[Peer(r)])
    BY <1>1, <2>3, <2>4, GrowStreamCall
  <2> HIDE DEF t
  <2> QED BY <2>2, <2>4, <2>5, <2>6, CallAgrees DEF s, o
<1> QED BY <1>3, <1>4, <1>5

LEMMA StreamCallsAgree ==
  ASSUME Few, Courteous, PairType, Agreement, NEW r \in Roles, Between(r)
  PROVE  /\ \A b \in BOOLEAN : Open(r, b) => Agreement'
         /\ \A id \in Ids, size \in Sizes, fin \in BOOLEAN : SendData(r, id, size, fin) => Agreement'
         /\ \A id \in Ids : Reset(r, id) => Agreement'
         /\ \A id \in Ids : Stop(r, id) => Agreement'
<1> DEFINE s == session[r]
           o == session[Peer(r)]
<1>1. /\ s \in Sessions /\ s.output = << >> /\ Talking(s, o, wire[r], wire[Peer(r)])
      /\ s.role = r /\ \A x \in Ids : HasSendPart(s.role, x) => InOrder(s, wire[r], x)
  BY DEF Between
<1> HIDE DEF s, o
<1>2. ASSUME NEW b \in BOOLEAN, Open(r, b) PROVE Agreement'
  <2> DEFINE t == OpenStream(s, b)
  <2>1. CanOpen(s, b) /\ s.next_stream_id[b] \in Ids /\ Becomes(r, t) /\ failed' = failed
    BY <1>2 DEF Open, s
  <2>2. t \in Sessions /\ Kept(s, t)
    BY <1>1, <2>1, OpenStreamType, CallsKeep
  <2>3. Toward(t, o, wire[r] \o t.output) /\ Toward(o, t, wire[Peer(r)])
    BY <1>1, <2>1, OpenCall
  <2> HIDE DEF t
  <2> QED BY <2>1, <2>2, <2>3, CallAgrees DEF s, o
<1>3. ASSUME NEW id \in Ids, NEW size \in Sizes, NEW fin \in BOOLEAN, SendData(r, id, size, fin)
      PROVE  Agreement'
  <2> DEFINE t == SendStreamData(s, id, size, fin)
  <2>1. CanSendStreamData(s, id, size) /\ Becomes(r, t) /\ failed' = failed
    BY <1>3 DEF SendData, s
  <2>2. size \in Nat /\ (size # 0 \/ fin)
    BY <1>3, WtPairAssumption DEF Courteous, SendData
  <2>3. t \in Sessions /\ Kept(s, t)
    BY <1>1, <2>1, <2>2, SendStreamDataType, DataKeeps
  <2>4. Toward(t, o, wire[r] \o t.output) /\ Toward(o, t, wire[Peer(r)])
    BY <1>1, <2>1, <2>2, DataCall
  <2> HIDE DEF t
  <2> QED BY <2>1, <2>3, <2>4, CallAgrees DEF s, o
<1>4. ASSUME NEW id \in Ids, Reset(r, id) PROVE Agreement'
  <2> DEFINE t == ResetStream(s, id)
  <2>1. /\ CanResetStream(s, id) /\ Becomes(r, t) /\ failed' = failed
        /\ ResetFresh \/ IsPeerInitiated(r, id) \/ s.streams[id].send_state # "Ready"
    BY <1>4 DEF Reset, s
  <2>2. IsPeerInitiated(s.role, id) \/ s.streams[id].send_state # "Ready"
    BY <1>1, <2>1 DEF Courteous
  <2>3. t \in Sessions /\ Kept(s, t)
    BY <1>1, <2>1, ResetStreamType, ResetKeeps
  <2>4. Toward(t, o, wire[r] \o t.output) /\ Toward(o, t, wire[Peer(r)])
    BY <1>1, <2>1, <2>2, ResetCall
  <2> HIDE DEF t
  <2> QED BY <2>1, <2>3, <2>4, CallAgrees DEF s, o
<1>5. ASSUME NEW id \in Ids, Stop(r, id) PROVE Agreement'
  <2> DEFINE t == StopSending(s, id)
  <2>1. CanStopSending(s, id) /\ Becomes(r, t) /\ failed' = failed
    BY <1>5 DEF Stop, s
  <2>2. t \in Sessions /\ Kept(s, t)
    BY <1>1, <2>1, StopSendingType, CallsKeep
  <2>3. Toward(t, o, wire[r] \o t.output) /\ Toward(o, t, wire[Peer(r)])
    BY <1>1, <2>1, StopCall
  <2> HIDE DEF t
  <2> QED BY <2>1, <2>2, <2>3, CallAgrees DEF s, o
<1> QED BY <1>2, <1>3, <1>4, <1>5

LEMMA PollAgrees ==
  ASSUME Few, PairType, Agreement, NEW r \in Roles, Between(r), Poll(r)
  PROVE  Agreement'
<1> DEFINE s == session[r]
           o == session[Peer(r)]
           t == PollEvent(s)
<1>1. /\ s \in Sessions /\ s.output = << >> /\ Talking(s, o, wire[r], wire[Peer(r)])
  BY DEF Between
<1>2. s.events # << >> /\ Becomes(r, t) /\ failed' = failed
  BY DEF Poll
<1> HIDE DEF s, o
<1>3. t \in Sessions /\ Kept(s, t)
  BY <1>1, <1>2, PollEventType, PollKeeps
<1>4. Toward(t, o, wire[r] \o t.output) /\ Toward(o, t, wire[Peer(r)])
  BY <1>1, <1>2, PollCall
<1> HIDE DEF t
<1> QED BY <1>2, <1>3, <1>4, CallAgrees DEF s, o

LEMMA ExtraAgrees ==
  ASSUME Courteous, PairType, Agreement, NEW r \in Roles, Between(r), SendExtra(r)
  PROVE  Agreement'
<1> DEFINE s == session[r]
           o == session[Peer(r)]
<1>1. /\ s \in Sessions /\ s.output = << >> /\ Talking(s, o, wire[r], wire[Peer(r)])
  BY DEF Between
<1>2. PICK c \in Extras : wire' = [wire EXCEPT ![r] = Append(@, c)]
  BY DEF SendExtra
<1>3. session' = session /\ failed' = failed
  BY DEF SendExtra
<1>4. /\ c.type # "STREAM_DATA_BLOCKED"
      /\ c.type = "STREAMS_BLOCKED" => ~(c.maximum > MaxStreamsLimit)
  BY DEF Courteous
<1>5. wire'[r] = Append(wire[r], c) /\ wire'[Peer(r)] = wire[Peer(r)]
  BY <1>2, PeerFacts DEF PairType
<1> HIDE DEF s, o
<1>e. c \in NoticeCapsules
  BY <1>2, ExtrasAssumption
<1>6. Toward(s, o, Append(wire[r], c)) /\ Toward(o, s, wire[Peer(r)])
  BY <1>1, <1>4, <1>e, ExtraCall
<1>7. Flushed(s) = s /\ Kept(s, s)
  BY <1>1, FlushedSame
<1> QED BY <1>1, <1>3, <1>5, <1>6, <1>7, TurnAgrees DEF s, o

(* process: nothing is refused.                                            *)
LEMMA ProcessAgrees ==
  ASSUME Few, PairType, SessionsOK, Agreement, NEW r \in Roles, Between(r), Process(r)
  PROVE  Agreement'
<1> DEFINE q == Peer(r)
           s == session[r]
           o == session[q]
           c == Head(wire[q])
           t == Accepted(s, c)
<1>1. /\ s \in Sessions /\ s.output = << >> /\ Talking(s, o, wire[r], wire[q]) /\ SessionOK(s)
      /\ s.role = r /\ o.role = q
      /\ \A x \in Ids : HasSendPart(s.role, x) => InOrder(s, wire[r], x)
      /\ \A x \in Ids : HasSendPart(o.role, x) => InOrder(o, wire[q], x)
  BY DEF Between
<1>2. /\ wire[q] # << >>
      /\ ~Refused(s, c) =>
           /\ session' = [session EXCEPT ![r] = Flushed(t)]
           /\ wire' = [wire EXCEPT ![q] = Tail(@), ![r] = @ \o t.output]
           /\ failed' = failed
  BY DEF Process, Flushed
<1>3. q \in Roles /\ q # r
  BY PeerFacts
<1>4. c \in Capsules
  BY <1>2, <1>3, PlacesTail DEF PairType
<1> HIDE DEF q, s, o, c, t
<1>5. ~Refused(s, c)
  <2>1. CASE s.state = "Closed"
    BY <2>1 DEF Refused
  <2>2. CASE s.state # "Closed"
    <3>1. Next1(o, s, wire[q])
      BY <1>1, <1>2, <2>2 DEF Next1, Talking, Toward
    <3> QED BY <3>1, NothingRefused DEF c
  <2> QED BY <2>1, <2>2
<1>6. Takes(s, t, c)
  BY <1>1, <1>4, <1>5, TakesEffect DEF t
<1>7. t \in Sessions /\ Kept(s, t)
  BY <1>1, <1>6, TakesOK
<1>8. Toward(o, t, Tail(wire[q])) /\ Toward(t, o, wire[r] \o t.output)
  BY <1>1, <1>2, <1>6, TakeAny DEF c
<1>9. /\ session'[q] = session[q] /\ session'[r] = Flushed(t) /\ failed' = failed
      /\ wire'[q] = Tail(wire[q]) /\ wire'[r] = wire[r] \o t.output
  BY <1>2, <1>3, <1>5 DEF PairType
<1> QED BY <1>7, <1>8, <1>9, TurnAgrees DEF q, s, o

LEMMA InitAgrees ==
  ASSUME Init
  PROVE  Agreement
<1>1. InitPair
  BY InitFacts
<1> SUFFICES ASSUME NEW r \in Roles
             PROVE  /\ session[r].peer_config = session[Peer(r)].config
                    /\ Toward(session[r], session[Peer(r)], wire[r])
  BY <1>1 DEF InitPair, Agreement
<1> DEFINE q == Peer(r)
<1>2. q \in Roles /\ Peer(q) = r
  BY PeerFacts
<1> HIDE DEF q
<1>3. /\ session[r] \in Sessions /\ session[q] \in Sessions
      /\ SessionOK(session[r]) /\ SessionOK(session[q])
      /\ session[r].role = Peer(session[q].role)
      /\ wire[r] = << >> /\ << >> \in Seq(Capsules)
  BY <1>1, <1>2 DEF InitPair
<1>4. Ends(session[r], session[q], << >>)
  BY <1>3 DEF Ends
<1>5. /\ DOMAIN session[r].streams = {} /\ DOMAIN session[r].closed_stream_send_max = {}
      /\ DOMAIN session[q].streams = {} /\ DOMAIN session[q].closed_stream_send_max = {}
      /\ session[q].stop_sending_received_ids = {}
      /\ session[r].flow_control = NewFlowControl(session[r].config, session[r].peer_config)
      /\ session[q].flow_control = NewFlowControl(session[q].config, session[q].peer_config)
      /\ session[r].peer_config = session[q].config /\ session[q].peer_config = session[r].config
  BY <1>1, <1>2 DEF InitPair, q
<1>6. Toward(session[r], session[q], << >>)
  BY <1>4, <1>5, StartToward
<1> QED BY <1>3, <1>5, <1>6 DEF q

LEMMA StepAgrees ==
  ASSUME Few, Courteous, PairInv, PipesInv, Agreement, [Next]_vars
  PROVE  Agreement'
<1>1. PairType /\ SessionsOK
  BY DEF PairInv
<1>2. CASE Next
  <2>1. PICK r \in Roles :
          \/ Initiate(r) \/ Datagram(r) \/ CloseSession(r) \/ DrainSession(r)
          \/ GrowData(r) \/ SendExtra(r) \/ Process(r) \/ Poll(r)
          \/ \E b \in BOOLEAN : Open(r, b) \/ GrowStreams(r, b)
          \/ \E id \in Ids :
               \/ Reset(r, id) \/ Stop(r, id) \/ GrowStreamData(r, id)
               \/ \E size \in Sizes, fin \in BOOLEAN : SendData(r, id, size, fin)
    BY <1>2, Zenon DEF Next
  <2>2. Between(r)
    BY <1>1, PairBetween
  <2>3. /\ Initiate(r) => Agreement'
        /\ Datagram(r) => Agreement'
        /\ CloseSession(r) => Agreement'
        /\ DrainSession(r) => Agreement'
    BY <1>1, <2>2, SessionCallsAgree
  <2>4. /\ GrowData(r) => Agreement'
        /\ \A id \in Ids : GrowStreamData(r, id) => Agreement'
        /\ \A b \in BOOLEAN : GrowStreams(r, b) => Agreement'
    BY <1>1, <2>2, CreditCallsAgree
  <2>5. /\ \A b \in BOOLEAN : Open(r, b) => Agreement'
        /\ \A id \in Ids, size \in Sizes, fin \in BOOLEAN :
             SendData(r, id, size, fin) => Agreement'
        /\ \A id \in Ids : Reset(r, id) => Agreement'
        /\ \A id \in Ids : Stop(r, id) => Agreement'
    BY <1>1, <2>2, StreamCallsAgree
  <2>6. /\ SendExtra(r) => Agreement'
        /\ Process(r) => Agreement'
        /\ Poll(r) => Agreement'
    BY <1>1, <2>2, ExtraAgrees, ProcessAgrees, PollAgrees
  <2> QED BY <2>1, <2>3, <2>4, <2>5, <2>6, Zenon
<1>3. CASE UNCHANGED vars
  BY <1>3 DEF vars, Agreement, Toward, Always, Hears, Bounds, Knows, StreamBound, Flow, AllNamed
<1> QED BY <1>2, <1>3

(* The agreement, with what it rests on.                                   *)
LEMMA AgreementInvariant ==
  ASSUME Few, Courteous
  PROVE  Spec => [](PairInv /\ Agreement)
<1>1. Init => PairInv /\ PipesInv /\ Agreement
  BY InitInv, InitPipes, InitAgrees
<1>2. PairInv /\ PipesInv /\ Agreement /\ [Next]_vars => PairInv' /\ PipesInv' /\ Agreement'
  BY StepInv, StepPipes, StepAgrees
<1> QED BY <1>1, <1>2, PTL DEF Spec

(* With both ends open each hears the other.                               *)
LEMMA OpenHears ==
  ASSUME PairType, Agreement, Open2, NEW r \in Roles
  PROVE  /\ Peer(r) \in Roles /\ Peer(Peer(r)) = r
         /\ wire[r] \in Seq(Capsules) /\ wire[Peer(r)] \in Seq(Capsules)
         /\ Hears(session[r], session[Peer(r)], wire[r])
         /\ Hears(session[Peer(r)], session[r], wire[Peer(r)])
<1>1. Peer(r) \in Roles /\ Peer(Peer(r)) = r
  BY PeerFacts
<1> QED BY <1>1 DEF PairType, Agreement, Open2, Toward

(* Two ends that keep to the API and to Courteous never fail each other.   *)
(* handle_capsule of one accepts whatever the other may send, at any       *)
(* moment and with any capsules crossing it.                               *)
THEOREM NeitherEndFails ==
  ASSUME Few, Courteous
  PROVE  Spec => []NoSessionError
<1>1. PairInv /\ Agreement => NoSessionError
  BY DEF Agreement, NoSessionError
<1> QED BY <1>1, AgreementInvariant, PTL

(* The WT_MAX_DATA and WT_MAX_STREAMS on their way bring the sender        *)
(* exactly to the limit the receiver enforces, and what was sent and was   *)
(* received of the session differ by what is on its way.                   *)
THEOREM EndsAgreeOnCredit ==
  ASSUME Few, Courteous
  PROVE  Spec => []CreditAgreement
<1>1. PairInv /\ Agreement => CreditAgreement
  <2> SUFFICES ASSUME PairInv, Agreement, Open2, NEW r \in Roles
               PROVE  LET q == Peer(r)
                          fc == session[r].flow_control
                          peer == session[q].flow_control
                          Data(c) == c.type = "STREAM"
                          MaxData(c) == c.type = "MAX_DATA"
                      IN  /\ Rising(fc.send_max, Maxima(MaxData, wire[q]), peer.recv_max)
                          /\ \A b \in BOOLEAN :
                               LET MaxStreams(c) == c.type = "MAX_STREAMS" /\ c.bidirectional = b
                               IN  Rising(fc.max_streams_remote[b], Maxima(MaxStreams, wire[q]),
                                           peer.max_streams_local[b])
                          /\ peer.recv_offset + Total(Data, wire[r]) = fc.send_offset
    BY DEF CreditAgreement
  <2> DEFINE q == Peer(r)
             fc == session[r].flow_control
             peer == session[q].flow_control
             Data(c) == c.type = "STREAM"
             MaxData(c) == c.type = "MAX_DATA"
  <2>1. /\ wire[r] \in Seq(Capsules) /\ wire[q] \in Seq(Capsules)
        /\ Flow(session[r], session[q], wire[r]) /\ Flow(session[q], session[r], wire[q])
    BY OpenHears DEF PairInv, Hears
  <2>2. Maxima(MaxData, wire[q]) = Marks(wire[q], MaxDataCapsules)
    BY <2>1, WireReadings DEF Maxima
  <2>3. Rising(fc.send_max, Maxima(MaxData, wire[q]), peer.recv_max)
    BY <2>1, <2>2 DEF Flow
  <2>4. ASSUME NEW b \in BOOLEAN
        PROVE  LET MaxStreams(c) == c.type = "MAX_STREAMS" /\ c.bidirectional = b
               IN  Rising(fc.max_streams_remote[b], Maxima(MaxStreams, wire[q]),
                           peer.max_streams_local[b])
    <3> DEFINE MaxStreams(c) == c.type = "MAX_STREAMS" /\ c.bidirectional = b
    <3>1. Maxima(MaxStreams, wire[q]) = Marks(wire[q], MaxStreamsCapsules(b))
      BY <2>1, WireReadings DEF Maxima
    <3> QED BY <2>1, <3>1 DEF Flow
  <2>5. Total(Data, wire[r]) = SumOf(Weigh(wire[r], AllData))
    BY <2>1, WireReadings DEF Total
  <2>6. peer.recv_offset + Total(Data, wire[r]) = fc.send_offset
    BY <2>1, <2>5 DEF Flow
  <2> QED BY <2>3, <2>4, <2>6
<1> QED BY <1>1, AgreementInvariant, PTL

(* The same for each direction of a stream that both ends hold: the limit  *)
(* they go by was derived from SETTINGS and WebTransport-Init by both in   *)
(* the same way, and the bytes the receiver counts are the ones sent.      *)
THEOREM EndsAgreeOnStreams ==
  ASSUME Few, Courteous
  PROVE  Spec => []StreamAgreement
<1>1. PairInv /\ Agreement => StreamAgreement
  <2> SUFFICES ASSUME PairInv, Agreement, Open2, NEW r \in Roles,
                      NEW id \in DOMAIN session[r].streams \cap DOMAIN session[Peer(r)].streams,
                      HasSendPart(r, id)
               PROVE  LET q == Peer(r)
                          Data(c) == c.type = "STREAM" /\ c.id = id
                          MaxStreamData(c) == c.type = "MAX_STREAM_DATA" /\ c.id = id
                          st == session[r].streams[id]
                          peer == session[q].streams[id]
                      IN  /\ CanRecv(peer) => peer.recv_offset + Total(Data, wire[r]) = st.send_offset
                          /\ Rising(st.send_max, Maxima(MaxStreamData, wire[q]), peer.recv_max)
    BY DEF StreamAgreement
  <2> DEFINE q == Peer(r)
             s == session[r]
             o == session[q]
             Data(c) == c.type = "STREAM" /\ c.id = id
             MaxStreamData(c) == c.type = "MAX_STREAM_DATA" /\ c.id = id
  <2>1. /\ q \in Roles /\ Peer(q) = r /\ wire[r] \in Seq(Capsules) /\ wire[q] \in Seq(Capsules)
        /\ Hears(s, o, wire[r]) /\ Hears(o, s, wire[q])
    BY OpenHears DEF PairInv
  <2>2. /\ s \in Sessions /\ o \in Sessions /\ SessionOK(s) /\ SessionOK(o)
        /\ s.role = r /\ o.role = q
    BY <2>1 DEF PairInv, PairType, SessionsOK
  <2>3. Known(s, id) /\ Known(o, id) /\ id \in Ids
    <3>1. s.streams \in Maps(WtStreams)
      BY <2>2 DEF Sessions
    <3> QED BY <3>1, MapFacts DEF Known
  <2>4. Total(Data, wire[r]) = InWire(wire[r], id)
    BY <2>1, WireReadings DEF Total, InWire
  <2>5. Maxima(MaxStreamData, wire[q]) = Marks(wire[q], CreditCapsules(id))
    BY <2>1, WireReadings DEF Maxima
  <2> HIDE DEF q, s, o, Data, MaxStreamData
  <2>6. /\ Sent(s, id) = s.streams[id].send_offset /\ SendMaxOf(s, id) = s.streams[id].send_max
        /\ (Receiving(o, id) <=> CanRecv(o.streams[id]))
        /\ Received(o, id) = o.streams[id].recv_offset /\ RecvMaxOf(o, id) = o.streams[id].recv_max
        /\ ~Gone(o, id)
    BY <2>2, <2>3, KnownViews
  <2>7. HasRecvPart(o.role, id)
    <3>1. Ends(s, o, wire[r])
      BY <2>1, <2>2 DEF Ends
    <3> QED BY <2>2, <2>3, <3>1, RolesFlip
  <2>8. DataAgrees(s, o, wire[r], id) /\ CreditAgrees(o, s, wire[q], id)
    BY <2>1, <2>2, <2>3, <2>7 DEF Hears
  <2>9. CanRecv(o.streams[id]) =>
          o.streams[id].recv_offset + Total(Data, wire[r]) = s.streams[id].send_offset
    BY <2>3, <2>4, <2>6, <2>8 DEF DataAgrees, Coming
  <2>10. Rising(s.streams[id].send_max, Maxima(MaxStreamData, wire[q]), o.streams[id].recv_max)
    BY <2>5, <2>6, <2>8 DEF CreditAgrees
  <2> QED BY <2>9, <2>10 DEF q, s, o, Data, MaxStreamData
<1> QED BY <1>1, AgreementInvariant, PTL
=============================================================================
