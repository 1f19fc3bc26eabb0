------------------------------- MODULE WtPair -------------------------------
(***************************************************************************)
(* A WebTransport session with both of its ends: a WtSession in the role   *)
(* of the client and one in the role of the server, two applications that  *)
(* use every operation of the API, and the CONNECT stream between them,    *)
(* which carries capsules in order in each direction.                      *)
(*                                                                         *)
(* wire[r] holds the capsules end r has written and the other end has not  *)
(* processed: the output buffer of the session, what HTTP/2 has in flight  *)
(* and the buffer of the decoder of the other end.  The variables written, *)
(* ended, read and seen record what the applications did and were told,    *)
(* for the comparison with BytePipe.                                       *)
(***************************************************************************)
EXTENDS WtEnds

CONSTANTS
  ServerSettings,   \* sets of settings a server may announce
  ClientSettings,   \* sets of settings a client may announce
  Inits,            \* WebTransport-Init header fields of the request
  Plans,            \* what applications do: sets of <<role, operation>>
  Sizes,            \* sizes of the data given to send_stream_data
  Growth,           \* additional credit of a grow_... call
  Extras,           \* further capsules an end may send
  ResetFresh,       \* the application may reset a stream it sent nothing on
  SendEmpty,        \* the application may send no data without ending the stream
  MaxWire,          \* bound on the capsules in one direction
  MaxEvents         \* bound on the events an application lets pile up

Operations ==
  {"bidi", "uni", "data", "empty", "reset", "stop", "datagram", "close", "drain",
   "max_data", "max_stream_data", "max_streams", "extra"}

ASSUME WtPairAssumption ==
  /\ Sizes \subseteq Nat /\ Growth \subseteq Nat \ {0}
  /\ ResetFresh \in BOOLEAN /\ SendEmpty \in BOOLEAN
  /\ \A plan \in Plans : plan \subseteq Roles \X Operations

ASSUME LimitsAssumption ==
  ServerSettings \cup ClientSettings \subseteq WtSettings /\ Inits \ {Absent} \subseteq InitFields

ASSUME ExtrasAssumption == Extras \subseteq NoticeCapsules

VARIABLES
  plan,          \* the operations the applications of this session use
  session,       \* the WtSession of each end
  wire,          \* capsules from each end, oldest first
  failed,        \* ends whose process returned Err
  written,       \* bytes written to each pipe
  ended,         \* how its writer ended it
  read,          \* bytes its reader was given
  seen           \* the end its reader was told of

vars == <<plan, session, wire, failed, written, ended, read, seen>>
history == <<written, ended, read, seen>>

(* One direction of a stream is named by its writer.                       *)
StreamPipes == {p \in Roles \X Ids : HasSendPart(p[1], p[2])}
Pipe(r, id) == <<r, id>>

Pipes == INSTANCE BytePipe WITH Pipes <- StreamPipes

-----------------------------------------------------------------------------
(* The server makes its session when it accepts the request, the client    *)
(* makes its own when it has seen the 200; before that it writes nothing.  *)
Init ==
  /\ plan \in Plans
  /\ \E server \in ServerSettings, client \in ClientSettings, init \in Inits :
       /\ ~InitRefused(init)
       /\ session = [r \in Roles |->
            IF r = "server"
            THEN Initiated(NewSession(r, ServerConfig(server), ServerPeerConfig(client, init)))
            ELSE NewSession(r, ClientConfig(client, init), ClientPeerConfig(server))]
  /\ wire = [r \in Roles |-> << >>]
  /\ failed = {}
  /\ Pipes!Init

(* Session r becomes s; poll_output takes what s wrote to the wire.        *)
Becomes(r, s) ==
  /\ session' = [session EXCEPT ![r] = [s EXCEPT !.output = << >>]]
  /\ wire' = [wire EXCEPT ![r] = @ \o s.output]
  /\ plan' = plan

(* The application of end r calls an operation it uses.                    *)
Calls(r, operation) ==
  /\ <<r, operation>> \in plan
  /\ r \notin failed
  /\ Len(wire[r]) < MaxWire

Initiate(r) ==
  /\ CanInitiate(session[r])
  /\ Becomes(r, Initiated(session[r]))
  /\ UNCHANGED <<failed, history>>

Open(r, bidirectional) ==
  /\ Calls(r, IF bidirectional THEN "bidi" ELSE "uni")
  /\ CanOpen(session[r], bidirectional)
  /\ session[r].next_stream_id[bidirectional] \in Ids
  /\ Becomes(r, OpenStream(session[r], bidirectional))
  /\ UNCHANGED <<failed, history>>

SendData(r, id, size, fin) ==
  /\ Calls(r, "data")
  /\ CanSendStreamData(session[r], id, size)
  /\ size = 0 => <<r, "empty">> \in plan /\ (fin \/ SendEmpty)
  /\ Becomes(r, SendStreamData(session[r], id, size, fin))
  /\ written' = [written EXCEPT ![Pipe(r, id)] = @ + size]
  /\ ended' = [ended EXCEPT ![Pipe(r, id)] = IF fin THEN "fin" ELSE @]
  /\ UNCHANGED <<failed, read, seen>>

Reset(r, id) ==
  /\ Calls(r, "reset")
  /\ CanResetStream(session[r], id)
  /\ ResetFresh \/ IsPeerInitiated(r, id) \/ session[r].streams[id].send_state # "Ready"
  /\ Becomes(r, ResetStream(session[r], id))
  /\ ended' = [ended EXCEPT ![Pipe(r, id)] = "reset"]
  /\ UNCHANGED <<failed, written, read, seen>>

Stop(r, id) ==
  /\ Calls(r, "stop")
  /\ CanStopSending(session[r], id)
  /\ Becomes(r, StopSending(session[r], id))
  /\ UNCHANGED <<failed, history>>

Datagram(r) ==
  /\ Calls(r, "datagram")
  /\ CanSendDatagram(session[r])
  /\ Becomes(r, SendDatagram(session[r]))
  /\ UNCHANGED <<failed, history>>

CloseSession(r) ==
  /\ Calls(r, "close")
  /\ CanClose(session[r])
  /\ Becomes(r, Close(session[r]))
  /\ UNCHANGED <<failed, history>>

DrainSession(r) ==
  /\ Calls(r, "drain")
  /\ CanDrain(session[r])
  /\ Becomes(r, Drain(session[r]))
  /\ UNCHANGED <<failed, history>>

(* grow_recv_window, grow_stream_recv_window and grow_max_streams: the     *)
(* new maximum is the old one and the additional credit.                   *)
GrowData(r) ==
  /\ Calls(r, "max_data")
  /\ \E n \in Growth :
       LET maximum == session[r].flow_control.recv_max + n
       IN  /\ CanSendMaxData(session[r], maximum)
           /\ Becomes(r, SendMaxData(session[r], maximum))
  /\ UNCHANGED <<failed, history>>

GrowStreamData(r, id) ==
  /\ Calls(r, "max_stream_data")
  /\ Known(session[r], id)
  /\ \E n \in Growth :
       LET maximum == session[r].streams[id].recv_max + n
       IN  /\ CanSendMaxStreamData(session[r], id, maximum)
           /\ Becomes(r, SendMaxStreamData(session[r], id, maximum))
  /\ UNCHANGED <<failed, history>>

GrowStreams(r, bidirectional) ==
  /\ Calls(r, "max_streams")
  /\ \E n \in Growth :
       LET maximum == session[r].flow_control.max_streams_local[bidirectional] + n
       IN  /\ CanSendMaxStreams(session[r], maximum, bidirectional)
           /\ Becomes(r, SendMaxStreams(session[r], maximum, bidirectional))
  /\ UNCHANGED <<failed, history>>

(* Capsules this implementation never writes and another one may: padding, *)
(* unknown types, and the notices of being blocked.                        *)
SendExtra(r) ==
  /\ Calls(r, "extra")
  /\ Live(session[r])
  /\ \E c \in Extras : wire' = [wire EXCEPT ![r] = Append(@, c)]
  /\ UNCHANGED <<plan, session, failed, history>>

-----------------------------------------------------------------------------
(* process: the next capsule of the other end.                             *)
Process(r) ==
  LET q == Peer(r)
      c == Head(wire[q])
      s == session[r]
      t == Accepted(s, c)
  IN  /\ wire[q] # << >>
      /\ r \notin failed
      /\ Len(s.events) < MaxEvents
      /\ IF Refused(s, c)
         THEN /\ failed' = failed \cup {r}
              /\ wire' = [wire EXCEPT ![q] = Tail(@)]
              /\ UNCHANGED <<plan, session, history>>
         ELSE /\ session' = [session EXCEPT ![r] = [t EXCEPT !.output = << >>]]
              /\ wire' = [wire EXCEPT ![q] = Tail(@), ![r] = @ \o t.output]
              /\ ended' = IF t.output # << >>
                          THEN [ended EXCEPT ![Pipe(r, c.id)] = "reset"]
                          ELSE ended
              /\ UNCHANGED <<plan, failed, written, read, seen>>

(* poll_event, and the application takes what it is given.                 *)
Poll(r) ==
  LET event == Head(session[r].events)
      pipe  == Pipe(Peer(r), event.id)
  IN  /\ session[r].events # << >>
      /\ Becomes(r, PollEvent(session[r]))
      /\ read' = IF event.type = "StreamData"
                 THEN [read EXCEPT ![pipe] = @ \o [k \in 1 .. event.size |-> event.from + k]]
                 ELSE read
      /\ seen' = IF event.type = "StreamData" /\ event.fin
                 THEN [seen EXCEPT ![pipe] = "fin"]
                 ELSE IF event.type = "StreamReset" THEN [seen EXCEPT ![pipe] = "reset"]
                 ELSE seen
      /\ UNCHANGED <<failed, written, ended>>

Next ==
  \E r \in Roles :
    \/ Initiate(r) \/ Datagram(r) \/ CloseSession(r) \/ DrainSession(r)
    \/ GrowData(r) \/ SendExtra(r) \/ Process(r) \/ Poll(r)
    \/ \E b \in BOOLEAN : Open(r, b) \/ GrowStreams(r, b)
    \/ \E id \in Ids :
         \/ Reset(r, id) \/ Stop(r, id) \/ GrowStreamData(r, id)
         \/ \E size \in Sizes, fin \in BOOLEAN : SendData(r, id, size, fin)

Spec == Init /\ [][Next]_vars

(* Whoever holds a session feeds it what has arrived and polls it; nothing *)
(* is assumed of the applications.                                         *)
Fairness == \A r \in Roles : WF_vars(Process(r)) /\ WF_vars(Poll(r))

FairSpec == Spec /\ Fairness

-----------------------------------------------------------------------------
(* The types of the session state, for both ends.                          *)
TypeOK ==
  /\ failed \subseteq Roles
  /\ \A r \in Roles :
       /\ session[r].role = r
       /\ session[r].state \in SessionStates
       /\ \A id \in DOMAIN session[r].streams : id \in Ids /\ session[r].streams[id] \in WtStreams
       /\ session[r].flow_control \in WtFlowControls
       /\ session[r].output = << >>

(* Two ends that keep to the API never fail each other: whatever one may   *)
(* send, at any moment and with any capsules crossing it, handle_capsule   *)
(* of the other accepts.                                                   *)
NoSessionError == failed = {}

(* The maxima that capsules on their way announce, 0 for a capsule that    *)
(* announces nothing of the kind: no end announces 0, it had to be raised. *)
Maxima(Announces(_), capsules) ==
  [k \in DOMAIN capsules |-> IF Announces(capsules[k]) THEN capsules[k].maximum ELSE 0]

(* The bytes in those of the capsules that count.                          *)
Total(Counts(_), capsules) ==
  SumOf([k \in DOMAIN capsules |-> IF Counts(capsules[k]) THEN capsules[k].size ELSE 0])

Open2 == \A r \in Roles : session[r].state # "Closed"

(* The two ends agree on the credit of the session: the WT_MAX_DATA and    *)
(* WT_MAX_STREAMS in flight bring the sender exactly to the limit the      *)
(* receiver enforces, none of them is the non-increasing one update_...max *)
(* refuses, and sent and received bytes differ by what is in flight.       *)
CreditAgreement ==
  Open2 => \A r \in Roles :
    LET q == Peer(r)
        fc == session[r].flow_control
        peer == session[q].flow_control
        Data(c) == c.type = "STREAM"
        MaxData(c) == c.type = "MAX_DATA"
    IN  /\ Rising(fc.send_max, Maxima(MaxData, wire[q]), peer.recv_max)
        /\ \A b \in BOOLEAN :
             LET MaxStreams(c) == c.type = "MAX_STREAMS" /\ c.bidirectional = b
             IN  Rising(fc.max_streams_remote[b], Maxima(MaxStreams, wire[q]),
                         peer.max_streams_local[b])
        /\ peer.recv_offset + Total(Data, wire[r]) = fc.send_offset

(* The same for each direction of a stream both ends hold: the limits the  *)
(* two ends derived from SETTINGS and WebTransport-Init are the same, and  *)
(* the Reliable Size of a reset is what the receiver will have counted.    *)
StreamAgreement ==
  Open2 => \A r \in Roles : \A id \in DOMAIN session[r].streams \cap DOMAIN session[Peer(r)].streams :
    LET q == Peer(r)
        Data(c) == c.type = "STREAM" /\ c.id = id
        MaxStreamData(c) == c.type = "MAX_STREAM_DATA" /\ c.id = id
        st == session[r].streams[id]
        peer == session[q].streams[id]
    IN  HasSendPart(r, id) =>
          /\ CanRecv(peer) => peer.recv_offset + Total(Data, wire[r]) = st.send_offset
          /\ Rising(st.send_max, Maxima(MaxStreamData, wire[q]), peer.recv_max)

(* An application is told of a stream once, and before anything else of    *)
(* it, however the stream became known: by data, by a higher identifier,   *)
(* by WT_STOP_SENDING or by WT_MAX_STREAM_DATA, in flight while it closed. *)
OpenedFirst ==
  \A r \in Roles : \A i \in DOMAIN session[r].events :
    LET event == session[r].events[i]
        pipe  == Pipe(Peer(r), event.id)
    IN  event.type = "StreamOpened" =>
          /\ \A j \in 1 .. i - 1 :
               LET e == session[r].events[j] IN "id" \in DOMAIN e => e.id # event.id
          /\ read[pipe] = << >> /\ seen[pipe] = "open"

(* What the applications see of the streams is what BytePipe promises.     *)
ImplementsPipe == Pipes!Spec

SessionOver == failed # {} \/ \E r \in Roles : session[r].state = "Closed"

(* Everything that was written is read and the end of it is seen, unless   *)
(* the session ends first: again and again no end of a pipe is outstanding, *)
(* and a pipe ends only once.                                              *)
EndsSeen ==
  []<>(SessionOver \/ \A p \in StreamPipes : ended[p] # "open" => seen[p] = ended[p])

(* A request to stop ends the pipe, by its end or by a reset that answers  *)
(* it, unless the session ends first.                                      *)
StopRequested(p) ==
  LET reader == Peer(p[1])
      id     == p[2]
  IN  Known(session[reader], id) /\ session[reader].streams[id].stop_sending_sent

StopAnswered ==
  []<>(SessionOver \/ \A p \in StreamPipes : StopRequested(p) => seen[p] # "open")
=============================================================================
