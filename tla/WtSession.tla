----------------------------- MODULE WtSession -----------------------------
(***************************************************************************)
(* One WebTransport session: WtSession of src/src/webtransport.rs.         *)
(*                                                                         *)
(* The session does no I/O.  It is a record with the fields of the struct; *)
(* an operation of the API is a predicate (the call returns Ok) and the    *)
(* session the call leaves behind, and a call that returns Err leaves the  *)
(* session alone.  A received capsule that handle_capsule refuses is an    *)
(* error of the whole session; what the refusal leaves half done is of no  *)
(* interest because nobody uses the session afterwards.                    *)
(*                                                                         *)
(* Application data is known by its place: bytes from + 1 to from + size   *)
(* of the stream.  Error codes, reasons and datagrams carry no content.    *)
(***************************************************************************)
EXTENDS WtFlowControl, Sequences, FiniteSets

CONSTANTS
  RecordMax      \* STREAM_ID_RECORD_MAX_SIZE, 10000 in the code

ASSUME RecordAssumption == RecordMax \in Nat

SessionStates == {"Initial", "Active", "Draining", "Closed"}

(* WtSession::new; WtSession::client and WtSession::server fix the role.   *)
NewSession(role, config, peer_config) ==
  [role |-> role, config |-> config, peer_config |-> peer_config,
   state |-> "Initial",
   streams |-> [id \in {} |-> NewWtStream(0, 0)],
   closed_stream_send_max |-> [id \in {} |-> 0],
   stop_sending_received_ids |-> {},
   flow_control |-> NewFlowControl(config, peer_config),
   next_stream_id |-> [b \in BOOLEAN |-> FirstId(role, b)],
   events |-> << >>, output |-> << >>]

(* HashMap::insert and HashMap::remove.                                    *)
With(f, k, v)  == [x \in DOMAIN f \cup {k} |-> IF x = k THEN v ELSE f[x]]
Without(f, k) == [x \in DOMAIN f \ {k} |-> f[x]]

(* The key BoundedMap and BoundedSet give up: the smallest, whatever was   *)
(* inserted first.                                                         *)
Smallest(S) == CHOOSE x \in S : \A y \in S : x <= y

(* BoundedMap::insert.                                                     *)
MapInsert(m, k, v) ==
  LET n == With(m, k, v)
  IN  IF Cardinality(DOMAIN n) > RecordMax THEN Without(n, Smallest(DOMAIN n)) ELSE n

(* BoundedSet::insert, for the set of identifiers.                         *)
SetInsert(S, x) ==
  LET n == S \cup {x}
  IN  IF Cardinality(n) > RecordMax THEN n \ {Smallest(n)} ELSE n

Emit(s, capsule) == [s EXCEPT !.output = Append(@, capsule)]
Notify(s, event) == [s EXCEPT !.events = Append(@, event)]

Live(s) == s.state \in {"Active", "Draining"}
Known(s, id) == id \in DOMAIN s.streams

(* Variant of RemoveIfClosed: the identifier is not remembered.            *)
RemoveIfClosedForgotten(s, id) ==
  IF Known(s, id) /\ IsClosed(s.role, id, s.streams[id])
  THEN [s EXCEPT !.streams = Without(@, id)]
  ELSE s

(* remove_if_closed.                                                       *)
RemoveIfClosed(s, id) ==
  IF Known(s, id) /\ IsClosed(s.role, id, s.streams[id])
  THEN [s EXCEPT !.streams = Without(@, id),
                 !.closed_stream_send_max = MapInsert(@, id, s.streams[id].send_max)]
  ELSE s

-----------------------------------------------------------------------------
(* The API.                                                                *)

CanInitiate(s) == s.state = "Initial"
Initiated(s) == [s EXCEPT !.state = "Active"]

(* open_stream, behind open_bidi_stream and open_uni_stream.  Nothing is   *)
(* written: the peer learns of the stream from its first capsule.          *)
CanOpen(s, bidirectional) == Live(s) /\ CanOpenStream(s.flow_control, bidirectional)

OpenStream(s, bidirectional) ==
  LET id       == s.next_stream_id[bidirectional]
      send_max == IF bidirectional THEN s.peer_config.bidi_remote ELSE s.peer_config.uni
      recv_max == IF bidirectional THEN s.config.bidi_local ELSE s.config.uni
  IN  [s EXCEPT !.next_stream_id[bidirectional] = NextId(id),
                !.streams = With(@, id, NewWtStream(send_max, recv_max)),
                !.flow_control.opened_streams[bidirectional] = @ + 1]

(* send_stream_data: both limits are examined before either is touched.    *)
CanSendStreamData(s, id, size) ==
  /\ Live(s)
  /\ Known(s, id)
  /\ HasSendPart(s.role, id)
  /\ CanConsumeSend(s.flow_control, size)
  /\ CanSendDataOf(s.streams[id], size)

SendStreamData(s, id, size, fin) ==
  LET st == s.streams[id]
      t  == Emit([s EXCEPT !.streams[id] = AfterSendData(st, size, fin),
                           !.flow_control.send_offset = @ + size],
                 [type |-> "STREAM", id |-> id, from |-> st.send_offset, size |-> size, fin |-> fin])
  IN  IF fin THEN RemoveIfClosed(t, id) ELSE t

(* Variant of CanResetStream: FIN may be followed by a reset.              *)
CanResetStreamLate(s, id) ==
  Known(s, id) /\ s.streams[id].send_state # "ResetRecvd" /\ HasSendPart(s.role, id)

(* reset_stream.  The state of the session is not examined.                *)
CanResetStream(s, id) ==
  Known(s, id) /\ CanSend(s.streams[id]) /\ HasSendPart(s.role, id)

ResetStream(s, id) ==
  RemoveIfClosed(
    Emit([s EXCEPT !.streams[id] = AfterSendReset(@)],
         [type |-> "RESET_STREAM", id |-> id,
          reliable_size |-> s.streams[id].send_offset]), id)

(* Variant of CanStopSending: the capsule may be repeated.                 *)
CanStopSendingAgain(s, id) ==
  /\ Known(s, id)
  /\ HasRecvPart(s.role, id)
  /\ s.streams[id].recv_state # "ResetRead"

(* stop_sending.  The state of the session is not examined.                *)
CanStopSending(s, id) ==
  /\ Known(s, id)
  /\ HasRecvPart(s.role, id)
  /\ ~s.streams[id].stop_sending_sent
  /\ s.streams[id].recv_state # "ResetRead"

StopSending(s, id) ==
  Emit([s EXCEPT !.streams[id].stop_sending_sent = TRUE], [type |-> "STOP_SENDING", id |-> id])

CanSendDatagram(s) == Live(s)
SendDatagram(s) == Emit(s, [type |-> "DATAGRAM"])

(* close.                                                                  *)
CanClose(s) == s.state # "Closed"
Close(s) == Emit([s EXCEPT !.state = "Closed"], [type |-> "CLOSE_SESSION"])

(* drain.                                                                  *)
CanDrain(s) == s.state = "Active"
Drain(s) == Emit([s EXCEPT !.state = "Draining"], [type |-> "DRAIN_SESSION"])

(* send_max_data and grow_recv_window.                                     *)
CanSendMaxData(s, maximum) == CanRaiseRecvMax(s.flow_control, maximum)
SendMaxData(s, maximum) ==
  Emit([s EXCEPT !.flow_control.recv_max = maximum], [type |-> "MAX_DATA", maximum |-> maximum])

(* send_max_stream_data and grow_stream_recv_window.                       *)
CanSendMaxStreamData(s, id, maximum) ==
  /\ maximum <= MaxValue
  /\ Known(s, id)
  /\ HasRecvPart(s.role, id)
  /\ ~s.streams[id].stop_sending_sent
  /\ CanRecv(s.streams[id])
  /\ maximum > s.streams[id].recv_max

SendMaxStreamData(s, id, maximum) ==
  Emit([s EXCEPT !.streams[id] = AfterUpdateRecvMax(@, maximum)],
       [type |-> "MAX_STREAM_DATA", id |-> id, maximum |-> maximum])

(* send_max_streams and grow_max_streams.                                  *)
CanSendMaxStreams(s, maximum, bidirectional) ==
  Live(s) /\ CanRaiseMaxStreamsLocal(s.flow_control, maximum, bidirectional)
SendMaxStreams(s, maximum, bidirectional) ==
  Emit([s EXCEPT !.flow_control.max_streams_local[bidirectional] = maximum],
       [type |-> "MAX_STREAMS", bidirectional |-> bidirectional, maximum |-> maximum])

(* poll_event: reading the last data of a stream may close it.             *)
PollEvent(s) ==
  LET event == Head(s.events)
      t     == [s EXCEPT !.events = Tail(@)]
      id    == event.id
  IN  IF event.type = "StreamData" /\ event.fin
      THEN RemoveIfClosed(IF Known(t, id) THEN [t EXCEPT !.streams[id] = MarkDataRead(@)] ELSE t, id)
      ELSE t

-----------------------------------------------------------------------------
(* Streams the peer opens.                                                 *)

Remembered(s, id) == Known(s, id) \/ id \in DOMAIN s.closed_stream_send_max

(* initial_send_max_for_peer_stream.                                       *)
InitialSendMax(s, bidirectional) ==
  IF bidirectional THEN s.peer_config.bidi_local ELSE s.peer_config.uni

(* The identifiers of the type of id, up to id, that have no stream and    *)
(* have had none, in the order in which the loop of                        *)
(* create_peer_streams_up_to meets them.                                   *)
MissingUpTo(s, id) ==
  LET missing[n \in 0 .. (id \div 4) + 1] ==
        LET i == (id % 4) + 4 * (n - 1)
        IN  IF n = 0 THEN << >>
            ELSE IF Remembered(s, i) THEN missing[n - 1]
            ELSE Append(missing[n - 1], i)
  IN  missing[(id \div 4) + 1]

(* create_peer_stream for every missing identifier up to id, as            *)
(* create_peer_streams_up_to does once can_accept_stream has allowed it.   *)
CreatePeerStreamsUpTo(s, id) ==
  LET missing  == MissingUpTo(s, id)
      new      == {missing[k] : k \in DOMAIN missing}
      bidi     == IsBidirectional(id)
      recv_max == IF bidi THEN s.config.bidi_remote ELSE s.config.uni
      fresh    == NewWtStream(InitialSendMax(s, bidi), recv_max)
  IN  [s EXCEPT
         !.streams = [i \in DOMAIN @ \cup new |-> IF i \in new THEN fresh ELSE s.streams[i]],
         !.events = @ \o [k \in DOMAIN missing |-> [type |-> "StreamOpened", id |-> missing[k]]]]

(* will_create_implicit_peer_bidi_stream.                                  *)
CreatesImplicitly(s, id) ==
  IsPeerInitiated(s.role, id) /\ IsBidirectional(id) /\ ~Remembered(s, id)

(* create_implicit_peer_bidi_stream.                                       *)
CreateImplicitly(s, id) == IF CreatesImplicitly(s, id) THEN CreatePeerStreamsUpTo(s, id) ELSE s

(* is_uncreated_local_id.                                                  *)
IsUncreatedLocal(s, id) ==
  ~IsPeerInitiated(s.role, id) /\ id >= s.next_stream_id[IsBidirectional(id)]

(* is_receive_only_id.                                                     *)
IsReceiveOnly(s, id) == IsPeerInitiated(s.role, id) /\ ~IsBidirectional(id)

(* stop_sending_received.                                                  *)
StopSendingReceived(s, id) ==
  id \in s.stop_sending_received_ids \/ (Known(s, id) /\ s.streams[id].stop_sending_received)

-----------------------------------------------------------------------------
(* handle_capsule, by the type of the capsule: when it is refused, and the *)
(* session when it is accepted.                                            *)

(* handle_stream_data.                                                     *)
StreamDataRefused(s, c) ==
  \/ c.id \in DOMAIN s.closed_stream_send_max
  \/ c.size = 0 /\ ~c.fin /\ Known(s, c.id) /\ s.streams[c.id].has_received_data
  \/ ~Known(s, c.id)
       /\ (~IsPeerInitiated(s.role, c.id) \/ ~CanAcceptStream(s.flow_control, c.id))
  \/ Known(s, c.id) /\ ~HasRecvPart(s.role, c.id)
  \/ ~CanRecvDataOf(CreatePeerStreamsUpTo(s, c.id).streams[c.id], c.size)
  \/ ~CanConsumeRecv(s.flow_control, c.size)

(* Variant of StreamDataAccepted: the limit of the session is not charged. *)
StreamDataUncounted(s, c) ==
  LET t == IF Known(s, c.id) THEN s ELSE CreatePeerStreamsUpTo(s, c.id)
  IN  Notify([t EXCEPT !.streams[c.id] = AfterRecvData(@, c.size, c.fin)],
             [type |-> "StreamData", id |-> c.id, from |-> c.from, size |-> c.size,
              fin |-> c.fin])

StreamDataAccepted(s, c) ==
  LET t == IF Known(s, c.id) THEN s ELSE CreatePeerStreamsUpTo(s, c.id)
  IN  Notify([t EXCEPT !.streams[c.id] = AfterRecvData(@, c.size, c.fin),
                       !.flow_control.recv_offset = @ + c.size],
             [type |-> "StreamData", id |-> c.id, from |-> c.from, size |-> c.size,
              fin |-> c.fin])

ReceivesOn(s, id) == Known(s, id) /\ CanRecv(s.streams[id]) /\ HasRecvPart(s.role, id)

ResetStreamRefused(s, c) ==
  ~ReceivesOn(s, c.id) \/ c.reliable_size # s.streams[c.id].recv_offset

(* Variant of ResetStreamAccepted: the application is not told.            *)
ResetStreamSilent(s, c) ==
  RemoveIfClosed([s EXCEPT !.streams[c.id] = AfterRecvReset(@)], c.id)

ResetStreamAccepted(s, c) ==
  RemoveIfClosed(Notify([s EXCEPT !.streams[c.id] = AfterRecvReset(@)],
                        [type |-> "StreamReset", id |-> c.id]), c.id)

(* An implicitly opened stream must be within the announced limit.         *)
ImplicitRefused(s, id) == CreatesImplicitly(s, id) /\ ~CanAcceptStream(s.flow_control, id)

StopSendingRefused(s, c) ==
  \/ IsReceiveOnly(s, c.id)
  \/ IsUncreatedLocal(s, c.id)
  \/ StopSendingReceived(s, c.id)
  \/ ImplicitRefused(s, c.id)

(* Variant of StopSendingAccepted: RESET_STREAM is left to the application. *)
StopSendingUnanswered(s, c) ==
  LET t == CreateImplicitly(s, c.id)
      u == IF Known(t, c.id) THEN [t EXCEPT !.streams[c.id].stop_sending_received = TRUE] ELSE t
  IN  Notify([u EXCEPT !.stop_sending_received_ids = SetInsert(@, c.id)],
             [type |-> "StopSending", id |-> c.id])

(* The sending part answers with RESET_STREAM at once.                     *)
StopSendingAccepted(s, c) ==
  LET t == CreateImplicitly(s, c.id)
      u == IF Known(t, c.id) THEN [t EXCEPT !.streams[c.id].stop_sending_received = TRUE] ELSE t
      v == [u EXCEPT !.stop_sending_received_ids = SetInsert(@, c.id)]
      w == IF CanResetStream(v, c.id) THEN ResetStream(v, c.id) ELSE v
  IN  Notify(w, [type |-> "StopSending", id |-> c.id])

MaxStreamDataRefused(s, c) ==
  \/ IsReceiveOnly(s, c.id)
  \/ IsUncreatedLocal(s, c.id)
  \/ StopSendingReceived(s, c.id)
  \/ CreatesImplicitly(s, c.id) /\ c.maximum <= InitialSendMax(s, TRUE)
  \/ ImplicitRefused(s, c.id)
  \/ ~Known(s, c.id) /\ c.id \in DOMAIN s.closed_stream_send_max
       /\ c.maximum <= s.closed_stream_send_max[c.id]
  \/ Known(s, c.id) /\ ~CanUpdateSendMax(s.streams[c.id], c.maximum)

MaxStreamDataAccepted(s, c) ==
  IF ~Known(s, c.id) /\ c.id \in DOMAIN s.closed_stream_send_max
  THEN [s EXCEPT !.closed_stream_send_max = MapInsert(@, c.id, c.maximum)]
  ELSE LET t == CreateImplicitly(s, c.id)
       IN  IF Known(t, c.id) THEN [t EXCEPT !.streams[c.id].send_max = c.maximum] ELSE t

(* handle_capsule returns Err.  A closed session ignores everything.       *)
Refused(s, c) ==
  /\ s.state # "Closed"
  /\ CASE c.type = "STREAM"              -> StreamDataRefused(s, c)
       [] c.type = "RESET_STREAM"        -> ResetStreamRefused(s, c)
       [] c.type = "STOP_SENDING"        -> StopSendingRefused(s, c)
       [] c.type = "MAX_DATA"            -> ~CanRaiseSendMax(s.flow_control, c.maximum)
       [] c.type = "MAX_STREAM_DATA"     -> MaxStreamDataRefused(s, c)
       [] c.type = "MAX_STREAMS"         ->
            ~CanRaiseMaxStreams(s.flow_control, c.maximum, c.bidirectional)
       [] c.type = "STREAM_DATA_BLOCKED" -> ~ReceivesOn(s, c.id)
       [] c.type = "STREAMS_BLOCKED"     -> c.maximum > MaxStreamsLimit
       [] OTHER                          -> FALSE

(* handle_capsule returns Ok.                                              *)
Accepted(s, c) ==
  IF s.state = "Closed" THEN s
  ELSE CASE c.type = "DATAGRAM"        -> Notify(s, [type |-> "DatagramReceived"])
         [] c.type = "STREAM"          -> StreamDataAccepted(s, c)
         [] c.type = "RESET_STREAM"    -> ResetStreamAccepted(s, c)
         [] c.type = "STOP_SENDING"    -> StopSendingAccepted(s, c)
         [] c.type = "MAX_DATA"        -> [s EXCEPT !.flow_control.send_max = c.maximum]
         [] c.type = "MAX_STREAM_DATA" -> MaxStreamDataAccepted(s, c)
         [] c.type = "MAX_STREAMS"     ->
              [s EXCEPT !.flow_control.max_streams_remote[c.bidirectional] = c.maximum]
         [] c.type = "CLOSE_SESSION"   ->
              Notify([s EXCEPT !.state = "Closed"], [type |-> "SessionClosed"])
         [] c.type = "DRAIN_SESSION" /\ s.state = "Active" ->
              Notify([s EXCEPT !.state = "Draining"], [type |-> "SessionDraining"])
         [] OTHER -> s
=============================================================================
