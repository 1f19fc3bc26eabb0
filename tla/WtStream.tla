----------------------------- MODULE WtStream ------------------------------
(***************************************************************************)
(* Streams of a WebTransport session: src/src/webtransport/stream.rs.      *)
(*                                                                         *)
(* A stream is a record with the fields of WtStream; its identifier, and   *)
(* with it direction and initiator, is the key under which the session     *)
(* keeps it.  A method that may return Err is a predicate Can... and the   *)
(* stream the method leaves behind when it returns Ok.                     *)
(***************************************************************************)
EXTENDS Integers

CONSTANTS
  MaxValue       \* varint::MAX_VALUE, 2^62 - 1 in the code

ASSUME MaxValueAssumption == MaxValue \in Nat \ {0}

Roles == {"client", "server"}

(* stream_id: bit 0 names the initiator, bit 1 the direction.              *)
IsClientInitiated(id) == id % 2 = 0
IsBidirectional(id)   == (id \div 2) % 2 = 0

(* stream_id::next and stream_id::first.                                   *)
NextId(id) == id + 4
FirstId(role, bidirectional) ==
  (IF role = "client" THEN 0 ELSE 1) + (IF bidirectional THEN 0 ELSE 2)

(* WtSession::is_peer_initiated.                                           *)
IsPeerInitiated(role, id) == IsClientInitiated(id) # (role = "client")

SendStates == {"Ready", "Send", "DataRecvd", "ResetRecvd"}
RecvStates == {"Recv", "DataRecvd", "DataRead", "ResetRead"}

WtStreams ==
  [send_state : SendStates, recv_state : RecvStates,
   send_offset : 0 .. MaxValue, recv_offset : 0 .. MaxValue,
   send_max : 0 .. MaxValue, recv_max : 0 .. MaxValue,
   stop_sending_sent : BOOLEAN, stop_sending_received : BOOLEAN,
   has_received_data : BOOLEAN]

(* WtStream::new.                                                          *)
NewWtStream(send_max, recv_max) ==
  [send_state |-> "Ready", recv_state |-> "Recv",
   send_offset |-> 0, recv_offset |-> 0,
   send_max |-> send_max, recv_max |-> recv_max,
   stop_sending_sent |-> FALSE, stop_sending_received |-> FALSE,
   has_received_data |-> FALSE]

(* has_recv_part, has_send_part: decided by the direction of the stream.   *)
HasRecvPart(role, id) == IsBidirectional(id) \/ IsPeerInitiated(role, id)
HasSendPart(role, id) == IsBidirectional(id) \/ ~IsPeerInitiated(role, id)

(* can_send, can_recv and the terminal states.                             *)
CanSend(st) == st.send_state \in {"Ready", "Send"}
CanRecv(st) == st.recv_state = "Recv"
SendTerminal(st) == st.send_state \in {"DataRecvd", "ResetRecvd"}
RecvTerminal(st) == st.recv_state \in {"DataRead", "ResetRead"}

(* is_closed: the parts the stream has are all in a terminal state.        *)
IsClosed(role, id, st) ==
  /\ HasSendPart(role, id) => SendTerminal(st)
  /\ HasRecvPart(role, id) => RecvTerminal(st)

(* recv_available: recv_max.saturating_sub(recv_offset).                   *)
RecvAvailable(st) == IF st.recv_max > st.recv_offset THEN st.recv_max - st.recv_offset ELSE 0

(* send_data.                                                              *)
CanSendDataOf(st, size) == CanSend(st) /\ st.send_offset + size <= st.send_max

AfterSendData(st, size, fin) ==
  [st EXCEPT !.send_offset = @ + size, !.send_state = IF fin THEN "DataRecvd" ELSE "Send"]

(* recv_data.                                                              *)
CanRecvDataOf(st, size) == CanRecv(st) /\ st.recv_offset + size <= st.recv_max

AfterRecvData(st, size, fin) ==
  [st EXCEPT !.recv_offset = @ + size,
             !.recv_state = IF fin THEN "DataRecvd" ELSE @,
             !.has_received_data = @ \/ size > 0]

(* send_reset and recv_reset: neither looks at the state.                  *)
AfterSendReset(st) == [st EXCEPT !.send_state = "ResetRecvd"]
AfterRecvReset(st) == [st EXCEPT !.recv_state = "ResetRead"]

(* mark_data_read.                                                         *)
MarkDataRead(st) == [st EXCEPT !.recv_state = IF @ = "DataRecvd" THEN "DataRead" ELSE @]

(* update_send_max: a value that does not increase the maximum is an Err.  *)
CanUpdateSendMax(st, maximum) == maximum <= MaxValue /\ maximum > st.send_max

(* update_recv_max: Err above MAX_VALUE, otherwise a value that does not   *)
(* increase the maximum is ignored.                                        *)
AfterUpdateRecvMax(st, maximum) ==
  [st EXCEPT !.recv_max = IF maximum > @ THEN maximum ELSE @]
=============================================================================
