--------------------------- MODULE WtFlowControl ---------------------------
(***************************************************************************)
(* Session-wide limits of a WebTransport session:                          *)
(* src/src/webtransport/flow_control.rs.                                   *)
(*                                                                         *)
(* Bytes are counted from the start of the session (offsets) against       *)
(* absolute maxima, and streams against absolute numbers of streams.  The  *)
(* limits on streams are functions of the direction, TRUE for              *)
(* bidirectional, where the code has two fields.                           *)
(***************************************************************************)
EXTENDS WtStream

CONSTANTS
  MaxStreamsLimit   \* 2^60 in the code

ASSUME MaxStreamsAssumption == MaxStreamsLimit \in Nat \ {0}

WtFlowControls ==
  [send_max : 0 .. MaxValue, send_offset : 0 .. MaxValue,
   recv_max : 0 .. MaxValue, recv_offset : 0 .. MaxValue,
   max_streams_local  : [BOOLEAN -> 0 .. MaxStreamsLimit],
   max_streams_remote : [BOOLEAN -> 0 .. MaxStreamsLimit],
   opened_streams     : [BOOLEAN -> 0 .. MaxStreamsLimit]]

(* WtFlowControl::new, with the values WtSession::new passes to it.        *)
NewFlowControl(config, peer_config) ==
  [send_max |-> peer_config.max_data, send_offset |-> 0,
   recv_max |-> config.max_data, recv_offset |-> 0,
   max_streams_local  |-> config.max_streams,
   max_streams_remote |-> peer_config.max_streams,
   opened_streams     |-> [b \in BOOLEAN |-> 0]]

(* Variant of CanConsumeSend: what was sent before is forgotten.           *)
CanConsumeSendFresh(fc, size) == size <= fc.send_max

(* send_available and consume_send.                                        *)
CanConsumeSend(fc, size) == fc.send_offset + size <= fc.send_max

(* consume_recv.                                                           *)
CanConsumeRecv(fc, size) == fc.recv_offset + size <= fc.recv_max

SessionRecvAvailable(fc) ==
  IF fc.recv_max > fc.recv_offset THEN fc.recv_max - fc.recv_offset ELSE 0

(* update_send_max: WT_MAX_DATA of the peer.                               *)
CanRaiseSendMax(fc, maximum) == maximum <= MaxValue /\ maximum > fc.send_max

(* update_recv_max: before WT_MAX_DATA is sent.                            *)
CanRaiseRecvMax(fc, maximum) == maximum <= MaxValue /\ maximum > fc.recv_max

(* can_open_bidi_stream, can_open_uni_stream.                              *)
CanOpenStream(fc, bidirectional) ==
  fc.opened_streams[bidirectional] < fc.max_streams_remote[bidirectional]

(* can_accept_stream.                                                      *)
CanAcceptStream(fc, id) ==
  id < fc.max_streams_local[IsBidirectional(id)] * 4 + (id % 4)

(* check_max_streams_increase.                                             *)
MaxStreamsIncrease(current, maximum) == maximum <= MaxStreamsLimit /\ maximum > current

(* update_max_streams: WT_MAX_STREAMS of the peer.                         *)
CanRaiseMaxStreams(fc, maximum, bidirectional) ==
  MaxStreamsIncrease(fc.max_streams_remote[bidirectional], maximum)

(* update_max_streams_local: before WT_MAX_STREAMS is sent.                *)
CanRaiseMaxStreamsLocal(fc, maximum, bidirectional) ==
  MaxStreamsIncrease(fc.max_streams_local[bidirectional], maximum)

(* u64::div_ceil(2).                                                       *)
HalfOf(n) == (n + 1) \div 2

(* Variant of ShouldSendMaxData: the threshold is rounded down.            *)
ShouldSendMaxDataFloor(fc, initial) == SessionRecvAvailable(fc) < initial \div 2

(* should_send_max_data.                                                   *)
ShouldSendMaxData(fc, initial) == SessionRecvAvailable(fc) < HalfOf(initial)
=============================================================================
