---------------------------- MODULE StreamState ----------------------------
(***************************************************************************)
(* The stream state machine of src/src/stream/state.rs.                    *)
(*                                                                         *)
(* Each transition of the code is a pair here: the states in which the     *)
(* method returns Ok (Can...) and the state it moves to.  The methods that *)
(* return Err leave the state alone, so a caller only takes the step when  *)
(* the Can... predicate holds.                                             *)
(***************************************************************************)

StreamStates ==
  {"Idle", "ReservedLocal", "ReservedRemote", "Open",
   "HalfClosedLocal", "HalfClosedRemote", "Closed"}

(* StreamState::can_send, and the states in which send_data returns Ok.    *)
CanSendData(st) == st \in {"Open", "HalfClosedRemote"}

(* StreamState::can_recv, and the states in which recv_data returns Ok.    *)
CanRecvData(st) == st \in {"Open", "HalfClosedLocal"}

CanSendHeaders(st) == st \in {"Idle", "ReservedLocal"} \/ CanSendData(st)

CanRecvHeaders(st) == st \in {"Idle", "ReservedRemote"} \/ CanRecvData(st)

(* The local side ends: END_STREAM leaves this endpoint.                   *)
EndLocal(st) ==
  IF st \in {"HalfClosedRemote", "ReservedLocal"} THEN "Closed" ELSE "HalfClosedLocal"

(* The remote side ends: END_STREAM arrives.                               *)
EndRemote(st) ==
  IF st \in {"HalfClosedLocal", "ReservedRemote"} THEN "Closed" ELSE "HalfClosedRemote"

SendHeaders(st, end_stream) ==
  IF end_stream THEN EndLocal(st)
  ELSE CASE st = "Idle"          -> "Open"
         [] st = "ReservedLocal" -> "HalfClosedRemote"
         [] OTHER                -> st

RecvHeaders(st, end_stream) ==
  IF end_stream THEN EndRemote(st)
  ELSE CASE st = "Idle"           -> "Open"
         [] st = "ReservedRemote" -> "HalfClosedLocal"
         [] OTHER                 -> st

(* complete_send_data: DATA with END_STREAM has really been written.       *)
CompleteSendData(st, end_stream) == IF end_stream THEN EndLocal(st) ELSE st

RecvData(st, end_stream) == IF end_stream THEN EndRemote(st) ELSE st
=============================================================================
