------------------------------- MODULE WtEnds -------------------------------
(***************************************************************************)
(* What the specifications with both ends of a WebTransport session share: *)
(* the identifiers of streams in use, what the ends may announce before    *)
(* the session starts, and how two ends differ while capsules are on their *)
(* way.                                                                    *)
(***************************************************************************)
EXTENDS WtSession, WtConfig, Sums

CONSTANTS
  Ids               \* the stream identifiers in use

(* With an identifier come the lower ones of its type: they are opened in  *)
(* that order.                                                             *)
ASSUME IdsAssumption ==
  /\ Ids \subseteq Nat /\ IsFiniteSet(Ids)
  /\ \A id \in Ids : \A i \in 0 .. id : i % 4 = id % 4 => i \in Ids

Peer(r) == IF r = "client" THEN "server" ELSE "client"

(* Values of SETTINGS have 32 bits and integers of a structured field 15   *)
(* digits, less than the limits of the protocol.                           *)
WtSettings ==
  LET Limit == {Absent} \cup 0 .. MaxValue
  IN  [max_data : Limit, bidi_local : Limit, bidi_remote : Limit, uni : Limit,
       max_streams : [BOOLEAN -> {Absent} \cup 0 .. MaxStreamsLimit]]

InitFields == Seq([key : STRING, value : {Absent} \cup {v \in Int : v <= MaxValue}])

(* Capsules that change nothing in a session that accepts them.            *)
NoticeCapsules ==
  [type : {"PADDING", "UNKNOWN", "DATA_BLOCKED"}]
    \cup [type : {"STREAM_DATA_BLOCKED"}, id : Nat]
    \cup [type : {"STREAMS_BLOCKED"}, maximum : Nat]

(* view is what one end goes by, given what the end that gives the credit  *)
(* enforces: the announcements on their way raise one to the other, each   *)
(* of them above all before it.                                            *)
Rising(view, maxima, given) ==
  /\ \A k \in DOMAIN maxima : maxima[k] # 0 =>
       /\ view < maxima[k] /\ maxima[k] <= given
       /\ \A j \in 1 .. k - 1 : maxima[j] < maxima[k]
  /\ view = given \/ \E k \in DOMAIN maxima : maxima[k] # 0 /\ maxima[k] = given
-----------------------------------------------------------------------------
(* The maps of a session, keyed by stream identifiers.                     *)
Maps(V) == UNION {[D -> V] : D \in SUBSET Ids}

(* What is on the wire, what the application is told, and a session.       *)
Capsules ==
  [type : {"STREAM"}, id : Ids, from : Nat, size : Nat, fin : BOOLEAN]
    \cup [type : {"RESET_STREAM"}, id : Ids, reliable_size : Nat]
    \cup [type : {"STOP_SENDING"}, id : Ids]
    \cup [type : {"MAX_DATA"}, maximum : Nat]
    \cup [type : {"MAX_STREAM_DATA"}, id : Ids, maximum : 0 .. MaxValue]
    \cup [type : {"MAX_STREAMS"}, bidirectional : BOOLEAN, maximum : Nat]
    \cup [type : {"DATAGRAM", "CLOSE_SESSION", "DRAIN_SESSION"}]
    \cup NoticeCapsules

Events ==
  [type : {"StreamOpened", "StreamReset", "StopSending"}, id : Ids]
    \cup [type : {"StreamData"}, id : Ids, from : Nat, size : Nat, fin : BOOLEAN]
    \cup [type : {"DatagramReceived", "SessionClosed", "SessionDraining"}]

Configs ==
  [max_data : 0 .. MaxValue, bidi_local : 0 .. MaxValue, bidi_remote : 0 .. MaxValue,
   uni : 0 .. MaxValue, max_streams : [BOOLEAN -> 0 .. MaxStreamsLimit]]

Sessions ==
  [role : Roles, config : Configs, peer_config : Configs, state : SessionStates,
   streams : Maps(WtStreams), closed_stream_send_max : Maps(0 .. MaxValue),
   stop_sending_received_ids : SUBSET Ids, flow_control : WtFlowControls,
   next_stream_id : [BOOLEAN -> Nat], events : Seq(Events), output : Seq(Capsules)]
=============================================================================
