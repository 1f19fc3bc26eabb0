----------------------------- MODULE Connection -----------------------------
(***************************************************************************)
(* One HTTP/2 endpoint: the public API of src/src/connection.rs, its frame *)
(* handlers, and the next-state relation that lets the application and an  *)
(* arbitrary peer act in any order.                                        *)
(*                                                                         *)
(* The peer is not trusted: it sends any frame on any stream.  The sets    *)
(* below only choose which sizes, blocks and settings a run tells apart;   *)
(* an empty set switches the operation off.                                *)
(***************************************************************************)
EXTENDS ConnectionHeaders

CONSTANTS
  Blocks,             \* decoded header blocks the peer sends
  Fragments,          \* sizes of the pieces of a split header block
  Requests,           \* methods of the requests the application starts
  Responses,          \* statuses the application responds with
  AppSizes,           \* sizes passed to send_data
  PeerSizes,          \* sizes of the peer's DATA
  Pads,               \* octets that padding adds to a DATA frame
  Credits,            \* increments passed to send_window_update
  Increments,         \* increments of the peer's WINDOW_UPDATEs
  PeerSettings,       \* settings in force after a SETTINGS frame of the peer
  Codes,              \* error codes of resets by the application or the peer
  BadFrames,          \* frames the decoder rejects with a stream error
  Goaways,            \* "sent", "received": GOAWAYs besides the answer to an error
  Pings,              \* ACK flags of the PINGs exchanged
  MaxPendingSettings  \* bound on SETTINGS sent and not yet acknowledged

ASSUME InputAssumption ==
  /\ Blocks \subseteq [pseudo : BOOLEAN, valid : BOOLEAN,
                       kind : (Methods \ {"none"}) \cup {"1xx", "200", "204", "304", "4xx"},
                       length : {BadLength, NoLength} \cup 0 .. LengthCap]
  /\ Role = "server" => \A h \in Blocks : h.pseudo => h.kind \in Methods
  /\ Fragments \subseteq Nat
  /\ Requests \subseteq Methods \ {"none"}
  /\ Responses \subseteq {"1xx", "200", "204", "304", "4xx"}
  /\ AppSizes \subseteq Nat
  /\ PeerSizes \subseteq Nat
  /\ Pads \subseteq Nat
  /\ Credits \subseteq 1 .. MaxWindow
  /\ Increments \subseteq 1 .. MaxWindow
  /\ PeerSettings \subseteq [initial_window_size     : 0 .. MaxWindow,
                             max_concurrent_streams  : Nat,
                             enable_connect_protocol : BOOLEAN]
  /\ Goaways \subseteq {"sent", "received"}
  /\ Pings \subseteq BOOLEAN
  /\ MaxPendingSettings \in Nat

(* Identifiers a frame of the peer can carry.                              *)
WireIds == 1 .. MaxStreamId

-----------------------------------------------------------------------------
(* Handshake.                                                              *)

(* The client preface has been read by feed, or by the caller, who then    *)
(* calls mark_preface_received.                                            *)
ReceivePreface ==
  /\ ~failed
  /\ ~preface_received
  /\ preface_received' = TRUE
  /\ output' = <<>>
  /\ events' = <<>>
  /\ UNCHANGED <<state, preface_sent, pending_settings_count, connection_window_update_sent,
                 remote_settings, windows, table, identifiers, header_block, failed>>

MarkPrefaceSent ==
  /\ ~failed
  /\ ~preface_sent
  /\ preface_sent' = TRUE
  /\ output' = <<>>
  /\ events' = <<>>
  /\ UNCHANGED <<state, preface_received, pending_settings_count,
                 connection_window_update_sent, remote_settings, windows, table,
                 identifiers, header_block, failed>>

(* SETTINGS, and once per connection the WINDOW_UPDATE that raises the     *)
(* connection window from its default.  If that window cannot grow any     *)
(* more the call returns an error with the SETTINGS already written.       *)
AnnounceSettings ==
  LET increment == ConnectionWindow - DefaultWindow
      due       == ~connection_window_update_sent /\ increment > 0
      refused   == due /\ ~CanGrow(recv_window, increment)
  IN  /\ pending_settings_count < MaxPendingSettings
      /\ pending_settings_count' = pending_settings_count + 1
      /\ recv_window' = IF due /\ ~refused THEN recv_window + increment ELSE recv_window
      /\ connection_window_update_sent' = (connection_window_update_sent \/ ~refused)
      /\ output' = IF due /\ ~refused THEN <<Settings, WindowUpdate(0, increment)>>
                                      ELSE <<Settings>>
      /\ events' = <<>>
      /\ UNCHANGED <<state, preface_received, remote_settings, send_window, table,
                     identifiers, header_block, failed>>

Initiate ==
  /\ ~failed
  /\ ~preface_sent
  /\ preface_sent' = TRUE
  /\ AnnounceSettings

SendSettings ==
  /\ ~failed
  /\ AnnounceSettings
  /\ UNCHANGED preface_sent

-----------------------------------------------------------------------------
(* Application calls.  A rejected call changes nothing and is no step.     *)

(* Any request the checks before the stream identifier let pass.  Two of   *)
(* them look at header fields a request has no trace of here, the list     *)
(* size against the peer's limit (ListFits of Wire) and the peer's         *)
(* SETTINGS_WT_ENABLED for :protocol = webtransport: requests they refuse  *)
(* are no steps, and requests they let pass are those of Requests.         *)
StartStream(method, end_stream) ==
  /\ ~failed
  /\ Role = "client"
  /\ state # "GoawayReceived"
  /\ CurrentOpen < remote_settings.max_concurrent_streams
  /\ method = "EXTENDED CONNECT" => remote_settings.enable_connect_protocol
  /\ next_stream_id <= MaxStreamId
  /\ next_stream_id' = next_stream_id + 2
  /\ streams' = [streams EXCEPT ![next_stream_id] =
                   [NewStream EXCEPT !.state = SendHeaders(@, end_stream),
                                     !.request_method = method]]
  /\ output' = <<Headers(next_stream_id, end_stream)>>
  /\ events' = <<>>
  /\ UNCHANGED <<state, handshake, remote_settings, windows, closed_streams,
                 last_recv_stream_id, last_successful_stream_id,
                 last_sent_goaway_stream_id, header_block, failed>>

(* send_data queues all of the data or none, then flushes.                 *)
SendData(s, n, end_stream) ==
  /\ ~failed
  /\ InMap(s)
  /\ ~streams[s].pending_end_stream
  /\ CanSendData(streams[s].state)
  /\ streams[s].send_buffer + n <= BufferCapacity
  /\ FlushStream(s, [streams[s] EXCEPT !.send_buffer = @ + n,
                                       !.pending_end_stream = end_stream], <<>>)
  /\ UNCHANGED <<state, handshake, remote_settings, recv_window, identifiers,
                 header_block, failed>>

ResetStream(s, code) ==
  /\ ~failed
  /\ ~IsIdleStream(s)
  /\ ResetKnownStream(s, code, 0)
  /\ UNCHANGED <<state, handshake, remote_settings, windows, identifiers, header_block,
                 failed>>

SendPing ==
  /\ ~failed
  /\ output' = <<Ping(FALSE)>>
  /\ events' = <<>>
  /\ UNCHANGED <<state, handshake, remote_settings, windows, table, identifiers,
                 header_block, failed>>

(* Also the caller's answer to a connection error.                         *)
SendGoaway ==
  LET last == IF last_sent_goaway_stream_id = NoGoaway THEN last_successful_stream_id
              ELSE Least(last_successful_stream_id, last_sent_goaway_stream_id)
  IN  /\ output' = <<Goaway(last)>>
      /\ events' = <<>>
      /\ last_sent_goaway_stream_id' = last
      /\ state' = "GoawaySent"
      /\ UNCHANGED <<handshake, remote_settings, windows, table, next_stream_id,
                     last_recv_stream_id, last_successful_stream_id, header_block, failed>>

(* s = 0 is the connection.  The frame is sent even if the stream is gone. *)
SendWindowUpdate(s, n) ==
  /\ ~failed
  /\ \/ /\ s = 0
        /\ CanGrow(recv_window, n)
        /\ recv_window' = recv_window + n
        /\ UNCHANGED streams
     \/ /\ InMap(s)
        /\ CanGrow(streams[s].recv_window, n)
        /\ streams' = [streams EXCEPT ![s].recv_window = @ + n]
        /\ UNCHANGED recv_window
     \/ /\ s # 0 /\ ~InMap(s)
        /\ UNCHANGED <<streams, recv_window>>
  /\ output' = <<WindowUpdate(s, n)>>
  /\ events' = <<>>
  /\ UNCHANGED <<state, handshake, remote_settings, send_window, closed_streams,
                 identifiers, header_block, failed>>

-----------------------------------------------------------------------------
(* Frames of the peer.                                                     *)

(* process decodes frames as long as none has failed; feed hands a server's *)
(* decoder nothing before the client preface.                              *)
Decoding == ~failed /\ (Role = "server" => preface_received)

(* Variant of Admitted: the type of the first frame is not examined.       *)
AdmittedAnyFirst(type, s) ==
  Decoding /\ (header_continuation_stream # NoStream =>
                  type = "CONTINUATION" /\ s = header_continuation_stream)

(* handle_frame before the dispatch: the first frame has to be SETTINGS,   *)
(* and a header block in progress admits its own CONTINUATION only.        *)
Admitted(type, s) ==
  /\ Decoding
  /\ state = "WaitingPreface" => /\ Role = "server" => preface_received
                                 /\ type = "SETTINGS"
  /\ header_continuation_stream # NoStream =>
       type = "CONTINUATION" /\ s = header_continuation_stream

(* A frame that is not admitted, that the decoder refuses, PUSH_PROMISE,   *)
(* a header block that HPACK cannot decode, settings out of range or a     *)
(* wrong client preface: the peer can cause one of these at any time.      *)
RejectFrame == ~failed /\ ConnectionError

(* process: the decoder refuses a frame with a stream error.  This happens *)
(* before handle_frame, so Admitted is not asked.                          *)
DecoderStreamError(s) ==
  /\ Decoding
  /\ \/ IsIdleStream(s) /\ ConnectionError
     \/ /\ ~IsIdleStream(s)
        /\ ResetKnownStream(s, "PROTOCOL_ERROR", 0)
        /\ UNCHANGED <<state, handshake, remote_settings, windows, identifiers,
                       header_block, failed>>

(* received_content_length, told apart up to one past every content-length. *)
AddReceived(r, len) == Least(r.received_content_length + len, LengthCap + 1)

(* Variant of MalformedData: END_STREAM before the announced length.       *)
MalformedDataShort(r, len, end_stream) ==
  IF r.no_content THEN len > 0
  ELSE /\ r.expected_content_length # NoLength
       /\ AddReceived(r, len) > r.expected_content_length

(* The content of a message contradicts what its headers announced.        *)
MalformedData(r, len, end_stream) ==
  IF r.no_content THEN len > 0
  ELSE /\ r.expected_content_length # NoLength
       /\ \/ AddReceived(r, len) > r.expected_content_length
          \/ end_stream /\ AddReceived(r, len) # r.expected_content_length

(* pad is what padding adds to the length: 0, or 1 + pad_length.           *)
HandleData(s, len, pad, end_stream) ==
  LET size == len + pad
      old  == streams[s]
      r    == [old EXCEPT !.state = RecvData(@, end_stream),
                          !.recv_window = @ - size,
                          !.received_content_length = AddReceived(old, len)]
      error == IF ~CanRecvData(old.state) THEN "STREAM_CLOSED"
               ELSE IF ~CanConsume(old.recv_window, size) THEN "FLOW_CONTROL_ERROR"
               ELSE IF MalformedData(old, len, end_stream) THEN "PROTOCOL_ERROR"
               ELSE "none"
  IN  IF IsIdleStream(s) \/ ~CanConsume(recv_window, size) THEN ConnectionError
      ELSE /\ recv_window' = recv_window - size
           /\ IF IsStreamClosed(s) \/ ~InMap(s)
              THEN /\ events' = IF size > 0 THEN <<DataDiscarded(s, size)>> ELSE <<>>
                   /\ output' = <<>>
                   /\ UNCHANGED table
              ELSE IF error # "none" THEN ResetKnownStream(s, error, size)
              ELSE /\ output' = <<>>
                   /\ StoreOrClose(s, r, end_stream /\ r.state = "Closed",
                                   <<DataReceived(s, len, end_stream)>>)
           /\ UNCHANGED <<state, handshake, remote_settings, send_window, identifiers,
                          header_block, failed>>

HandleRstStream(s, code) ==
  \/ IsIdleStream(s) /\ ConnectionError
  \/ /\ ~IsIdleStream(s)
     /\ IF InMap(s) THEN RemoveStream(s) /\ events' = <<StreamReset(s, code, 0)>>
                    ELSE events' = <<>> /\ UNCHANGED table
     /\ output' = <<>>
     /\ UNCHANGED <<state, handshake, remote_settings, windows, identifiers,
                    header_block, failed>>

(* handle_settings refuses ENABLE_CONNECT_PROTOCOL going back to 0, and    *)
(* update_stream_windows a window that would pass MAX_WINDOW_SIZE.         *)
SettingsRejected(f, delta) ==
  \/ remote_settings.enable_connect_protocol /\ ~f.enable_connect_protocol
  \/ \E s \in OpenStreams : ~CanGrow(streams[s].send_window, delta)

(* f: the peer's settings once those of the frame have been applied.       *)
HandleSettings(f) ==
  LET delta   == f.initial_window_size - remote_settings.initial_window_size
      shifted == [s \in StreamIds |->
                    IF InMap(s) THEN [streams[s] EXCEPT !.send_window = @ + delta] ELSE Absent]
      waiting == state = "WaitingPreface"
  IN  \/ SettingsRejected(f, delta) /\ ConnectionError
      \/ /\ ~SettingsRejected(f, delta)
         /\ remote_settings' = f
         /\ FlushAll(shifted, send_window, <<SettingsAck>>,
                     IF waiting THEN <<Event("SettingsReceived"), Event("ConnectionPreface")>>
                                ELSE <<Event("SettingsReceived")>>)
         /\ state' = IF waiting THEN "Active" ELSE state
         /\ UNCHANGED <<handshake, recv_window, identifiers, header_block, failed>>

HandleSettingsAck ==
  \/ pending_settings_count = 0 /\ ConnectionError
  \/ /\ pending_settings_count > 0
     /\ pending_settings_count' = pending_settings_count - 1
     /\ state' = IF state = "WaitingPreface" THEN "Active" ELSE state
     /\ output' = <<>>
     /\ events' = <<Event("SettingsReceived ACK")>>
     /\ UNCHANGED <<preface_received, preface_sent, connection_window_update_sent,
                    remote_settings, windows, table, identifiers, header_block, failed>>

HandlePing(ack) ==
  /\ output' = IF ack THEN <<>> ELSE <<Ping(TRUE)>>
  /\ events' = <<Event("PingReceived")>>
  /\ UNCHANGED <<state, handshake, remote_settings, windows, table, identifiers,
                 header_block, failed>>

(* Variant of HandleGoaway: the state is left alone.                       *)
HandleGoawayReportOnly ==
  /\ output' = <<>>
  /\ events' = <<Event("GoawayReceived")>>
  /\ UNCHANGED <<state, handshake, remote_settings, windows, table, identifiers,
                 header_block, failed>>

HandleGoaway ==
  /\ state' = "GoawayReceived"
  /\ output' = <<>>
  /\ events' = <<Event("GoawayReceived")>>
  /\ UNCHANGED <<handshake, remote_settings, windows, table, identifiers, header_block,
                 failed>>

(* Variant of HandleConnectionWindowUpdate: nothing is flushed.            *)
HandleConnectionWindowUpdateUnused(n) ==
  /\ CanGrow(send_window, n)
  /\ send_window' = send_window + n
  /\ output' = <<>>
  /\ events' = <<StreamEvent("WindowUpdateReceived", 0)>>
  /\ UNCHANGED <<state, handshake, remote_settings, recv_window, table, identifiers,
                 header_block, failed>>

HandleConnectionWindowUpdate(n) ==
  \/ ~CanGrow(send_window, n) /\ ConnectionError
  \/ /\ CanGrow(send_window, n)
     /\ FlushAll(streams, send_window + n, <<>>, <<StreamEvent("WindowUpdateReceived", 0)>>)
     /\ UNCHANGED <<state, handshake, remote_settings, recv_window, identifiers,
                    header_block, failed>>

HandleWindowUpdate(s, n) ==
  \/ IsIdleStream(s) /\ ConnectionError
  \/ /\ ~IsIdleStream(s)
     /\ IF ~InMap(s) \/ IsStreamClosed(s)
        THEN /\ output' = <<>>
             /\ events' = IF InMap(s) THEN <<>>
                                      ELSE <<StreamEvent("WindowUpdateReceived", s)>>
             /\ UNCHANGED <<table, send_window>>
        ELSE IF ~CanGrow(streams[s].send_window, n)
        THEN ResetKnownStream(s, "FLOW_CONTROL_ERROR", 0) /\ UNCHANGED send_window
        ELSE FlushStream(s, [streams[s] EXCEPT !.send_window = @ + n],
                         <<StreamEvent("WindowUpdateReceived", s)>>)
     /\ UNCHANGED <<state, handshake, remote_settings, recv_window, identifiers,
                    header_block, failed>>

HandlePriorityUpdate(s) ==
  \/ (Role = "client" \/ s % 2 = 0) /\ ConnectionError
  \/ /\ Role = "server" /\ s % 2 = 1
     /\ output' = <<>>
     /\ events' = <<StreamEvent("PriorityUpdateReceived", s)>>
     /\ UNCHANGED <<state, handshake, remote_settings, windows, table, identifiers,
                    header_block, failed>>

(* PRIORITY and frames of unknown type are ignored, except that a CONNECT  *)
(* tunnel does not admit the latter.                                       *)
HandleUnknown(s) ==
  /\ IF InMap(s) /\ streams[s].connect_established
     THEN ResetKnownStream(s, "PROTOCOL_ERROR", 0)
     ELSE output' = <<>> /\ events' = <<>> /\ UNCHANGED table
  /\ UNCHANGED <<state, handshake, remote_settings, windows, identifiers, header_block,
                 failed>>

HandlePriority ==
  /\ output' = <<>>
  /\ events' = <<>>
  /\ UNCHANGED <<state, handshake, remote_settings, windows, table, identifiers,
                 header_block, failed>>

-----------------------------------------------------------------------------
(* The application learns of streams from the identifiers start_stream     *)
(* returns and from events: it acts on streams that are or were open.      *)
KnownStreams == OpenStreams \cup closed_streams

(* A server opens no stream (push is refused), so it sends nothing on a    *)
(* client-initiated stream that the client has not started.                *)
PeerIds == IF Role = "client" THEN {s \in WireIds : s % 2 = 0 \/ s < next_stream_id}
           ELSE WireIds

Handshake ==
  \/ ReceivePreface
  \/ MaxPendingSettings > 0 /\ (MarkPrefaceSent \/ Initiate \/ SendSettings)

Application ==
  \/ \E m \in Requests, end \in BOOLEAN : StartStream(m, end)
  \/ \E s \in OpenStreams, r \in Responses, end \in BOOLEAN :
       Role = "server" /\ SendResponse(s, r, end)
  \/ \E s \in OpenStreams : SendTrailers(s)
  \/ \E s \in OpenStreams, n \in AppSizes, end \in BOOLEAN : SendData(s, n, end)
  \/ \E s \in KnownStreams, c \in Codes : ResetStream(s, c)
  \/ Pings # {} /\ SendPing
  \/ (failed \/ "sent" \in Goaways) /\ SendGoaway
  \/ \E s \in {0} \cup KnownStreams, n \in Credits : SendWindowUpdate(s, n)

PeerHeaders ==
  \/ \E s \in PeerIds, h \in Blocks, end \in BOOLEAN :
       Admitted("HEADERS", s) /\ HandleHeaders(s, h, end)
  \/ \E s \in PeerIds, n \in Fragments, end \in BOOLEAN :
       Admitted("HEADERS", s) /\ HandleHeadersSplit(s, n, end)
  \/ \E s \in PeerIds, n \in Fragments :
       Admitted("CONTINUATION", s) /\ HandleContinuationMore(s, n)
  \/ \E s \in PeerIds, n \in Fragments, h \in Blocks :
       Admitted("CONTINUATION", s) /\ HandleContinuation(s, n, h)

PeerFrames ==
  \/ RejectFrame
  \/ \E f \in BadFrames, s \in PeerIds : DecoderStreamError(s)
  \/ \E s \in PeerIds, n \in PeerSizes, p \in Pads, end \in BOOLEAN :
       Admitted("DATA", s) /\ HandleData(s, n, p, end)
  \/ \E s \in PeerIds, c \in Codes : Admitted("RST_STREAM", s) /\ HandleRstStream(s, c)
  \/ \E f \in PeerSettings : Admitted("SETTINGS", 0) /\ HandleSettings(f)
  \/ Admitted("SETTINGS ACK", 0) /\ HandleSettingsAck
  \/ \E a \in Pings : Admitted("PING", 0) /\ HandlePing(a)
  \/ "received" \in Goaways /\ Admitted("GOAWAY", 0) /\ HandleGoaway
  \/ \E n \in Increments : Admitted("WINDOW_UPDATE", 0) /\ HandleConnectionWindowUpdate(n)
  \/ \E s \in PeerIds, n \in Increments :
       Admitted("WINDOW_UPDATE", s) /\ HandleWindowUpdate(s, n)
  \/ \E s \in PeerIds : Admitted("PRIORITY_UPDATE", 0) /\ HandlePriorityUpdate(s)
  \/ \E s \in PeerIds : Admitted("PRIORITY", s) /\ HandlePriority
  \/ \E s \in PeerIds : Admitted("UNKNOWN", s) /\ HandleUnknown(s)

Next == Handshake \/ Application \/ PeerHeaders \/ PeerFrames

Spec == Init /\ [][Next]_vars

-----------------------------------------------------------------------------
(* Properties.                                                             *)

(* Every field of the connection has its type.                             *)
TypeOK ==
  /\ state \in ConnectionStates
  /\ preface_received \in BOOLEAN
  /\ preface_sent \in BOOLEAN
  /\ pending_settings_count \in Nat
  /\ connection_window_update_sent \in BOOLEAN
  /\ remote_settings \in [initial_window_size     : 0 .. MaxWindow,
                          max_concurrent_streams  : Nat,
                          enable_connect_protocol : BOOLEAN]
  /\ send_window \in Int
  /\ recv_window \in Int
  /\ streams \in [StreamIds -> Stream \cup {Absent}]
  /\ closed_streams \subseteq StreamIds
  /\ next_stream_id \in Nat
  /\ last_recv_stream_id \in Nat
  /\ last_successful_stream_id \in Nat
  /\ last_sent_goaway_stream_id \in Nat \cup {NoGoaway}
  /\ header_continuation_stream \in StreamIds \cup {NoStream}
  /\ header_block_fragment \in 0 .. MaxFragment
  /\ header_end_stream \in BOOLEAN
  /\ header_concurrent_limit_exceeded \in BOOLEAN
  /\ connect_established_headers_received \in BOOLEAN
  /\ failed \in BOOLEAN

(* A stream in the map is open or half-closed: whichever side ends it      *)
(* last, and however it is reset, the entry that became Closed is removed  *)
(* in the same call.                                                       *)
LiveStreams ==
  \A s \in OpenStreams : streams[s].state \in {"Open", "HalfClosedLocal", "HalfClosedRemote"}

(* Data waits in a send buffer only while the stream may still send it,    *)
(* and END_STREAM waits only behind data: neither is stranded when the     *)
(* state machine moves on.                                                 *)
QueuedDataSendable ==
  \A s \in OpenStreams :
    /\ streams[s].pending_end_stream => streams[s].send_buffer > 0
    /\ streams[s].send_buffer > 0 => CanSendData(streams[s].state)

(* Queued data waits for window only: whatever opened the window last, a   *)
(* stream with data left has no window of its own or the connection has    *)
(* none.                                                                   *)
NoStalledData ==
  \A s \in OpenStreams :
    streams[s].send_buffer > 0 => send_window <= 0 \/ streams[s].send_window <= 0

(* Windows stay within 2^31-1, and a stream's send window falls below zero *)
(* only by what the peer took back through SETTINGS_INITIAL_WINDOW_SIZE.   *)
WindowsInRange ==
  /\ send_window \in 0 .. MaxWindow
  /\ recv_window \in 0 .. MaxWindow
  /\ \A s \in OpenStreams :
       /\ streams[s].recv_window \in 0 .. MaxWindow
       /\ streams[s].send_window \in remote_settings.initial_window_size - MaxWindow .. MaxWindow

(* A stream identifier is in the map or remembered as closed, never both,  *)
(* and none is beyond what the endpoint has opened or seen.                *)
TableConsistent ==
  /\ OpenStreams \cap closed_streams = {}
  /\ \A s \in KnownStreams : IF Role = "client" THEN s < next_stream_id
                                                ELSE s <= last_recv_stream_id

(* A server never has more streams than it allowed the peer, also when the *)
(* limit was examined at HEADERS and the stream created at CONTINUATION.   *)
ConcurrencyBound ==
  Role = "server" => Cardinality(OpenStreams) <= MaxConcurrent

(* Every stream a server is working on is covered by the last-stream-id it *)
(* would put into its first GOAWAY.                                        *)
GoawayCoversStreams ==
  Role = "server" =>
    \A s \in OpenStreams : s <= last_successful_stream_id
=============================================================================
