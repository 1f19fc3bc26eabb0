--------------------------- MODULE ConnectionCore ---------------------------
(***************************************************************************)
(* The state of one HTTP/2 endpoint (struct Connection in                  *)
(* src/src/connection.rs with the streams of src/src/stream.rs) and the    *)
(* helpers its operations share: the stream table, resets, the flushing of *)
(* queued DATA and connection errors.                                      *)
(*                                                                         *)
(* The library is Sans-I/O and single-threaded: one step is one call of    *)
(* the public API or the handling of one frame inside process().  The      *)
(* order in which the application's calls and the peer's frames meet is    *)
(* what the steps interleave.                                              *)
(*                                                                         *)
(* output and events hold what the last step wrote to output_buffer and to *)
(* the event queue; the caller drains both after every call (flush and     *)
(* poll_event of the tokio wrapper), and no operation reads them.          *)
(***************************************************************************)
EXTENDS FlowControl, StreamState, SequencesExt

CONSTANTS
  Role,               \* "client" or "server"
  MaxStreamId,        \* STREAM_ID_MAX, 2^31 - 1 in the code
  DefaultWindow,      \* DEFAULT_INITIAL_WINDOW_SIZE, 65535 in the code
  ConnectionWindow,   \* limits.connection_window_size
  LocalWindow,        \* local SETTINGS_INITIAL_WINDOW_SIZE
  MaxConcurrent,      \* local SETTINGS_MAX_CONCURRENT_STREAMS
  ConnectProtocol,    \* local SETTINGS_ENABLE_CONNECT_PROTOCOL
  BufferCapacity,     \* capacity of a stream's SendBuffer, 65535 in the code
  ClosedCapacity,     \* CLOSED_STREAMS_MAX_SIZE, 10000 in the code
  MaxFragment,        \* bound on the accumulated header block fragment
  LengthCap,          \* content lengths are told apart up to this number
  RemoteStreamLimit,  \* the peer's MAX_CONCURRENT_STREAMS before its SETTINGS
  Absent              \* a stream identifier that has no entry in the map

ASSUME RoleAssumption == Role \in {"client", "server"}

ASSUME SizeAssumption ==
  /\ MaxStreamId \in Nat \ {0}
  /\ DefaultWindow \in 1 .. MaxWindow
  /\ ConnectionWindow \in 0 .. MaxWindow
  /\ LocalWindow \in 0 .. MaxWindow
  /\ MaxConcurrent \in Nat
  /\ ConnectProtocol \in BOOLEAN
  /\ BufferCapacity \in Nat
  /\ ClosedCapacity \in Nat \ {0}
  /\ MaxFragment \in Nat
  /\ LengthCap \in Nat
  /\ RemoteStreamLimit \in Nat

(* Client-initiated identifiers: the only ones that ever have a stream,    *)
(* because server push is not supported.                                   *)
StreamIds == {i \in 1 .. MaxStreamId : i % 2 = 1}

NoStream == 0       \* Option<u32>::None for header_continuation_stream
NoGoaway == -1      \* Option<u32>::None for last_sent_goaway_stream_id
NoLength == -1      \* no content-length header
BadLength == -2     \* a content-length that does not parse

ConnectionStates ==
  {"WaitingPreface", "Active", "GoawaySent", "GoawayReceived", "Closed"}

Methods == {"none", "GET", "HEAD", "CONNECT", "EXTENDED CONNECT"}

(* What a well-formed header block announces: Option<u64> in the code.     *)
ContentLengths == {NoLength} \cup 0 .. LengthCap

(* struct Stream.  "EXTENDED CONNECT" is CONNECT with has_protocol; the    *)
(* sizes of windows and buffer stand for FlowControl and SendBuffer, and   *)
(* send_initial is always remote_settings.initial_window_size.             *)
Stream ==
  [state                    : StreamStates,
   send_window              : Int,
   recv_window              : Int,
   send_buffer              : Nat,
   pending_end_stream       : BOOLEAN,
   initial_headers_received : BOOLEAN,
   expected_content_length  : ContentLengths,
   received_content_length  : Nat,
   connect_established      : BOOLEAN,
   request_method           : Methods,
   no_content               : BOOLEAN,
   final_response_sent      : BOOLEAN]

ASSUME AbsentAssumption == Absent \notin Stream

VARIABLES
  state,                       \* ConnectionState
  preface_received,
  preface_sent,
  pending_settings_count,      \* SETTINGS sent and not yet acknowledged
  connection_window_update_sent,
  remote_settings,             \* the settings of the peer that matter here
  send_window,                 \* flow_control of the connection
  recv_window,
  streams,                     \* the stream map
  closed_streams,              \* BoundedSet of closed stream identifiers
  next_stream_id,
  last_recv_stream_id,
  last_successful_stream_id,
  last_sent_goaway_stream_id,
  header_continuation_stream,
  header_block_fragment,       \* its length
  header_end_stream,
  header_concurrent_limit_exceeded,
  connect_established_headers_received,
  failed,                      \* process() has returned a connection error
  output,                      \* frames written by the last step
  events                       \* events pushed by the last step

handshake   == <<preface_received, preface_sent, pending_settings_count,
                 connection_window_update_sent>>
identifiers == <<next_stream_id, last_recv_stream_id, last_successful_stream_id,
                 last_sent_goaway_stream_id>>
windows     == <<send_window, recv_window>>
header_block == <<header_continuation_stream, header_block_fragment, header_end_stream,
                  header_concurrent_limit_exceeded, connect_established_headers_received>>
table       == <<streams, closed_streams>>
call        == <<output, events>>

vars == <<state, handshake, remote_settings, windows, table, identifiers,
          header_block, failed, call>>

Init ==
  /\ state = "WaitingPreface"
  /\ preface_received = FALSE
  /\ preface_sent = FALSE
  /\ pending_settings_count = 0
  /\ connection_window_update_sent = FALSE
  /\ remote_settings = [initial_window_size     |-> DefaultWindow,
                        max_concurrent_streams  |-> RemoteStreamLimit,
                        enable_connect_protocol |-> FALSE]
  /\ send_window = DefaultWindow
  /\ recv_window = DefaultWindow
  /\ streams = [s \in StreamIds |-> Absent]
  /\ closed_streams = {}
  /\ next_stream_id = IF Role = "client" THEN 1 ELSE 2
  /\ last_recv_stream_id = 0
  /\ last_successful_stream_id = 0
  /\ last_sent_goaway_stream_id = NoGoaway
  /\ header_continuation_stream = NoStream
  /\ header_block_fragment = 0
  /\ header_end_stream = FALSE
  /\ header_concurrent_limit_exceeded = FALSE
  /\ connect_established_headers_received = FALSE
  /\ failed = FALSE
  /\ output = <<>>
  /\ events = <<>>

-----------------------------------------------------------------------------
(* Frames written to output_buffer and events pushed to the queue.  A      *)
(* header block is one HEADERS frame whatever its CONTINUATIONs, and the   *)
(* DATA frames of one flush are one frame: splitting by MAX_FRAME_SIZE     *)
(* changes no state.                                                       *)

Settings == [type |-> "SETTINGS"]
SettingsAck == [type |-> "SETTINGS ACK"]
Headers(s, end) == [type |-> "HEADERS", stream |-> s, end_stream |-> end]
Data(s, n, end) == [type |-> "DATA", stream |-> s, len |-> n, end_stream |-> end]
RstStream(s, code) == [type |-> "RST_STREAM", stream |-> s, code |-> code]
Goaway(last) == [type |-> "GOAWAY", last |-> last]
WindowUpdate(s, n) == [type |-> "WINDOW_UPDATE", stream |-> s, increment |-> n]
Ping(ack) == [type |-> "PING", ack |-> ack]

Event(type) == [type |-> type]
StreamEvent(type, s) == [type |-> type, stream |-> s]

(* Variant of DataDiscarded: the octets that a discarded frame took from   *)
(* the connection window are not passed on.                                *)
DataDiscardedUncounted(s, consumed) ==
  [type |-> "DataDiscarded", stream |-> s, consumed |-> 0]

StreamReset(s, code, consumed) ==
  [type |-> "StreamReset", stream |-> s, code |-> code, consumed |-> consumed]
DataDiscarded(s, consumed) ==
  [type |-> "DataDiscarded", stream |-> s, consumed |-> consumed]
DataReceived(s, n, end) ==
  [type |-> "DataReceived", stream |-> s, consumed |-> n, end_stream |-> end]

-----------------------------------------------------------------------------
(* The stream table.                                                       *)

InMap(s) == s \in StreamIds /\ streams[s] # Absent

OpenStreams == {s \in StreamIds : InMap(s)}

(* Streams counted against a limit on concurrent streams.                  *)
CurrentOpen == Cardinality({s \in OpenStreams : streams[s].state # "Closed"})

NewStream ==
  [state                    |-> "Idle",
   send_window              |-> remote_settings.initial_window_size,
   recv_window              |-> LocalWindow,
   send_buffer              |-> 0,
   pending_end_stream       |-> FALSE,
   initial_headers_received |-> FALSE,
   expected_content_length  |-> NoLength,
   received_content_length  |-> 0,
   connect_established      |-> FALSE,
   request_method           |-> "none",
   no_content               |-> FALSE,
   final_response_sent      |-> FALSE]

IsStreamClosed(s) == InMap(s) /\ streams[s].state = "Closed"

IsIdleStream(s) ==
  /\ ~InMap(s)
  /\ s \notin closed_streams
  /\ s % 2 = 0 \/ s > last_recv_stream_id

(* BoundedSet::insert, for each of S in any order: past the bound the      *)
(* smallest identifiers are evicted, so the largest ones stay.             *)
ClosedInsert(S) ==
  LET all == closed_streams \cup S
  IN  {s \in all : Cardinality({t \in all : t > s}) < ClosedCapacity}

(* Variants of RemoveStream: only one of the two collections is updated.   *)
RemoveStreamUnrecorded(s) ==
  streams' = [streams EXCEPT ![s] = Absent] /\ UNCHANGED closed_streams
RemoveStreamKept(s) ==
  closed_streams' = ClosedInsert({s}) /\ UNCHANGED streams

RemoveStream(s) ==
  /\ streams' = [streams EXCEPT ![s] = Absent]
  /\ closed_streams' = ClosedInsert({s})

(* Variant of StoreOrClose: the stream that became Closed stays.           *)
StoreAlways(s, r, closes, reported) ==
  /\ streams' = [streams EXCEPT ![s] = r]
  /\ events' = reported
  /\ UNCHANGED closed_streams

(* The common tail of the operations that may end a stream: r is stored    *)
(* back, or the stream is closed, reported and forgotten.                  *)
StoreOrClose(s, r, closes, reported) ==
  IF closes
  THEN RemoveStream(s) /\ events' = Append(reported, StreamEvent("StreamClosed", s))
  ELSE /\ streams' = [streams EXCEPT ![s] = r]
       /\ events' = reported
       /\ UNCHANGED closed_streams

(* reset_stream_internal once the stream is known not to be idle.  RST_STREAM *)
(* is written for a stream that is gone as well, but then nothing is       *)
(* reported.                                                               *)
ResetKnownStream(s, code, consumed) ==
  /\ output' = <<RstStream(s, code)>>
  /\ IF InMap(s)
     THEN RemoveStream(s) /\ events' = <<StreamReset(s, code, consumed)>>
     ELSE events' = <<>> /\ UNCHANGED table

(* ensure_stream followed by reset_stream_internal: the stream is reported *)
(* and remembered as closed even if HEADERS never created it.              *)
EnsureAndReset(s, code) ==
  /\ output' = <<RstStream(s, code)>>
  /\ events' = <<StreamReset(s, code, 0)>>
  /\ RemoveStream(s)

(* A handler returns a connection error: the caller has to send GOAWAY and *)
(* close, and feeds no further frame.  What the handler changed before it  *)
(* failed is left out: only send_goaway follows, and it reads nothing that *)
(* a failing handler writes.                                               *)
ConnectionError ==
  /\ failed' = TRUE
  /\ output' = <<>>
  /\ events' = <<>>
  /\ UNCHANGED <<state, handshake, remote_settings, windows, table, identifiers,
                 header_block>>

-----------------------------------------------------------------------------
(* Queued DATA.                                                            *)

(* Variant of FlushSize: the length of the buffer is forgotten.            *)
FlushSizeUnbounded(r, window) ==
  Least(SendAvailable(window), SendAvailable(r.send_window))

(* What flush_stream_data takes from the buffer of r: its loop ends when   *)
(* the buffer is empty or one of the two windows is used up.               *)
FlushSize(r, window) ==
  Least(r.send_buffer, Least(SendAvailable(window), SendAvailable(r.send_window)))

(* Variant of FlushEnds: END_STREAM leaves with the first DATA frame.      *)
FlushEndsEarly(r, n) == r.pending_end_stream

(* END_STREAM leaves with the last byte, or alone when the buffer is empty. *)
FlushEnds(r, n) == r.pending_end_stream /\ n = r.send_buffer

(* Variant of Flushed: complete_send_data is not called.                   *)
FlushedWithoutState(r, n) ==
  [r EXCEPT !.send_buffer = @ - n,
            !.send_window = @ - n,
            !.pending_end_stream = @ /\ ~FlushEnds(r, n)]

Flushed(r, n) ==
  [r EXCEPT !.send_buffer = @ - n,
            !.send_window = @ - n,
            !.pending_end_stream = @ /\ ~FlushEnds(r, n),
            !.state = CompleteSendData(@, FlushEnds(r, n))]

(* flush_stream_data writes something: data, or END_STREAM alone.          *)
FlushWrites(r, n) == n > 0 \/ FlushEnds(r, n)

FlushFrames(s, r, n) ==
  IF FlushWrites(r, n) THEN <<Data(s, n, FlushEnds(r, n))>> ELSE <<>>

(* try_remove_closed_stream: the condition for removing the stream.        *)
Removable(r) == r.state = "Closed" /\ r.send_buffer = 0 /\ ~r.pending_end_stream

(* flush_stream_data and try_remove_closed_stream for stream s, whose      *)
(* record is r by now; the removal is reported before anything else.       *)
FlushStream(s, r, reported) ==
  LET n     == FlushSize(r, send_window)
      after == Flushed(r, n)
  IN  /\ output' = FlushFrames(s, r, n)
      /\ send_window' = send_window - n
      /\ IF Removable(after)
         THEN RemoveStream(s) /\ events' = <<StreamEvent("StreamClosed", s)>> \o reported
         ELSE /\ streams' = [streams EXCEPT ![s] = after]
              /\ events' = reported
              /\ UNCHANGED closed_streams

(* What Of says of each stream of S, one after the other, in any order.    *)
InTurn(S, Of(_)) ==
  LET order == SetToSeq(S) IN [i \in DOMAIN order |-> Of(order[i])]

(* flush_all_stream_data over the map strs with window bytes left for the  *)
(* connection.  HashMap iteration serves the streams in any order: each    *)
(* one takes all it can until the connection window is used up, so at most *)
(* one stream is served in part, and streams are left waiting only when no *)
(* connection window is left.                                              *)
FlushAll(strs, window, written, reported) ==
  LET pending == {s \in StreamIds : /\ strs[s] # Absent
                                    /\ strs[s].send_buffer > 0 \/ strs[s].pending_end_stream}
      want    == [s \in pending |-> Least(strs[s].send_buffer,
                                          SendAvailable(strs[s].send_window))]
  IN  \E sent \in [pending -> 0 .. BufferCapacity] :
        LET total   == SumFunction(sent)
            after   == [s \in pending |-> Flushed(strs[s], sent[s])]
            removed == {s \in pending : Removable(after[s])}
            flushed == {s \in pending : FlushWrites(strs[s], sent[s])}
            Frame(s)  == Data(s, sent[s], FlushEnds(strs[s], sent[s]))
            Closed(s) == StreamEvent("StreamClosed", s)
        IN  /\ \A s \in pending : sent[s] <= want[s]
            /\ total \in 0 .. SendAvailable(window)
            /\ total = SendAvailable(window) \/ sent = want
            /\ \A s, t \in pending :
                 sent[s] \in 1 .. want[s] - 1 /\ sent[t] \in 1 .. want[t] - 1 => s = t
            /\ send_window' = window - total
            /\ streams' = [s \in StreamIds |-> IF s \in removed THEN Absent
                                               ELSE IF s \in pending THEN after[s]
                                               ELSE strs[s]]
            /\ closed_streams' = ClosedInsert(removed)
            /\ output' = written \o InTurn(flushed, Frame)
            /\ events' = InTurn(removed, Closed) \o reported
=============================================================================
