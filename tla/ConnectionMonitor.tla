------------------------- MODULE ConnectionMonitor -------------------------
(***************************************************************************)
(* What can be seen from outside the endpoint: history variables record    *)
(* the frames written and the events reported, and the properties here     *)
(* relate them to each other and to the connection's own bookkeeping.      *)
(***************************************************************************)
EXTENDS Connection, Sums

VARIABLES
  ended,      \* streams on which END_STREAM or RST_STREAM has been written
  finished,   \* streams reported as closed or reset
  seen,       \* which of SETTINGS and GOAWAY the peer has sent
  owed        \* octets reported to the application as received on the
              \* connection, less those returned by WINDOW_UPDATE

mvars == <<vars, ended, finished, seen, owed>>

EndsStream(f) ==
  \/ f.type \in {"HEADERS", "DATA"} /\ f.end_stream
  \/ f.type = "RST_STREAM"

Terminal(e) == e.type \in {"StreamClosed", "StreamReset"}

Consumed(e) ==
  IF e.type \in {"DataReceived", "DataDiscarded", "StreamReset"} THEN e.consumed ELSE 0

Returned(f) == IF f.type = "WINDOW_UPDATE" /\ f.stream = 0 THEN f.increment ELSE 0

TotalOf(Op(_), seq) == SumOf([k \in DOMAIN seq |-> Op(seq[k])])

StreamsOf(Test(_), seq) == {x.stream : x \in {y \in ToSet(seq) : Test(y)}}

Observe ==
  /\ ended' = ended \cup StreamsOf(EndsStream, output')
  /\ finished' = finished \cup StreamsOf(Terminal, events')
  /\ seen' = seen \cup ({"SettingsReceived", "GoawayReceived"}
                         \cap {e.type : e \in ToSet(events')})
  /\ owed' = owed + TotalOf(Consumed, events') - TotalOf(Returned, output')

MonitoredInit == Init /\ ended = {} /\ finished = {} /\ seen = {} /\ owed = 0

MonitoredNext == Next /\ Observe

MonitoredSpec == MonitoredInit /\ [][MonitoredNext]_mvars

-----------------------------------------------------------------------------
Message(f) == f.type \in {"HEADERS", "DATA"}

Delivery(e) ==
  e.type \in {"HeadersReceived", "TrailersReceived", "DataReceived", "StreamReset",
              "StreamClosed"}

(* After END_STREAM or RST_STREAM has been written on a stream, by any of  *)
(* the paths that write it, no HEADERS or DATA follows on that stream.     *)
NoFramesAfterEnd ==
  [][StreamsOf(Message, output') \cap ended = {}]_mvars

(* The application hears of the end of a stream once, and of nothing on    *)
(* that stream afterwards.                                                 *)
NothingAfterFinish ==
  [][StreamsOf(Delivery, events') \cap finished = {}]_mvars

(* A stream that was reported as finished is not in the map again, and     *)
(* every stream remembered as closed has been reported.                    *)
LifecycleReported ==
  /\ OpenStreams \cap finished = {}
  /\ closed_streams \subseteq finished

(* The state machine agrees with what is on the wire: of the streams in    *)
(* the map, those that are half-closed (local) are the ones on which this  *)
(* endpoint has written END_STREAM, and RST_STREAM has been written on     *)
(* none of them.                                                           *)
StateMatchesWire ==
  \A s \in OpenStreams : s \in ended <=> streams[s].state = "HalfClosedLocal"

(* A peer that has not sent SETTINGS has no stream on a server.            *)
SettingsComeFirst ==
  Role = "server" /\ OpenStreams # {} => "SettingsReceived" \in seen

(* Once GOAWAY has been sent, a server takes up no stream it was not       *)
(* already working on.                                                     *)
NoStreamAfterGoaway ==
  [][Role = "server" /\ last_sent_goaway_stream_id # NoGoaway
       => OpenStreams' \subseteq OpenStreams]_mvars

(* Once GOAWAY has been received, a client starts no stream.               *)
NoRequestAfterGoaway ==
  [][Role = "client" /\ "GoawayReceived" \in seen
       => OpenStreams' \subseteq OpenStreams]_mvars

Completes(e) == e.type = "TrailersReceived" \/ (e.type = "DataReceived" /\ e.end_stream)

AnnouncesLength(s) ==
  InMap(s) /\ streams[s].expected_content_length # NoLength /\ ~streams[s].no_content

(* A message that is delivered to its end has the length it announced.     *)
ContentLengthHolds ==
  [][\A e \in ToSet(events') :
       Completes(e) /\ AnnouncesLength(e.stream)
         => streams[e.stream].received_content_length + Consumed(e)
              = streams[e.stream].expected_content_length]_mvars

(* The connection's receive window is short by exactly what the events     *)
(* told the application: an application that returns what it is told, and  *)
(* only that, neither starves the peer nor overflows the window.  Padding  *)
(* is left out (Pads = {0}).                                               *)
WindowAccounting == recv_window + owed = DefaultWindow

(* On an established CONNECT tunnel the endpoint writes no HEADERS and     *)
(* delivers no header block that began after it was established.           *)
TunnelCarriesData ==
  [][\A s \in OpenStreams :
       streams[s].connect_established =>
         /\ \A f \in ToSet(output') : f.type = "HEADERS" => f.stream # s
         /\ header_continuation_stream # s \/ connect_established_headers_received =>
              \A e \in ToSet(events') :
                e.type \in {"HeadersReceived", "TrailersReceived"} => e.stream # s]_mvars
=============================================================================
