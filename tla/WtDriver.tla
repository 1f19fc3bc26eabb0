------------------------------ MODULE WtDriver ------------------------------
(***************************************************************************)
(* The WebTransport server of src/crates/tokio-http2/src/webtransport.rs:  *)
(* the driver task that owns the HTTP/2 connection and the WtSession, the  *)
(* tasks of the application that send it commands and await the answers,   *)
(* and a client at the other end of the CONNECT stream, which is a         *)
(* WtSession as well.                                                      *)
(*                                                                         *)
(* The driver is one task: a command or an event is handled to its end     *)
(* before the next.  HTTP/2 is reduced to what the driver can observe of   *)
(* it: the stream buffers a bounded number of capsules (held) while the    *)
(* flow-control window of the client is exhausted, and a WINDOW_UPDATE     *)
(* received in next_event writes them out (writing).  Sizes in HTTP/2 are  *)
(* counted in capsules.                                                    *)
(***************************************************************************)
EXTENDS WtEnds

CONSTANTS
  Requests,         \* CONNECT requests a client may send
  ServerSettings,   \* settings the server announces
  ClientSettings,   \* settings the client announces
  Plans,            \* records of what the client and the tasks may do
  Tasks,            \* tasks of the application, numbered; each calls once
  Capacity,         \* send buffer of the CONNECT stream
  Window,           \* initial HTTP/2 window for each direction
  SlowSocket        \* write_all may wait while next_event flushes

ASSUME WtDriverAssumption ==
  /\ Capacity \in Nat \ {0} /\ Window \in Nat \ {0}
  /\ SlowSocket \in BOOLEAN /\ Tasks \subseteq Nat
  /\ ServerSettings \in WtSettings /\ ClientSettings \in WtSettings
  /\ \A r \in Requests : r.init \in InitFields \cup {Absent}

(* Absent, the None of the code, is no session.                            *)
ASSUME AbsentAssumption == Absent \notin Sessions

(* What a task may ask the driver for, Cmd in the code.                    *)
Commands ==
  [op : {"send"}, id : Nat, fin : BOOLEAN] \cup [op : {"open"}, bidirectional : BOOLEAN]
    \cup [op : {"reset", "stop"}, id : Nat] \cup [op : {"datagram", "drain", "close", "export"}]

ASSUME PlansAssumption ==
  \A p \in Plans : p.bytes \in Nat /\ p.commands \subseteq Commands

VARIABLES
  plan,          \* the element of Plans this behaviour follows
  request,       \* the request that is to be accepted
  phase,         \* "request", "running", "ended" or "refused"
  driver,        \* DriverState, as a record
  owner,         \* "session", "parts" or "dropped": what the application holds
  cmds,          \* commands in the channel of the driver
  calls,         \* what each task has asked for and what it was answered
  held,          \* send buffer of the CONNECT stream
  writing,       \* output that next_event has polled and is writing
  window,        \* how many capsules the client's window still admits
  unacked,       \* capsules the client has yet to return WINDOW_UPDATE for
  to_client,     \* what is on the way to the client
  to_server,     \* what is on the way to the server
  quota,         \* how many capsules the server's window still admits
  peer,          \* the WtSession of the client, Absent before the 200
  over,          \* the client has seen the end of the stream, or has given up
  peer_failed,   \* a capsule of the server was refused by the client
  emitted,       \* capsules the WtSession of the server has written so far
  arrived,       \* capsules the client has processed so far
  written,       \* bytes the client has sent on each stream
  ended,         \* how the client has ended each stream
  told           \* what recv has returned last: "data", "none" or "reset"

clientVars  == <<peer, over, peer_failed, arrived, written, ended, unacked>>
streamVars  == <<held, writing, window, to_client, to_server, quota, emitted>>
serverVars  == <<phase, driver, owner, cmds, calls, told>>
vars == <<plan, request, clientVars, streamVars, serverVars>>

NoCall == [op |-> "none"]

-----------------------------------------------------------------------------
(* The driver.                                                             *)

(* DriverState as accept builds it.  packets holds what waits in the       *)
(* channel of each stream handle the application was given, handles the    *)
(* streams it may send commands for.                                       *)
NewDriver(session) ==
  [session |-> session, channels |-> {}, stopping |-> {}, responded |-> FALSE,
   closed |-> [b \in BOOLEAN |-> 0], handles |-> {}, ok |-> TRUE,
   packets |-> [id \in {} |-> << >>]]

(* account_peer_stream_closed.                                             *)
AccountClosed(d, id) ==
  IF IsClientInitiated(id) THEN [d EXCEPT !.closed[IsBidirectional(id)] = @ + 1] ELSE d

(* Variant of GrowStreamWindow: the threshold is rounded down.             *)
GrowStreamWindowFloor(d, id) ==
  LET s       == d.session
      st      == s.streams[id]
      initial == IF ~IsBidirectional(id) THEN s.config.uni
                 ELSE IF IsPeerInitiated(s.role, id) THEN s.config.bidi_remote
                 ELSE s.config.bidi_local
      maximum == st.recv_max + initial
  IN  IF ~Known(s, id) \/ ~CanRecv(st) \/ RecvAvailable(st) >= initial \div 2
      THEN d
      ELSE [d EXCEPT !.session = SendMaxStreamData(s, id, maximum),
                     !.ok = CanSendMaxStreamData(s, id, maximum)]

(* maybe_grow_stream_window.                                               *)
GrowStreamWindow(d, id) ==
  LET s       == d.session
      st      == s.streams[id]
      initial == IF ~IsBidirectional(id) THEN s.config.uni
                 ELSE IF IsPeerInitiated(s.role, id) THEN s.config.bidi_remote
                 ELSE s.config.bidi_local
      maximum == st.recv_max + initial
  IN  IF ~Known(s, id) \/ ~CanRecv(st) \/ RecvAvailable(st) >= HalfOf(initial)
      THEN d
      ELSE [d EXCEPT !.session = SendMaxStreamData(s, id, maximum),
                     !.ok = CanSendMaxStreamData(s, id, maximum)]

(* maybe_grow_session_window.                                              *)
GrowSessionWindow(d) ==
  LET s       == d.session
      initial == s.config.max_data
      maximum == s.flow_control.recv_max + initial
  IN  IF ShouldSendMaxData(s.flow_control, initial)
      THEN [d EXCEPT !.session = SendMaxData(s, maximum),
                     !.ok = CanSendMaxData(s, maximum)]
      ELSE d

(* maybe_grow_max_streams.                                                 *)
GrowMaxStreams(d, bidirectional) ==
  LET s       == d.session
      initial == s.config.max_streams[bidirectional]
      closed  == d.closed[bidirectional]
      maximum == s.flow_control.max_streams_local[bidirectional] + closed
  IN  IF initial = 0 \/ closed * 2 < initial THEN d
      ELSE [d EXCEPT !.session = SendMaxStreams(s, maximum, bidirectional),
                     !.ok = CanSendMaxStreams(s, maximum, bidirectional),
                     !.closed[bidirectional] = 0]

(* ch.send: a packet for the stream handle, if its channel is still there. *)
Deliver(d, id, packet) ==
  IF id \in d.channels THEN [d EXCEPT !.packets[id] = Append(@, packet)] ELSE d

(* The receiving direction of a stream is over.                            *)
ReceiveEnded(d, id) ==
  AccountClosed([d EXCEPT !.channels = @ \ {id}, !.stopping = @ \ {id}], id)

(* Variant of DispatchData: data after STOP_SENDING is still delivered.    *)
DispatchDataStopped(d, event) ==
  LET id     == event.id
      packet == [kind |-> "data", size |-> event.size, fin |-> event.fin]
      d2     == GrowStreamWindow(Deliver(d, id, packet), id)
  IN  IF event.fin /\ d2.ok THEN ReceiveEnded(d2, id) ELSE d2

(* dispatch_wt_event for StreamData: after STOP_SENDING data is dropped.   *)
DispatchData(d, event) ==
  LET id     == event.id
      packet == [kind |-> "data", size |-> event.size, fin |-> event.fin]
      d2     == IF id \in d.stopping THEN d ELSE GrowStreamWindow(Deliver(d, id, packet), id)
  IN  IF event.fin /\ d2.ok THEN ReceiveEnded(d2, id) ELSE d2

(* dispatch_wt_event.                                                      *)
Dispatch(d, event) ==
  IF ~d.ok THEN d
  ELSE CASE event.type = "StreamOpened" ->
              [d EXCEPT !.channels = @ \cup {event.id}, !.handles = @ \cup {event.id},
                        !.packets = With(@, event.id, << >>)]
         [] event.type = "StreamData"   -> DispatchData(d, event)
         [] event.type = "StreamReset"  ->
              ReceiveEnded(Deliver(d, event.id, [kind |-> "reset", size |-> 0, fin |-> FALSE]),
                           event.id)
         [] OTHER                       -> d

(* while let Some(..) = poll_event: until the queue is empty.              *)
DispatchNext(d) == Dispatch([d EXCEPT !.session = PollEvent(@)], Head(d.session.events))

DispatchAll(d) ==
  LET F[n \in 0 .. Len(d.session.events)] == IF n = 0 THEN d ELSE DispatchNext(F[n - 1])
  IN  F[Len(d.session.events)]

(* feed and process: the capsules of one DATA frame, before any event.     *)
Process(d, capsule) ==
  IF ~d.ok \/ Refused(d.session, capsule) THEN [d EXCEPT !.ok = FALSE]
  ELSE [d EXCEPT !.session = Accepted(@, capsule)]

ProcessAll(d, capsules) ==
  LET F[n \in 0 .. Len(capsules)] == IF n = 0 THEN d ELSE Process(F[n - 1], capsules[n])
  IN  F[Len(capsules)]

GrowAll(d) ==
  LET d1 == GrowSessionWindow(d)
      d2 == IF d1.ok THEN GrowMaxStreams(d1, TRUE) ELSE d1
  IN  IF d2.ok THEN GrowMaxStreams(d2, FALSE) ELSE d2

-----------------------------------------------------------------------------
(* Connection::send_data and flush, for the CONNECT stream.                *)

(* Where output goes: sent is handed to the socket, kept stays in the send *)
(* buffer until the window opens, ok is FALSE when the buffer was full.    *)
Channel == [sent |-> << >>, kept |-> held, room |-> window, ok |-> TRUE]

(* Variant of SendChunk: the send buffer takes everything.                 *)
SendChunkUnbounded(ch, item) ==
  IF ch.kept = << >> /\ ch.room > 0
  THEN [ch EXCEPT !.sent = Append(@, item), !.room = @ - 1]
  ELSE [ch EXCEPT !.kept = Append(@, item)]

SendChunk(ch, item) ==
  IF ~ch.ok \/ Len(ch.kept) >= Capacity THEN [ch EXCEPT !.ok = FALSE]
  ELSE IF ch.kept = << >> /\ ch.room > 0
  THEN [ch EXCEPT !.sent = Append(@, item), !.room = @ - 1]
  ELSE [ch EXCEPT !.kept = Append(@, item)]

(* Variant of FlushOutput: output that is not accepted is passed over.     *)
FlushOutputTruncated(ch, output) ==
  LET F[n \in 0 .. Len(output)] == IF n = 0 THEN ch ELSE SendChunk(F[n - 1], output[n])
  IN  [F[Len(output)] EXCEPT !.ok = TRUE]

(* flush_wt_output.                                                        *)
FlushOutput(ch, output) ==
  LET F[n \in 0 .. Len(output)] == IF n = 0 THEN ch ELSE SendChunk(F[n - 1], output[n])
  IN  F[Len(output)]

EndStream == [type |-> "END_STREAM"]

(* send_data of nothing with END_STREAM: needs no window, waits its turn.  *)
SendEnd(ch) ==
  IF ch.kept = << >> THEN [ch EXCEPT !.sent = Append(@, EndStream)]
  ELSE [ch EXCEPT !.kept = Append(@, EndStream)]

(* Variant of Abandoned: the oneshot of a command outlives the channel.    *)
AbandonedForgotten(answered) == answered

(* The tasks whose commands are never taken from the channel again find    *)
(* their oneshot closed: Error::ConnectionClosed.                          *)
Abandoned(answered) ==
  [t \in Tasks |-> IF answered[t].answer = "waiting"
                   THEN [answered[t] EXCEPT !.answer = "closed"] ELSE answered[t]]

(* run returns: driver, session and connection are dropped with everything *)
(* they hold; what was written to the socket still arrives, then it ends.  *)
DriverEnds(d, items, answered) ==
  /\ phase' = "ended"
  /\ driver' = [d EXCEPT !.channels = {}, !.session.output = << >>]
  /\ to_client' = to_client \o items \o <<[type |-> "EOF"]>>
  /\ to_server' = << >> /\ held' = << >> /\ writing' = << >> /\ cmds' = << >>
  /\ calls' = Abandoned(answered)
  /\ UNCHANGED <<window, quota, emitted>>

(* The loop goes on, with d and what was sent and kept of its output.      *)
DriverGoesOn(d, ch) ==
  /\ driver' = [d EXCEPT !.session.output = << >>]
  /\ to_client' = to_client \o ch.sent
  /\ held' = ch.kept
  /\ window' = ch.room
  /\ emitted' = emitted + Len(d.session.output)
  /\ phase' = phase

-----------------------------------------------------------------------------
(* WtServerRequest::accept, and the session the application gets.          *)
Init ==
  /\ plan \in Plans
  /\ request \in Requests
  /\ phase = "request" /\ owner = "session"
  /\ driver = Absent /\ peer = Absent
  /\ cmds = << >> /\ calls = [t \in Tasks |-> [cmd |-> NoCall, answer |-> "none"]]
  /\ held = << >> /\ writing = << >> /\ window = Window /\ unacked = 0
  /\ to_client = << >> /\ to_server = << >> /\ quota = Window
  /\ over = FALSE /\ peer_failed = FALSE /\ emitted = 0 /\ arrived = 0
  /\ written = [id \in Ids |-> 0]
  /\ ended = [id \in Ids |-> "open"]
  /\ told = [id \in Ids |-> "data"]

Accept ==
  LET answer == AcceptAnswer(request, TRUE, request.selected)
  IN  /\ phase = "request"
      /\ IF answer = "200"
         THEN /\ phase' = "running"
              /\ driver' = NewDriver(Initiated(NewSession("server", ServerConfig(ServerSettings),
                             ServerPeerConfig(ClientSettings, request.init))))
         ELSE phase' = "refused" /\ driver' = driver
      /\ to_client' = IF answer = "no response" THEN to_client
                      ELSE Append(to_client, [type |-> "RESPONSE", status |-> answer])
      /\ UNCHANGED <<plan, request, clientVars, held, writing, window, to_server, quota,
                     emitted, owner, cmds, calls, told>>

(* into_parts.                                                             *)
IntoParts ==
  /\ phase = "running" /\ owner = "session" /\ plan.parts
  /\ owner' = "parts"
  /\ UNCHANGED <<plan, request, clientVars, streamVars, phase, driver, cmds, calls, told>>

(* Drop of WtServerSession aborts the driver wherever it is.               *)
DropSession ==
  /\ phase = "running" /\ owner = "session" /\ plan.drop
  /\ owner' = "dropped"
  /\ DriverEnds(driver, << >>, calls)
  /\ UNCHANGED <<plan, request, clientVars, told>>

(* Drop of WtSessionParts: a JoinHandle that is dropped detaches its task, *)
(* and the sender of the driver itself keeps the command channel open.     *)
DropParts ==
  /\ phase = "running" /\ owner = "parts" /\ plan.drop
  /\ \A t \in Tasks : calls[t].answer # "waiting"
  /\ owner' = "dropped"
  /\ UNCHANGED <<plan, request, clientVars, streamVars, phase, driver, cmds, calls, told>>

(* A task sends a command and awaits the answer.  Tasks are alike, so they *)
(* call in the order of their numbers.                                     *)
Call(t) ==
  /\ phase \in {"running", "ended"} /\ owner # "dropped"
  /\ t <= plan.calls /\ calls[t].answer = "none"
  /\ \A u \in Tasks : u < t => calls[u].answer # "none"
  /\ \E cmd \in plan.commands :
       /\ "id" \in DOMAIN cmd => cmd.id \in driver.handles
       /\ IF phase = "running"
          THEN /\ cmds' = Append(cmds, t)
               /\ calls' = [calls EXCEPT ![t] = [cmd |-> cmd, answer |-> "waiting"]]
          ELSE /\ calls' = [calls EXCEPT ![t] = [cmd |-> cmd, answer |-> "closed"]]
               /\ cmds' = cmds
  /\ UNCHANGED <<plan, request, clientVars, streamVars, phase, driver, owner, told>>

(* WtBidiStream::recv and WtUniRecvStream::recv: the next packet, or None  *)
(* when the channel is closed and empty.                                   *)
Recv(id) ==
  LET d == driver
  IN  /\ driver # Absent /\ id \in DOMAIN d.packets /\ told[id] = "data" /\ owner # "dropped"
      /\ \/ /\ d.packets[id] # << >>
            /\ driver' = [d EXCEPT !.packets[id] = Tail(@)]
            /\ told' = [told EXCEPT ![id] =
                          IF Head(d.packets[id]).kind = "reset" THEN "reset"
                          ELSE IF Head(d.packets[id]).fin THEN "none" ELSE "data"]
         \/ /\ d.packets[id] = << >> /\ id \notin d.channels
            /\ told' = [told EXCEPT ![id] = "none"] /\ driver' = driver
      /\ UNCHANGED <<plan, request, clientVars, streamVars, phase, owner, cmds, calls>>

-----------------------------------------------------------------------------
(* handle_cmd.  The outcome of a session operation is the session, or      *)
(* Absent when the operation returned Err.                                 *)
Operate(s, cmd) ==
  CASE cmd.op = "send" /\ CanSendStreamData(s, cmd.id, 1) -> SendStreamData(s, cmd.id, 1, cmd.fin)
    [] cmd.op = "open" /\ CanOpen(s, cmd.bidirectional)   -> OpenStream(s, cmd.bidirectional)
    [] cmd.op = "datagram" /\ CanSendDatagram(s)          -> SendDatagram(s)
    [] cmd.op = "reset" /\ CanResetStream(s, cmd.id)      -> ResetStream(s, cmd.id)
    [] cmd.op = "stop" /\ CanStopSending(s, cmd.id)       -> StopSending(s, cmd.id)
    [] cmd.op = "drain" /\ CanDrain(s)                    -> Drain(s)
    [] cmd.op = "close" /\ CanClose(s)                    -> Close(s)
    [] cmd.op = "export"                                  -> s
    [] OTHER                                              -> Absent

(* Variant of Recorded: STOP_SENDING is recorded whatever the state.       *)
RecordedAlways(d, cmd) ==
  LET id == IF cmd.op = "open" THEN d.session.next_stream_id[cmd.bidirectional] - 4 ELSE cmd.id
  IN  CASE cmd.op = "stop" -> [d EXCEPT !.stopping = @ \cup {id}]
        [] cmd.op = "open" ->
             IF cmd.bidirectional
             THEN [d EXCEPT !.channels = @ \cup {id}, !.handles = @ \cup {id},
                            !.packets = With(@, id, << >>)]
             ELSE [d EXCEPT !.handles = @ \cup {id}]
        [] OTHER -> d

(* What handle_cmd records in the driver: the channel and the handle of a  *)
(* stream it opened, a stream it stopped that is still being received.     *)
Recorded(d, cmd) ==
  LET id == IF cmd.op = "open" THEN d.session.next_stream_id[cmd.bidirectional] - 4 ELSE cmd.id
  IN  CASE cmd.op = "stop" ->
             IF CanRecv(d.session.streams[id]) THEN [d EXCEPT !.stopping = @ \cup {id}] ELSE d
        [] cmd.op = "open" ->
             IF cmd.bidirectional
             THEN [d EXCEPT !.channels = @ \cup {id}, !.handles = @ \cup {id},
                            !.packets = With(@, id, << >>)]
             ELSE [d EXCEPT !.handles = @ \cup {id}]
        [] OTHER -> d

(* Variant of CloseAnswer: what is still in the send buffer is overlooked. *)
CloseAnswerHasty(ch) == IF ch.ok THEN "ok" ELSE "err"

(* The answer to Close: Ok only if nothing is left in the send buffer.     *)
CloseAnswer(ch) == IF ch.ok /\ ch.kept = << >> THEN "ok" ELSE "err"

(* send_cmd_result: a session operation that fails is the caller's         *)
(* problem, output that cannot be sent ends the driver.  Close ends it     *)
(* whatever happens.                                                       *)
HandleCmd ==
  LET t       == Head(cmds)
      cmd     == calls[t].cmd
      s       == Operate(driver.session, cmd)
      d       == Recorded([driver EXCEPT !.session = s], cmd)
      ch      == FlushOutput(Channel, s.output)
      ch2     == IF ch.ok THEN SendEnd(ch) ELSE ch
      Answered(a) == [calls EXCEPT ![t].answer = a]
  IN  /\ phase = "running" /\ cmds # << >>
      /\ SlowSocket \/ writing = << >>
      /\ cmd.op = "open" /\ CanOpen(driver.session, cmd.bidirectional) =>
           driver.session.next_stream_id[cmd.bidirectional] \in Ids
      /\ UNCHANGED <<plan, request, clientVars, owner, told>>
      /\ CASE s = Absent /\ cmd.op # "close" ->
                /\ calls' = Answered("err") /\ cmds' = Tail(cmds) /\ writing' = << >>
                /\ UNCHANGED <<phase, driver, held, window, to_client, to_server, quota, emitted>>
           [] s = Absent /\ cmd.op = "close" -> DriverEnds(driver, << >>, Answered("err"))
           [] s # Absent /\ cmd.op = "close" ->
                DriverEnds([d EXCEPT !.responded = ch2.ok /\ ch2.kept = << >>],
                           ch2.sent, Answered(CloseAnswer(ch2)))
           [] OTHER ->
                IF ch.ok
                THEN /\ DriverGoesOn(d, ch) /\ calls' = Answered("ok") /\ cmds' = Tail(cmds)
                     /\ writing' = << >>
                     /\ UNCHANGED <<to_server, quota>>
                ELSE DriverEnds(d, ch.sent, Answered("err"))

(* handle_event for DATA of the CONNECT stream: n capsules, and END_STREAM *)
(* if the client has sent it right behind them.  Commands go first.  An    *)
(* error leaves the streams with what was dispatched before it.            *)
HandleData ==
  /\ phase = "running" /\ cmds = << >> /\ writing = << >>
  /\ UNCHANGED <<plan, request, clientVars, owner, told>>
  /\ \E n \in 0 .. Len(to_server), fin \in BOOLEAN :
       LET capsules == SubSeq(to_server, 1, n)
           d1 == ProcessAll(driver, capsules)
           d2 == DispatchAll(d1)
           d3 == GrowAll(d2)
           ch == FlushOutput(Channel, d3.session.output)
       IN  /\ n > 0 \/ fin
           /\ \A i \in 1 .. n : to_server[i].type \notin {"END_STREAM", "RST_STREAM", "EOF"}
           /\ fin => n < Len(to_server) /\ to_server[n + 1] = EndStream
           /\ CASE ~d1.ok \/ ~d2.ok ->
                     DriverEnds(d2, <<[type |-> "RST_STREAM"]>>, calls)
                [] d1.ok /\ d2.ok /\ d2.session.state = "Closed" /\ ~d2.responded ->
                     DriverEnds([d2 EXCEPT !.responded = TRUE], SendEnd(Channel).sent, calls)
                [] OTHER ->
                     CASE ~d3.ok -> DriverEnds(d3, <<[type |-> "RST_STREAM"]>>, calls)
                       [] d3.ok /\ (~ch.ok \/ fin) -> DriverEnds(d3, ch.sent, calls)
                       [] OTHER ->
                            /\ DriverGoesOn(d3, ch)
                            /\ to_server' = SubSeq(to_server, n + 1, Len(to_server))
                            /\ quota' = quota + n
                            /\ UNCHANGED <<cmds, calls, writing>>

(* RST_STREAM of the CONNECT stream, or the end of the connection.         *)
HandleEnd ==
  /\ phase = "running" /\ cmds = << >> /\ writing = << >> /\ to_server # << >>
  /\ Head(to_server).type \in {"RST_STREAM", "EOF"}
  /\ DriverEnds(driver, << >>, calls)
  /\ UNCHANGED <<plan, request, clientVars, owner, told>>

(* next_event: a WINDOW_UPDATE of the client moves what the send buffer    *)
(* holds to the output, and the next turn of the loop writes it.  A        *)
(* command that arrives while write_all waits drops the future, and with   *)
(* it the bytes: HandleCmd leaves writing empty.                           *)
WindowUpdate ==
  LET n    == IF Len(held) < unacked + window THEN Len(held) ELSE unacked + window
  IN  /\ phase = "running" /\ cmds = << >> /\ writing = << >>
      /\ unacked > 0
      /\ writing' = SubSeq(held, 1, n)
      /\ held' = SubSeq(held, n + 1, Len(held))
      /\ window' = window + unacked - n
      /\ unacked' = 0
      /\ UNCHANGED <<plan, request, peer, over, peer_failed, arrived, written, ended,
                     to_client, to_server, quota, emitted, serverVars>>

FinishWrite ==
  /\ phase = "running" /\ writing # << >>
  /\ to_client' = to_client \o writing
  /\ writing' = << >>
  /\ UNCHANGED <<plan, request, clientVars, held, window, to_server, quota, emitted, serverVars>>

-----------------------------------------------------------------------------
(* The client.                                                             *)

(* The client writes the output of its session, if HTTP/2 lets it.         *)
ClientBecomes(s, items) ==
  /\ peer' = [s EXCEPT !.output = << >>]
  /\ to_server' = to_server \o s.output \o items
  /\ quota' = quota - Len(s.output)
  /\ UNCHANGED <<plan, request, peer_failed, arrived, unacked, held, writing, window,
                 to_client, emitted, serverVars>>

ClientMay(op) ==
  /\ peer # Absent /\ ~over /\ phase = "running"
  /\ op \in plan.client
  /\ quota > 0

ClientOpen(bidirectional) ==
  /\ ClientMay(IF bidirectional THEN "bidi" ELSE "uni") /\ CanOpen(peer, bidirectional)
  /\ peer.next_stream_id[bidirectional] \in Ids
  /\ ClientBecomes(OpenStream(peer, bidirectional), << >>)
  /\ UNCHANGED <<over, written, ended>>

ClientSend(id, fin) ==
  /\ ClientMay("send") /\ CanSendStreamData(peer, id, 1)
  /\ peer.flow_control.send_offset < plan.bytes
  /\ ClientBecomes(SendStreamData(peer, id, 1, fin), << >>)
  /\ written' = [written EXCEPT ![id] = @ + 1]
  /\ ended' = [ended EXCEPT ![id] = IF fin THEN "fin" ELSE @]
  /\ over' = over

ClientReset(id) ==
  /\ ClientMay("reset") /\ CanResetStream(peer, id) /\ peer.streams[id].send_state = "Send"
  /\ ClientBecomes(ResetStream(peer, id), << >>)
  /\ ended' = [ended EXCEPT ![id] = "reset"]
  /\ UNCHANGED <<over, written>>

ClientStop(id) ==
  /\ ClientMay("stop") /\ CanStopSending(peer, id)
  /\ ClientBecomes(StopSending(peer, id), << >>)
  /\ UNCHANGED <<over, written, ended>>

ClientClose ==
  /\ ClientMay("close") /\ CanClose(peer)
  /\ ClientBecomes(Close(peer), <<EndStream>>)
  /\ UNCHANGED <<over, written, ended>>

(* The client ends the stream, resets it, or the connection breaks, with   *)
(* no word of it in the session.                                           *)
ClientLeaves(type) ==
  /\ ClientMay(type)
  /\ ClientBecomes(peer, <<[type |-> type]>>)
  /\ over' = TRUE
  /\ UNCHANGED <<written, ended>>

(* The application of the client takes all events at once.                 *)
PollAll(s) ==
  LET F[n \in 0 .. Len(s.events)] == IF n = 0 THEN s ELSE PollEvent(F[n - 1])
  IN  F[Len(s.events)]

(* What arrives at the client: the response that makes its session, a      *)
(* capsule, whose events it takes at once, or the end.                     *)
ClientReceive ==
  LET item == Head(to_client)
      s    == Accepted(peer, item)
      Only(p, o) ==
        /\ peer' = p /\ over' = o
        /\ UNCHANGED <<peer_failed, arrived, ended, unacked, to_server, quota>>
  IN  /\ to_client # << >>
      /\ to_client' = Tail(to_client)
      /\ UNCHANGED <<plan, request, written, held, writing, window, emitted, serverVars>>
      /\ CASE item.type = "RESPONSE" /\ item.status = "200" ->
                Only(Initiated(NewSession("client", ClientConfig(ClientSettings, request.init),
                                          ClientPeerConfig(ServerSettings))), over)
           [] item.type \in {"END_STREAM", "RST_STREAM", "EOF"}
                \/ (item.type = "RESPONSE" /\ item.status # "200") -> Only(peer, TRUE)
           [] OTHER ->
                IF over THEN Only(peer, TRUE)
                ELSE IF Refused(peer, item)
                THEN /\ peer_failed' = TRUE /\ over' = TRUE
                     /\ to_server' = IF phase = "running" THEN Append(to_server, [type |-> "RST_STREAM"])
                                     ELSE to_server
                     /\ UNCHANGED <<peer, arrived, ended, unacked, quota>>
                ELSE /\ peer' = [PollAll(s) EXCEPT !.output = << >>]
                     /\ to_server' = IF phase = "running" THEN to_server \o s.output ELSE to_server
                     /\ quota' = quota - Len(s.output)
                     /\ arrived' = arrived + 1
                     /\ unacked' = unacked + 1
                     /\ ended' = IF s.output # << >> THEN [ended EXCEPT ![item.id] = "reset"] ELSE ended
                     /\ UNCHANGED <<over, peer_failed>>

Next ==
  \/ Accept \/ IntoParts \/ DropSession \/ DropParts
  \/ HandleCmd \/ HandleData \/ HandleEnd \/ WindowUpdate \/ FinishWrite
  \/ ClientClose \/ ClientReceive
  \/ \E t \in Tasks : Call(t)
  \/ \E b \in BOOLEAN : ClientOpen(b)
  \/ \E type \in {"END_STREAM", "RST_STREAM", "EOF"} : ClientLeaves(type)
  \/ \E id \in Ids :
       Recv(id) \/ ClientReset(id) \/ ClientStop(id)
         \/ \E fin \in BOOLEAN : ClientSend(id, fin)

Spec == Init /\ [][Next]_vars

(* The runtime polls the driver: a command does not stay in the channel    *)
(* for ever, nor an event while there are no commands.  Sockets make       *)
(* progress, and the client reads and returns credit for what it has read. *)
CommandTaken ==
  /\ phase = "running" /\ cmds # << >>
  /\ phase' \in {"running", "ended"} /\ cmds' \in {Tail(cmds), << >>}

EventTaken ==
  /\ phase = "running" /\ cmds = << >>
  /\ \E n \in 1 .. Len(to_server) : to_server' = SubSeq(to_server, n + 1, Len(to_server))

ItemReceived == to_client # << >> /\ to_client' = Tail(to_client)

Fairness ==
  /\ WF_<<phase, cmds>>(CommandTaken) /\ WF_to_server(EventTaken)
  /\ WF_vars(WindowUpdate) /\ WF_vars(FinishWrite) /\ WF_to_client(ItemReceived)

FairSpec == Spec /\ Fairness

-----------------------------------------------------------------------------
Running == phase = "running"

(* How many of the items are capsules.                                     *)
CapsuleCount(items) ==
  SumOf([k \in DOMAIN items |->
           IF items[k].type \in {"RESPONSE", "END_STREAM", "RST_STREAM", "EOF"} THEN 0 ELSE 1])

Incoming == {id \in DOMAIN driver.session.streams : HasRecvPart("server", id)}

(* The types of the driver and of what surrounds it.                       *)
TypeOK ==
  /\ phase \in {"request", "running", "ended", "refused"}
  /\ window \in 0 .. Window /\ unacked \in 0 .. Window /\ quota \in Int
  /\ Len(held) <= Capacity
  /\ \A t \in Tasks : calls[t].answer \in {"none", "waiting", "ok", "err", "closed"}
  /\ Running => /\ driver.ok /\ ~driver.responded
                /\ driver.session.flow_control \in WtFlowControls
                /\ driver.session.events = << >>

(* Between two turns of the loop the driver's own books agree with the     *)
(* session it drives: a channel for exactly the streams that still         *)
(* receive, and the record of stopped streams holds no stream whose        *)
(* receiving direction is over, however FIN, reset and STOP_SENDING cross. *)
BooksAgree ==
  Running =>
    /\ driver.channels = {id \in Incoming : CanRecv(driver.session.streams[id])}
    /\ driver.stopping = {id \in driver.channels : driver.session.streams[id].stop_sending_sent}

(* After every turn at least half of the initial credit is there for the   *)
(* peer: for the session, for each stream that still receives and was not  *)
(* stopped, and for new streams.  A credit of one is the edge.             *)
Replenished ==
  Running =>
    LET s == driver.session
        Initial(id) == IF ~IsBidirectional(id) THEN s.config.uni
                       ELSE IF IsClientInitiated(id) THEN s.config.bidi_remote
                       ELSE s.config.bidi_local
    IN  /\ SessionRecvAvailable(s.flow_control) >= HalfOf(s.config.max_data)
        /\ \A id \in driver.channels \ driver.stopping :
             RecvAvailable(s.streams[id]) >= HalfOf(Initial(id))
        /\ \A b \in BOOLEAN :
             s.config.max_streams[b] > 0 => driver.closed[b] * 2 < s.config.max_streams[b]

(* What the session of the server writes reaches the client, or is still   *)
(* held or being written: no capsule goes missing while the driver runs.   *)
CapsulesIntact ==
  Running /\ ~over =>
    emitted = arrived + CapsuleCount(to_client) + Len(writing) + Len(held)

(* The client accepts whatever the driver sends on its own account or for  *)
(* a task, and the driver whatever the client sends.                       *)
PeersAgree ==
  /\ ~peer_failed
  /\ \A i \in DOMAIN to_client : to_client[i].type # "RST_STREAM"

(* A task that is told that Close succeeded can rely on it: the capsule    *)
(* and END_STREAM have left the send buffer, also when the window was      *)
(* exhausted before.                                                       *)
CloseDelivered ==
  \A t \in Tasks : calls[t].cmd.op = "close" /\ calls[t].answer = "ok" =>
    \/ over
    \/ peer # Absent /\ peer.state = "Closed"
    \/ \E i, j \in DOMAIN to_client :
         i < j /\ to_client[i].type = "CLOSE_SESSION" /\ to_client[j] = EndStream

(* No task waits for ever: every command is answered, by its result or by  *)
(* the end of the driver, wherever it was in the channel.                  *)
CommandsAnswered == []<>(\A t \in Tasks : calls[t].answer # "waiting")

(* A client with more to send is not left without credit of the session    *)
(* for ever while the driver runs.                                         *)
NotStarved ==
  []<>(~Running \/ over \/ (peer # Absent /\ CanConsumeSend(peer.flow_control, 1)))

(* recv returns Ok(None) only when the client has ended the stream with    *)
(* FIN, as its comment says.                                               *)
NoneMeansFin == \A id \in Ids : told[id] = "none" => ended[id] = "fin"
=============================================================================
