---------------------------- MODULE OutputProofs ----------------------------
(***************************************************************************)
(* Proofs about the frames an endpoint writes and the phases of a          *)
(* connection, for every value of the other constants: END_STREAM and      *)
(* RST_STREAM against the stream state machine, and what may happen before *)
(* the first SETTINGS, after a GOAWAY, and on a stream that has become a   *)
(* tunnel.                                                                 *)
(***************************************************************************)
EXTENDS ConnectionProofs

-----------------------------------------------------------------------------
(* What a step writes, and what it does to the half-closed streams.        *)

HalfClosed == {s \in OpenStreams : streams[s].state = "HalfClosedLocal"}

Ends == StreamsOf(EndsStream, output')

Messages == StreamsOf(Message, output')

Told == StreamsOf(Terminal, events')

(* The streams that are half-closed (local) after the step are those that  *)
(* were and those on which it wrote the end; HEADERS and DATA go out on    *)
(* streams that are not; a stream that leaves the map is told.  X: what    *)
(* the step may end besides the streams it knows.                          *)
Marks == HalfClosed' = OpenStreams' \cap (HalfClosed \cup Ends)

WireStep(X) ==
  /\ Marks
  /\ Messages \subseteq OpenStreams \ HalfClosed
  /\ OpenStreams \ OpenStreams' \subseteq Told
  /\ Ends \subseteq OpenStreams \cup closed_streams \cup X

(* A frame that neither carries a message nor ends a stream.               *)
Plain(f) == ~EndsStream(f) /\ ~Message(f)

LEMMA WritesNothing ==
  ASSUME \A f \in ToSet(output') : Plain(f)
  PROVE  Ends = {} /\ Messages = {}
BY Zenon DEF Ends, Messages, StreamsOf, Plain

LEMMA WritesOne ==
  ASSUME NEW f, output' = <<f>>
  PROVE  /\ Ends = IF EndsStream(f) THEN {f.stream} ELSE {}
         /\ Messages = IF Message(f) THEN {f.stream} ELSE {}
<1>1. ToSet(output') = {f}
  BY ShortSets
<1>2. Ends = IF EndsStream(f) THEN {f.stream} ELSE {}
  BY <1>1, Zenon DEF Ends, StreamsOf
<1>3. Messages = IF Message(f) THEN {f.stream} ELSE {}
  BY <1>1, Zenon DEF Messages, StreamsOf
<1> QED BY <1>2, <1>3

(* The frames that carry a message.                                        *)
LEMMA FrameKinds ==
  ASSUME NEW s, NEW end \in BOOLEAN
  PROVE  /\ Message(Headers(s, end)) /\ (EndsStream(Headers(s, end)) <=> end)
         /\ Headers(s, end).stream = s
         /\ \A n : /\ Message(Data(s, n, end)) /\ (EndsStream(Data(s, n, end)) <=> end)
                   /\ Data(s, n, end).stream = s
BY DEF Message, EndsStream, Headers, Data

LEMMA HeadersWritten ==
  ASSUME NEW s, NEW end \in BOOLEAN, output' = <<Headers(s, end)>>
  PROVE  Messages = {s} /\ Ends = IF end THEN {s} ELSE {}
BY WritesOne, FrameKinds

LEMMA DataWritten ==
  ASSUME NEW s, NEW n, NEW end \in BOOLEAN, output' = <<Data(s, n, end)>>
  PROVE  Messages = {s} /\ Ends = IF end THEN {s} ELSE {}
<1>1. /\ Message(Data(s, n, end)) /\ (EndsStream(Data(s, n, end)) <=> end)
      /\ Data(s, n, end).stream = s
  BY FrameKinds
<1> QED BY <1>1, WritesOne

LEMMA RstWritten ==
  ASSUME NEW s, NEW c, output' = <<RstStream(s, c)>>
  PROVE  Messages = {} /\ Ends = {s}
<1>1. ~Message(RstStream(s, c)) /\ EndsStream(RstStream(s, c)) /\ RstStream(s, c).stream = s
  BY DEF Message, EndsStream, RstStream
<1> QED BY <1>1, WritesOne

LEMMA NothingWritten ==
  ASSUME output' = <<>>
  PROVE  Messages = {} /\ Ends = {}
BY WritesNothing, ShortSets

-----------------------------------------------------------------------------
(* One record is stored or removed.                                        *)
LEMMA StoreMarks ==
  ASSUME TableType, NEW s, NEW r, streams' = [streams EXCEPT ![s] = r], Ends \subseteq {s},
         r # Absent => (r.state = "HalfClosedLocal" <=> s \in HalfClosed \cup Ends)
  PROVE  /\ Marks
         /\ OpenStreams \ OpenStreams' \subseteq {s}
         /\ r # Absent => OpenStreams \subseteq OpenStreams'
<1>1. \A t \in StreamIds : streams'[t] = IF t = s THEN r ELSE streams[t]
  BY DEF TableType
<1>2. \A t \in OpenStreams' : t \in HalfClosed' <=> t \in HalfClosed \cup Ends
  <2> SUFFICES ASSUME NEW t \in OpenStreams'
               PROVE  t \in HalfClosed' <=> t \in HalfClosed \cup Ends
    OBVIOUS
  <2>1. CASE t = s
    BY <1>1, <2>1 DEF HalfClosed, OpenStreams, InMap
  <2>2. CASE t # s
    BY <1>1, <2>2 DEF HalfClosed, OpenStreams, InMap
  <2> QED BY <2>1, <2>2
<1>3. Marks
  BY <1>2 DEF Marks, HalfClosed
<1> QED BY <1>1, <1>3 DEF OpenStreams, InMap

LEMMA KeptMarks ==
  ASSUME UNCHANGED streams, Ends \cap OpenStreams = {}
  PROVE  Marks /\ OpenStreams' = OpenStreams
<1>1. OpenStreams' = OpenStreams /\ HalfClosed' = HalfClosed
  BY DEF OpenStreams, InMap, HalfClosed
<1> QED BY <1>1 DEF Marks, HalfClosed

LEMMA QuietWire ==
  ASSUME UNCHANGED streams, \A f \in ToSet(output') : Plain(f)
  PROVE  WireStep({})
BY WritesNothing, KeptMarks DEF WireStep

LEMMA RemoveWire ==
  ASSUME TableType, NEW s, RemoveStream(s), Ends \subseteq {s}, s \in Told,
         Messages \subseteq OpenStreams \ HalfClosed
  PROVE  WireStep({s}) /\ (InMap(s) => WireStep({}))
<1>1. Marks /\ OpenStreams \ OpenStreams' \subseteq {s}
  BY StoreMarks DEF RemoveStream
<1> QED BY <1>1 DEF WireStep, OpenStreams, InMap

LEMMA ToldReset ==
  ASSUME NEW s, NEW c, NEW n, events' = <<StreamReset(s, c, n)>>
  PROVE  Told = {s}
BY ResetTells DEF Told, Tells

LEMMA ResetWire ==
  ASSUME TableType, NEW s, NEW code, NEW n, ResetKnownStream(s, code, n)
  PROVE  WireStep({s})
<1>1. Messages = {} /\ Ends = {s}
  BY RstWritten DEF ResetKnownStream
<1>2. CASE InMap(s)
  <2>1. RemoveStream(s) /\ events' = <<StreamReset(s, code, n)>>
    BY <1>2, Zenon DEF ResetKnownStream
  <2> QED BY <1>1, <2>1, ToldReset, RemoveWire
<1>3. CASE ~InMap(s)
  <2>1. UNCHANGED streams
    BY <1>3 DEF ResetKnownStream, table
  <2>2. Ends \cap OpenStreams = {}
    BY <1>1, <1>3 DEF OpenStreams
  <2> QED BY <1>1, <2>1, <2>2, KeptMarks DEF WireStep
<1> QED BY <1>2, <1>3

LEMMA WireMore ==
  ASSUME NEW X, WireStep(X), X \subseteq OpenStreams \cup closed_streams
  PROVE  WireStep({})
BY DEF WireStep

LEMMA EnsureAndResetWire ==
  ASSUME TableType, NEW s, NEW code, EnsureAndReset(s, code)
  PROVE  WireStep({s})
BY RstWritten, ToldReset, RemoveWire DEF EnsureAndReset

LEMMA StoreOrCloseWire ==
  ASSUME TableType, NEW s, NEW r \in Stream, NEW closes, NEW reported,
         StoreOrClose(s, r, closes, reported), Ends \subseteq {s},
         Messages \subseteq OpenStreams \ HalfClosed,
         closes => s \in Told,
         ~closes => (r.state = "HalfClosedLocal" <=> s \in HalfClosed \cup Ends)
  PROVE  WireStep({s}) /\ (InMap(s) => WireStep({}))
<1>1. CASE closes
  BY <1>1, RemoveWire DEF StoreOrClose
<1>2. CASE ~closes
  <2>1. r # Absent /\ streams' = [streams EXCEPT ![s] = r]
    BY <1>2, AbsentAssumption DEF StoreOrClose
  <2>2. Marks /\ OpenStreams \subseteq OpenStreams'
    BY <1>2, <2>1, StoreMarks
  <2> QED BY <2>2 DEF WireStep, OpenStreams, InMap
<1> QED BY <1>1, <1>2

(* The last event of an operation that ends the stream tells of it.        *)
LEMMA ToldClosed ==
  ASSUME NEW s, StreamEvent("StreamClosed", s) \in ToSet(events')
  PROVE  s \in Told
<1>1. /\ Terminal(StreamEvent("StreamClosed", s))
      /\ StreamEvent("StreamClosed", s).stream = s
  BY DEF StreamEvent, Terminal
<1> HIDE DEF StreamEvent
<1> QED BY <1>1 DEF Told, StreamsOf

LEMMA ClosingTold ==
  ASSUME NEW s, NEW r, NEW e,
         StoreOrClose(s, r, TRUE, <<>>) \/ StoreOrClose(s, r, TRUE, <<e>>)
  PROVE  s \in Told
<1>1. CASE StoreOrClose(s, r, TRUE, <<>>)
  <2>1. events' = <<StreamEvent("StreamClosed", s)>>
    BY <1>1 DEF StoreOrClose
  <2> QED BY <2>1, ShortSets, ToldClosed
<1>2. CASE StoreOrClose(s, r, TRUE, <<e>>)
  <2>1. events' = <<e, StreamEvent("StreamClosed", s)>>
    BY <1>2 DEF StoreOrClose
  <2> QED BY <2>1, ShortSets, ToldClosed
<1> QED BY <1>1, <1>2

(* Who may send is not half-closed (local), and END_STREAM makes it so.    *)
LEMMA SendingMarks ==
  ASSUME NEW st \in Live, NEW end \in BOOLEAN, CanSendHeaders(st)
  PROVE  /\ st # "HalfClosedLocal"
         /\ SendHeaders(st, end) = "HalfClosedLocal" => end
         /\ end /\ SendHeaders(st, end) # "Closed" => SendHeaders(st, end) = "HalfClosedLocal"
BY DEF SendHeaders, EndLocal, CanSendHeaders, CanSendData, Live

LEMMA SendHeadersWire ==
  ASSUME TableInv, NEW s, InMap(s), NEW end \in BOOLEAN, CanSendHeaders(streams[s].state),
         output' = <<Headers(s, end)>>, NEW r \in Stream,
         r.state = SendHeaders(streams[s].state, end),
         StoreOrClose(s, r, end /\ r.state = "Closed", <<>>)
  PROVE  WireStep({})
<1>1. s \in StreamIds /\ s \in OpenStreams /\ streams[s].state \in Live
  BY GoodInMap DEF Good, OpenStreams, InMap
<1>2. Messages = {s} /\ Ends = IF end THEN {s} ELSE {}
  BY HeadersWritten
<1>3. s \notin HalfClosed
  BY <1>1, SendingMarks DEF HalfClosed
<1>4. ~(end /\ r.state = "Closed") =>
         (r.state = "HalfClosedLocal" <=> s \in HalfClosed \cup Ends)
  BY <1>1, <1>2, <1>3, SendingMarks
<1>5. (end /\ r.state = "Closed") => s \in Told
  <2> SUFFICES ASSUME end /\ r.state = "Closed" PROVE s \in Told
    OBVIOUS
  <2>1. StoreOrClose(s, r, TRUE, <<>>)
    BY DEF StoreOrClose
  <2> QED BY <2>1, ClosingTold
<1>6. TableType
  BY DEF TableInv
<1> QED BY <1>1, <1>2, <1>3, <1>4, <1>5, <1>6, StoreOrCloseWire

LEMMA SendingWire ==
  ASSUME TableInv, NEW s,
         \/ \E status : \E end \in BOOLEAN : SendResponse(s, status, end)
         \/ SendTrailers(s)
  PROVE  WireStep({})
<1> DEFINE old == streams[s]
<1>1. InMap(s) /\ CanSendHeaders(old.state)
  BY DEF SendResponse, SendTrailers
<1>2. s \in StreamIds /\ old \in Stream /\ Good(old, send_window)
  BY <1>1, GoodInMap
<1>3. \A end \in BOOLEAN : SendHeaders(old.state, end) \in StreamStates
  BY <1>1, <1>2, SendHeadersFacts DEF Good, Live, StreamStates
<1>4. ASSUME NEW status, NEW end \in BOOLEAN, SendResponse(s, status, end)
      PROVE  WireStep({})
  <2> DEFINE r == [old EXCEPT
                     !.state = SendHeaders(@, end),
                     !.final_response_sent = @ \/ status \notin Informational,
                     !.connect_established =
                        @ \/ (status \in Successful /\ old.request_method = "CONNECT")]
  <2>1. r \in Stream
    <3>1. /\ (old.final_response_sent \/ status \notin Informational) \in BOOLEAN
          /\ (old.connect_established
                \/ (status \in Successful /\ old.request_method = "CONNECT")) \in BOOLEAN
      OBVIOUS
    <3> QED BY <1>2, <1>3, <3>1 DEF Stream
  <2>2. r.state = SendHeaders(old.state, end)
    BY <1>2 DEF Stream
  <2>3. /\ output' = <<Headers(s, end)>>
        /\ StoreOrClose(s, r, end /\ r.state = "Closed", <<>>)
    BY <1>4, Zenon DEF SendResponse
  <2> HIDE DEF r
  <2> QED BY <1>1, <2>1, <2>2, <2>3, SendHeadersWire
<1>5. CASE SendTrailers(s)
  <2> DEFINE r == [old EXCEPT !.state = SendHeaders(@, TRUE)]
  <2>1. r \in Stream /\ r.state = SendHeaders(old.state, TRUE)
    BY <1>2, <1>3 DEF Stream
  <2>2. /\ output' = <<Headers(s, TRUE)>>
        /\ StoreOrClose(s, r, r.state = "Closed", <<>>)
    BY <1>5, Zenon DEF SendTrailers
  <2>3. StoreOrClose(s, r, TRUE /\ r.state = "Closed", <<>>)
    BY <2>2 DEF StoreOrClose
  <2> HIDE DEF r
  <2> QED BY <1>1, <2>1, <2>2, <2>3, SendHeadersWire
<1> QED BY <1>4, <1>5

(* e: what was reported before, or nothing.                                *)
LEMMA FlushStreamWire ==
  ASSUME TableType, NEW s, InMap(s), NEW r \in Stream, Flushable(r),
         r.state = streams[s].state, NEW reported, FlushStream(s, r, reported),
         reported = <<>> \/ \E e : reported = <<e>>
  PROVE  WireStep({})
<1> DEFINE n == FlushSize(r, send_window)
           ends == FlushEnds(r, n)
           after == Flushed(r, n)
           c == StreamEvent("StreamClosed", s)
<1>1. n \in 0 .. r.send_buffer /\ send_window \in Int
  BY FlushSizeFacts DEF TableType
<1>2. ends \in BOOLEAN /\ after \in Stream /\ (after.state = "Closed" => Removable(after))
  BY <1>1, FlushedFacts DEF FlushEnds, Stream
<1>3. after.state = CompleteSendData(r.state, ends)
  BY DEF Flushed, Stream
<1>4. s \in OpenStreams /\ s \in StreamIds
  BY DEF OpenStreams, InMap
<1>5. FlushWrites(r, n) => CanSendData(r.state)
  <2>1. r.send_buffer \in Nat
    BY DEF Stream
  <2> QED BY <1>1, <2>1 DEF FlushWrites, FlushEnds, Flushable
<1>6. output' = IF FlushWrites(r, n) THEN <<Data(s, n, ends)>> ELSE <<>>
  BY Zenon DEF FlushStream, FlushFrames
<1>7. /\ Ends = IF ends THEN {s} ELSE {}
      /\ Messages \subseteq OpenStreams \ HalfClosed
  <2>1. CASE FlushWrites(r, n)
    <3>1. output' = <<Data(s, n, ends)>>
      BY <1>6, <2>1
    <3>2. Messages = {s} /\ Ends = IF ends THEN {s} ELSE {}
      <4> HIDE DEF ends
      <4> QED BY <1>2, <3>1, DataWritten
    <3>3. s \notin HalfClosed
      BY <1>5, <2>1 DEF HalfClosed, CanSendData
    <3> QED BY <1>4, <3>2, <3>3
  <2>2. CASE ~FlushWrites(r, n)
    <3>1. output' = <<>> /\ ~ends
      BY <1>6, <2>2 DEF FlushWrites
    <3> QED BY <3>1, NothingWritten
  <2> QED BY <2>1, <2>2
<1>8. CASE Removable(after)
  <2>1. RemoveStream(s) /\ events' = <<c>> \o reported
    BY <1>8, Zenon DEF FlushStream
  <2>2. c \in ToSet(events')
    <3>1. CASE reported = <<>>
      <4>1. events' = <<c>>
        BY <2>1, <3>1
      <4> QED BY <4>1, ShortSets
    <3>2. CASE \E e : reported = <<e>>
      <4>1. PICK e : reported = <<e>>
        BY <3>2
      <4> HIDE DEF c
      <4>2. <<c>> \in Seq({c, e}) /\ <<e>> \in Seq({c, e})
        OBVIOUS
      <4>3. ToSet(<<c>> \o <<e>>) = ToSet(<<c>>) \cup ToSet(<<e>>)
        BY <4>2, ConcatSets
      <4> QED BY <2>1, <4>1, <4>3, ShortSets
    <3> QED BY <3>1, <3>2
  <2>3. s \in Told
    BY <2>2, ToldClosed
  <2> QED BY <1>7, <2>1, <2>3, RemoveWire
<1>9. CASE ~Removable(after)
  <2>1. streams' = [streams EXCEPT ![s] = after]
    BY <1>9, Zenon DEF FlushStream
  <2>2. after.state # "Closed" /\ after # Absent
    BY <1>2, <1>9, AbsentAssumption
  <2>3. after.state = "HalfClosedLocal" <=> s \in HalfClosed \cup Ends
    <3>1. s \in HalfClosed <=> r.state = "HalfClosedLocal"
      BY <1>4 DEF HalfClosed
    <3>2. ends => CanSendData(r.state)
      BY <1>5 DEF FlushWrites
    <3>3. CASE ends
      BY <1>3, <1>7, <2>2, <3>2, <3>3 DEF CompleteSendData, EndLocal, CanSendData
    <3>4. CASE ~ends
      BY <1>3, <1>7, <3>1, <3>4 DEF CompleteSendData
    <3> QED BY <3>3, <3>4
  <2> HIDE DEF after
  <2>4. Marks /\ OpenStreams \subseteq OpenStreams'
    BY <1>7, <2>1, <2>2, <2>3, StoreMarks
  <2> QED BY <1>4, <1>7, <2>4 DEF WireStep
<1> QED BY <1>8, <1>9

LEMMA FlushAllWire ==
  ASSUME NEW strs \in [StreamIds -> Stream \cup {Absent}],
         \A s \in StreamIds : strs[s] # Absent =>
           InMap(s) /\ Flushable(strs[s]) /\ strs[s].state = streams[s].state,
         \A s \in StreamIds : InMap(s) => strs[s] # Absent,
         NEW window, NEW X, NEW written \in Seq(X), NEW reported \in Seq(X),
         FlushAll(strs, window, written, reported),
         \A f \in ToSet(written) : Plain(f)
  PROVE  WireStep({})
<1>1. PICK sent \in [Pending(strs) -> 0 .. BufferCapacity] :
        FlushShows(strs, sent, written, reported)
  BY FlushAllShows
<1> DEFINE pending == Pending(strs)
           ends == {s \in pending : FlushEnds(strs[s], sent[s])}
           after   == [s \in pending |-> Flushed(strs[s], sent[s])]
           removed == {s \in pending : Removable(after[s])}
           flushed == {s \in pending : FlushWrites(strs[s], sent[s])}
           Frame(s) == Data(s, sent[s], FlushEnds(strs[s], sent[s]))
<1>2. /\ \A s \in pending :
           sent[s] <= Least(strs[s].send_buffer, SendAvailable(strs[s].send_window))
      /\ streams' = [s \in StreamIds |-> IF s \in removed THEN Absent
                                         ELSE IF s \in pending THEN after[s]
                                         ELSE strs[s]]
      /\ ToSet(output') = ToSet(written) \cup {Frame(s) : s \in flushed}
      /\ ToSet(events') =
           {StreamEvent("StreamClosed", s) : s \in removed} \cup ToSet(reported)
  BY <1>1 DEF FlushShows
<1>3. pending \subseteq OpenStreams /\ pending \subseteq StreamIds
  BY DEF Pending, OpenStreams
<1>4. ASSUME NEW s \in pending
      PROVE  /\ strs[s] \in Stream
             /\ sent[s] \in 0 .. strs[s].send_buffer
             /\ CanSendData(streams[s].state) /\ strs[s].state = streams[s].state
             /\ FlushEnds(strs[s], sent[s]) \in BOOLEAN
             /\ after[s] \in Stream
             /\ after[s].state = CompleteSendData(strs[s].state, s \in ends)
             /\ after[s].state = "Closed" => s \in removed
  <2>1. /\ strs[s] \in Stream /\ Flushable(strs[s])
        /\ strs[s].send_buffer > 0 \/ strs[s].pending_end_stream
        /\ strs[s].state = streams[s].state
    BY <1>4 DEF Pending
  <2>2. /\ strs[s].send_buffer \in Nat /\ strs[s].send_window \in Int
        /\ strs[s].pending_end_stream \in BOOLEAN
    BY <2>1 DEF Stream
  <2>3. sent[s] \in 0 .. strs[s].send_buffer
    <3>1. sent[s] \in Nat
      BY <1>4, SizeAssumption
    <3> QED BY <1>2, <2>2, <3>1 DEF Least, SendAvailable, Greatest
  <2>4. CanSendData(strs[s].state)
    BY <2>1 DEF Flushable
  <2>5. FlushEnds(strs[s], sent[s]) \in BOOLEAN
    BY <2>2 DEF FlushEnds
  <2>6. Flushed(strs[s], sent[s]).state
          = CompleteSendData(strs[s].state, FlushEnds(strs[s], sent[s]))
    BY <2>1 DEF Flushed, Stream
  <2>7. /\ Flushed(strs[s], sent[s]) \in Stream
        /\ Flushed(strs[s], sent[s]).state = "Closed" => Removable(Flushed(strs[s], sent[s]))
    BY <2>1, <2>3, FlushedFacts
  <2>8. CompleteSendData(strs[s].state, s \in ends)
          = CompleteSendData(strs[s].state, FlushEnds(strs[s], sent[s]))
    BY <1>4 DEF CompleteSendData
  <2> QED BY <1>4, <2>1, <2>3, <2>4, <2>5, <2>6, <2>7, <2>8
<1>5. \A s \in flushed : /\ Message(Frame(s)) /\ Frame(s).stream = s
                         /\ EndsStream(Frame(s)) <=> s \in ends
  BY <1>4, FrameKinds
<1>6. ends \subseteq flushed
  BY DEF FlushWrites
<1> HIDE DEF Frame
<1>7. Messages = flushed
  <2>1. {f \in ToSet(output') : Message(f)} = {Frame(s) : s \in flushed}
    BY <1>2, <1>5 DEF Plain
  <2> QED BY <1>5, <2>1 DEF Messages, StreamsOf
<1>8. Ends = ends
  <2>1. {f \in ToSet(output') : EndsStream(f)} = {Frame(s) : s \in ends}
    <3> HIDE DEF ends, flushed
    <3> QED BY <1>2, <1>5, <1>6 DEF Plain
  <2> QED BY <1>5, <1>6, <2>1 DEF Ends, StreamsOf
<1>9. removed \subseteq Told
  BY <1>2, ToldClosed
<1>10. OpenStreams \ OpenStreams' \subseteq removed
  <2>1. \A s \in OpenStreams \ removed : streams'[s] # Absent
    BY <1>2, <1>4, AbsentAssumption DEF OpenStreams
  <2> QED BY <2>1 DEF OpenStreams, InMap
<1>11. ASSUME NEW s \in OpenStreams'
       PROVE  s \in HalfClosed' <=> s \in HalfClosed \cup ends
  <2>1. s \in StreamIds /\ s \notin removed
    BY <1>2, <1>11 DEF OpenStreams, InMap
  <2>2. s \in OpenStreams /\ (s \in HalfClosed' <=> streams'[s].state = "HalfClosedLocal")
    BY <1>2, <1>3, <1>11, <2>1 DEF OpenStreams, InMap, HalfClosed
  <2>3. CASE s \in pending
    <3>1. streams'[s] = after[s] /\ after[s].state # "Closed"
      BY <1>2, <1>4, <2>1, <2>3
    <3>2. s \notin HalfClosed
      BY <1>4, <2>3 DEF HalfClosed, CanSendData
    <3>3. streams'[s].state = "HalfClosedLocal" <=> s \in ends
      <4>1. CanSendData(strs[s].state)
            /\ streams'[s].state = CompleteSendData(strs[s].state, s \in ends)
            /\ streams'[s].state # "Closed"
        BY <1>4, <2>3, <3>1
      <4> HIDE DEF ends
      <4> QED BY <4>1 DEF CompleteSendData, EndLocal, CanSendData
    <3> QED BY <2>2, <3>2, <3>3
  <2>4. CASE s \notin pending
    <3>1. streams'[s] = strs[s] /\ strs[s].state = streams[s].state /\ s \notin ends
      BY <1>2, <1>11, <2>1, <2>4 DEF OpenStreams, InMap
    <3> QED BY <2>2, <3>1 DEF HalfClosed
  <2> QED BY <2>3, <2>4
<1>12. Marks
  BY <1>8, <1>11 DEF Marks, HalfClosed
<1>13. flushed \subseteq OpenStreams \ HalfClosed
  BY <1>3, <1>4 DEF HalfClosed, CanSendData
<1>14. ends \subseteq OpenStreams
  BY <1>3
<1> HIDE DEF ends, flushed, removed
<1> QED BY <1>7, <1>8, <1>9, <1>10, <1>12, <1>13, <1>14 DEF WireStep

-----------------------------------------------------------------------------
(* The operations.                                                         *)

LEMMA PlainFrames ==
  /\ Plain(Settings) /\ Plain(SettingsAck)
  /\ \A x : Plain(Ping(x)) /\ Plain(Goaway(x))
  /\ \A s, n : Plain(WindowUpdate(s, n))
BY DEF Settings, SettingsAck, Ping, WindowUpdate, Goaway, Plain, EndsStream, Message

LEMMA ErrorWire ==
  ASSUME ConnectionError
  PROVE  WireStep({})
BY QuietWire, ShortSets DEF ConnectionError, table

LEMMA SendDataWire ==
  ASSUME TableInv, NEW s, NEW n \in AppSizes, NEW end \in BOOLEAN, SendData(s, n, end)
  PROVE  WireStep({})
<1> DEFINE old == streams[s]
           r == [old EXCEPT !.send_buffer = @ + n, !.pending_end_stream = end]
<1>1. InMap(s) /\ CanSendData(old.state)
  BY DEF SendData
<1>2. s \in StreamIds /\ old \in Stream /\ Good(old, send_window) /\ n \in Nat
  BY <1>1, GoodInMap, InputAssumption
<1>3. r \in Stream /\ r.state = old.state
  <2>1. old.send_buffer + n \in Nat
    BY <1>2 DEF Stream
  <2> QED BY <1>2, <2>1, Zenon DEF Stream
<1>4. Flushable(r)
  BY <1>1, <1>2, <1>3 DEF Flushable, Good
<1>5. FlushStream(s, r, <<>>)
  BY DEF SendData
<1>6. TableType
  BY DEF TableInv
<1> HIDE DEF r
<1> QED BY <1>1, <1>3, <1>4, <1>5, <1>6, FlushStreamWire

LEMMA ResettingWire ==
  ASSUME TableType, NEW s,
         \/ s \in KnownStreams /\ \E c : ResetStream(s, c)
         \/ \E c : HandleRstStream(s, c)
         \/ HandleUnknown(s)
  PROVE  WireStep({})
<1>1. CASE ConnectionError
  BY <1>1, ErrorWire
<1>2. CASE ~ConnectionError
  <2>1. \/ s \in KnownStreams /\ \E code : ResetKnownStream(s, code, 0)
        \/ InMap(s) /\ ResetKnownStream(s, "PROTOCOL_ERROR", 0)
        \/ /\ InMap(s) /\ RemoveStream(s) /\ output' = <<>>
           /\ \E code : events' = <<StreamReset(s, code, 0)>>
        \/ UNCHANGED table /\ output' = <<>>
    BY <1>2, Zenon DEF ResetStream, HandleRstStream, HandleUnknown
  <2>2. InMap(s) => s \in KnownStreams
    BY DEF KnownStreams, OpenStreams, InMap
  <2>3. ASSUME s \in KnownStreams, NEW code, ResetKnownStream(s, code, 0)
        PROVE  WireStep({})
    BY <2>3, ResetWire, WireMore DEF KnownStreams
  <2>4. CASE /\ InMap(s) /\ RemoveStream(s) /\ output' = <<>>
             /\ \E code : events' = <<StreamReset(s, code, 0)>>
    BY <2>4, NothingWritten, ToldReset, RemoveWire
  <2>5. CASE UNCHANGED table /\ output' = <<>>
    BY <2>5, QuietWire, ShortSets DEF table
  <2> QED BY <2>1, <2>2, <2>3, <2>4, <2>5
<1> QED BY <1>1, <1>2

(* The decoder's stream error also answers on streams the table does not   *)
(* hold any more, or never held.                                           *)
LEMMA DecoderErrorWire ==
  ASSUME TableType, NEW s, DecoderStreamError(s)
  PROVE  WireStep({}) \/ (~IsIdleStream(s) /\ WireStep({s}))
<1>1. ConnectionError \/ (~IsIdleStream(s) /\ ResetKnownStream(s, "PROTOCOL_ERROR", 0))
  BY Zenon DEF DecoderStreamError
<1> QED BY <1>1, ErrorWire, ResetWire

LEMMA QuietStepsWire ==
  ASSUME RestType,
         \/ Handshake \/ SendPing \/ SendGoaway
         \/ HandleSettingsAck \/ HandleGoaway \/ HandlePriority
         \/ (\E a \in Pings : HandlePing(a))
         \/ (\E s \in PeerIds : HandlePriorityUpdate(s))
  PROVE  WireStep({})
<1>1. CASE ConnectionError
  BY <1>1, ErrorWire
<1>2. CASE ~ConnectionError
  <2> DEFINE w == WindowUpdate(0, ConnectionWindow - DefaultWindow)
  <2>1. /\ UNCHANGED table
        /\ \/ output' = <<>>
           \/ output' = <<Settings>>
           \/ output' = <<Settings, w>>
           \/ output' = <<Ping(TRUE)>>
           \/ output' = <<Ping(FALSE)>>
           \/ \E last : output' = <<Goaway(last)>>
    BY <1>2, Zenon
    DEF Handshake, ReceivePreface, MarkPrefaceSent, Initiate, SendSettings,
        AnnounceSettings, SendPing, SendGoaway, HandleSettingsAck, HandleGoaway,
        HandlePriority, HandlePing, HandlePriorityUpdate
  <2>2. Plain(w)
    BY PlainFrames
  <2> HIDE DEF w
  <2>3. \A f \in ToSet(output') : Plain(f)
    <3>1. \/ output' = <<>>
          \/ \E f : Plain(f) /\ output' = <<f>>
          \/ \E f, g : Plain(f) /\ Plain(g) /\ output' = <<f, g>>
      BY <2>1, <2>2, PlainFrames, Zenon
    <3> QED BY <3>1, ShortSets
  <2> QED BY <2>1, <2>3, QuietWire DEF table
<1> QED BY <1>1, <1>2

LEMMA SendWindowUpdateWire ==
  ASSUME TableInv, NEW s, NEW n \in Credits, SendWindowUpdate(s, n)
  PROVE  WireStep({})
<1> DEFINE w == WindowUpdate(s, n)
           r == [streams[s] EXCEPT !.recv_window = @ + n]
<1>1. Plain(w)
  BY PlainFrames
<1>2. output' = <<w>>
  BY Zenon DEF SendWindowUpdate
<1>3. \/ UNCHANGED streams
      \/ InMap(s) /\ streams' = [streams EXCEPT ![s].recv_window = @ + n]
  BY Zenon DEF SendWindowUpdate
<1> HIDE DEF w
<1>4. \A f \in ToSet(output') : Plain(f)
  BY <1>1, <1>2, ShortSets
<1>5. CASE UNCHANGED streams
  BY <1>4, <1>5, QuietWire
<1>6. CASE InMap(s) /\ streams' = [streams EXCEPT ![s].recv_window = @ + n]
  <2>1. s \in OpenStreams /\ streams[s] \in Stream
    BY <1>6, GoodInMap DEF OpenStreams, InMap
  <2>2. r \in Stream /\ r.state = streams[s].state
    <3>1. streams[s].recv_window + n \in Int
      BY <2>1, InputAssumption DEF Stream
    <3> QED BY <2>1, <3>1 DEF Stream
  <2>3. streams' = [streams EXCEPT ![s] = r]
    BY <1>6
  <2>4. PICK q \in Stream : q.state = streams[s].state /\ streams' = [streams EXCEPT ![s] = q]
    BY <2>2, <2>3
  <2>5. Ends = {} /\ Messages = {}
    BY <1>4, WritesNothing
  <2>6. \A t \in StreamIds :
          /\ streams'[t] # Absent <=> streams[t] # Absent
          /\ streams'[t].state = streams[t].state
    BY <2>1, <2>4, AbsentAssumption DEF TableInv, TableType, OpenStreams, InMap
  <2>7. OpenStreams' = OpenStreams /\ HalfClosed' = HalfClosed
    BY <2>6 DEF OpenStreams, InMap, HalfClosed
  <2> QED BY <2>5, <2>7 DEF WireStep, Marks, HalfClosed
<1> QED BY <1>3, <1>5, <1>6

LEMMA HandleDataWire ==
  ASSUME TableInv, NEW s, NEW len \in PeerSizes, NEW pad \in Pads,
         NEW end \in BOOLEAN, HandleData(s, len, pad, end)
  PROVE  WireStep({})
<1> DEFINE size == len + pad
           old == streams[s]
           e == DataReceived(s, len, end)
           r == [old EXCEPT !.state = RecvData(@, end),
                            !.recv_window = @ - size,
                            !.received_content_length = AddReceived(old, len)]
<1>1. CASE ConnectionError
  BY <1>1, ErrorWire
<1>2. CASE ~ConnectionError
  <2>1. \/ UNCHANGED table /\ output' = <<>>
        \/ InMap(s) /\ \E error : ResetKnownStream(s, error, size)
        \/ /\ InMap(s) /\ CanRecvData(old.state) /\ output' = <<>>
           /\ StoreOrClose(s, r, end /\ r.state = "Closed", <<e>>)
    BY <1>2, Zenon DEF HandleData
  <2>2. CASE UNCHANGED table /\ output' = <<>>
    BY <2>2, QuietWire, ShortSets DEF table
  <2>3. CASE InMap(s) /\ \E error : ResetKnownStream(s, error, size)
    <3>1. s \in OpenStreams /\ TableType
      BY <2>3 DEF OpenStreams, InMap, TableInv
    <3> QED BY <2>3, <3>1, ResetWire, WireMore
  <2>4. CASE /\ InMap(s) /\ CanRecvData(old.state) /\ output' = <<>>
             /\ StoreOrClose(s, r, end /\ r.state = "Closed", <<e>>)
    <3>1. s \in OpenStreams /\ old \in Stream /\ old.state \in Live /\ TableType
      BY <2>4, GoodInMap DEF OpenStreams, InMap, Good, TableInv
    <3>2. len \in Nat /\ pad \in Nat
      BY InputAssumption
    <3>3. /\ RecvData(old.state, end) \in StreamStates
          /\ old.recv_window - size \in Int
          /\ AddReceived(old, len) \in Nat
      BY <3>1, <3>2, SizeAssumption
      DEF RecvData, EndRemote, Live, StreamStates, AddReceived, Least, Stream
    <3>4. r \in Stream
      BY <3>1, <3>3 DEF Stream
    <3>5. r.state = RecvData(old.state, end)
      BY <3>1 DEF Stream
    <3>6. Messages = {} /\ Ends = {}
      BY <2>4, NothingWritten
    <3>7. ~(end /\ r.state = "Closed") =>
             (r.state = "HalfClosedLocal" <=> s \in HalfClosed \cup Ends)
      <4>1. s \in HalfClosed <=> old.state = "HalfClosedLocal"
        BY <3>1 DEF HalfClosed
      <4> HIDE DEF r, old
      <4> QED BY <3>1, <3>5, <3>6, <4>1 DEF RecvData, EndRemote, Live
    <3> HIDE DEF r, e
    <3>8. (end /\ r.state = "Closed") => s \in Told
      <4> SUFFICES ASSUME end /\ r.state = "Closed" PROVE s \in Told
        OBVIOUS
      <4>1. StoreOrClose(s, r, TRUE, <<e>>)
        BY <2>4 DEF StoreOrClose
      <4> QED BY <4>1, ClosingTold
    <3> QED BY <2>4, <3>1, <3>4, <3>6, <3>7, <3>8, StoreOrCloseWire
  <2> QED BY <2>1, <2>2, <2>3, <2>4
<1> QED BY <1>1, <1>2

LEMMA SettingsWire ==
  ASSUME RestType, TableInv, NEW f \in PeerSettings, HandleSettings(f)
  PROVE  WireStep({})
<1> DEFINE delta   == f.initial_window_size - remote_settings.initial_window_size
           shifted == [s \in StreamIds |->
                         IF InMap(s) THEN [streams[s] EXCEPT !.send_window = @ + delta]
                         ELSE Absent]
           a == Event("SettingsReceived")
           b == Event("ConnectionPreface")
           reported == IF state = "WaitingPreface" THEN <<a, b>> ELSE <<a>>
           X == {a, b, SettingsAck}
<1>1. CASE ConnectionError
  BY <1>1, ErrorWire
<1>2. CASE ~ConnectionError
  <2>1. FlushAll(shifted, send_window, <<SettingsAck>>, reported)
    BY <1>2, Zenon DEF HandleSettings
  <2>2. delta \in Int
    <3>1. f \in [initial_window_size     : 0 .. MaxWindow,
                 max_concurrent_streams  : Nat,
                 enable_connect_protocol : BOOLEAN]
      BY InputAssumption
    <3> QED BY <3>1, MaxWindowAssumption DEF RestType
  <2>3. ASSUME NEW s \in StreamIds, InMap(s)
        PROVE  /\ shifted[s] \in Stream /\ shifted[s] # Absent
               /\ Flushable(shifted[s]) /\ shifted[s].state = streams[s].state
    <3> DEFINE old == streams[s]
               r == [old EXCEPT !.send_window = @ + delta]
    <3> HIDE DEF delta
    <3>1. shifted[s] = r
      BY <2>3
    <3>2. old \in Stream /\ Good(old, send_window)
      BY <2>3, GoodInMap
    <3>3. r \in Stream /\ r.state = old.state /\ r.send_buffer = old.send_buffer
      BY <2>2, <3>2 DEF Stream
    <3>4. r.pending_end_stream = old.pending_end_stream
      BY <3>2 DEF Stream
    <3>5. Flushable(old)
      BY <3>2 DEF Good, Flushable
    <3>6. Flushable(r)
      BY <3>3, <3>4, <3>5, Zenon DEF Flushable
    <3> QED BY <3>1, <3>3, <3>6, AbsentAssumption
  <2>4. \A s \in StreamIds : ~InMap(s) => shifted[s] = Absent
    OBVIOUS
  <2> HIDE DEF delta
  <2>5. shifted \in [StreamIds -> Stream \cup {Absent}]
    BY <2>3, <2>4
  <2>6. <<SettingsAck>> \in Seq(X) /\ reported \in Seq(X)
    <3> HIDE DEF a, b
    <3>1. /\ <<SettingsAck>> \in Seq(X)
          /\ <<a, b>> \in Seq(X)
          /\ <<a>> \in Seq(X)
      OBVIOUS
    <3> QED BY <3>1
  <2>7. \A g \in ToSet(<<SettingsAck>>) : Plain(g)
    BY ShortSets, PlainFrames
  <2> HIDE DEF shifted, reported, X
  <2> QED BY <2>1, <2>3, <2>4, <2>5, <2>6, <2>7, FlushAllWire
<1> QED BY <1>1, <1>2

LEMMA ConnectionWindowUpdateWire ==
  ASSUME TableInv, NEW n, HandleConnectionWindowUpdate(n)
  PROVE  WireStep({})
<1> DEFINE e == StreamEvent("WindowUpdateReceived", 0)
           X == {e}
<1>1. CASE ConnectionError
  BY <1>1, ErrorWire
<1>2. CASE ~ConnectionError
  <2>1. FlushAll(streams, send_window + n, <<>>, <<e>>)
    BY <1>2, Zenon DEF HandleConnectionWindowUpdate
  <2>2. <<>> \in Seq(X) /\ <<e>> \in Seq(X)
    OBVIOUS
  <2>3. streams \in [StreamIds -> Stream \cup {Absent}]
    BY DEF TableInv, TableType
  <2>4. \A s \in StreamIds : streams[s] # Absent => InMap(s) /\ Flushable(streams[s])
    BY DEF InMap, TableInv, TableGood, Good, Flushable
  <2>5. \A s \in StreamIds : InMap(s) => streams[s] # Absent
    BY DEF InMap
  <2>6. \A g \in ToSet(<<>>) : Plain(g)
    BY ShortSets
  <2> HIDE DEF e, X
  <2> QED BY <2>1, <2>2, <2>3, <2>4, <2>5, <2>6, FlushAllWire
<1> QED BY <1>1, <1>2

LEMMA WindowUpdateWire ==
  ASSUME TableInv, NEW s, NEW n \in Increments, HandleWindowUpdate(s, n)
  PROVE  WireStep({})
<1> DEFINE old == streams[s]
           r == [old EXCEPT !.send_window = @ + n]
           e == StreamEvent("WindowUpdateReceived", s)
<1>1. CASE ConnectionError
  BY <1>1, ErrorWire
<1>2. CASE ~ConnectionError
  <2>1. \/ UNCHANGED table /\ output' = <<>>
        \/ InMap(s) /\ \E code : ResetKnownStream(s, code, 0)
        \/ InMap(s) /\ FlushStream(s, r, <<e>>)
    BY <1>2, Zenon DEF HandleWindowUpdate
  <2>2. TableType /\ (InMap(s) => s \in OpenStreams)
    BY DEF TableInv, OpenStreams, InMap
  <2>3. CASE UNCHANGED table /\ output' = <<>>
    BY <2>3, QuietWire, ShortSets DEF table
  <2>4. CASE InMap(s) /\ \E code : ResetKnownStream(s, code, 0)
    BY <2>2, <2>4, ResetWire, WireMore
  <2>5. CASE InMap(s) /\ FlushStream(s, r, <<e>>)
    <3>1. old \in Stream /\ Good(old, send_window) /\ n \in Nat
      BY <2>5, GoodInMap, InputAssumption
    <3>2. /\ r \in Stream /\ r.state = old.state /\ r.send_buffer = old.send_buffer
          /\ r.pending_end_stream = old.pending_end_stream
      <4>1. old.send_window + n \in Int
        BY <3>1 DEF Stream
      <4> QED BY <3>1, <4>1 DEF Stream
    <3>3. Flushable(old)
      BY <3>1 DEF Good, Flushable
    <3>4. Flushable(r)
      BY <3>2, <3>3, Zenon DEF Flushable
    <3> HIDE DEF r, e
    <3> QED BY <2>2, <2>5, <3>2, <3>4, FlushStreamWire
  <2> QED BY <2>1, <2>3, <2>4, <2>5
<1> QED BY <1>1, <1>2

LEMMA ProcessHeadersWire ==
  ASSUME RestType, TableInv, NEW s \in StreamIds, NEW h \in Blocks, NEW end \in BOOLEAN,
         ProcessHeaders(s, h, end)
  PROVE  WireStep({s})
<1> DEFINE old == IF InMap(s) THEN streams[s] ELSE NewStream
           r == RecordBlock(s, old, h, end)
           e == HeadersEvent(s, h)
<1>1. \/ \E code : EnsureAndReset(s, code)
      \/ /\ CanRecvHeaders(old.state) /\ ~MalformedBlock(old, h, end) /\ output' = <<>>
         /\ StoreOrClose(s, r, end /\ r.state = "Closed", <<e>>)
  BY Zenon DEF ProcessHeaders
<1>2. TableType
  BY DEF TableInv
<1>3. CASE \E code : EnsureAndReset(s, code)
  BY <1>2, <1>3, EnsureAndResetWire
<1>4. CASE /\ CanRecvHeaders(old.state) /\ ~MalformedBlock(old, h, end) /\ output' = <<>>
           /\ StoreOrClose(s, r, end /\ r.state = "Closed", <<e>>)
  <2>1. /\ old \in Stream
        /\ old.state \in Live \cup {"Idle"}
        /\ s \in HalfClosed <=> old.state = "HalfClosedLocal"
    <3>1. CASE InMap(s)
      BY <3>1, GoodInMap DEF Good, HalfClosed, OpenStreams
    <3>2. CASE ~InMap(s)
      <4>1. NewStream \in Stream /\ NewStream.state = "Idle"
        BY NewStreamType DEF NewStream
      <4> QED BY <3>2, <4>1 DEF HalfClosed, OpenStreams
    <3> QED BY <3>1, <3>2
  <2> HIDE DEF old, e
  <2>2. RecvHeaders(old.state, end) \in StreamStates
    BY <1>4, <2>1, RecvHeadersFacts
  <2>3. r \in Stream /\ r.state = RecvHeaders(old.state, end)
    BY <1>4, <2>1, <2>2, RecordBlockFacts
  <2> HIDE DEF r
  <2>4. Messages = {} /\ Ends = {}
    BY <1>4, NothingWritten
  <2>5. ~(end /\ r.state = "Closed") =>
           (r.state = "HalfClosedLocal" <=> s \in HalfClosed \cup Ends)
    BY <1>4, <2>1, <2>3, <2>4
    DEF RecvHeaders, EndRemote, Live, CanRecvHeaders, CanRecvData
  <2>6. (end /\ r.state = "Closed") => s \in Told
    <3> SUFFICES ASSUME end /\ r.state = "Closed" PROVE s \in Told
      OBVIOUS
    <3>1. StoreOrClose(s, r, TRUE, <<e>>)
      BY <1>4 DEF StoreOrClose
    <3> QED BY <3>1, ClosingTold
  <2> QED BY <1>2, <1>4, <2>3, <2>4, <2>5, <2>6, StoreOrCloseWire
<1> QED BY <1>1, <1>3, <1>4

LEMMA CompleteBlockWire ==
  ASSUME RestType, TableInv, NEW s \in StreamIds, NEW h \in Blocks, NEW end \in BOOLEAN,
         NEW limit, NEW tunnel, CompleteBlock(s, h, end, s \in closed_streams, limit, tunnel)
  PROVE  WireStep({}) \/ (s \notin closed_streams /\ WireStep({s}))
<1>1. TableType
  BY DEF TableInv
<1>2. \/ UNCHANGED table /\ output' = <<>>
      \/ /\ s \notin closed_streams
         /\ \/ ResetKnownStream(s, "PROTOCOL_ERROR", 0)
            \/ EnsureAndReset(s, "REFUSED_STREAM")
            \/ ProcessHeaders(s, h, end)
  BY Zenon DEF CompleteBlock
<1>3. CASE UNCHANGED table /\ output' = <<>>
  BY <1>3, QuietWire, ShortSets DEF table
<1> QED BY <1>1, <1>2, <1>3, ResetWire, EnsureAndResetWire, ProcessHeadersWire

LEMMA StartStreamWire ==
  ASSUME RestType, TableInv, next_stream_id \notin OpenStreams, next_stream_id % 2 = 1,
         NEW m \in Requests, NEW end \in BOOLEAN, StartStream(m, end)
  PROVE  /\ Marks
         /\ Messages = {next_stream_id}
         /\ OpenStreams \cup {next_stream_id} \subseteq OpenStreams'
         /\ Ends \subseteq {next_stream_id}
<1> DEFINE r == [NewStream EXCEPT !.state = SendHeaders(@, end), !.request_method = m]
<1>1. NewStream \in Stream /\ m \in Methods /\ NewStream.state = "Idle"
  BY NewStreamType, InputAssumption DEF NewStream
<1>2. /\ SendHeaders("Idle", end) \in StreamStates
      /\ SendHeaders("Idle", end) = "HalfClosedLocal" <=> end
  BY DEF SendHeaders, EndLocal, StreamStates
<1>3. r \in Stream /\ r.state = SendHeaders("Idle", end) /\ r # Absent
  BY <1>1, <1>2, AbsentAssumption DEF Stream
<1>4. /\ streams' = [streams EXCEPT ![next_stream_id] = r]
      /\ output' = <<Headers(next_stream_id, end)>>
  BY Zenon DEF StartStream
<1>5. Messages = {next_stream_id} /\ Ends = IF end THEN {next_stream_id} ELSE {}
  BY <1>4, HeadersWritten
<1>6. r.state = "HalfClosedLocal" <=> next_stream_id \in HalfClosed \cup Ends
  BY <1>2, <1>3, <1>5 DEF HalfClosed
<1>7. TableType /\ Ends \subseteq {next_stream_id}
  BY <1>5 DEF TableInv
<1> HIDE DEF r
<1>8. Marks /\ OpenStreams \subseteq OpenStreams'
  BY <1>3, <1>4, <1>6, <1>7, StoreMarks
<1>9. next_stream_id \in StreamIds
  <2>1. next_stream_id <= MaxStreamId
    BY Zenon DEF StartStream
  <2> QED BY <2>1, SizeAssumption DEF RestType, StreamIds
<1>10. next_stream_id \in OpenStreams'
  BY <1>3, <1>4, <1>9 DEF TableInv, TableType, OpenStreams, InMap
<1> QED BY <1>5, <1>7, <1>8, <1>10

-----------------------------------------------------------------------------
(* The steps of the specification.                                         *)

(* The stream of a header block in progress has been received, and a       *)
(* client numbers its streams by the odd identifiers.                      *)
Numbered ==
  /\ header_continuation_stream <= last_recv_stream_id
  /\ Role = "client" => next_stream_id % 2 = 1

LEMMA NextKeepsNumbers ==
  ASSUME RestType, TableInv, Numbered, Next
  PROVE  Numbered'
<1>1. /\ last_recv_stream_id \in Nat /\ header_continuation_stream \in Nat
      /\ next_stream_id \in Nat
      /\ header_continuation_stream <= last_recv_stream_id
      /\ Role = "client" => next_stream_id % 2 = 1
  BY DEF RestType, StreamIds, NoStream, Numbered
<1>2. CASE Ordinary
  BY <1>1, <1>2 DEF Ordinary, counters, Numbered
<1>3. CASE Starts
  BY <1>1, <1>3 DEF Starts, Numbered
<1>4. ASSUME NEW s, Receives(s) \/ Begins(s) PROVE Numbered'
  <2>1. /\ s \in Nat
        /\ last_recv_stream_id' = Greatest(s, last_recv_stream_id)
        /\ header_continuation_stream' \in {s, header_continuation_stream}
        /\ UNCHANGED next_stream_id
    BY <1>4 DEF Receives, Begins, Named, StreamIds
  <2> QED BY <1>1, <2>1 DEF Greatest, Numbered
<1>5. ASSUME NEW s, Concludes(s) PROVE Numbered'
  BY <1>1, <1>5 DEF Concludes, Numbered, NoStream
<1> QED BY <1>2, <1>3, <1>4, <1>5, NextEffect

LEMMA NumberedHolds == Spec => []Numbered
<1>1. Init => Numbered
  BY DEF Init, Numbered, NoStream
<1>2. RestType /\ TableInv /\ Numbered /\ [Next]_vars => Numbered'
  <2> SUFFICES ASSUME RestType, TableInv, Numbered, [Next]_vars
               PROVE  Numbered'
    OBVIOUS
  <2>1. CASE UNCHANGED vars
    BY <2>1 DEF vars, identifiers, header_block, Numbered
  <2> QED BY <2>1, NextKeepsNumbers
<1> QED BY <1>1, <1>2, InvariantHolds, PTL DEF Spec

(* The first frame of a stream that this endpoint starts.                  *)
StartsWire ==
  /\ Starts
  /\ Marks
  /\ Messages = {next_stream_id}
  /\ OpenStreams \cup {next_stream_id} \subseteq OpenStreams'
  /\ Ends \subseteq {next_stream_id}

(* RST_STREAM on a stream the table does not hold: the decoder refuses a   *)
(* frame, or a header block is refused.                                    *)
RefusesWire(s) ==
  /\ Named(s)
  /\ WireStep({s})
  /\ \/ /\ BadFrames # {}
        /\ ~IsIdleStream(s)
        /\ UNCHANGED <<last_recv_stream_id, header_continuation_stream>>
     \/ s <= last_recv_stream_id' /\ header_continuation_stream' = NoStream

LEMMA HeaderFramesWire ==
  ASSUME RestType, TableInv, Numbered, PeerHeaders
  PROVE  WireStep({}) \/ \E s : RefusesWire(s)
<1>1. CASE ConnectionError
  BY <1>1, ErrorWire
<1>2. ASSUME ~ConnectionError, NEW s \in PeerIds, NEW h \in Blocks, NEW end \in BOOLEAN,
             Admitted("HEADERS", s), HandleHeaders(s, h, end)
      PROVE  WireStep({}) \/ RefusesWire(s)
  <2>1. /\ ~HeadersRejected(s)
        /\ last_recv_stream_id' = Greatest(s, last_recv_stream_id)
        /\ UNCHANGED header_continuation_stream
        /\ \E limit, tunnel : CompleteBlock(s, h, end, s \in closed_streams, limit, tunnel)
    BY <1>2, Zenon DEF HandleHeaders
  <2>2. s \in StreamIds
    BY <2>1, HeadersAccepted
  <2>3. header_continuation_stream = NoStream
    BY <1>2 DEF Admitted
  <2>4. s <= last_recv_stream_id' /\ Named(s)
    BY <2>1, <2>2 DEF Greatest, StreamIds, RestType, Named, PeerIds
  <2> QED BY <2>1, <2>2, <2>3, <2>4, CompleteBlockWire DEF RefusesWire
<1>3. ASSUME ~ConnectionError, NEW s \in PeerIds, NEW n \in Fragments, NEW h \in Blocks,
             HandleContinuation(s, n, h)
      PROVE  WireStep({}) \/ RefusesWire(s)
  <2>1. /\ s = header_continuation_stream
        /\ \E limit, tunnel :
             CompleteBlock(s, h, header_end_stream, s \in closed_streams, limit, tunnel)
        /\ header_continuation_stream' = NoStream
        /\ UNCHANGED last_recv_stream_id
    BY <1>3, Zenon DEF HandleContinuation
  <2>2. s \in StreamIds /\ header_end_stream \in BOOLEAN
    BY <2>1 DEF RestType, NoStream, PeerIds, WireIds
  <2>3. s <= last_recv_stream_id' /\ Named(s)
    BY <2>1, <2>2 DEF Numbered, Named, PeerIds, StreamIds
  <2> QED BY <2>1, <2>2, <2>3, CompleteBlockWire DEF RefusesWire
<1>4. ASSUME ~ConnectionError, NEW s \in PeerIds, NEW n \in Fragments,
             HandleContinuationMore(s, n) \/ \E end \in BOOLEAN : HandleHeadersSplit(s, n, end)
      PROVE  WireStep({})
  <2>1. UNCHANGED table /\ output' = <<>>
    BY <1>4, Zenon DEF HandleContinuationMore, HandleHeadersSplit
  <2> QED BY <2>1, QuietWire, ShortSets DEF table
<1> QED BY <1>1, <1>2, <1>3, <1>4 DEF PeerHeaders

LEMMA NextWire ==
  ASSUME RestType, TableInv, Bookkeeping, Numbered, Next
  PROVE  WireStep({}) \/ StartsWire \/ \E s : RefusesWire(s)
<1>1. TableType
  BY DEF TableInv
<1>2. CASE Handshake
  BY <1>2, QuietStepsWire
<1>3. CASE Application
  <2>1. CASE \E m \in Requests, end \in BOOLEAN : StartStream(m, end)
    <3>1. PICK m \in Requests, end \in BOOLEAN : StartStream(m, end)
      BY <2>1
    <3>2. Starts
      BY <1>1, <3>1, StartStreamEffect DEF Starts
    <3>3. next_stream_id \notin OpenStreams
      BY <3>2 DEF Starts, Bookkeeping, TableConsistent, KnownStreams, RestType
    <3>4. next_stream_id % 2 = 1
      BY <3>2 DEF Starts, Numbered
    <3> QED BY <3>1, <3>2, <3>3, <3>4, StartStreamWire DEF StartsWire
  <2>2. CASE \E s \in OpenStreams :
               \/ \E r \in Responses, end \in BOOLEAN : SendResponse(s, r, end)
               \/ SendTrailers(s)
    BY <2>2, SendingWire
  <2>3. CASE \E s \in OpenStreams, n \in AppSizes, end \in BOOLEAN : SendData(s, n, end)
    BY <2>3, SendDataWire
  <2>4. CASE \E s \in KnownStreams, c \in Codes : ResetStream(s, c)
    BY <1>1, <2>4, ResettingWire
  <2>5. CASE SendPing \/ SendGoaway
    BY <2>5, QuietStepsWire
  <2>6. CASE \E s \in {0} \cup KnownStreams, n \in Credits : SendWindowUpdate(s, n)
    BY <2>6, SendWindowUpdateWire
  <2> QED BY <1>3, <2>1, <2>2, <2>3, <2>4, <2>5, <2>6 DEF Application
<1>4. CASE PeerHeaders
  BY <1>4, HeaderFramesWire
<1>5. CASE PeerFrames
  <2>1. CASE RejectFrame
    BY <2>1, ErrorWire DEF RejectFrame
  <2>2. CASE \E f \in BadFrames, s \in PeerIds : DecoderStreamError(s)
    <3>1. PICK f \in BadFrames, s \in PeerIds : DecoderStreamError(s)
      BY <2>2
    <3>2. CASE ConnectionError
      BY <3>2, ErrorWire
    <3>3. CASE ~ConnectionError
      <4>1. /\ ~IsIdleStream(s)
            /\ ResetKnownStream(s, "PROTOCOL_ERROR", 0)
            /\ UNCHANGED <<identifiers, header_block>>
        BY <3>1, <3>3, Zenon DEF DecoderStreamError
      <4>2. s \in StreamIds
        BY <4>1 DEF IsIdleStream, InMap, TableInv, TableType, PeerIds, WireIds, StreamIds
      <4>3. Named(s)
        BY <4>2 DEF Named, PeerIds, StreamIds
      <4> QED BY <1>1, <3>1, <4>1, <4>3, ResetWire
              DEF RefusesWire, identifiers, header_block
    <3> QED BY <3>2, <3>3
  <2>3. CASE \E s \in PeerIds : HandleUnknown(s) \/ \E c \in Codes : HandleRstStream(s, c)
    BY <1>1, <2>3, ResettingWire
  <2>4. CASE \E s \in PeerIds, n \in PeerSizes, p \in Pads, end \in BOOLEAN :
               HandleData(s, n, p, end)
    BY <2>4, HandleDataWire
  <2>5. CASE \E f \in PeerSettings : HandleSettings(f)
    BY <2>5, SettingsWire
  <2>6. CASE \/ HandleSettingsAck \/ HandleGoaway \/ HandlePriority
             \/ \E a \in Pings : HandlePing(a)
             \/ \E s \in PeerIds : HandlePriorityUpdate(s)
    BY <2>6, QuietStepsWire
  <2>7. CASE \E n \in Increments : HandleConnectionWindowUpdate(n)
    BY <2>7, ConnectionWindowUpdateWire
  <2>8. CASE \E s \in PeerIds, n \in Increments : HandleWindowUpdate(s, n)
    BY <2>8, WindowUpdateWire
  <2> QED BY <1>5, <2>1, <2>2, <2>3, <2>4, <2>5, <2>6, <2>7, <2>8 DEF PeerFrames
<1> QED BY <1>2, <1>3, <1>4, <1>5 DEF Next

-----------------------------------------------------------------------------
(* The ends written against the states of the streams.                     *)

(* As Remembered, but for the streams on which this endpoint has written   *)
(* the end: one that is neither open nor remembered as closed is not above *)
(* every identifier received, nor the one whose header block is in         *)
(* progress.                                                               *)
EndsRemembered ==
  \A s \in ended \ (OpenStreams \cup closed_streams) :
    ~(s > last_recv_stream_id) /\ s # header_continuation_stream

WireInv ==
  /\ StateMatchesWire
  /\ ended \subseteq Nat
  /\ Role = "client" => \A s \in ended : s < next_stream_id

LEMMA MatchesSet == StateMatchesWire <=> OpenStreams \cap ended = HalfClosed
BY DEF StateMatchesWire, HalfClosed

(* A stream that enters the map has no end on the wire yet.                *)
LEMMA NewUnended ==
  ASSUME RestType, TableInv, Bookkeeping, WireInv, EndsRemembered, Next
  PROVE  (OpenStreams' \ OpenStreams) \cap ended = {}
<1>1. TableType
  BY DEF TableInv
<1>2. CASE Calm
  BY <1>2 DEF Calm, Steady, Closes
<1>3. CASE Starts
  <2>1. OpenStreams' \subseteq OpenStreams \cup {next_stream_id}
    BY <1>3 DEF Starts, Opens
  <2>2. next_stream_id \notin ended
    BY <1>3 DEF Starts, WireInv, RestType
  <2> QED BY <2>1, <2>2
<1>4. ASSUME NEW s, Fresh(s), Takes(s)
      PROVE  (OpenStreams' \ OpenStreams) \cap ended = {}
  <2>1. OpenStreams' \subseteq OpenStreams \cup {s}
    BY <1>4 DEF Takes, Refuses, Opens
  <2>2. s \notin OpenStreams => s \notin ended
    BY <1>4 DEF Fresh, EndsRemembered
  <2> QED BY <2>1, <2>2
<1> QED BY <1>1, <1>2, <1>3, <1>4, NextTells

LEMMA NextKeepsWire ==
  ASSUME RestType, TableInv, Bookkeeping, Numbered, WireInv, EndsRemembered, Next, Observe
  PROVE  WireInv' /\ Messages \cap ended = {}
<1>1. /\ OpenStreams \cap ended = HalfClosed
      /\ ended \subseteq Nat
      /\ Role = "client" => \A s \in ended : s < next_stream_id
      /\ next_stream_id \in Nat
      /\ next_stream_id' \in Nat /\ next_stream_id' >= next_stream_id
  BY MatchesSet, NextGrows DEF WireInv, RestType
<1>2. ended' = ended \cup Ends
  BY DEF Observe, Ends
<1>3. HalfClosed \subseteq OpenStreams
  BY DEF HalfClosed
<1>4. Marks => StateMatchesWire'
  <2> SUFFICES ASSUME Marks PROVE StateMatchesWire'
    OBVIOUS
  <2>1. HalfClosed' = OpenStreams' \cap (HalfClosed \cup Ends)
    BY DEF Marks
  <2>2. OpenStreams' \cap ended' = HalfClosed'
    BY <1>1, <1>2, <1>3, <2>1, NewUnended
  <2> QED BY <2>2 DEF StateMatchesWire, HalfClosed
<1>5. /\ OpenStreams \cup closed_streams \subseteq Nat
      /\ Role = "client" => \A s \in OpenStreams \cup closed_streams : s < next_stream_id
  <2>1. OpenStreams \cup closed_streams \subseteq Nat
    <3>1. StreamIds \subseteq Nat
      BY DEF StreamIds
    <3>2. OpenStreams \subseteq StreamIds /\ closed_streams \subseteq StreamIds
      BY DEF OpenStreams, TableInv, TableType
    <3> QED BY <3>1, <3>2
  <2>2. Role = "client" => \A s \in OpenStreams \cup closed_streams : s < next_stream_id
    BY DEF Bookkeeping, TableConsistent, KnownStreams
  <2> QED BY <2>1, <2>2
<1>6. ASSUME NEW X \in SUBSET Nat, WireStep(X),
             Role = "client" => \A s \in X : s < next_stream_id
      PROVE  WireInv' /\ Messages \cap ended = {}
  <2>1. /\ Marks
        /\ Messages \subseteq OpenStreams \ HalfClosed
        /\ Ends \subseteq OpenStreams \cup closed_streams \cup X
    BY <1>6 DEF WireStep
  <2>2. Messages \cap ended = {}
    BY <1>1, <2>1
  <2>3. /\ ended' \subseteq Nat
        /\ Role = "client" => \A s \in ended' : s < next_stream_id'
    <3> DEFINE K == OpenStreams \cup closed_streams
    <3>1. /\ K \subseteq Nat
          /\ Role = "client" => \A s \in K : s < next_stream_id
          /\ Ends \subseteq K \cup X
      BY <1>5, <2>1
    <3> HIDE DEF K
    <3>2. \A s \in ended' : s \in ended \/ s \in K \/ s \in X
      BY <1>2, <3>1
    <3>3. ASSUME NEW s \in ended'
          PROVE  s \in Nat /\ (Role = "client" => s < next_stream_id')
      <4>1. s \in Nat /\ (Role = "client" => s < next_stream_id)
        BY <1>1, <1>6, <3>1, <3>2, <3>3
      <4> QED BY <1>1, <4>1
    <3> QED BY <3>3
  <2> QED BY <1>4, <2>1, <2>2, <2>3 DEF WireInv
<1>7. CASE StartsWire
  <2>1. /\ Marks /\ Messages = {next_stream_id} /\ Ends \subseteq {next_stream_id}
        /\ Role = "client" /\ next_stream_id' = next_stream_id + 2
    BY <1>7 DEF StartsWire, Starts
  <2>2. Messages \cap ended = {}
    BY <1>1, <2>1
  <2>3. ended' \subseteq Nat /\ \A s \in ended' : s < next_stream_id'
    BY <1>1, <1>2, <2>1
  <2> QED BY <1>4, <2>1, <2>2, <2>3 DEF WireInv
<1>8. CASE \E s : RefusesWire(s)
  <2>1. PICK s : RefusesWire(s)
    BY <1>8
  <2>2. s \in Nat /\ WireStep({s}) /\ (Role = "client" => s < next_stream_id)
    BY <2>1 DEF RefusesWire, Named, StreamIds
  <2> QED BY <1>6, <2>2
<1> QED BY <1>6, <1>7, <1>8, NextWire

LEMMA StutterKeepsWire ==
  ASSUME WireInv, UNCHANGED mvars
  PROVE  WireInv'
<1>1. UNCHANGED <<streams, ended, next_stream_id>>
  BY DEF mvars, vars, table, identifiers
<1> QED BY <1>1 DEF WireInv, StateMatchesWire, OpenStreams, InMap

LEMMA WireHolds == MonitoredSpec /\ []EndsRemembered => []WireInv
<1>1. MonitoredInit => WireInv
  BY DEF MonitoredInit, Init, WireInv, StateMatchesWire, OpenStreams, InMap
<1>2. /\ RestType /\ TableInv /\ Bookkeeping /\ Numbered /\ WireInv /\ EndsRemembered
      /\ [MonitoredNext]_mvars
      => WireInv'
  BY NextKeepsWire, StutterKeepsWire DEF MonitoredNext
<1> QED BY <1>1, <1>2, MonitoredImplements, InvariantHolds, BookkeepingHolds,
           NumberedHolds, PTL DEF MonitoredSpec

(* The state machine of every stream in the map agrees with what has been  *)
(* written: half-closed (local) exactly when END_STREAM is on the wire, be *)
(* it sent by a header block, by send_data or by a later flush, and        *)
(* RST_STREAM is on the wire for none.                                     *)
THEOREM StatesMatchTheWire == MonitoredSpec /\ []EndsRemembered => []StateMatchesWire
<1>1. WireInv => StateMatchesWire
  BY DEF WireInv
<1> QED BY <1>1, WireHolds, PTL

(* Nothing is sent on a stream after its end: no HEADERS and no DATA       *)
(* follows END_STREAM or RST_STREAM, also not out of the send buffer.      *)
THEOREM NothingIsSentAfterTheEnd == MonitoredSpec /\ []EndsRemembered => NoFramesAfterEnd
<1>1. /\ RestType /\ TableInv /\ Bookkeeping /\ Numbered /\ WireInv /\ EndsRemembered
      /\ [MonitoredNext]_mvars
      => [StreamsOf(Message, output') \cap ended = {}]_mvars
  BY NextKeepsWire DEF MonitoredNext, Messages
<1> QED BY <1>1, WireHolds, MonitoredImplements, InvariantHolds, BookkeepingHolds,
           NumberedHolds, PTL DEF MonitoredSpec, NoFramesAfterEnd

-----------------------------------------------------------------------------
(* When the ends are remembered.                                           *)

(* A server whose peer sends every header block in one frame.              *)
UnsplitEnds ==
  /\ header_continuation_stream = NoStream
  /\ \A s \in ended : s \in StreamIds /\ s <= last_recv_stream_id

LEMMA NextKeepsUnsplitEnds ==
  ASSUME Role = "server", Fragments = {}, RestType, TableInv, Bookkeeping, Numbered,
         UnsplitEnds, Next, Observe
  PROVE  UnsplitEnds'
<1>1. TableType /\ last_recv_stream_id \in Nat /\ header_continuation_stream = NoStream
  BY DEF TableInv, RestType, UnsplitEnds
<1>2. /\ header_continuation_stream' = NoStream
      /\ last_recv_stream_id' \in Nat /\ last_recv_stream_id' >= last_recv_stream_id
  BY <1>1, UnsplitCounters
<1>3. ended' = ended \cup Ends
  BY DEF Observe, Ends
<1>4. \A s \in OpenStreams \cup closed_streams : s \in StreamIds /\ s <= last_recv_stream_id
  BY <1>1 DEF OpenStreams, TableType, Bookkeeping, TableConsistent, KnownStreams
<1>5. \A s \in Ends : s \in StreamIds /\ (s <= last_recv_stream_id \/ s <= last_recv_stream_id')
  <2>1. CASE WireStep({})
    BY <1>4, <2>1 DEF WireStep
  <2>2. CASE \E s : RefusesWire(s)
    <3>1. PICK s : RefusesWire(s)
      BY <2>2
    <3>2. /\ s \in StreamIds
          /\ s \in OpenStreams \cup closed_streams \/ s <= last_recv_stream_id
               \/ s <= last_recv_stream_id'
      BY <1>1, <3>1 DEF RefusesWire, Named, IsIdleStream, OpenStreams, StreamIds
    <3>3. Ends \subseteq OpenStreams \cup closed_streams \cup {s}
      BY <3>1 DEF RefusesWire, WireStep
    <3> QED BY <1>4, <3>2, <3>3
  <2>3. ~StartsWire
    BY DEF StartsWire, Starts
  <2> QED BY <2>1, <2>2, <2>3, NextWire
<1>6. \A s \in StreamIds : s \in Nat
  BY DEF StreamIds
<1> QED BY <1>1, <1>2, <1>3, <1>5, <1>6 DEF UnsplitEnds

(* A server whose peer splits no header block needs no memory of closed    *)
(* streams to keep the wire and the states together.                       *)
THEOREM UnsplitEndsAreRemembered ==
  ASSUME Role = "server", Fragments = {}
  PROVE  MonitoredSpec => []EndsRemembered
<1>1. MonitoredInit => UnsplitEnds
  BY DEF MonitoredInit, Init, UnsplitEnds
<1>2. /\ RestType /\ TableInv /\ Bookkeeping /\ Numbered /\ UnsplitEnds
      /\ [MonitoredNext]_mvars
      => UnsplitEnds'
  <2> SUFFICES ASSUME RestType, TableInv, Bookkeeping, Numbered, UnsplitEnds,
                      [MonitoredNext]_mvars
               PROVE  UnsplitEnds'
    OBVIOUS
  <2>1. CASE MonitoredNext
    BY <2>1, NextKeepsUnsplitEnds DEF MonitoredNext
  <2>2. CASE UNCHANGED mvars
    <3>1. UNCHANGED <<header_continuation_stream, ended, last_recv_stream_id>>
      BY <2>2 DEF mvars, vars, header_block, identifiers
    <3> QED BY <3>1 DEF UnsplitEnds
  <2> QED BY <2>1, <2>2
<1>3. RestType /\ UnsplitEnds => EndsRemembered
  <2> SUFFICES ASSUME RestType, UnsplitEnds, NEW s \in ended
               PROVE  ~(s > last_recv_stream_id) /\ s # header_continuation_stream
    BY DEF EndsRemembered
  <2>1. s \in Nat \ {0} /\ s <= last_recv_stream_id /\ last_recv_stream_id \in Nat
    BY DEF UnsplitEnds, StreamIds, RestType
  <2> QED BY <2>1 DEF UnsplitEnds, NoStream
<1> QED BY <1>1, <1>2, <1>3, MonitoredImplements, InvariantHolds, BookkeepingHolds,
           NumberedHolds, PTL DEF MonitoredSpec

(* Every end that has been written is of a stream that is open or has been *)
(* reported, or of one that was refused as it arrived.                     *)
EndsKnown ==
  \A s \in ended : \/ s \in OpenStreams \cup finished
                   \/ /\ s <= last_recv_stream_id
                      /\ s # header_continuation_stream
                      /\ s \in StreamIds

LEMMA RefusedStays ==
  ASSUME RestType, TableInv, Bookkeeping, LifeInv, Next, NEW s \in StreamIds,
         s \notin OpenStreams \cup finished, s <= last_recv_stream_id,
         s # header_continuation_stream
  PROVE  s <= last_recv_stream_id' /\ s # header_continuation_stream'
<1>1. s \in Nat \ {0} /\ last_recv_stream_id \in Nat
  BY DEF StreamIds, RestType
<1>2. CASE Ordinary \/ Starts
  BY <1>1, <1>2 DEF Ordinary, counters, Starts
<1>3. ASSUME NEW t, Receives(t) PROVE s <= last_recv_stream_id' /\ s # header_continuation_stream'
  BY <1>1, <1>3 DEF Receives, Greatest, Named, StreamIds
<1>4. ASSUME NEW t, Concludes(t) PROVE s <= last_recv_stream_id' /\ s # header_continuation_stream'
  BY <1>1, <1>4 DEF Concludes, NoStream
<1>5. ASSUME NEW t, Begins(t) PROVE s <= last_recv_stream_id' /\ s # header_continuation_stream'
  <2>1. /\ t \in Nat /\ ~HeadersRejected(t)
        /\ last_recv_stream_id' = Greatest(t, last_recv_stream_id)
        /\ header_continuation_stream' = t
    BY <1>5 DEF Begins, Named, StreamIds
  <2>2. s # t
    <3>1. InMap(t) => t \in OpenStreams
      BY DEF OpenStreams, InMap
    <3>2. closed_streams \subseteq finished
      BY DEF LifeInv, LifecycleReported
    <3> QED BY <1>1, <2>1, <3>1, <3>2 DEF HeadersRejected
  <2> QED BY <1>1, <2>1, <2>2 DEF Greatest
<1> QED BY <1>2, <1>3, <1>4, <1>5, NextEffect

LEMMA NextKeepsEndsKnown ==
  ASSUME BadFrames = {}, RestType, TableInv, Bookkeeping, Numbered, LifeInv, EndsKnown,
         Next, Observe
  PROVE  EndsKnown'
<1>1. ended' = ended \cup Ends /\ finished' = finished \cup Told
  BY DEF Observe, Ends, Told
<1>2. closed_streams \subseteq finished
  BY DEF LifeInv, LifecycleReported
<1>3. OpenStreams \ OpenStreams' \subseteq Told
  BY NextWire DEF WireStep, StartsWire, RefusesWire
<1>4. OpenStreams \cup finished \subseteq OpenStreams' \cup finished'
  BY <1>1, <1>3
<1>5. ASSUME NEW s \in ended
      PROVE  \/ s \in OpenStreams' \cup finished'
             \/ s <= last_recv_stream_id' /\ s # header_continuation_stream' /\ s \in StreamIds
  BY <1>4, <1>5, RefusedStays DEF EndsKnown
<1>6. ASSUME NEW s \in Ends
      PROVE  \/ s \in OpenStreams' \cup finished'
             \/ s <= last_recv_stream_id' /\ s # header_continuation_stream' /\ s \in StreamIds
  <2>1. CASE WireStep({})
    BY <1>2, <1>4, <1>6, <2>1 DEF WireStep
  <2>2. CASE StartsWire
    BY <1>6, <2>2 DEF StartsWire
  <2>3. ASSUME NEW t, RefusesWire(t)
        PROVE  \/ s \in OpenStreams' \cup finished'
               \/ s <= last_recv_stream_id' /\ s # header_continuation_stream' /\ s \in StreamIds
    <3>1. /\ t \in StreamIds /\ t <= last_recv_stream_id' /\ t # header_continuation_stream'
          /\ Ends \subseteq OpenStreams \cup closed_streams \cup {t}
      BY <2>3 DEF RefusesWire, Named, StreamIds, NoStream, WireStep
    <3> QED BY <1>2, <1>4, <1>6, <3>1
  <2> QED BY <2>1, <2>2, <2>3, NextWire
<1> QED BY <1>1, <1>5, <1>6 DEF EndsKnown

(* Also with split header blocks, and for a client: as long as no more     *)
(* streams have ended than CLOSED_STREAMS_MAX_SIZE, and the decoder raises *)
(* no stream error (which would answer with RST_STREAM on the stream whose *)
(* header block is in progress, and leave the block to create it).         *)
THEOREM FewEndsAreRemembered ==
  ASSUME BadFrames = {}
  PROVE  MonitoredSpec /\ []FewEnded => []EndsRemembered
<1>1. MonitoredInit => EndsKnown
  BY DEF MonitoredInit, EndsKnown
<1>2. /\ RestType /\ TableInv /\ Bookkeeping /\ Numbered /\ LifeInv /\ EndsKnown
      /\ [MonitoredNext]_mvars
      => EndsKnown'
  <2> SUFFICES ASSUME RestType, TableInv, Bookkeeping, Numbered, LifeInv, EndsKnown,
                      [MonitoredNext]_mvars
               PROVE  EndsKnown'
    OBVIOUS
  <2>1. CASE MonitoredNext
    BY <2>1, NextKeepsEndsKnown DEF MonitoredNext
  <2>2. CASE UNCHANGED mvars
    <3>1. UNCHANGED <<header_continuation_stream, ended, finished, last_recv_stream_id, streams>>
      BY <2>2 DEF mvars, vars, header_block, identifiers, table
    <3> QED BY <3>1 DEF EndsKnown, OpenStreams, InMap
  <2> QED BY <2>1, <2>2
<1>3. RestType /\ EndsKnown /\ closed_streams = finished => EndsRemembered
  <2> SUFFICES ASSUME RestType, EndsKnown, closed_streams = finished,
                      NEW s \in ended \ (OpenStreams \cup closed_streams)
               PROVE  ~(s > last_recv_stream_id) /\ s # header_continuation_stream
    BY DEF EndsRemembered
  <2> QED BY DEF EndsKnown, StreamIds, RestType
<1> QED BY <1>1, <1>2, <1>3, MonitoredImplements, InvariantHolds, BookkeepingHolds,
           NumberedHolds, FewStreamsAreRemembered, LifeHolds, PTL DEF MonitoredSpec

-----------------------------------------------------------------------------
(* The state of the connection.                                            *)

SettingsTold == \E e \in ToSet(events') : e.type = "SettingsReceived"

(* What a step may do to the phase.                                        *)
PhaseStep ==
  /\ failed => failed'
  /\ UNCHANGED last_sent_goaway_stream_id \/ state' = "GoawaySent"
  /\ \/ UNCHANGED state
     \/ (failed \/ "sent" \in Goaways) /\ state' = "GoawaySent"
     \/ state = "WaitingPreface" /\ state' = "Active" /\ SettingsTold
     \/ /\ "received" \in Goaways /\ ~failed /\ state # "WaitingPreface"
        /\ state' = "GoawayReceived"

LEMMA SamePhase ==
  ASSUME UNCHANGED <<state, failed, last_sent_goaway_stream_id>>
  PROVE  PhaseStep
BY Zenon DEF PhaseStep

LEMMA ErrorPhase ==
  ASSUME ConnectionError
  PROVE  PhaseStep
BY Zenon DEF ConnectionError, identifiers, PhaseStep

LEMMA HandshakePhase ==
  ASSUME Handshake
  PROVE  PhaseStep
<1>1. UNCHANGED <<state, failed, identifiers>>
  BY Zenon DEF Handshake, ReceivePreface, MarkPrefaceSent, Initiate, SendSettings,
               AnnounceSettings
<1> QED BY <1>1, SamePhase DEF identifiers

LEMMA ApplicationPhase ==
  ASSUME Application
  PROVE  PhaseStep
<1>1. CASE (failed \/ "sent" \in Goaways) /\ SendGoaway
  BY <1>1, Zenon DEF SendGoaway, PhaseStep
<1>2. CASE \E m \in Requests, end \in BOOLEAN : StartStream(m, end)
  BY <1>2, SamePhase, Zenon DEF StartStream
<1>3. CASE \/ \E s \in OpenStreams :
                \/ \E r \in Responses, end \in BOOLEAN : SendResponse(s, r, end)
                \/ SendTrailers(s)
                \/ \E n \in AppSizes, end \in BOOLEAN : SendData(s, n, end)
           \/ \E s \in KnownStreams, c \in Codes : ResetStream(s, c)
           \/ SendPing
           \/ \E s \in {0} \cup KnownStreams, n \in Credits : SendWindowUpdate(s, n)
  <2>1. UNCHANGED <<state, failed, identifiers>>
    BY <1>3, Zenon DEF SendResponse, SendTrailers, SendData, ResetStream, SendPing,
                       SendWindowUpdate
  <2> QED BY <2>1, SamePhase DEF identifiers
<1> QED BY <1>1, <1>2, <1>3 DEF Application

LEMMA PeerHeadersPhase ==
  ASSUME PeerHeaders
  PROVE  PhaseStep /\ ~failed /\ state # "WaitingPreface"
<1>1. ~failed /\ state # "WaitingPreface"
  BY Zenon DEF PeerHeaders, Admitted, Decoding
<1>2. ConnectionError \/ UNCHANGED <<state, failed, last_sent_goaway_stream_id>>
  BY Zenon DEF PeerHeaders, HandleHeaders, HandleHeadersSplit, HandleContinuationMore,
               HandleContinuation, identifiers
<1> QED BY <1>1, <1>2, ErrorPhase, SamePhase

LEMMA SettingsPhase ==
  ASSUME NEW f \in PeerSettings, HandleSettings(f)
  PROVE  PhaseStep /\ (~ConnectionError => SettingsTold)
<1> DEFINE delta   == f.initial_window_size - remote_settings.initial_window_size
           shifted == [s \in StreamIds |->
                         IF InMap(s) THEN [streams[s] EXCEPT !.send_window = @ + delta]
                         ELSE Absent]
           a == Event("SettingsReceived")
           b == Event("ConnectionPreface")
           reported == IF state = "WaitingPreface" THEN <<a, b>> ELSE <<a>>
           X == {a, b, SettingsAck}
<1>1. CASE ConnectionError
  BY <1>1, ErrorPhase
<1>2. CASE ~ConnectionError
  <2>1. /\ FlushAll(shifted, send_window, <<SettingsAck>>, reported)
        /\ state' = IF state = "WaitingPreface" THEN "Active" ELSE state
        /\ UNCHANGED <<identifiers, failed>>
    BY <1>2, Zenon DEF HandleSettings
  <2>2. a.type = "SettingsReceived"
    BY DEF Event
  <2> HIDE DEF a, b
  <2>3. a \in ToSet(reported)
    BY ShortSets
  <2>4. <<SettingsAck>> \in Seq(X) /\ reported \in Seq(X)
    <3>1. /\ <<SettingsAck>> \in Seq(X)
          /\ <<a, b>> \in Seq(X)
          /\ <<a>> \in Seq(X)
      OBVIOUS
    <3> QED BY <3>1
  <2> HIDE DEF shifted, reported, X
  <2>5. a \in ToSet(events')
    <3>1. PICK sent \in [Pending(shifted) -> 0 .. BufferCapacity] :
            FlushShows(shifted, sent, <<SettingsAck>>, reported)
      BY <2>1, <2>4, FlushAllShows
    <3> QED BY <2>3, <3>1 DEF FlushShows
  <2>6. SettingsTold
    BY <2>2, <2>5 DEF SettingsTold
  <2> QED BY <2>1, <2>6, Zenon DEF PhaseStep, identifiers
<1> QED BY <1>1, <1>2

LEMMA PeerFramesPhase ==
  ASSUME PeerFrames
  PROVE  PhaseStep
<1>1. CASE ConnectionError
  BY <1>1, ErrorPhase
<1>2. CASE \E f \in PeerSettings : HandleSettings(f)
  BY <1>2, SettingsPhase
<1>3. CASE Admitted("SETTINGS ACK", 0) /\ HandleSettingsAck /\ ~ConnectionError
  <2>1. UNCHANGED <<state, failed, identifiers>>
    BY <1>3, Zenon DEF Admitted, HandleSettingsAck
  <2> QED BY <2>1, SamePhase DEF identifiers
<1>4. CASE "received" \in Goaways /\ Admitted("GOAWAY", 0) /\ HandleGoaway
  BY <1>4, Zenon DEF Admitted, Decoding, HandleGoaway, PhaseStep, identifiers
<1>5. CASE /\ ~ConnectionError
           /\ \/ \E s \in PeerIds :
                   \/ DecoderStreamError(s) \/ HandleUnknown(s) \/ HandlePriorityUpdate(s)
                   \/ \E c \in Codes : HandleRstStream(s, c)
                   \/ \E n \in PeerSizes, p \in Pads, end \in BOOLEAN :
                        HandleData(s, n, p, end)
                   \/ \E n \in Increments : HandleWindowUpdate(s, n)
              \/ \E a \in Pings : HandlePing(a)
              \/ \E n \in Increments : HandleConnectionWindowUpdate(n)
              \/ HandlePriority
  <2>1. ASSUME NEW s, NEW n, NEW p, NEW end, HandleData(s, n, p, end)
        PROVE  UNCHANGED <<state, failed, identifiers>>
    BY <1>5, <2>1, Zenon DEF HandleData
  <2>2. ASSUME NEW s, NEW n, HandleWindowUpdate(s, n)
        PROVE  UNCHANGED <<state, failed, identifiers>>
    BY <1>5, <2>2, Zenon DEF HandleWindowUpdate
  <2>3. ASSUME NEW s,
               \/ DecoderStreamError(s) \/ HandleUnknown(s) \/ HandlePriorityUpdate(s)
               \/ \E c \in Codes : HandleRstStream(s, c)
        PROVE  UNCHANGED <<state, failed, identifiers>>
    BY <1>5, <2>3, Zenon DEF DecoderStreamError, HandleUnknown, HandlePriorityUpdate,
                             HandleRstStream
  <2>4. ASSUME \/ \E a \in Pings : HandlePing(a)
               \/ \E n \in Increments : HandleConnectionWindowUpdate(n)
               \/ HandlePriority
        PROVE  UNCHANGED <<state, failed, identifiers>>
    BY <1>5, <2>4, Zenon DEF HandlePing, HandleConnectionWindowUpdate, HandlePriority
  <2>5. UNCHANGED <<state, failed, identifiers>>
    BY <1>5, <2>1, <2>2, <2>3, <2>4
  <2> QED BY <2>5, SamePhase DEF identifiers
<1> QED BY <1>1, <1>2, <1>3, <1>4, <1>5 DEF PeerFrames, RejectFrame

LEMMA NextPhase ==
  ASSUME RestType, TableInv, Next
  PROVE  /\ PhaseStep
         /\ \/ Ordinary \/ Starts
            \/ /\ ~failed /\ state # "WaitingPreface"
               /\ \E s : Receives(s) \/ Begins(s) \/ Concludes(s)
<1>1. TableType
  BY DEF TableInv
<1>2. CASE PeerHeaders
  BY <1>1, <1>2, PeerHeadersPhase, PeerHeadersEffect
<1>3. CASE Handshake \/ Application \/ PeerFrames
  BY <1>1, <1>3, HandshakePhase, ApplicationPhase, PeerFramesPhase, QuietEffect,
     ApplicationEffect, PeerFramesEffect
<1> QED BY <1>2, <1>3 DEF Next

-----------------------------------------------------------------------------
(* Before the first SETTINGS of the peer.                                  *)

(* GOAWAYs that cross: one is sent besides the answer to an error, and one *)
(* is received.                                                            *)
GoawaysCross == {"sent", "received"} \subseteq Goaways

(* No stream has been seen.                                                *)
Untouched ==
  OpenStreams = {} /\ closed_streams = {} /\ header_continuation_stream = NoStream

(* Until SETTINGS has been reported the phase keeps header blocks out: by  *)
(* the wait for the preface, by the error that ended the connection, or by *)
(* a GOAWAY that was sent.                                                 *)
BeforeSettings ==
  "SettingsReceived" \in seen
    \/ /\ Untouched
       /\ \/ failed
          \/ state = "WaitingPreface"
          \/ state = "GoawaySent" /\ "received" \notin Goaways

LEMMA OrdinaryUntouched ==
  ASSUME Untouched, Ordinary
  PROVE  Untouched'
<1>1. ASSUME NEW R, Closes(R) PROVE OpenStreams' = {} /\ closed_streams' = {}
  <2>1. R = {} /\ closed_streams' = ClosedInsert(R)
    BY <1>1 DEF Closes, Untouched
  <2> QED BY <1>1, <2>1, ClosedInsertSubset DEF Closes, Untouched
<1>2. Steady => OpenStreams' = {} /\ closed_streams' = {}
  BY DEF Steady, Untouched
<1>3. header_continuation_stream' = NoStream
  BY DEF Ordinary, counters, Untouched
<1> QED BY <1>1, <1>2, <1>3 DEF Ordinary, Untouched

LEMMA NextBeforeSettings ==
  ASSUME Role = "server", ~GoawaysCross, RestType, TableInv, BeforeSettings, Next, Observe
  PROVE  BeforeSettings'
<1>1. seen' = seen \cup ({"SettingsReceived", "GoawayReceived"}
                           \cap {e.type : e \in ToSet(events')})
  BY DEF Observe
<1>2. CASE "SettingsReceived" \in seen \/ SettingsTold
  BY <1>1, <1>2 DEF BeforeSettings, SettingsTold
<1>3. CASE ~("SettingsReceived" \in seen \/ SettingsTold)
  <2>1. /\ Untouched
        /\ \/ failed
           \/ state = "WaitingPreface"
           \/ state = "GoawaySent" /\ "received" \notin Goaways
    BY <1>3 DEF BeforeSettings
  <2>2. ASSUME ~failed, state # "WaitingPreface", NEW s, Receives(s) \/ Begins(s) \/ Concludes(s)
        PROVE  FALSE
    <3>1. state = "GoawaySent" /\ s \in Nat \ {0}
      BY <2>1, <2>2 DEF Receives, Begins, Concludes, Named, StreamIds
    <3>2. ~InMap(s) /\ s \notin closed_streams /\ s # header_continuation_stream
      BY <2>1, <3>1 DEF Untouched, OpenStreams, InMap, NoStream
    <3> QED BY <2>2, <3>1, <3>2 DEF Receives, Begins, Concludes, HeadersRejected
  <2>3. Ordinary /\ PhaseStep
    BY <2>2, NextPhase DEF Starts
  <2>4. Untouched'
    BY <2>1, <2>3, OrdinaryUntouched
  <2>5. \/ failed'
        \/ state' = "WaitingPreface"
        \/ state' = "GoawaySent" /\ "received" \notin Goaways
    BY <1>3, <2>1, <2>3 DEF PhaseStep, GoawaysCross
  <2> QED BY <2>4, <2>5 DEF BeforeSettings
<1> QED BY <1>2, <1>3

(* A server has no stream of a peer that has not sent SETTINGS.  Where     *)
(* GOAWAYs cross this fails: GOAWAY leaves WaitingPreface, and the one     *)
(* received lifts the refusal of new streams (src/src/connection.rs:1430). *)
THEOREM SettingsAlwaysComeFirst ==
  ASSUME ~GoawaysCross
  PROVE  MonitoredSpec => []SettingsComeFirst
<1>1. CASE Role = "server"
  <2>1. MonitoredInit => BeforeSettings
    BY DEF MonitoredInit, Init, BeforeSettings, Untouched, OpenStreams, InMap
  <2>2. RestType /\ TableInv /\ BeforeSettings /\ [MonitoredNext]_mvars => BeforeSettings'
    <3> SUFFICES ASSUME RestType, TableInv, BeforeSettings, [MonitoredNext]_mvars
                 PROVE  BeforeSettings'
      OBVIOUS
    <3>1. CASE MonitoredNext
      BY <1>1, <3>1, NextBeforeSettings DEF MonitoredNext
    <3>2. CASE UNCHANGED mvars
      <4>1. UNCHANGED <<state, failed, header_continuation_stream, streams, closed_streams, seen>>
        BY <3>2 DEF mvars, vars, header_block, table
      <4> QED BY <4>1 DEF BeforeSettings, Untouched, OpenStreams, InMap
    <3> QED BY <3>1, <3>2
  <2>3. BeforeSettings => SettingsComeFirst
    BY DEF BeforeSettings, Untouched, SettingsComeFirst
  <2> QED BY <2>1, <2>2, <2>3, MonitoredImplements, InvariantHolds, PTL DEF MonitoredSpec
<1>2. CASE Role # "server"
  <2>1. SettingsComeFirst
    BY <1>2 DEF SettingsComeFirst
  <2> QED BY <2>1, PTL
<1> QED BY <1>1, <1>2

-----------------------------------------------------------------------------
(* After GOAWAY.                                                           *)

SentPhase == last_sent_goaway_stream_id # NoGoaway => state = "GoawaySent"

LEMMA NextSentPhase ==
  ASSUME "received" \notin Goaways, RestType, TableInv, SentPhase, Next
  PROVE  SentPhase'
<1>1. PhaseStep
  BY NextPhase
<1> QED BY <1>1 DEF PhaseStep, SentPhase

LEMMA SentPhaseHolds ==
  ASSUME "received" \notin Goaways
  PROVE  Spec => []SentPhase
<1>1. Init => SentPhase
  BY DEF Init, SentPhase
<1>2. RestType /\ TableInv /\ SentPhase /\ [Next]_vars => SentPhase'
  <2> SUFFICES ASSUME RestType, TableInv, SentPhase, [Next]_vars
               PROVE  SentPhase'
    OBVIOUS
  <2>1. CASE UNCHANGED vars
    BY <2>1 DEF vars, identifiers, SentPhase
  <2> QED BY <2>1, NextSentPhase
<1> QED BY <1>1, <1>2, InvariantHolds, PTL DEF Spec

(* A server that has sent GOAWAY takes up at most the stream whose header  *)
(* block is in progress.                                                   *)
LEMMA SentStep ==
  ASSUME Role = "server", RestType, TableInv, SentPhase, Next,
         last_sent_goaway_stream_id # NoGoaway
  PROVE  OpenStreams' \subseteq OpenStreams \cup {header_continuation_stream}
<1>1. state = "GoawaySent"
  BY DEF SentPhase
<1>2. CASE Ordinary
  BY <1>2 DEF Ordinary, Steady, Closes
<1>3. ASSUME NEW s, Receives(s)
      PROVE  OpenStreams' \subseteq OpenStreams
  <2>1. ~HeadersRejected(s)
    BY <1>3 DEF Receives
  <2>2. s \notin closed_streams => s \in OpenStreams
    BY <1>1, <2>1 DEF HeadersRejected, OpenStreams, InMap
  <2> QED BY <1>3, <2>2 DEF Receives, BlockEnds, Steady, Closes, Refuses, Opens
<1>4. ASSUME NEW s, Begins(s)
      PROVE  OpenStreams' \subseteq OpenStreams
  BY <1>4 DEF Begins, Steady
<1>5. ASSUME NEW s, Concludes(s)
      PROVE  OpenStreams' \subseteq OpenStreams \cup {header_continuation_stream}
  BY <1>5 DEF Concludes, BlockEnds, Steady, Closes, Refuses, Opens
<1> QED BY <1>2, <1>3, <1>4, <1>5, NextPhase DEF Starts

(* Once GOAWAY has been sent and as long as none is received, a server     *)
(* takes up no stream but the one whose header block was split and is      *)
(* still in progress: handle_continuation does not look at the state again *)
(* (src/src/connection/headers.rs:826).                                    *)
THEOREM OnlyTheBlockInProgress ==
  ASSUME Role = "server", "received" \notin Goaways
  PROVE  Spec => [][last_sent_goaway_stream_id # NoGoaway =>
                      OpenStreams' \subseteq OpenStreams \cup {header_continuation_stream}]_vars
<1>1. RestType /\ TableInv /\ SentPhase /\ [Next]_vars
        => [last_sent_goaway_stream_id # NoGoaway =>
              OpenStreams' \subseteq OpenStreams \cup {header_continuation_stream}]_vars
  BY SentStep
<1> QED BY <1>1, SentPhaseHolds, InvariantHolds, PTL DEF Spec

(* Without split blocks there is no exception.                             *)
THEOREM NoStreamFollowsGoaway ==
  ASSUME Fragments = {}, "received" \notin Goaways
  PROVE  MonitoredSpec => NoStreamAfterGoaway
<1> DEFINE Unsplit == header_continuation_stream = NoStream
<1>1. Init => Unsplit
  BY DEF Init
<1>2. RestType /\ TableInv /\ Unsplit /\ [Next]_vars => Unsplit'
  <2> SUFFICES ASSUME RestType, TableInv, Unsplit, [Next]_vars
               PROVE  Unsplit'
    OBVIOUS
  <2>1. CASE Next
    BY <2>1, UnsplitCounters DEF TableInv
  <2>2. CASE UNCHANGED vars
    BY <2>2 DEF vars, header_block
  <2> QED BY <2>1, <2>2
<1>3. RestType /\ TableInv /\ SentPhase /\ Unsplit /\ [MonitoredNext]_mvars
        => [Role = "server" /\ last_sent_goaway_stream_id # NoGoaway
              => OpenStreams' \subseteq OpenStreams]_mvars
  <2> SUFFICES ASSUME RestType, TableInv, SentPhase, Unsplit, MonitoredNext, Role = "server",
                      last_sent_goaway_stream_id # NoGoaway
               PROVE  OpenStreams' \subseteq OpenStreams
    OBVIOUS
  <2>1. OpenStreams' \subseteq OpenStreams \cup {NoStream}
    BY SentStep DEF MonitoredNext
  <2>2. NoStream \notin OpenStreams'
    BY DEF OpenStreams, StreamIds, NoStream
  <2> QED BY <2>1, <2>2
<1> HIDE DEF Unsplit
<1> QED BY <1>1, <1>2, <1>3, SentPhaseHolds, MonitoredImplements, InvariantHolds, PTL
        DEF MonitoredSpec, Spec, NoStreamAfterGoaway

-----------------------------------------------------------------------------
(* Who writes HEADERS, and who reports header blocks, data and GOAWAY.     *)

Notable == {"HeadersReceived", "TrailersReceived", "DataReceived", "GoawayReceived"}

NoHeaders == \A f \in ToSet(output') : f.type # "HEADERS"

Hushed == \A e \in ToSet(events') : e.type \notin Notable

Mute == NoHeaders /\ Hushed

LEMMA FewFrames ==
  ASSUME output' = <<>> \/ \E f : output' = <<f>> /\ f.type # "HEADERS"
  PROVE  NoHeaders
BY ShortSets DEF NoHeaders

LEMMA FewEvents ==
  ASSUME events' = <<>> \/ \E e : events' = <<e>> /\ e.type \notin Notable
  PROVE  Hushed
BY ShortSets DEF Hushed

(* The types of the frames and events.                                     *)
LEMMA OtherFrames ==
  /\ Settings.type # "HEADERS" /\ SettingsAck.type # "HEADERS"
  /\ \A s, n : WindowUpdate(s, n).type # "HEADERS" /\ RstStream(s, n).type # "HEADERS"
  /\ \A s, n, end : Data(s, n, end).type # "HEADERS"
  /\ \A a : Ping(a).type # "HEADERS" /\ Goaway(a).type # "HEADERS"
BY DEF Settings, SettingsAck, WindowUpdate, RstStream, Data, Ping, Goaway

LEMMA OtherEvents ==
  /\ Event("SettingsReceived").type \notin Notable
  /\ Event("ConnectionPreface").type \notin Notable
  /\ Event("SettingsReceived ACK").type \notin Notable
  /\ Event("PingReceived").type \notin Notable
  /\ \A s : /\ StreamEvent("StreamClosed", s).type \notin Notable
            /\ StreamEvent("WindowUpdateReceived", s).type \notin Notable
            /\ StreamEvent("PriorityUpdateReceived", s).type \notin Notable
  /\ \A s, n : DataDiscarded(s, n).type \notin Notable
  /\ \A s, code, n : StreamReset(s, code, n).type \notin Notable
BY DEF Event, StreamEvent, DataDiscarded, StreamReset, Notable

LEMMA ErrorMute ==
  ASSUME ConnectionError
  PROVE  Mute
BY FewFrames, FewEvents DEF ConnectionError, Mute

LEMMA ResetMute ==
  ASSUME NEW s, NEW code, NEW n, ResetKnownStream(s, code, n) \/ EnsureAndReset(s, code)
  PROVE  Mute
<1>1. /\ output' = <<RstStream(s, code)>>
      /\ events' = <<>> \/ \E m : events' = <<StreamReset(s, code, m)>>
  BY Zenon DEF ResetKnownStream, EnsureAndReset
<1> QED BY <1>1, FewFrames, FewEvents, OtherFrames, OtherEvents DEF Mute

(* StoreOrClose reports e, if there is one, and perhaps the end.           *)
LEMMA StoreOrCloseReports ==
  ASSUME NEW s, NEW r, NEW closes
  PROVE  /\ StoreOrClose(s, r, closes, <<>>) => Hushed
         /\ \A e : StoreOrClose(s, r, closes, <<e>>) =>
                     \A x \in ToSet(events') : x = e \/ x.type \notin Notable
<1> DEFINE c == StreamEvent("StreamClosed", s)
<1>1. c.type \notin Notable
  BY OtherEvents
<1>2. ASSUME StoreOrClose(s, r, closes, <<>>)
      PROVE  Hushed
  <2>1. events' = <<>> \/ events' = <<c>>
    BY <1>2 DEF StoreOrClose
  <2> QED BY <1>1, <2>1, FewEvents
<1>3. ASSUME NEW e, StoreOrClose(s, r, closes, <<e>>)
      PROVE  \A x \in ToSet(events') : x = e \/ x.type \notin Notable
  <2>1. events' = <<e>> \/ events' = <<e, c>>
    BY <1>3 DEF StoreOrClose
  <2> HIDE DEF c
  <2> QED BY <1>1, <2>1, ShortSets
<1> QED BY <1>2, <1>3

LEMMA FlushStreamMute ==
  ASSUME NEW s, NEW r, NEW reported, FlushStream(s, r, reported),
         reported = <<>> \/ \E e : reported = <<e>> /\ e.type \notin Notable
  PROVE  Mute
<1> DEFINE c == StreamEvent("StreamClosed", s)
           n == FlushSize(r, send_window)
           d == Data(s, n, FlushEnds(r, n))
<1>1. c.type \notin Notable /\ d.type # "HEADERS"
  BY OtherEvents, OtherFrames
<1>2. events' = <<c>> \o reported \/ events' = reported
  BY Zenon DEF FlushStream
<1>3. output' = <<d>> \/ output' = <<>>
  BY Zenon DEF FlushStream, FlushFrames
<1> HIDE DEF c, d
<1>4. NoHeaders
  BY <1>1, <1>3, FewFrames
<1>5. CASE reported = <<>>
  <2>1. events' = <<c>> \/ events' = <<>>
    BY <1>2, <1>5
  <2> QED BY <1>1, <1>4, <2>1, FewEvents DEF Mute
<1>6. CASE \E e : reported = <<e>> /\ e.type \notin Notable
  <2>1. PICK e : reported = <<e>> /\ e.type \notin Notable
    BY <1>6
  <2>2. <<c>> \in Seq({c, e}) /\ <<e>> \in Seq({c, e})
    OBVIOUS
  <2>3. ToSet(<<c>> \o <<e>>) = ToSet(<<c>>) \cup ToSet(<<e>>)
    BY <2>2, ConcatSets
  <2> QED BY <1>1, <1>2, <1>4, <2>1, <2>3, ShortSets DEF Mute, Hushed
<1> QED BY <1>5, <1>6

LEMMA FlushAllMute ==
  ASSUME NEW strs, NEW window, NEW X, NEW written \in Seq(X), NEW reported \in Seq(X),
         FlushAll(strs, window, written, reported),
         \A f \in ToSet(written) : f.type # "HEADERS",
         \A e \in ToSet(reported) : e.type \notin Notable
  PROVE  Mute
<1>1. PICK sent \in [Pending(strs) -> 0 .. BufferCapacity] :
        FlushShows(strs, sent, written, reported)
  BY FlushAllShows
<1>2. \A f \in ToSet(output') :
        f \in ToSet(written) \/ \E s : f = Data(s, sent[s], FlushEnds(strs[s], sent[s]))
  BY <1>1 DEF FlushShows
<1>3. \A e \in ToSet(events') :
        e \in ToSet(reported) \/ \E s : e = StreamEvent("StreamClosed", s)
  BY <1>1 DEF FlushShows
<1>4. NoHeaders
  BY <1>2, OtherFrames DEF NoHeaders
<1>5. Hushed
  BY <1>3, OtherEvents DEF Hushed
<1> QED BY <1>4, <1>5 DEF Mute

(* HEADERS on a stream that is no tunnel.                                  *)
Speaks(s) ==
  /\ s \in OpenStreams /\ ~streams[s].connect_established
  /\ \A f \in ToSet(output') : f.type = "HEADERS" => f.stream = s
  /\ Hushed

(* HEADERS on a new stream.                                                *)
SpeaksFirst ==
  /\ Role = "client"
  /\ \A f \in ToSet(output') : f.type = "HEADERS" => f.stream = next_stream_id
  /\ Hushed

(* DATA that agrees with what has been announced.                          *)
HearsData(s, n, end) ==
  /\ n \in PeerSizes /\ end \in BOOLEAN /\ InMap(s) /\ ~MalformedData(streams[s], n, end)
  /\ NoHeaders
  /\ \A e \in ToSet(events') : e = DataReceived(s, n, end) \/ e.type \notin Notable

(* A header block on a stream that was no tunnel when it began.            *)
HearsBlock(s, h) ==
  /\ h \in Blocks
  /\ \/ header_continuation_stream = NoStream /\ ~(InMap(s) /\ streams[s].connect_established)
     \/ header_continuation_stream = s /\ ~connect_established_headers_received
  /\ NoHeaders
  /\ \A e \in ToSet(events') : e = HeadersEvent(s, h) \/ e.type \notin Notable

HearsGoaway ==
  state' = "GoawayReceived" /\ output' = <<>> /\ events' = <<Event("GoawayReceived")>>

LEMMA QuietStepsMute ==
  ASSUME \/ Handshake \/ SendPing \/ SendGoaway \/ HandleSettingsAck \/ HandlePriority
         \/ (\E a \in Pings : HandlePing(a))
         \/ (\E s \in PeerIds : HandlePriorityUpdate(s))
         \/ (\E s, n : SendWindowUpdate(s, n))
  PROVE  Mute
<1>1. CASE ConnectionError
  BY <1>1, ErrorMute
<1>2. CASE ~ConnectionError
  <2>1. \/ events' = <<>>
        \/ events' = <<Event("SettingsReceived ACK")>>
        \/ events' = <<Event("PingReceived")>>
        \/ \E s : events' = <<StreamEvent("PriorityUpdateReceived", s)>>
    BY <1>2, Zenon
    DEF Handshake, ReceivePreface, MarkPrefaceSent, Initiate, SendSettings,
        AnnounceSettings, SendPing, SendGoaway, HandleSettingsAck, HandlePriority, HandlePing,
        HandlePriorityUpdate, SendWindowUpdate
  <2>2. \/ output' = <<>>
        \/ \E a : output' = <<Ping(a)>>
        \/ \E a : output' = <<Goaway(a)>>
        \/ \E s, n : output' = <<WindowUpdate(s, n)>>
        \/ output' = <<Settings>>
        \/ \E n : output' = <<Settings, WindowUpdate(0, n)>>
    BY <1>2, Zenon
    DEF Handshake, ReceivePreface, MarkPrefaceSent, Initiate, SendSettings,
        AnnounceSettings, SendPing, SendGoaway, HandleSettingsAck, HandlePriority, HandlePing,
        HandlePriorityUpdate, SendWindowUpdate
  <2>3. NoHeaders
    BY <2>2, ShortSets, OtherFrames DEF NoHeaders
  <2> QED BY <2>1, <2>3, FewEvents, OtherEvents DEF Mute
<1> QED BY <1>1, <1>2

LEMMA ResettingMute ==
  ASSUME NEW s,
         \/ \E c : ResetStream(s, c) \/ HandleRstStream(s, c)
         \/ DecoderStreamError(s)
         \/ HandleUnknown(s)
  PROVE  Mute
<1>1. CASE ConnectionError
  BY <1>1, ErrorMute
<1>2. CASE ~ConnectionError
  <2>1. \/ \E code, n : ResetKnownStream(s, code, n)
        \/ /\ output' = <<>>
           /\ events' = <<>> \/ \E code : events' = <<StreamReset(s, code, 0)>>
    BY <1>2, Zenon DEF ResetStream, HandleRstStream, DecoderStreamError, HandleUnknown
  <2> QED BY <2>1, ResetMute, FewFrames, FewEvents, OtherEvents DEF Mute
<1> QED BY <1>1, <1>2

LEMMA WindowUpdateMute ==
  ASSUME NEW n, HandleConnectionWindowUpdate(n) \/ \E s : HandleWindowUpdate(s, n)
  PROVE  Mute
<1>1. \A s : StreamEvent("WindowUpdateReceived", s).type \notin Notable
  BY OtherEvents
<1>2. CASE ConnectionError
  BY <1>2, ErrorMute
<1>3. CASE ~ConnectionError /\ HandleConnectionWindowUpdate(n)
  <2> DEFINE e == StreamEvent("WindowUpdateReceived", 0)
             X == {e}
  <2>1. FlushAll(streams, send_window + n, <<>>, <<e>>)
    BY <1>3, Zenon DEF HandleConnectionWindowUpdate
  <2>2. (\A x \in ToSet(<<e>>) : x.type \notin Notable) /\ ToSet(<<>>) = {}
    BY <1>1, ShortSets
  <2>3. <<>> \in Seq(X) /\ <<e>> \in Seq(X)
    OBVIOUS
  <2> HIDE DEF e, X
  <2> QED BY <2>1, <2>2, <2>3, FlushAllMute
<1>4. ASSUME ~ConnectionError, NEW s, HandleWindowUpdate(s, n)
      PROVE  Mute
  <2> DEFINE e == StreamEvent("WindowUpdateReceived", s)
  <2>1. \/ output' = <<>> /\ (events' = <<>> \/ events' = <<e>>)
        \/ \E code : ResetKnownStream(s, code, 0)
        \/ \E r : FlushStream(s, r, <<e>>)
    BY <1>4, Zenon DEF HandleWindowUpdate
  <2>2. e.type \notin Notable
    BY <1>1
  <2> HIDE DEF e
  <2> QED BY <2>1, <2>2, ResetMute, FewFrames, FewEvents, FlushStreamMute DEF Mute
<1> QED BY <1>2, <1>3, <1>4

LEMMA SettingsMute ==
  ASSUME NEW f \in PeerSettings, HandleSettings(f)
  PROVE  Mute
<1> DEFINE delta   == f.initial_window_size - remote_settings.initial_window_size
           shifted == [s \in StreamIds |->
                         IF InMap(s) THEN [streams[s] EXCEPT !.send_window = @ + delta]
                         ELSE Absent]
           a == Event("SettingsReceived")
           b == Event("ConnectionPreface")
           k == SettingsAck
           reported == IF state = "WaitingPreface" THEN <<a, b>> ELSE <<a>>
           X == {a, b, k}
<1>1. CASE ConnectionError
  BY <1>1, ErrorMute
<1>2. CASE ~ConnectionError
  <2>1. FlushAll(shifted, send_window, <<k>>, reported)
    BY <1>2, Zenon DEF HandleSettings
  <2>2. a.type \notin Notable /\ b.type \notin Notable /\ k.type # "HEADERS"
    BY OtherEvents, OtherFrames
  <2> HIDE DEF a, b, k
  <2>3. /\ \A e \in ToSet(reported) : e.type \notin Notable
        /\ \A e \in ToSet(<<k>>) : e.type # "HEADERS"
    BY <2>2, ShortSets
  <2>4. <<k>> \in Seq(X) /\ reported \in Seq(X)
    <3>1. <<k>> \in Seq(X) /\ <<a, b>> \in Seq(X) /\ <<a>> \in Seq(X)
      OBVIOUS
    <3> QED BY <3>1
  <2> HIDE DEF shifted, reported, X
  <2> QED BY <2>1, <2>3, <2>4, FlushAllMute
<1> QED BY <1>1, <1>2

LEMMA SendingSpeaks ==
  ASSUME NEW s \in OpenStreams,
         \/ \E r \in Responses, end \in BOOLEAN : SendResponse(s, r, end)
         \/ SendTrailers(s)
         \/ \E n \in AppSizes, end \in BOOLEAN : SendData(s, n, end)
  PROVE  Mute \/ Speaks(s)
<1>1. CASE (\E r \in Responses, end \in BOOLEAN : SendResponse(s, r, end)) \/ SendTrailers(s)
  <2>1. /\ ~streams[s].connect_established
        /\ \E end : output' = <<Headers(s, end)>>
        /\ \E r, closes : StoreOrClose(s, r, closes, <<>>)
    BY <1>1, Zenon DEF SendResponse, SendTrailers
  <2>2. Hushed
    BY <2>1, StoreOrCloseReports
  <2>3. \A f \in ToSet(output') : f.stream = s
    BY <2>1, ShortSets DEF Headers
  <2> QED BY <2>1, <2>2, <2>3 DEF Speaks
<1>2. CASE \E n \in AppSizes, end \in BOOLEAN : SendData(s, n, end)
  <2>1. \E r : FlushStream(s, r, <<>>)
    BY <1>2, Zenon DEF SendData
  <2> QED BY <2>1, FlushStreamMute
<1> QED BY <1>1, <1>2

LEMMA StartSpeaks ==
  ASSUME NEW m, NEW end, StartStream(m, end)
  PROVE  SpeaksFirst
<1>1. Role = "client" /\ output' = <<Headers(next_stream_id, end)>> /\ events' = <<>>
  BY Zenon DEF StartStream
<1> QED BY <1>1, ShortSets, FewEvents DEF SpeaksFirst, Headers

LEMMA HandleDataHears ==
  ASSUME NEW s, NEW n \in PeerSizes, NEW p, NEW end \in BOOLEAN, HandleData(s, n, p, end)
  PROVE  Mute \/ HearsData(s, n, end)
<1> DEFINE d == DataDiscarded(s, n + p)
           e == DataReceived(s, n, end)
<1>1. CASE ConnectionError
  BY <1>1, ErrorMute
<1>2. CASE ~ConnectionError
  <2>1. d.type \notin Notable
    BY OtherEvents
  <2>2. \/ output' = <<>> /\ (events' = <<d>> \/ events' = <<>>)
        \/ \E code : ResetKnownStream(s, code, n + p)
        \/ /\ InMap(s) /\ ~MalformedData(streams[s], n, end)
           /\ output' = <<>>
           /\ \E r, closes : StoreOrClose(s, r, closes, <<e>>)
    BY <1>2, Zenon DEF HandleData
  <2> HIDE DEF d, e
  <2>3. CASE output' = <<>> /\ (events' = <<d>> \/ events' = <<>>)
    BY <2>1, <2>3, FewFrames, FewEvents DEF Mute
  <2>4. CASE \E code : ResetKnownStream(s, code, n + p)
    BY <2>4, ResetMute
  <2>5. CASE /\ InMap(s) /\ ~MalformedData(streams[s], n, end)
             /\ output' = <<>>
             /\ \E r, closes : StoreOrClose(s, r, closes, <<e>>)
    <3>1. \A x \in ToSet(events') : x = e \/ x.type \notin Notable
      BY <2>5, StoreOrCloseReports
    <3> QED BY <2>5, <3>1, FewFrames DEF HearsData, e
  <2> QED BY <2>2, <2>3, <2>4, <2>5
<1> QED BY <1>1, <1>2

LEMMA CompleteBlockHears ==
  ASSUME NEW s, NEW h, NEW end, NEW limit, NEW tunnel,
         CompleteBlock(s, h, end, s \in closed_streams, limit, tunnel)
  PROVE  \/ Mute
         \/ /\ ~tunnel /\ s \notin closed_streams /\ NoHeaders
            /\ \A e \in ToSet(events') : e = HeadersEvent(s, h) \/ e.type \notin Notable
<1> DEFINE x == HeadersEvent(s, h)
<1>1. \/ output' = <<>> /\ events' = <<>>
      \/ \E code : ResetKnownStream(s, code, 0) \/ EnsureAndReset(s, code)
      \/ ~tunnel /\ s \notin closed_streams /\ ProcessHeaders(s, h, end)
  BY Zenon DEF CompleteBlock
<1>2. ProcessHeaders(s, h, end) =>
         \/ \E code : EnsureAndReset(s, code)
         \/ output' = <<>> /\ \E r, closes : StoreOrClose(s, r, closes, <<x>>)
  BY Zenon DEF ProcessHeaders
<1> HIDE DEF x
<1>3. CASE output' = <<>> /\ events' = <<>>
  BY <1>3, FewFrames, FewEvents DEF Mute
<1>4. CASE \E code : ResetKnownStream(s, code, 0) \/ EnsureAndReset(s, code)
  BY <1>4, ResetMute
<1>5. CASE /\ ~tunnel /\ s \notin closed_streams
           /\ output' = <<>> /\ \E r, closes : StoreOrClose(s, r, closes, <<x>>)
  <2>1. \A e \in ToSet(events') : e = x \/ e.type \notin Notable
    BY <1>5, StoreOrCloseReports
  <2> QED BY <1>5, <2>1, FewFrames DEF x
<1> QED BY <1>1, <1>2, <1>3, <1>4, <1>5

LEMMA PeerHeadersHear ==
  ASSUME PeerHeaders
  PROVE  Mute \/ \E s, h : HearsBlock(s, h)
<1>1. CASE ConnectionError
  BY <1>1, ErrorMute
<1>2. ASSUME ~ConnectionError, NEW s \in PeerIds, NEW h \in Blocks, NEW end \in BOOLEAN,
             Admitted("HEADERS", s), HandleHeaders(s, h, end)
      PROVE  Mute \/ HearsBlock(s, h)
  <2>1. \E limit :
          CompleteBlock(s, h, end, s \in closed_streams, limit,
                        connect_established_headers_received \/ OnTunnel(s))
    BY <1>2, Zenon DEF HandleHeaders
  <2>2. header_continuation_stream = NoStream
    BY <1>2 DEF Admitted
  <2> QED BY <2>1, <2>2, CompleteBlockHears DEF HearsBlock, OnTunnel
<1>3. ASSUME ~ConnectionError, NEW s \in PeerIds, NEW n \in Fragments, NEW h \in Blocks,
             HandleContinuation(s, n, h)
      PROVE  Mute \/ HearsBlock(s, h)
  <2>1. /\ s = header_continuation_stream
        /\ \E end, limit :
             CompleteBlock(s, h, end, s \in closed_streams, limit,
                           connect_established_headers_received)
    BY <1>3, Zenon DEF HandleContinuation
  <2> QED BY <2>1, CompleteBlockHears DEF HearsBlock
<1>4. ASSUME ~ConnectionError, NEW s \in PeerIds, NEW n \in Fragments,
             HandleContinuationMore(s, n) \/ \E end \in BOOLEAN : HandleHeadersSplit(s, n, end)
      PROVE  Mute
  <2>1. output' = <<>> /\ events' = <<>>
    BY <1>4, Zenon DEF HandleContinuationMore, HandleHeadersSplit
  <2> QED BY <2>1, FewFrames, FewEvents DEF Mute
<1> QED BY <1>1, <1>2, <1>3, <1>4 DEF PeerHeaders

LEMMA NextSays ==
  ASSUME Next
  PROVE  \/ Mute \/ SpeaksFirst \/ HearsGoaway
         \/ \E s : Speaks(s)
         \/ \E s, n, end : HearsData(s, n, end)
         \/ \E s, h : HearsBlock(s, h)
<1>1. CASE Handshake
  BY <1>1, QuietStepsMute
<1>2. CASE Application
  <2>1. CASE \E m \in Requests, end \in BOOLEAN : StartStream(m, end)
    BY <2>1, StartSpeaks
  <2>2. CASE \E s \in OpenStreams :
               \/ \E r \in Responses, end \in BOOLEAN : SendResponse(s, r, end)
               \/ SendTrailers(s)
               \/ \E n \in AppSizes, end \in BOOLEAN : SendData(s, n, end)
    BY <2>2, SendingSpeaks
  <2>3. CASE \E s \in KnownStreams, c \in Codes : ResetStream(s, c)
    BY <2>3, ResettingMute
  <2>4. CASE \/ SendPing \/ SendGoaway
             \/ \E s \in {0} \cup KnownStreams, n \in Credits : SendWindowUpdate(s, n)
    BY <2>4, QuietStepsMute
  <2> QED BY <1>2, <2>1, <2>2, <2>3, <2>4 DEF Application
<1>3. CASE PeerHeaders
  BY <1>3, PeerHeadersHear
<1>4. CASE PeerFrames
  <2>1. CASE RejectFrame
    BY <2>1, ErrorMute DEF RejectFrame
  <2>2. CASE \E s \in PeerIds :
               \/ DecoderStreamError(s) \/ HandleUnknown(s)
               \/ \E c \in Codes : HandleRstStream(s, c)
    BY <2>2, ResettingMute
  <2>3. CASE \E s \in PeerIds, n \in PeerSizes, p \in Pads, end \in BOOLEAN :
               HandleData(s, n, p, end)
    BY <2>3, HandleDataHears
  <2>4. CASE \E f \in PeerSettings : HandleSettings(f)
    BY <2>4, SettingsMute
  <2>5. CASE \/ HandleSettingsAck \/ HandlePriority
             \/ \E a \in Pings : HandlePing(a)
             \/ \E s \in PeerIds : HandlePriorityUpdate(s)
    BY <2>5, QuietStepsMute
  <2>6. CASE HandleGoaway
    BY <2>6, Zenon DEF HandleGoaway, HearsGoaway
  <2>7. CASE \E n \in Increments :
               HandleConnectionWindowUpdate(n) \/ \E s \in PeerIds : HandleWindowUpdate(s, n)
    BY <2>7, WindowUpdateMute
  <2> QED BY <1>4, <2>1, <2>2, <2>3, <2>4, <2>5, <2>6, <2>7 DEF PeerFrames
<1> QED BY <1>1, <1>2, <1>3, <1>4 DEF Next

-----------------------------------------------------------------------------
(* CONNECT tunnels.                                                        *)

(* On a stream that has become a tunnel the endpoint writes no HEADERS and *)
(* reports no header block that began afterwards, whoever established it,  *)
(* and whether or not another block was split meanwhile.                   *)
THEOREM TunnelsCarryData == MonitoredSpec => TunnelCarriesData
<1> DEFINE Silent(s) ==
             streams[s].connect_established =>
               /\ \A f \in ToSet(output') : f.type = "HEADERS" => f.stream # s
               /\ header_continuation_stream # s \/ connect_established_headers_received =>
                    \A e \in ToSet(events') :
                      e.type \in {"HeadersReceived", "TrailersReceived"} => e.stream # s
<1>1. ASSUME RestType, TableInv, Bookkeeping, Next, NEW s \in OpenStreams PROVE Silent(s)
  <2>1. s # NoStream /\ InMap(s)
    BY DEF OpenStreams, StreamIds, NoStream
  <2>2. CASE Mute
    BY <2>2 DEF Mute, NoHeaders, Hushed, Notable
  <2>3. CASE SpeaksFirst
    <3>1. s # next_stream_id
      BY <1>1, <2>3 DEF SpeaksFirst, Bookkeeping, TableConsistent, KnownStreams, RestType
    <3> QED BY <2>3, <3>1 DEF SpeaksFirst, Hushed, Notable
  <2>4. CASE HearsGoaway
    BY <2>4, ShortSets DEF HearsGoaway, Event
  <2>5. ASSUME NEW t, Speaks(t) PROVE Silent(s)
    BY <2>5 DEF Speaks, Hushed, Notable
  <2>6. ASSUME NEW t, NEW n, NEW end, HearsData(t, n, end) PROVE Silent(s)
    <3>1. \A e \in ToSet(events') : e.type \notin {"HeadersReceived", "TrailersReceived"}
      BY <2>6 DEF HearsData, DataReceived, Notable
    <3> QED BY <2>6, <3>1 DEF HearsData, NoHeaders
  <2>7. ASSUME NEW t, NEW h, HearsBlock(t, h) PROVE Silent(s)
    <3>1. \A e \in ToSet(events') :
            e.type \in {"HeadersReceived", "TrailersReceived"} => e.stream = t
      BY <2>7 DEF HearsBlock, HeadersEvent, StreamEvent, Notable
    <3>2. /\ s = t /\ streams[s].connect_established
          => header_continuation_stream = s /\ ~connect_established_headers_received
      BY <2>1, <2>7 DEF HearsBlock
    <3> QED BY <2>7, <3>1, <3>2 DEF HearsBlock, NoHeaders
  <2> HIDE DEF Silent
  <2> QED BY <1>1, <2>2, <2>3, <2>4, <2>5, <2>6, <2>7, NextSays
<1>2. RestType /\ TableInv /\ Bookkeeping /\ [MonitoredNext]_mvars
        => [\A s \in OpenStreams : Silent(s)]_mvars
  BY <1>1 DEF MonitoredNext
<1> QED BY <1>2, MonitoredImplements, InvariantHolds, BookkeepingHolds, PTL
        DEF MonitoredSpec, TunnelCarriesData

-----------------------------------------------------------------------------
(* A client after the GOAWAY of its server.                                *)

ReceivedPhase == "GoawayReceived" \in seen => state = "GoawayReceived" \/ failed

(* Every stream a client has started is open or has been reported.         *)
AllAccounted ==
  Role = "client" =>
    \A s \in StreamIds : s < next_stream_id => s \in OpenStreams \cup finished

LEMMA NextReceivedPhase ==
  ASSUME "sent" \notin Goaways, RestType, TableInv, ReceivedPhase, Next, Observe
  PROVE  ReceivedPhase'
<1>1. seen' = seen \cup ({"SettingsReceived", "GoawayReceived"}
                           \cap {e.type : e \in ToSet(events')})
  BY DEF Observe
<1>2. \/ \A e \in ToSet(events') : e.type # "GoawayReceived"
      \/ state' = "GoawayReceived"
  BY NextSays DEF Mute, SpeaksFirst, HearsGoaway, Speaks, HearsData, HearsBlock, Hushed,
                  Notable, DataReceived, HeadersEvent, StreamEvent
<1>3. "GoawayReceived" \in seen => state' = "GoawayReceived" \/ failed'
  BY NextPhase DEF PhaseStep, ReceivedPhase
<1>4. CASE state' = "GoawayReceived"
  BY <1>4 DEF ReceivedPhase
<1>5. CASE \A e \in ToSet(events') : e.type # "GoawayReceived"
  <2>1. "GoawayReceived" \in seen' => "GoawayReceived" \in seen
    BY <1>1, <1>5
  <2> QED BY <1>3, <2>1 DEF ReceivedPhase
<1> QED BY <1>2, <1>4, <1>5

(* Only start_stream numbers a stream.                                     *)
LEMMA NumberedByStart ==
  ASSUME TableType, RestType, Next, next_stream_id' # next_stream_id
  PROVE  \E m \in Requests, end \in BOOLEAN : StartStream(m, end)
<1>1. Application
  BY QuietEffect, PeerHeadersEffect, PeerFramesEffect
     DEF Next, Ordinary, counters, Receives, Begins, Concludes
<1>2. CASE \/ \E s \in OpenStreams :
                \/ \E r \in Responses, end \in BOOLEAN : SendResponse(s, r, end)
                \/ SendTrailers(s)
                \/ \E n \in AppSizes, end \in BOOLEAN : SendData(s, n, end)
           \/ \E s \in KnownStreams, c \in Codes : ResetStream(s, c)
           \/ SendPing \/ SendGoaway
           \/ \E s \in {0} \cup KnownStreams, n \in Credits : SendWindowUpdate(s, n)
  <2>1. UNCHANGED next_stream_id
    BY <1>2, Zenon DEF SendResponse, SendTrailers, SendData, ResetStream, SendPing,
                       SendGoaway, SendWindowUpdate, identifiers
  <2> QED BY <2>1
<1> QED BY <1>1, <1>2 DEF Application

LEMMA NextAccounted ==
  ASSUME RestType, TableInv, Bookkeeping, Numbered, AllAccounted, Next, Observe
  PROVE  AllAccounted'
<1> SUFFICES ASSUME Role = "client", NEW s \in StreamIds, s < next_stream_id'
             PROVE  s \in OpenStreams' \cup finished'
  BY DEF AllAccounted
<1>1. finished' = finished \cup Told
  BY DEF Observe, Told
<1>2. OpenStreams \ OpenStreams' \subseteq Told
  BY NextWire DEF WireStep, StartsWire, RefusesWire
<1>3. CASE s < next_stream_id
  BY <1>1, <1>2, <1>3 DEF AllAccounted
<1>4. CASE ~(s < next_stream_id)
  <2>1. next_stream_id \in Nat /\ next_stream_id % 2 = 1 /\ s \in Nat /\ s % 2 = 1
    BY DEF RestType, Numbered, StreamIds
  <2>2. next_stream_id' # next_stream_id
    BY <1>4
  <2>3. next_stream_id' = next_stream_id + 2
    BY <2>2, NextEffect DEF Ordinary, counters, Starts, Receives, Begins, Concludes
  <2>4. s = next_stream_id
    BY <1>4, <2>1, <2>3
  <2>5. PICK m \in Requests, end \in BOOLEAN : StartStream(m, end)
    BY <2>2, NumberedByStart DEF TableInv
  <2>6. next_stream_id \notin OpenStreams
    BY <2>1 DEF Bookkeeping, TableConsistent, KnownStreams
  <2> QED BY <2>1, <2>4, <2>5, <2>6, StartStreamWire
<1> QED BY <1>3, <1>4

(* Once the GOAWAY of the server has been reported, a client starts no     *)
(* stream and no header block brings one back - as long as no more streams *)
(* have ended than CLOSED_STREAMS_MAX_SIZE, and the client sends GOAWAY    *)
(* only as the answer to an error: another one overwrites the state that   *)
(* start_stream looks at (src/src/connection.rs:1430).                     *)
THEOREM NoRequestFollowsGoaway ==
  ASSUME "sent" \notin Goaways
  PROVE  MonitoredSpec /\ []FewEnded => NoRequestAfterGoaway
<1> DEFINE J == ReceivedPhase /\ AllAccounted
<1>1. MonitoredInit => J
  BY DEF MonitoredInit, Init, ReceivedPhase, AllAccounted, StreamIds
<1>2. RestType /\ TableInv /\ Bookkeeping /\ Numbered /\ J /\ [MonitoredNext]_mvars => J'
  <2> SUFFICES ASSUME RestType, TableInv, Bookkeeping, Numbered, ReceivedPhase, AllAccounted,
                      [MonitoredNext]_mvars
               PROVE  ReceivedPhase' /\ AllAccounted'
    OBVIOUS
  <2>1. CASE MonitoredNext
    BY <2>1, NextReceivedPhase, NextAccounted DEF MonitoredNext
  <2>2. CASE UNCHANGED mvars
    <3>1. UNCHANGED <<state, failed, seen, next_stream_id, streams, finished>>
      BY <2>2 DEF mvars, vars, identifiers, table
    <3> QED BY <3>1 DEF ReceivedPhase, AllAccounted, OpenStreams, InMap
  <2> QED BY <2>1, <2>2
<1>3. /\ RestType /\ TableInv /\ J /\ closed_streams = finished /\ [MonitoredNext]_mvars
      => [Role = "client" /\ "GoawayReceived" \in seen => OpenStreams' \subseteq OpenStreams]_mvars
  <2> SUFFICES ASSUME RestType, TableInv, ReceivedPhase, AllAccounted,
                      closed_streams = finished, MonitoredNext, Role = "client",
                      "GoawayReceived" \in seen
               PROVE  OpenStreams' \subseteq OpenStreams
    OBVIOUS
  <2>1. state = "GoawayReceived" \/ failed
    BY DEF ReceivedPhase
  <2>2. CASE Ordinary
    BY <2>2 DEF Ordinary, Steady, Closes
  <2>3. ASSUME NEW s, Receives(s) \/ Begins(s) \/ Concludes(s)
        PROVE  OpenStreams' \subseteq OpenStreams
    <3>1. s \in OpenStreams \cup closed_streams
      BY <2>3 DEF Receives, Begins, Concludes, Named, AllAccounted
    <3> QED BY <2>3, <3>1 DEF Receives, Begins, Concludes, BlockEnds, Steady, Closes,
                              Refuses, Opens
  <2> QED BY <2>1, <2>2, <2>3, NextPhase DEF Starts, MonitoredNext
<1> HIDE DEF J
<1> QED BY <1>1, <1>2, <1>3, MonitoredImplements, InvariantHolds, BookkeepingHolds,
           NumberedHolds, FewStreamsAreRemembered, PTL
        DEF MonitoredSpec, NoRequestAfterGoaway

-----------------------------------------------------------------------------
(* Content-length.                                                         *)

(* A peer that sends no trailers: every message that is delivered to its   *)
(* end has the length it announced, whatever came between its headers and  *)
(* its last DATA.  Trailers end a message of any length                    *)
(* (src/src/connection/headers.rs:641).                                    *)
THEOREM AnnouncedLengthHolds ==
  ASSUME \A h \in Blocks : h.pseudo
  PROVE  MonitoredSpec => ContentLengthHolds
<1> DEFINE Exact(e) ==
             Completes(e) /\ AnnouncesLength(e.stream)
               => streams[e.stream].received_content_length + Consumed(e)
                    = streams[e.stream].expected_content_length
<1>1. ASSUME TableInv, Next, NEW e \in ToSet(events') PROVE Exact(e)
  <2>1. CASE Completes(e) /\ AnnouncesLength(e.stream)
    <3>1. e.type \in {"TrailersReceived", "DataReceived"}
      BY <2>1 DEF Completes
    <3>2. ~(Mute \/ SpeaksFirst \/ HearsGoaway \/ \E s : Speaks(s))
      BY <3>1, ShortSets DEF Mute, SpeaksFirst, HearsGoaway, Speaks, Hushed, Notable, Event
    <3>3. ASSUME NEW s, NEW h, HearsBlock(s, h) PROVE FALSE
      <4>1. e = HeadersEvent(s, h) /\ h.pseudo
        BY <3>1, <3>3 DEF HearsBlock, Notable
      <4>2. e.type = "HeadersReceived"
        BY <4>1 DEF HeadersEvent, StreamEvent
      <4> QED BY <3>1, <4>2
    <3>4. PICK s, n, end : HearsData(s, n, end)
      BY <1>1, <3>2, <3>3, NextSays
    <3>5. e = DataReceived(s, n, end)
      BY <3>1, <3>4 DEF HearsData, Notable
    <3>6. e.stream = s /\ Consumed(e) = n /\ e.end_stream = end /\ e.type = "DataReceived"
      BY <3>5 DEF DataReceived, Consumed
    <3> DEFINE r == streams[s]
    <3>7. /\ n \in Nat /\ end
          /\ ~MalformedData(r, n, end)
          /\ r.expected_content_length # NoLength /\ ~r.no_content
      BY <2>1, <3>4, <3>6, InputAssumption DEF HearsData, Completes, AnnouncesLength
    <3>8. r \in Stream
      BY <1>1, <3>4 DEF HearsData, InMap, TableInv, TableType
    <3> HIDE DEF r
    <3>9. AddReceived(r, n) = r.expected_content_length
      BY <3>7 DEF MalformedData
    <3>10. r.received_content_length \in Nat /\ r.expected_content_length <= LengthCap
      BY <3>7, <3>8, SizeAssumption DEF Stream, ContentLengths
    <3>11. r.received_content_length + n = r.expected_content_length
      BY <3>7, <3>9, <3>10, SizeAssumption DEF AddReceived, Least
    <3> QED BY <3>6, <3>11 DEF r
  <2> QED BY <2>1
<1>2. TableInv /\ [MonitoredNext]_mvars => [\A e \in ToSet(events') : Exact(e)]_mvars
  BY <1>1 DEF MonitoredNext
<1> QED BY <1>2, MonitoredImplements, InvariantHolds, PTL
        DEF MonitoredSpec, ContentLengthHolds
=============================================================================
