-------------------------- MODULE ConnectionProofs --------------------------
(***************************************************************************)
(* Proofs about one endpoint, for every value of the constants: its types, *)
(* the data in its queues, the stream table, and what it shows to the      *)
(* outside, the events the application sees and the frames the peer sees,  *)
(* against that table.                                                     *)
(***************************************************************************)
EXTENDS ConnectionMonitor, FiniteSetTheorems, TLAPS

-----------------------------------------------------------------------------
(* The table of streams and the window its queues wait for.                *)

Live == {"Open", "HalfClosedLocal", "HalfClosedRemote"}

(* What LiveStreams, QueuedDataSendable and NoStalledData say of a stream  *)
(* with record r while the connection's send window is w.                  *)
Good(r, w) ==
  /\ r.state \in Live
  /\ r.pending_end_stream => r.send_buffer > 0
  /\ r.send_buffer > 0 => CanSendData(r.state)
  /\ r.send_buffer > 0 => w <= 0 \/ r.send_window <= 0

TableType ==
  /\ streams \in [StreamIds -> Stream \cup {Absent}]
  /\ closed_streams \subseteq StreamIds
  /\ send_window \in Int

TableGood == \A s \in StreamIds : streams[s] # Absent => Good(streams[s], send_window)

TableInv == TableType /\ TableGood

(* The part of TypeOK that is not about the table.                         *)
RestType ==
  /\ state \in ConnectionStates
  /\ preface_received \in BOOLEAN
  /\ preface_sent \in BOOLEAN
  /\ pending_settings_count \in Nat
  /\ connection_window_update_sent \in BOOLEAN
  /\ remote_settings \in [initial_window_size     : 0 .. MaxWindow,
                          max_concurrent_streams  : Nat,
                          enable_connect_protocol : BOOLEAN]
  /\ recv_window \in Int
  /\ next_stream_id \in Nat
  /\ last_recv_stream_id \in Nat
  /\ last_successful_stream_id \in Nat
  /\ last_sent_goaway_stream_id \in Nat \cup {NoGoaway}
  /\ header_continuation_stream \in StreamIds \cup {NoStream}
  /\ header_block_fragment \in 0 .. MaxFragment
  /\ header_end_stream \in BOOLEAN
  /\ header_concurrent_limit_exceeded \in BOOLEAN
  /\ connect_established_headers_received \in BOOLEAN
  /\ failed \in BOOLEAN

(* The three invariants of streams and the type invariant are the          *)
(* inductive invariant of the proof, taken apart.                          *)
LEMMA InvariantParts ==
  TypeOK /\ LiveStreams /\ QueuedDataSendable /\ NoStalledData <=> RestType /\ TableInv
<1>1. TypeOK <=> RestType /\ TableType
  BY DEF TypeOK, RestType, TableType
<1>2. LiveStreams /\ QueuedDataSendable /\ NoStalledData <=> TableGood
  BY DEF LiveStreams, QueuedDataSendable, NoStalledData, TableGood, Good, Live, OpenStreams,
         InMap
<1> QED
  BY <1>1, <1>2 DEF TableInv

-----------------------------------------------------------------------------
(* Steps that leave the table alone.                                       *)
LEMMA TableUnchanged ==
  ASSUME TableInv, UNCHANGED table, UNCHANGED send_window
  PROVE  TableInv'
BY DEF TableInv, TableType, TableGood, Good, table, CanSendData

LEMMA ClosedInsertType ==
  ASSUME NEW S, S \subseteq StreamIds, closed_streams \subseteq StreamIds
  PROVE  ClosedInsert(S) \subseteq StreamIds
BY DEF ClosedInsert

LEMMA RemoveStreamKeeps ==
  ASSUME TableInv, NEW s \in StreamIds, RemoveStream(s), UNCHANGED send_window
  PROVE  TableInv'
<1>1. closed_streams' \subseteq StreamIds
  BY ClosedInsertType DEF TableInv, TableType, RemoveStream
<1>2. /\ streams' \in [StreamIds -> Stream \cup {Absent}]
      /\ \A t \in StreamIds : streams'[t] = streams[t] \/ streams'[t] = Absent
  BY DEF TableInv, TableType, RemoveStream
<1> QED
  BY <1>1, <1>2 DEF TableInv, TableType, TableGood, Good, CanSendData

(* Steps that store a record for one stream while the send window does not *)
(* grow.                                                                   *)
LEMMA StoreKeeps ==
  ASSUME TableInv, NEW s \in StreamIds, NEW r \in Stream,
         streams' = [streams EXCEPT ![s] = r], UNCHANGED closed_streams,
         send_window' \in Int, send_window' <= send_window, Good(r, send_window')
  PROVE  TableInv'
<1>1. /\ streams' \in [StreamIds -> Stream \cup {Absent}]
      /\ streams'[s] = r
      /\ \A t \in StreamIds \ {s} : streams'[t] = streams[t]
  BY DEF TableInv, TableType
<1>2. \A t \in StreamIds : streams'[t] # Absent => Good(streams'[t], send_window')
  <2> SUFFICES ASSUME NEW t \in StreamIds, streams'[t] # Absent
               PROVE  Good(streams'[t], send_window')
    OBVIOUS
  <2>1. CASE t = s
    BY <2>1, <1>1
  <2>2. CASE t # s
    BY <2>2, <1>1 DEF TableInv, TableType, TableGood, Good
  <2> QED BY <2>1, <2>2
<1> QED
  BY <1>1, <1>2 DEF TableInv, TableType, TableGood

LEMMA StoreOrCloseKeeps ==
  ASSUME TableInv, NEW s \in StreamIds, NEW r \in Stream, NEW closes \in BOOLEAN,
         NEW reported, StoreOrClose(s, r, closes, reported), UNCHANGED send_window,
         ~closes => Good(r, send_window)
  PROVE  TableInv'
<1>1. CASE closes
  BY <1>1, RemoveStreamKeeps DEF StoreOrClose
<1>2. CASE ~closes
  <2>1. Good(r, send_window') /\ send_window' \in Int /\ send_window' <= send_window
    BY <1>2 DEF TableInv, TableType
  <2> QED BY <1>2, <2>1, StoreKeeps DEF StoreOrClose
<1> QED BY <1>1, <1>2

LEMMA ResetKeeps ==
  ASSUME TableInv, NEW s, NEW code, NEW n, ResetKnownStream(s, code, n),
         UNCHANGED send_window
  PROVE  TableInv'
<1>1. CASE InMap(s)
  BY <1>1, RemoveStreamKeeps DEF ResetKnownStream, InMap
<1>2. CASE ~InMap(s)
  BY <1>2, TableUnchanged DEF ResetKnownStream
<1> QED BY <1>1, <1>2

LEMMA EnsureAndResetKeeps ==
  ASSUME TableInv, NEW s \in StreamIds, NEW code, EnsureAndReset(s, code),
         UNCHANGED send_window
  PROVE  TableInv'
BY RemoveStreamKeeps DEF EnsureAndReset

LEMMA ErrorKeeps ==
  ASSUME RestType, TableInv, ConnectionError
  PROVE  RestType' /\ TableInv'
<1>1. RestType'
  BY DEF RestType, ConnectionError, handshake, windows, identifiers, header_block
<1>2. TableInv'
  BY TableUnchanged DEF ConnectionError, windows
<1> QED BY <1>1, <1>2

-----------------------------------------------------------------------------
(* Flushing.                                                               *)

(* A record that may be flushed: what Good says, but for the windows.      *)
Flushable(r) ==
  /\ r.state \in Live
  /\ r.send_buffer > 0 \/ r.pending_end_stream => CanSendData(r.state)

(* flush_stream_data stops with data left only when a window is used up.   *)
LEMMA FlushSizeFacts ==
  ASSUME NEW r \in Stream, NEW w \in Int
  PROVE  /\ FlushSize(r, w) \in 0 .. r.send_buffer
         /\ FlushSize(r, w) < r.send_buffer
              => w - FlushSize(r, w) <= 0 \/ r.send_window - FlushSize(r, w) <= 0
<1> r.send_buffer \in Nat /\ r.send_window \in Int
  BY DEF Stream
<1> QED
  BY DEF FlushSize, Least, SendAvailable, Greatest

(* What a flush of n octets leaves.                                        *)
LEMMA FlushedFacts ==
  ASSUME NEW r \in Stream, NEW n \in 0 .. r.send_buffer, Flushable(r)
  PROVE  /\ Flushed(r, n) \in Stream
         /\ Flushed(r, n).send_buffer = r.send_buffer - n
         /\ Flushed(r, n).send_window = r.send_window - n
         /\ Flushed(r, n).pending_end_stream => Flushed(r, n).send_buffer > 0
         /\ Flushed(r, n).send_buffer > 0 => CanSendData(Flushed(r, n).state)
         /\ Flushed(r, n).state \in Live \cup {"Closed"}
         /\ Flushed(r, n).state = "Closed" => Removable(Flushed(r, n))
<1> DEFINE ends == FlushEnds(r, n)
           a == Flushed(r, n)
<1>1. /\ r.send_buffer \in Nat
      /\ r.send_window \in Int
      /\ r.state \in StreamStates
      /\ r.pending_end_stream \in BOOLEAN
  BY DEF Stream
<1>2. ends \in BOOLEAN
  BY <1>1 DEF FlushEnds
<1>3. CompleteSendData(r.state, ends) \in StreamStates
  BY <1>1 DEF CompleteSendData, EndLocal, StreamStates
<1>4. /\ r.send_buffer - n \in Nat
      /\ r.send_window - n \in Int
      /\ (r.pending_end_stream /\ ~ends) \in BOOLEAN
  BY <1>1, <1>2
<1>5. a \in Stream
  BY <1>3, <1>4 DEF Flushed, Stream
<1>6. /\ a.send_buffer = r.send_buffer - n
      /\ a.send_window = r.send_window - n
      /\ a.pending_end_stream = (r.pending_end_stream /\ ~ends)
      /\ a.state = CompleteSendData(r.state, ends)
  BY DEF Flushed, Stream
<1>7. ends <=> r.pending_end_stream /\ n = r.send_buffer
  BY DEF FlushEnds
<1>8. a.pending_end_stream => r.pending_end_stream /\ ~ends
  BY <1>6, Zenon
<1>9. r.pending_end_stream /\ ends => ~a.pending_end_stream
  BY <1>6, Zenon
<1>10. ends => a.send_buffer = 0
  BY <1>1, <1>6, <1>7
<1>11. a.pending_end_stream => a.send_buffer > 0
  <2>1. a.pending_end_stream => n # r.send_buffer
    BY <1>7, <1>8, Zenon
  <2> QED BY <1>1, <1>6, <2>1
<1>12. a.send_buffer > 0 => a.state = r.state /\ CanSendData(r.state)
  BY <1>1, <1>6 DEF FlushEnds, CompleteSendData, Flushable
<1>13. a.state \in Live \cup {"Closed"}
  BY <1>6 DEF CompleteSendData, EndLocal, Flushable, Live
<1>14. a.state = "Closed" => ends
  BY <1>6 DEF CompleteSendData, Flushable, Live
<1>15. a.state = "Closed" => Removable(a)
  BY <1>14, <1>7, <1>9, <1>10, Zenon DEF Removable
<1> QED BY <1>5, <1>6, <1>11, <1>12, <1>13, <1>15

LEMMA FlushStreamKeeps ==
  ASSUME TableInv, NEW s \in StreamIds, NEW r \in Stream, Flushable(r), NEW reported,
         FlushStream(s, r, reported)
  PROVE  TableInv'
<1> DEFINE n == FlushSize(r, send_window)
           after == Flushed(r, n)
<1>1. send_window \in Int
  BY DEF TableInv, TableType
<1>2. /\ n \in 0 .. r.send_buffer
      /\ n < r.send_buffer => send_window - n <= 0 \/ r.send_window - n <= 0
  BY <1>1, FlushSizeFacts
<1>3. r.send_buffer \in Nat /\ r.send_window \in Int
  BY DEF Stream
<1>4. /\ send_window' = send_window - n
      /\ send_window' \in Int
      /\ send_window' <= send_window
  BY <1>1, <1>2, <1>3 DEF FlushStream
<1>5. after \in Stream
  BY <1>2, FlushedFacts
<1>6. after.state # "Closed" => Good(after, send_window')
  BY <1>2, <1>3, <1>4, FlushedFacts DEF Good
<1>7. CASE Removable(after)
  <2>1. /\ streams' = [streams EXCEPT ![s] = Absent]
        /\ closed_streams' = ClosedInsert({s})
    BY <1>7 DEF FlushStream, RemoveStream
  <2>2. closed_streams' \subseteq StreamIds
    BY <2>1, ClosedInsertType DEF TableInv, TableType
  <2>3. /\ streams' \in [StreamIds -> Stream \cup {Absent}]
        /\ \A t \in StreamIds : streams'[t] = streams[t] \/ streams'[t] = Absent
    BY <2>1 DEF TableInv, TableType
  <2> QED BY <1>4, <2>2, <2>3 DEF TableInv, TableType, TableGood, Good
<1>8. CASE ~Removable(after)
  <2>1. streams' = [streams EXCEPT ![s] = after] /\ UNCHANGED closed_streams
    BY <1>8 DEF FlushStream
  <2>2. Good(after, send_window')
    BY <1>2, <1>6, <1>8, FlushedFacts
  <2> QED BY <1>4, <1>5, <2>1, <2>2, StoreKeeps
<1> QED BY <1>7, <1>8

LEMMA FlushAllKeeps ==
  ASSUME NEW strs \in [StreamIds -> Stream \cup {Absent}], NEW window \in Int,
         closed_streams \subseteq StreamIds,
         \A s \in StreamIds : strs[s] # Absent => Flushable(strs[s]),
         NEW written, NEW reported, FlushAll(strs, window, written, reported)
  PROVE  TableInv'
<1> DEFINE pending == {s \in StreamIds :
                         /\ strs[s] # Absent
                         /\ strs[s].send_buffer > 0 \/ strs[s].pending_end_stream}
           want == [s \in pending |-> Least(strs[s].send_buffer,
                                            SendAvailable(strs[s].send_window))]
<1>1. PICK sent \in [pending -> 0 .. BufferCapacity] :
        LET total   == SumFunction(sent)
            after   == [s \in pending |-> Flushed(strs[s], sent[s])]
            removed == {s \in pending : Removable(after[s])}
        IN  /\ \A s \in pending : sent[s] <= want[s]
            /\ total \in 0 .. SendAvailable(window)
            /\ total = SendAvailable(window) \/ sent = want
            /\ send_window' = window - total
            /\ streams' = [s \in StreamIds |-> IF s \in removed THEN Absent
                                               ELSE IF s \in pending THEN after[s]
                                               ELSE strs[s]]
            /\ closed_streams' = ClosedInsert(removed)
  BY DEF FlushAll
<1> DEFINE total   == SumFunction(sent)
           after   == [s \in pending |-> Flushed(strs[s], sent[s])]
           removed == {s \in pending : Removable(after[s])}
<1>2. closed_streams' \subseteq StreamIds
  BY <1>1, ClosedInsertType
<1>3. total \in Int /\ SendAvailable(window) \in Int /\ window <= SendAvailable(window)
  BY <1>1 DEF SendAvailable, Greatest
<1>4. /\ send_window' = window - total
      /\ send_window' \in Int
      /\ total = SendAvailable(window) => send_window' <= 0
  <2> HIDE DEF total
  <2> QED BY <1>1, <1>3 DEF total
<1>5. ASSUME NEW s \in pending
      PROVE  /\ strs[s] \in Stream /\ Flushable(strs[s])
             /\ sent[s] \in 0 .. strs[s].send_buffer
             /\ sent = want /\ sent[s] < strs[s].send_buffer
                  => strs[s].send_window - sent[s] <= 0
  <2>1. strs[s] \in Stream /\ Flushable(strs[s])
    BY <1>5
  <2>2. strs[s].send_buffer \in Nat /\ strs[s].send_window \in Int
    BY <2>1 DEF Stream
  <2>3. sent[s] \in Nat /\ sent[s] <= want[s]
    BY <1>1, <1>5, SizeAssumption
  <2> QED BY <2>1, <2>2, <2>3 DEF Least, SendAvailable, Greatest
<1>6. ASSUME NEW s \in pending
      PROVE  /\ after[s] \in Stream
             /\ ~Removable(after[s]) => Good(after[s], send_window')
  <2>1. after[s] = Flushed(strs[s], sent[s])
    OBVIOUS
  <2>2. strs[s].send_buffer \in Nat /\ strs[s].send_window \in Int /\ sent[s] \in Int
    BY <1>5, <1>6 DEF Stream
  <2>3. after[s].send_buffer > 0 => send_window' <= 0 \/ after[s].send_window <= 0
    <3>1. /\ after[s].send_buffer = strs[s].send_buffer - sent[s]
          /\ after[s].send_window = strs[s].send_window - sent[s]
      BY <1>5, <1>6, <2>1, FlushedFacts
    <3> QED BY <1>1, <1>4, <1>5, <1>6, <2>2, <3>1
  <2> QED BY <1>5, <1>6, <2>1, <2>3, FlushedFacts DEF Good
<1>7. \A s \in StreamIds :
        /\ s \in removed => streams'[s] = Absent
        /\ s \in pending \ removed => streams'[s] = after[s]
        /\ s \notin pending => streams'[s] = strs[s]
  BY <1>1
<1>8. \A s \in StreamIds \ pending :
        strs[s] # Absent => Good(strs[s], send_window')
  <2> SUFFICES ASSUME NEW s \in StreamIds \ pending, strs[s] # Absent
               PROVE  Good(strs[s], send_window')
    OBVIOUS
  <2> QED BY DEF Good, Flushable
<1>9. streams' \in [StreamIds -> Stream \cup {Absent}]
  BY <1>1, <1>6
<1>10. TableGood'
  <2> SUFFICES ASSUME NEW s \in StreamIds, streams'[s] # Absent
               PROVE  Good(streams'[s], send_window')
    BY DEF TableGood
  <2>1. CASE s \in pending
    BY <2>1, <1>6, <1>7
  <2>2. CASE s \notin pending
    BY <2>2, <1>7, <1>8
  <2> QED BY <2>1, <2>2
<1> QED BY <1>2, <1>4, <1>9, <1>10 DEF TableInv, TableType

-----------------------------------------------------------------------------
(* The operations, one lemma for each.                                     *)

LEMMA GoodInMap ==
  ASSUME TableInv, NEW s, InMap(s)
  PROVE  s \in StreamIds /\ streams[s] \in Stream /\ Good(streams[s], send_window)
BY DEF TableInv, TableType, TableGood, InMap

LEMMA HandshakeKeeps ==
  ASSUME RestType, TableInv, Handshake
  PROVE  RestType' /\ TableInv'
<1>1. UNCHANGED table /\ UNCHANGED send_window
  BY DEF Handshake, ReceivePreface, MarkPrefaceSent, Initiate, SendSettings,
         AnnounceSettings, windows
<1>2. CASE ReceivePreface \/ MarkPrefaceSent
  <2>1. preface_received' \in BOOLEAN /\ preface_sent' \in BOOLEAN
    BY <1>2, Zenon DEF RestType, ReceivePreface, MarkPrefaceSent
  <2>2. RestType'
    BY <1>2, <2>1 DEF RestType, ReceivePreface, MarkPrefaceSent, windows, identifiers,
                      header_block
  <2> QED BY <1>1, <2>2, TableUnchanged
<1>3. CASE Initiate \/ SendSettings
  <2>1. recv_window' \in Int
    BY <1>3, SizeAssumption, MaxWindowAssumption
    DEF RestType, Initiate, SendSettings, AnnounceSettings
  <2>2. connection_window_update_sent' \in BOOLEAN
    BY <1>3, Zenon DEF RestType, Initiate, SendSettings, AnnounceSettings
  <2>3. preface_sent' \in BOOLEAN
    BY <1>3, Zenon DEF RestType, Initiate, SendSettings
  <2>4. RestType'
    BY <1>3, <2>1, <2>2, <2>3 DEF RestType, Initiate, SendSettings, AnnounceSettings,
                                  identifiers, header_block
  <2> QED BY <1>1, <2>4, TableUnchanged
<1> QED BY <1>2, <1>3 DEF Handshake

LEMMA SendHeadersFacts ==
  ASSUME NEW st \in Live, NEW end \in BOOLEAN, CanSendHeaders(st)
  PROVE  /\ SendHeaders(st, end) \in Live \cup {"Closed"}
         /\ ~end => SendHeaders(st, end) = st
BY DEF SendHeaders, EndLocal, CanSendHeaders, CanSendData, Live

LEMMA SendResponseKeeps ==
  ASSUME RestType, TableInv, NEW s, NEW status, NEW end \in BOOLEAN,
         SendResponse(s, status, end)
  PROVE  RestType' /\ TableInv'
<1> DEFINE old == streams[s]
           r == [old EXCEPT
                   !.state = SendHeaders(@, end),
                   !.final_response_sent = @ \/ status \notin Informational,
                   !.connect_established =
                      @ \/ (status \in Successful /\ old.request_method = "CONNECT")]
<1>1. InMap(s) /\ CanSendHeaders(old.state) /\ (end => old.send_buffer = 0)
  BY DEF SendResponse
<1>2. s \in StreamIds /\ old \in Stream /\ Good(old, send_window)
  BY <1>1, GoodInMap
<1>3. /\ SendHeaders(old.state, end) \in Live \cup {"Closed"}
      /\ ~end => SendHeaders(old.state, end) = old.state
  BY <1>1, <1>2, SendHeadersFacts DEF Good
<1>4. r \in Stream
  <2>1. SendHeaders(old.state, end) \in StreamStates
    BY <1>3 DEF Live, StreamStates
  <2>2. /\ (old.final_response_sent \/ status \notin Informational) \in BOOLEAN
        /\ (old.connect_established
              \/ (status \in Successful /\ old.request_method = "CONNECT")) \in BOOLEAN
    OBVIOUS
  <2> QED BY <1>2, <2>1, <2>2 DEF Stream
<1>5. /\ r.state = SendHeaders(old.state, end)
      /\ r.send_buffer = old.send_buffer
      /\ r.send_window = old.send_window
      /\ r.pending_end_stream = old.pending_end_stream
  BY <1>2 DEF Stream
<1>6. ~(end /\ r.state = "Closed") => Good(r, send_window)
  <2>1. CASE end
    <3>1. ~old.pending_end_stream /\ ~(old.send_buffer > 0)
      BY <1>1, <1>2, <2>1 DEF Good
    <3>2. ~r.pending_end_stream /\ ~(r.send_buffer > 0)
      BY <1>5, <3>1, Zenon
    <3> QED BY <1>3, <1>5, <2>1, <3>2, Zenon DEF Good
  <2>2. CASE ~end
    BY <1>2, <1>3, <1>5, <2>2 DEF Good
  <2> QED BY <2>1, <2>2
<1>7. StoreOrClose(s, r, end /\ r.state = "Closed", <<>>) /\ UNCHANGED send_window
  BY DEF SendResponse, windows
<1>8. TableInv'
  BY <1>2, <1>4, <1>6, <1>7, StoreOrCloseKeeps
<1>9. RestType'
  BY DEF SendResponse, RestType, handshake, windows, identifiers, header_block
<1> QED BY <1>8, <1>9

LEMMA SendTrailersKeeps ==
  ASSUME RestType, TableInv, NEW s, SendTrailers(s)
  PROVE  RestType' /\ TableInv'
<1> DEFINE old == streams[s]
           r == [old EXCEPT !.state = SendHeaders(@, TRUE)]
<1>1. InMap(s) /\ CanSendHeaders(old.state) /\ old.send_buffer = 0
  BY DEF SendTrailers
<1>2. s \in StreamIds /\ old \in Stream /\ Good(old, send_window)
  BY <1>1, GoodInMap
<1>3. SendHeaders(old.state, TRUE) \in Live \cup {"Closed"}
  BY <1>1, <1>2, SendHeadersFacts DEF Good
<1>4. r \in Stream
  BY <1>2, <1>3 DEF Stream, Live, StreamStates
<1>5. r.state # "Closed" => Good(r, send_window)
  <2>1. ~old.pending_end_stream /\ ~(old.send_buffer > 0)
    BY <1>1, <1>2 DEF Good
  <2>2. /\ r.state = SendHeaders(old.state, TRUE)
        /\ r.send_buffer = old.send_buffer
        /\ r.pending_end_stream = old.pending_end_stream
    BY <1>2 DEF Stream
  <2>3. ~r.pending_end_stream /\ ~(r.send_buffer > 0)
    BY <2>1, <2>2, Zenon
  <2> QED BY <1>3, <2>2, <2>3, Zenon DEF Good
<1>6. StoreOrClose(s, r, r.state = "Closed", <<>>) /\ UNCHANGED send_window
  BY DEF SendTrailers, windows
<1>7. TableInv'
  BY <1>2, <1>4, <1>5, <1>6, StoreOrCloseKeeps
<1>8. RestType'
  BY DEF SendTrailers, RestType, handshake, windows, identifiers, header_block
<1> QED BY <1>7, <1>8

LEMMA NewStreamType ==
  ASSUME RestType
  PROVE  NewStream \in Stream
BY SizeAssumption, MaxWindowAssumption
DEF RestType, NewStream, Stream, StreamStates, Methods, ContentLengths

LEMMA StartStreamKeeps ==
  ASSUME RestType, TableInv, NEW m \in Requests, NEW end \in BOOLEAN, StartStream(m, end)
  PROVE  RestType' /\ TableInv'
<1> DEFINE r == [NewStream EXCEPT !.state = SendHeaders(@, end), !.request_method = m]
<1>1. NewStream \in Stream /\ m \in Methods
  BY NewStreamType, InputAssumption
<1>2. SendHeaders("Idle", end) \in Live
  BY DEF SendHeaders, EndLocal, Live
<1>3. r \in Stream
  <2>1. SendHeaders(NewStream.state, end) \in StreamStates
    BY <1>2 DEF NewStream, Live, StreamStates
  <2> QED BY <1>1, <2>1 DEF Stream
<1>4. Good(r, send_window)
  <2>1. /\ r.state = SendHeaders(NewStream.state, end)
        /\ r.send_buffer = NewStream.send_buffer
        /\ r.pending_end_stream = NewStream.pending_end_stream
    BY <1>1 DEF Stream
  <2>2. /\ NewStream.state = "Idle"
        /\ NewStream.send_buffer = 0
        /\ ~NewStream.pending_end_stream
    BY DEF NewStream
  <2>3. ~(r.send_buffer > 0)
    BY <2>1, <2>2
  <2> QED BY <1>2, <2>1, <2>2, <2>3, Zenon DEF Good
<1>5. /\ streams' = [streams EXCEPT ![next_stream_id] = r]
      /\ UNCHANGED closed_streams /\ UNCHANGED send_window
  BY DEF StartStream, windows
<1>6. TableInv'
  <2>1. CASE next_stream_id \in StreamIds
    <3>1. /\ send_window' \in Int /\ send_window' <= send_window
          /\ Good(r, send_window')
      BY <1>4, <1>5 DEF TableInv, TableType
    <3> QED BY <1>3, <1>5, <2>1, <3>1, StoreKeeps
  <2>2. CASE next_stream_id \notin StreamIds
    <3>1. streams' = streams
      BY <1>5, <2>2 DEF TableInv, TableType
    <3> QED BY <1>5, <3>1, TableUnchanged DEF table
  <2> QED BY <2>1, <2>2
<1>7. RestType'
  <2>1. next_stream_id' \in Nat
    <3>1. next_stream_id' = next_stream_id + 2
      BY Zenon DEF StartStream
    <3> QED BY <3>1 DEF RestType
  <2>2. UNCHANGED <<state, handshake, remote_settings, windows, last_recv_stream_id,
                    last_successful_stream_id, last_sent_goaway_stream_id, header_block,
                    failed>>
    BY Zenon DEF StartStream
  <2> QED BY <2>1, <2>2 DEF RestType, handshake, windows, header_block
<1> QED BY <1>6, <1>7

LEMMA SendDataKeeps ==
  ASSUME RestType, TableInv, NEW s, NEW n \in AppSizes, NEW end \in BOOLEAN,
         SendData(s, n, end)
  PROVE  RestType' /\ TableInv'
<1> DEFINE old == streams[s]
           r == [old EXCEPT !.send_buffer = @ + n, !.pending_end_stream = end]
<1>1. InMap(s) /\ CanSendData(old.state)
  BY DEF SendData
<1>2. s \in StreamIds /\ old \in Stream /\ Good(old, send_window) /\ n \in Nat
  BY <1>1, GoodInMap, InputAssumption
<1>3. r \in Stream /\ r.state = old.state
  <2>1. old.send_buffer + n \in Nat /\ end \in BOOLEAN
    BY <1>2 DEF Stream
  <2> QED BY <1>2, <2>1, Zenon DEF Stream
<1>4. Flushable(r)
  BY <1>1, <1>2, <1>3 DEF Flushable, Good
<1>5. FlushStream(s, r, <<>>)
  BY DEF SendData
<1>6. TableInv'
  BY <1>2, <1>3, <1>4, <1>5, FlushStreamKeeps
<1>7. RestType'
  BY DEF SendData, RestType, handshake, identifiers, header_block
<1> QED BY <1>6, <1>7

(* Steps that change nothing but the table and the windows.                *)
LEMMA RestUnchanged ==
  ASSUME RestType, recv_window' \in Int,
         UNCHANGED <<state, handshake, remote_settings, identifiers, header_block, failed>>
  PROVE  RestType'
BY DEF RestType, handshake, identifiers, header_block

(* Steps that leave the table and the send window alone.                   *)
LEMMA QuietStepsKeep ==
  ASSUME RestType, TableInv,
         \/ SendPing \/ SendGoaway \/ HandleSettingsAck \/ HandleGoaway \/ HandlePriority
         \/ \E a \in Pings : HandlePing(a)
         \/ \E s \in PeerIds : HandlePriorityUpdate(s)
  PROVE  RestType' /\ TableInv'
<1>1. CASE ConnectionError
  BY <1>1, ErrorKeeps
<1>2. CASE SendPing \/ HandlePriority \/ \E a \in Pings : HandlePing(a)
  <2>1. UNCHANGED <<state, handshake, remote_settings, windows, table, identifiers,
                    header_block, failed>>
    BY <1>2, Zenon DEF SendPing, HandlePriority, HandlePing
  <2> QED BY <2>1, RestUnchanged, TableUnchanged DEF RestType, windows
<1>3. CASE SendGoaway
  <2>1. last_sent_goaway_stream_id' \in Nat \cup {NoGoaway}
    BY <1>3 DEF SendGoaway, RestType, Least, NoGoaway
  <2>2. state' \in ConnectionStates
    BY <1>3 DEF SendGoaway, ConnectionStates
  <2>3. UNCHANGED <<handshake, remote_settings, windows, table, next_stream_id,
                    last_recv_stream_id, last_successful_stream_id, header_block, failed>>
    BY <1>3, Zenon DEF SendGoaway
  <2>4. RestType'
    BY <2>1, <2>2, <2>3 DEF RestType, handshake, windows, header_block
  <2> QED BY <2>3, <2>4, TableUnchanged DEF windows
<1>4. CASE HandleSettingsAck /\ ~ConnectionError
  <2>1. /\ pending_settings_count > 0
        /\ pending_settings_count' = pending_settings_count - 1
        /\ state' = IF state = "WaitingPreface" THEN "Active" ELSE state
        /\ UNCHANGED <<preface_received, preface_sent, connection_window_update_sent,
                       remote_settings, windows, table, identifiers, header_block, failed>>
    BY <1>4, Zenon DEF HandleSettingsAck
  <2>2. pending_settings_count' \in Nat /\ state' \in ConnectionStates
    BY <2>1 DEF RestType, ConnectionStates
  <2>3. RestType'
    BY <2>1, <2>2 DEF RestType, windows, identifiers, header_block
  <2> QED BY <2>1, <2>3, TableUnchanged DEF windows
<1>5. CASE HandleGoaway
  <2>1. /\ state' \in ConnectionStates
        /\ UNCHANGED <<handshake, remote_settings, windows, table, identifiers,
                       header_block, failed>>
    BY <1>5 DEF HandleGoaway, ConnectionStates
  <2>2. RestType'
    BY <2>1 DEF RestType, handshake, windows, identifiers, header_block
  <2> QED BY <2>1, <2>2, TableUnchanged DEF windows
<1>6. CASE (\E s \in PeerIds : HandlePriorityUpdate(s)) /\ ~ConnectionError
  <2>1. UNCHANGED <<state, handshake, remote_settings, windows, table, identifiers,
                    header_block, failed>>
    BY <1>6, Zenon DEF HandlePriorityUpdate
  <2> QED BY <2>1, RestUnchanged, TableUnchanged DEF RestType, windows
<1> QED BY <1>1, <1>2, <1>3, <1>4, <1>5, <1>6

(* Steps that may reset a stream and change nothing else.                  *)
LEMMA ResettingStepsKeep ==
  ASSUME RestType, TableInv, NEW s, NEW code,
         ResetStream(s, code) \/ DecoderStreamError(s) \/ HandleUnknown(s)
  PROVE  RestType' /\ TableInv'
<1>1. CASE ConnectionError
  BY <1>1, ErrorKeeps
<1>2. CASE ~ConnectionError
  <2>1. /\ UNCHANGED <<state, handshake, remote_settings, windows, identifiers,
                       header_block, failed>>
        /\ \/ ResetKnownStream(s, code, 0)
           \/ ResetKnownStream(s, "PROTOCOL_ERROR", 0)
           \/ UNCHANGED table
    BY <1>2, Zenon DEF ResetStream, DecoderStreamError, HandleUnknown
  <2>2. RestType'
    BY <2>1, RestUnchanged DEF RestType, windows
  <2>3. TableInv'
    BY <2>1, ResetKeeps, TableUnchanged DEF windows
  <2> QED BY <2>2, <2>3
<1> QED BY <1>1, <1>2

LEMMA RstStreamKeeps ==
  ASSUME RestType, TableInv, NEW s, NEW code, HandleRstStream(s, code)
  PROVE  RestType' /\ TableInv'
<1>1. CASE ConnectionError
  BY <1>1, ErrorKeeps
<1>2. CASE ~ConnectionError
  <2>1. /\ UNCHANGED <<state, handshake, remote_settings, windows, identifiers,
                       header_block, failed>>
        /\ (InMap(s) /\ RemoveStream(s)) \/ UNCHANGED table
    BY <1>2, Zenon DEF HandleRstStream
  <2>2. RestType'
    BY <2>1, RestUnchanged DEF RestType, windows
  <2>3. TableInv'
    BY <2>1, RemoveStreamKeeps, TableUnchanged DEF windows, InMap
  <2> QED BY <2>2, <2>3
<1> QED BY <1>1, <1>2

LEMMA SendWindowUpdateKeeps ==
  ASSUME RestType, TableInv, NEW s, NEW n \in Credits, SendWindowUpdate(s, n)
  PROVE  RestType' /\ TableInv'
<1>1. n \in Nat
  BY InputAssumption, MaxWindowAssumption
<1>2. UNCHANGED <<state, handshake, remote_settings, send_window, closed_streams,
                  identifiers, header_block, failed>>
  BY Zenon DEF SendWindowUpdate
<1>3. CASE UNCHANGED streams
  <2>1. recv_window' \in Int
    BY <1>1 DEF SendWindowUpdate, RestType
  <2> QED BY <1>2, <1>3, <2>1, RestUnchanged, TableUnchanged DEF table
<1>4. CASE ~UNCHANGED streams
  <2> DEFINE old == streams[s]
             r == [old EXCEPT !.recv_window = @ + n]
  <2>1. /\ InMap(s)
        /\ streams' = [streams EXCEPT ![s] = r]
        /\ UNCHANGED recv_window
    BY <1>4 DEF SendWindowUpdate
  <2>2. s \in StreamIds /\ old \in Stream /\ Good(old, send_window)
    BY <2>1, GoodInMap
  <2>3. /\ r \in Stream
        /\ r.state = old.state /\ r.send_buffer = old.send_buffer
        /\ r.send_window = old.send_window
    BY <1>1, <2>2 DEF Stream
  <2>4. r.pending_end_stream = old.pending_end_stream
    BY <2>2 DEF Stream
  <2>5. Good(r, send_window)
    BY <2>2, <2>3, <2>4, Zenon DEF Good
  <2>6. Good(r, send_window') /\ send_window' \in Int /\ send_window' <= send_window
    BY <1>2, <2>5 DEF TableInv, TableType
  <2>7. TableInv'
    BY <1>2, <2>1, <2>2, <2>3, <2>6, StoreKeeps
  <2> QED BY <1>2, <2>1, <2>7, RestUnchanged DEF RestType
<1> QED BY <1>3, <1>4

LEMMA ConnectionWindowUpdateKeeps ==
  ASSUME RestType, TableInv, NEW n \in Increments, HandleConnectionWindowUpdate(n)
  PROVE  RestType' /\ TableInv'
<1>1. CASE ConnectionError
  BY <1>1, ErrorKeeps
<1>2. CASE ~ConnectionError
  <2>1. /\ FlushAll(streams, send_window + n, <<>>, <<StreamEvent("WindowUpdateReceived", 0)>>)
        /\ UNCHANGED <<state, handshake, remote_settings, recv_window, identifiers,
                       header_block, failed>>
    BY <1>2, Zenon DEF HandleConnectionWindowUpdate
  <2>2. RestType'
    BY <2>1, RestUnchanged DEF RestType
  <2>3. /\ streams \in [StreamIds -> Stream \cup {Absent}]
        /\ closed_streams \subseteq StreamIds
        /\ send_window + n \in Int
    BY InputAssumption, MaxWindowAssumption DEF TableInv, TableType
  <2>4. \A s \in StreamIds : streams[s] # Absent => Flushable(streams[s])
    BY DEF TableInv, TableGood, Good, Flushable
  <2>5. TableInv'
    BY <2>1, <2>3, <2>4, FlushAllKeeps
  <2> QED BY <2>2, <2>5
<1> QED BY <1>1, <1>2

LEMMA WindowUpdateKeeps ==
  ASSUME RestType, TableInv, NEW s, NEW n \in Increments, HandleWindowUpdate(s, n)
  PROVE  RestType' /\ TableInv'
<1> DEFINE old == streams[s]
           r == [old EXCEPT !.send_window = @ + n]
<1>1. CASE ConnectionError
  BY <1>1, ErrorKeeps
<1>2. CASE ~ConnectionError
  <2>1. /\ UNCHANGED <<state, handshake, remote_settings, recv_window, identifiers,
                       header_block, failed>>
        /\ \/ UNCHANGED <<table, send_window>>
           \/ ResetKnownStream(s, "FLOW_CONTROL_ERROR", 0) /\ UNCHANGED send_window
           \/ InMap(s) /\ FlushStream(s, r, <<StreamEvent("WindowUpdateReceived", s)>>)
    BY <1>2, Zenon DEF HandleWindowUpdate
  <2>2. RestType'
    BY <2>1, RestUnchanged DEF RestType
  <2>3. CASE UNCHANGED <<table, send_window>>
    BY <2>2, <2>3, TableUnchanged
  <2>4. CASE ResetKnownStream(s, "FLOW_CONTROL_ERROR", 0) /\ UNCHANGED send_window
    BY <2>2, <2>4, ResetKeeps
  <2>5. CASE InMap(s) /\ FlushStream(s, r, <<StreamEvent("WindowUpdateReceived", s)>>)
    <3>1. s \in StreamIds /\ old \in Stream /\ Good(old, send_window) /\ n \in Int
      BY <2>5, GoodInMap, InputAssumption, MaxWindowAssumption
    <3>2. r \in Stream /\ r.state = old.state /\ r.send_buffer = old.send_buffer
      BY <3>1 DEF Stream
    <3>3. r.pending_end_stream = old.pending_end_stream
      BY <3>1 DEF Stream
    <3>4. Flushable(old)
      BY <3>1 DEF Good, Flushable
    <3>5. Flushable(r)
      BY <3>2, <3>3, <3>4, Zenon DEF Flushable
    <3> QED BY <2>2, <2>5, <3>1, <3>2, <3>5, FlushStreamKeeps
  <2> QED BY <2>1, <2>3, <2>4, <2>5
<1> QED BY <1>1, <1>2

(* SETTINGS_INITIAL_WINDOW_SIZE moves every window, and what the new       *)
(* windows admit is flushed by the same frame.                             *)
LEMMA SettingsKeeps ==
  ASSUME RestType, TableInv, NEW f \in PeerSettings, HandleSettings(f)
  PROVE  RestType' /\ TableInv'
<1> DEFINE delta == f.initial_window_size - remote_settings.initial_window_size
           shifted == [s \in StreamIds |->
                         IF InMap(s) THEN [streams[s] EXCEPT !.send_window = @ + delta]
                         ELSE Absent]
           waiting == state = "WaitingPreface"
           reported == IF waiting
                       THEN <<Event("SettingsReceived"), Event("ConnectionPreface")>>
                       ELSE <<Event("SettingsReceived")>>
<1>1. CASE ConnectionError
  BY <1>1, ErrorKeeps
<1>2. CASE ~ConnectionError
  <2>1. /\ remote_settings' = f
        /\ FlushAll(shifted, send_window, <<SettingsAck>>, reported)
        /\ state' = IF waiting THEN "Active" ELSE state
        /\ UNCHANGED <<handshake, recv_window, identifiers, header_block, failed>>
    BY <1>2, Zenon DEF HandleSettings
  <2>2. f \in [initial_window_size     : 0 .. MaxWindow,
               max_concurrent_streams  : Nat,
               enable_connect_protocol : BOOLEAN]
    BY InputAssumption
  <2>3. RestType'
    <3>1. state' \in ConnectionStates
      BY <2>1 DEF RestType, ConnectionStates
    <3> QED BY <2>1, <2>2, <3>1 DEF RestType, handshake, identifiers, header_block
  <2>4. delta \in Int
    BY <2>2, MaxWindowAssumption DEF RestType
  <2>5. ASSUME NEW s \in StreamIds, shifted[s] # Absent
        PROVE  shifted[s] \in Stream /\ Flushable(shifted[s])
    <3> DEFINE old == streams[s]
               r == [old EXCEPT !.send_window = @ + delta]
    <3> HIDE DEF delta
    <3>1. InMap(s) /\ shifted[s] = r
      BY <2>5
    <3>2. old \in Stream /\ Good(old, send_window)
      BY <3>1, GoodInMap
    <3>3. r \in Stream /\ r.state = old.state /\ r.send_buffer = old.send_buffer
      BY <2>4, <3>2 DEF Stream
    <3>4. r.pending_end_stream = old.pending_end_stream
      BY <3>2 DEF Stream
    <3>5. Flushable(old)
      BY <3>2 DEF Good, Flushable
    <3>6. Flushable(r)
      BY <3>3, <3>4, <3>5, Zenon DEF Flushable
    <3> QED BY <3>1, <3>3, <3>6
  <2>6. shifted \in [StreamIds -> Stream \cup {Absent}]
    BY <2>5
  <2>7. TableInv'
    <3> HIDE DEF shifted, reported
    <3>1. closed_streams \subseteq StreamIds /\ send_window \in Int
      BY DEF TableInv, TableType
    <3> QED BY <2>1, <2>5, <2>6, <3>1, FlushAllKeeps
  <2> QED BY <2>3, <2>7
<1> QED BY <1>1, <1>2

(* A record keeps its queue through a step that moves its state by an      *)
(* arriving frame: what remains sendable was sendable.                     *)
LEMMA MovedGood ==
  ASSUME NEW old \in Stream, NEW r \in Stream, NEW w,
         old.pending_end_stream => old.send_buffer > 0,
         old.send_buffer > 0 => CanSendData(old.state),
         old.send_buffer > 0 => w <= 0 \/ old.send_window <= 0,
         CanSendData(old.state) => CanSendData(r.state),
         r.state \in Live,
         r.send_buffer = old.send_buffer,
         r.send_window = old.send_window,
         r.pending_end_stream = old.pending_end_stream
  PROVE  Good(r, w)
BY Zenon DEF Good

LEMMA HandleDataKeeps ==
  ASSUME RestType, TableInv, NEW s, NEW len \in PeerSizes, NEW pad \in Pads,
         NEW end \in BOOLEAN, HandleData(s, len, pad, end)
  PROVE  RestType' /\ TableInv'
<1> DEFINE size == len + pad
           old == streams[s]
           r == [old EXCEPT !.state = RecvData(@, end),
                            !.recv_window = @ - size,
                            !.received_content_length = AddReceived(old, len)]
<1>1. CASE ConnectionError
  BY <1>1, ErrorKeeps
<1>2. CASE ~ConnectionError
  <2>1. /\ recv_window' = recv_window - size
        /\ UNCHANGED <<state, handshake, remote_settings, send_window, identifiers,
                       header_block, failed>>
    BY <1>2, Zenon DEF HandleData
  <2>2. \/ UNCHANGED table
        \/ \E error : ResetKnownStream(s, error, size)
        \/ /\ InMap(s) /\ CanRecvData(old.state)
           /\ StoreOrClose(s, r, end /\ r.state = "Closed", <<DataReceived(s, len, end)>>)
    BY <1>2, Zenon DEF HandleData
  <2>3. len \in Nat /\ pad \in Nat
    BY InputAssumption
  <2>4. RestType'
    <3>1. recv_window' \in Int
      BY <2>1, <2>3 DEF RestType
    <3> QED BY <2>1, <3>1, RestUnchanged
  <2>5. CASE UNCHANGED table
    BY <2>1, <2>4, <2>5, TableUnchanged
  <2>6. CASE \E error : ResetKnownStream(s, error, size)
    BY <2>1, <2>4, <2>6, ResetKeeps
  <2>7. CASE /\ InMap(s) /\ CanRecvData(old.state)
             /\ StoreOrClose(s, r, end /\ r.state = "Closed", <<DataReceived(s, len, end)>>)
    <3>1. s \in StreamIds /\ old \in Stream /\ Good(old, send_window)
      BY <2>7, GoodInMap
    <3>2. /\ RecvData(old.state, end) \in Live \cup {"Closed"}
          /\ CanSendData(old.state) => CanSendData(RecvData(old.state, end))
          /\ RecvData(old.state, end) = "Closed" => end
      BY <2>7 DEF RecvData, EndRemote, CanRecvData, CanSendData, Live
    <3>3. /\ RecvData(old.state, end) \in StreamStates
          /\ old.recv_window - size \in Int
          /\ AddReceived(old, len) \in Nat
      BY <2>3, <3>1, <3>2, SizeAssumption
      DEF Live, StreamStates, AddReceived, Least, Stream
    <3>4. r \in Stream
      BY <3>1, <3>3 DEF Stream
    <3>5. /\ r.state = RecvData(old.state, end)
          /\ r.send_buffer = old.send_buffer
          /\ r.send_window = old.send_window
          /\ r.pending_end_stream = old.pending_end_stream
      BY <3>1 DEF Stream
    <3>6. ~(end /\ r.state = "Closed") => Good(r, send_window)
      <4> SUFFICES ASSUME r.state # "Closed" PROVE Good(r, send_window)
        BY <3>2, <3>5, Zenon
      <4>1. r.state \in Live /\ (CanSendData(old.state) => CanSendData(r.state))
        BY <3>2, <3>5
      <4> HIDE DEF r, old
      <4> QED BY <3>1, <3>4, <3>5, <4>1, MovedGood, Zenon DEF Good
    <3> HIDE DEF r
    <3> QED BY <2>1, <2>4, <2>7, <3>1, <3>4, <3>6, StoreOrCloseKeeps
  <2> QED BY <2>2, <2>5, <2>6, <2>7
<1> QED BY <1>1, <1>2

-----------------------------------------------------------------------------
(* Header blocks.                                                          *)

LEMMA BlockType ==
  ASSUME NEW h \in Blocks
  PROVE  /\ h.pseudo \in BOOLEAN
         /\ h.length \in ContentLengths \cup {BadLength}
         /\ Role = "server" /\ h.pseudo => h.kind \in Methods
<1>1. h \in [pseudo : BOOLEAN, valid : BOOLEAN,
             kind : (Methods \ {"none"}) \cup {"1xx", "200", "204", "304", "4xx"},
             length : {BadLength, NoLength} \cup 0 .. LengthCap]
  BY InputAssumption
<1>2. h.pseudo \in BOOLEAN /\ h.length \in {BadLength, NoLength} \cup 0 .. LengthCap
  BY <1>1
<1>3. h.length \in ContentLengths \cup {BadLength}
  BY <1>2 DEF ContentLengths
<1> QED BY <1>2, <1>3, InputAssumption

LEMMA RecvHeadersFacts ==
  ASSUME NEW st \in Live \cup {"Idle"}, NEW end \in BOOLEAN, CanRecvHeaders(st)
  PROVE  /\ RecvHeaders(st, end) \in Live \cup {"Closed"}
         /\ RecvHeaders(st, end) \in StreamStates
         /\ CanSendData(st) => CanSendData(RecvHeaders(st, end))
         /\ RecvHeaders(st, end) = "Closed" => end
BY DEF RecvHeaders, EndRemote, CanRecvHeaders, CanRecvData, CanSendData, Live, StreamStates

LEMMA RecordBlockFacts ==
  ASSUME NEW s, NEW old \in Stream, NEW h \in Blocks, NEW end \in BOOLEAN,
         RecvHeaders(old.state, end) \in StreamStates, ~MalformedBlock(old, h, end)
  PROVE  LET r == RecordBlock(s, old, h, end)
         IN  /\ r \in Stream
             /\ r.state = RecvHeaders(old.state, end)
             /\ r.send_buffer = old.send_buffer
             /\ r.send_window = old.send_window
             /\ r.recv_window = old.recv_window
             /\ r.pending_end_stream = old.pending_end_stream
<1> DEFINE moved == [old EXCEPT !.state = RecvHeaders(@, end)]
           r == RecordBlock(s, old, h, end)
<1>1. /\ moved \in Stream
      /\ moved.state = RecvHeaders(old.state, end)
      /\ moved.send_buffer = old.send_buffer
      /\ moved.send_window = old.send_window
      /\ moved.recv_window = old.recv_window
      /\ moved.pending_end_stream = old.pending_end_stream
  BY DEF Stream
<1>2. CASE ~h.pseudo
  <2>1. r = moved
    BY <1>2, Zenon DEF RecordBlock
  <2> QED BY <1>1, <2>1, Zenon
<1>3. CASE h.pseudo /\ Role = "server"
  <2>1. r = [moved EXCEPT !.request_method = h.kind,
                          !.expected_content_length = h.length,
                          !.initial_headers_received = TRUE]
    BY <1>3, Zenon DEF RecordBlock
  <2>2. h.kind \in Methods /\ h.length \in ContentLengths
    BY <1>3, BlockType DEF MalformedBlock
  <2> HIDE DEF moved, r
  <2>3. /\ r \in Stream
        /\ r.state = moved.state
        /\ r.send_buffer = moved.send_buffer
        /\ r.send_window = moved.send_window
        /\ r.recv_window = moved.recv_window
        /\ r.pending_end_stream = moved.pending_end_stream
    BY <1>1, <2>1, <2>2 DEF Stream
  <2> QED BY <1>1, <2>3, Zenon DEF r
<1>4. CASE h.pseudo /\ Role # "server"
  <2> DEFINE tunnel == \/ moved.connect_established
                       \/ h.kind \in Successful /\ old.request_method = "CONNECT"
             empty == \/ moved.no_content
                      \/ InMap(s) /\ (h.kind \in NoContent \/ old.request_method = "HEAD")
             final == h.kind \notin Informational
  <2>1. r = [moved EXCEPT !.connect_established = tunnel,
                          !.no_content = empty,
                          !.expected_content_length = h.length,
                          !.initial_headers_received = final]
    BY <1>4, Zenon DEF RecordBlock
  <2>2. tunnel \in BOOLEAN /\ empty \in BOOLEAN /\ final \in BOOLEAN
    BY Zenon
  <2>3. h.length \in ContentLengths
    BY <1>4, BlockType DEF MalformedBlock
  <2> HIDE DEF moved, r, tunnel, empty, final
  <2>4. /\ r \in Stream
        /\ r.state = moved.state
        /\ r.send_buffer = moved.send_buffer
        /\ r.send_window = moved.send_window
        /\ r.recv_window = moved.recv_window
        /\ r.pending_end_stream = moved.pending_end_stream
    BY <1>1, <2>1, <2>2, <2>3 DEF Stream
  <2> QED BY <1>1, <2>4, Zenon DEF r
<1> QED BY <1>2, <1>3, <1>4, BlockType

LEMMA ProcessHeadersKeeps ==
  ASSUME RestType, TableInv, NEW s \in StreamIds, NEW h \in Blocks, NEW end \in BOOLEAN,
         ProcessHeaders(s, h, end), UNCHANGED send_window
  PROVE  TableInv'
<1> DEFINE old == IF InMap(s) THEN streams[s] ELSE NewStream
           r == RecordBlock(s, old, h, end)
<1>1. \/ \E code : EnsureAndReset(s, code)
      \/ /\ CanRecvHeaders(old.state) /\ ~MalformedBlock(old, h, end)
         /\ StoreOrClose(s, r, end /\ r.state = "Closed", <<HeadersEvent(s, h)>>)
  BY Zenon DEF ProcessHeaders
<1>2. CASE \E code : EnsureAndReset(s, code)
  BY <1>2, EnsureAndResetKeeps
<1>3. CASE /\ CanRecvHeaders(old.state) /\ ~MalformedBlock(old, h, end)
           /\ StoreOrClose(s, r, end /\ r.state = "Closed", <<HeadersEvent(s, h)>>)
  <2>1. /\ old \in Stream
        /\ old.state \in Live \cup {"Idle"}
        /\ old.pending_end_stream => old.send_buffer > 0
        /\ old.send_buffer > 0 => CanSendData(old.state)
        /\ old.send_buffer > 0 => send_window <= 0 \/ old.send_window <= 0
    <3>1. CASE InMap(s)
      BY <3>1, GoodInMap DEF Good
    <3>2. CASE ~InMap(s)
      <4>1. old = NewStream
        BY <3>2
      <4>2. /\ NewStream \in Stream
            /\ NewStream.state = "Idle"
            /\ NewStream.send_buffer = 0
            /\ ~NewStream.pending_end_stream
        BY NewStreamType DEF NewStream
      <4>3. ~(NewStream.send_buffer > 0)
        BY <4>2
      <4> HIDE DEF old
      <4> QED BY <4>1, <4>2, <4>3, Zenon
    <3> QED BY <3>1, <3>2
  <2>2. /\ RecvHeaders(old.state, end) \in Live \cup {"Closed"}
        /\ RecvHeaders(old.state, end) \in StreamStates
        /\ CanSendData(old.state) => CanSendData(RecvHeaders(old.state, end))
        /\ RecvHeaders(old.state, end) = "Closed" => end
    <3> HIDE DEF old
    <3> QED BY <1>3, <2>1, RecvHeadersFacts
  <2>3. /\ r \in Stream
        /\ r.state = RecvHeaders(old.state, end)
        /\ r.send_buffer = old.send_buffer
        /\ r.send_window = old.send_window
        /\ r.pending_end_stream = old.pending_end_stream
    <3> HIDE DEF old
    <3> QED BY <1>3, <2>1, <2>2, RecordBlockFacts
  <2>4. ~(end /\ r.state = "Closed") => Good(r, send_window)
    <3> HIDE DEF old, r
    <3> SUFFICES ASSUME r.state # "Closed" PROVE Good(r, send_window)
      BY <2>2, <2>3, Zenon
    <3>1. r.state \in Live /\ (CanSendData(old.state) => CanSendData(r.state))
      BY <2>2, <2>3
    <3> QED BY <2>1, <2>3, <3>1, MovedGood, Zenon
  <2> HIDE DEF r
  <2> QED BY <1>3, <2>3, <2>4, StoreOrCloseKeeps
<1> QED BY <1>1, <1>2, <1>3

LEMMA CompleteBlockKeeps ==
  ASSUME RestType, TableInv, NEW s \in StreamIds, NEW h \in Blocks, NEW end \in BOOLEAN,
         NEW closed \in BOOLEAN, NEW limit \in BOOLEAN, NEW tunnel \in BOOLEAN,
         CompleteBlock(s, h, end, closed, limit, tunnel), UNCHANGED send_window
  PROVE  /\ TableInv'
         /\ last_successful_stream_id' \in Nat
         /\ header_concurrent_limit_exceeded' \in BOOLEAN
         /\ connect_established_headers_received' \in BOOLEAN
<1>1. \/ UNCHANGED table
      \/ EnsureAndReset(s, "REFUSED_STREAM")
      \/ ResetKnownStream(s, "PROTOCOL_ERROR", 0)
      \/ ProcessHeaders(s, h, end)
  BY Zenon DEF CompleteBlock
<1>2. TableInv'
  BY <1>1, TableUnchanged, EnsureAndResetKeeps, ResetKeeps, ProcessHeadersKeeps
<1>3. UNCHANGED last_successful_stream_id \/ RecordSuccess(s)
  BY Zenon DEF CompleteBlock
<1>4. last_successful_stream_id' \in Nat
  BY <1>3 DEF RestType, RecordSuccess, Greatest, StreamIds
<1>5. /\ header_concurrent_limit_exceeded' \in BOOLEAN
      /\ connect_established_headers_received' \in BOOLEAN
  <2>1. header_concurrent_limit_exceeded' = limit \/ header_concurrent_limit_exceeded' = FALSE
    BY Zenon DEF CompleteBlock
  <2>2. \/ connect_established_headers_received' = tunnel
        \/ connect_established_headers_received' = FALSE
    BY Zenon DEF CompleteBlock
  <2> QED BY <2>1, <2>2, Zenon
<1> QED BY <1>2, <1>4, <1>5

LEMMA HeadersAccepted ==
  ASSUME NEW s \in PeerIds, ~HeadersRejected(s)
  PROVE  s \in StreamIds
<1>1. s \in 1 .. MaxStreamId
  BY DEF PeerIds, WireIds
<1>2. s % 2 # 0
  BY DEF HeadersRejected
<1> QED BY <1>1, <1>2, SizeAssumption DEF StreamIds

LEMMA HandleHeadersKeeps ==
  ASSUME RestType, TableInv, NEW s \in PeerIds, NEW h \in Blocks, NEW end \in BOOLEAN,
         HandleHeaders(s, h, end)
  PROVE  RestType' /\ TableInv'
<1> DEFINE closed == s \in closed_streams
           limit == header_concurrent_limit_exceeded \/ OverLimit(s)
           tunnel == connect_established_headers_received \/ OnTunnel(s)
<1>1. CASE ConnectionError
  BY <1>1, ErrorKeeps
<1>2. CASE ~ConnectionError
  <2>1. /\ ~HeadersRejected(s)
        /\ last_recv_stream_id' = Greatest(s, last_recv_stream_id)
        /\ CompleteBlock(s, h, end, closed, limit, tunnel)
        /\ UNCHANGED <<state, handshake, remote_settings, windows, next_stream_id,
                       last_sent_goaway_stream_id, header_continuation_stream,
                       header_block_fragment, header_end_stream, failed>>
    BY <1>2, Zenon DEF HandleHeaders
  <2>2. s \in StreamIds
    BY <2>1, HeadersAccepted
  <2>3. closed \in BOOLEAN /\ limit \in BOOLEAN /\ tunnel \in BOOLEAN
    OBVIOUS
  <2>4. UNCHANGED send_window /\ UNCHANGED recv_window
    BY <2>1 DEF windows
  <2> HIDE DEF closed, limit, tunnel
  <2>5. /\ TableInv'
        /\ last_successful_stream_id' \in Nat
        /\ header_concurrent_limit_exceeded' \in BOOLEAN
        /\ connect_established_headers_received' \in BOOLEAN
    BY <2>1, <2>2, <2>3, <2>4, CompleteBlockKeeps
  <2>6. last_recv_stream_id' \in Nat
    BY <2>1, <2>2 DEF RestType, Greatest, StreamIds
  <2>7. RestType'
    BY <2>1, <2>4, <2>5, <2>6, Zenon DEF RestType, handshake
  <2> QED BY <2>5, <2>7
<1> QED BY <1>1, <1>2

LEMMA HandleHeadersSplitKeeps ==
  ASSUME RestType, TableInv, NEW s \in PeerIds, NEW n \in Fragments, NEW end \in BOOLEAN,
         HandleHeadersSplit(s, n, end)
  PROVE  RestType' /\ TableInv'
<1>1. CASE ConnectionError
  BY <1>1, ErrorKeeps
<1>2. CASE ~ConnectionError
  <2>1. /\ ~HeadersRejected(s)
        /\ n <= MaxFragment
        /\ last_recv_stream_id' = Greatest(s, last_recv_stream_id)
        /\ header_continuation_stream' = s
        /\ header_block_fragment' = n
        /\ header_end_stream' = end
        /\ UNCHANGED <<state, handshake, remote_settings, windows, table, next_stream_id,
                       last_successful_stream_id, last_sent_goaway_stream_id, failed>>
    BY <1>2, Zenon DEF HandleHeadersSplit
  <2>2. /\ header_concurrent_limit_exceeded' \in BOOLEAN
        /\ connect_established_headers_received' \in BOOLEAN
        /\ header_end_stream' \in BOOLEAN
    BY <1>2, Zenon DEF HandleHeadersSplit
  <2>3. s \in StreamIds
    BY <2>1, HeadersAccepted
  <2>4. last_recv_stream_id' \in Nat /\ header_block_fragment' \in 0 .. MaxFragment
    BY <2>1, <2>3, InputAssumption, SizeAssumption DEF RestType, Greatest, StreamIds
  <2>5. RestType'
    BY <2>1, <2>2, <2>3, <2>4 DEF RestType, handshake, windows
  <2> QED BY <2>1, <2>5, TableUnchanged DEF windows
<1> QED BY <1>1, <1>2

LEMMA HandleContinuationMoreKeeps ==
  ASSUME RestType, TableInv, NEW s, NEW n \in Fragments, HandleContinuationMore(s, n)
  PROVE  RestType' /\ TableInv'
<1>1. CASE ConnectionError
  BY <1>1, ErrorKeeps
<1>2. CASE ~ConnectionError
  <2>1. /\ header_block_fragment + n <= MaxFragment
        /\ header_block_fragment' = header_block_fragment + n
        /\ UNCHANGED <<state, handshake, remote_settings, windows, table, identifiers,
                       header_continuation_stream, header_end_stream,
                       header_concurrent_limit_exceeded,
                       connect_established_headers_received, failed>>
    BY <1>2, Zenon DEF HandleContinuationMore
  <2>2. header_block_fragment' \in 0 .. MaxFragment
    BY <2>1, InputAssumption, SizeAssumption DEF RestType
  <2>3. RestType'
    BY <2>1, <2>2 DEF RestType, handshake, windows, identifiers
  <2> QED BY <2>1, <2>3, TableUnchanged DEF windows
<1> QED BY <1>1, <1>2

LEMMA HandleContinuationKeeps ==
  ASSUME RestType, TableInv, NEW s \in PeerIds, NEW n \in Fragments, NEW h \in Blocks,
         HandleContinuation(s, n, h)
  PROVE  RestType' /\ TableInv'
<1> DEFINE closed == s \in closed_streams
<1>1. CASE ConnectionError
  BY <1>1, ErrorKeeps
<1>2. CASE ~ConnectionError
  <2>1. /\ s = header_continuation_stream
        /\ header_continuation_stream' = NoStream
        /\ header_block_fragment' = 0
        /\ CompleteBlock(s, h, header_end_stream, closed, header_concurrent_limit_exceeded,
                         connect_established_headers_received)
        /\ UNCHANGED <<state, handshake, remote_settings, windows, next_stream_id,
                       last_recv_stream_id, last_sent_goaway_stream_id, failed>>
    BY <1>2, Zenon DEF HandleContinuation
  <2>2. header_end_stream' \in BOOLEAN
    BY <1>2, Zenon DEF HandleContinuation
  <2>3. s \in StreamIds
    BY <2>1 DEF RestType, NoStream, PeerIds, WireIds
  <2>4. /\ closed \in BOOLEAN
        /\ header_end_stream \in BOOLEAN
        /\ header_concurrent_limit_exceeded \in BOOLEAN
        /\ connect_established_headers_received \in BOOLEAN
    BY DEF RestType
  <2>5. UNCHANGED send_window /\ UNCHANGED recv_window
    BY <2>1 DEF windows
  <2> HIDE DEF closed
  <2>6. /\ TableInv'
        /\ last_successful_stream_id' \in Nat
        /\ header_concurrent_limit_exceeded' \in BOOLEAN
        /\ connect_established_headers_received' \in BOOLEAN
    BY <2>1, <2>3, <2>4, <2>5, CompleteBlockKeeps
  <2>7. header_block_fragment' \in 0 .. MaxFragment
    BY <2>1, SizeAssumption
  <2>8. RestType'
    <3>1. /\ header_continuation_stream' \in StreamIds \cup {NoStream}
          /\ UNCHANGED <<state, handshake, remote_settings, next_stream_id,
                         last_recv_stream_id, last_sent_goaway_stream_id, failed>>
      BY <2>1
    <3> QED BY <2>2, <2>5, <2>6, <2>7, <3>1 DEF RestType, handshake
  <2> QED BY <2>6, <2>8
<1> QED BY <1>1, <1>2

-----------------------------------------------------------------------------
(* The inductive invariant.                                                *)

LEMMA InitHolds ==
  ASSUME Init
  PROVE  RestType /\ TableInv
<1>1. /\ state \in ConnectionStates
      /\ pending_settings_count \in Nat
      /\ recv_window \in Int
      /\ send_window \in Int
      /\ next_stream_id \in Nat
      /\ last_recv_stream_id \in Nat
      /\ last_successful_stream_id \in Nat
      /\ last_sent_goaway_stream_id \in Nat \cup {NoGoaway}
      /\ header_continuation_stream \in StreamIds \cup {NoStream}
      /\ header_block_fragment \in 0 .. MaxFragment
  BY SizeAssumption, MaxWindowAssumption DEF Init, ConnectionStates
<1>2. /\ preface_received \in BOOLEAN
      /\ preface_sent \in BOOLEAN
      /\ connection_window_update_sent \in BOOLEAN
      /\ header_end_stream \in BOOLEAN
      /\ header_concurrent_limit_exceeded \in BOOLEAN
      /\ connect_established_headers_received \in BOOLEAN
      /\ failed \in BOOLEAN
  BY Zenon DEF Init
<1>3. remote_settings \in [initial_window_size     : 0 .. MaxWindow,
                           max_concurrent_streams  : Nat,
                           enable_connect_protocol : BOOLEAN]
  <2>1. DefaultWindow \in 0 .. MaxWindow /\ RemoteStreamLimit \in Nat
    BY SizeAssumption, MaxWindowAssumption
  <2>2. remote_settings = [initial_window_size     |-> DefaultWindow,
                           max_concurrent_streams  |-> RemoteStreamLimit,
                           enable_connect_protocol |-> FALSE]
    BY Zenon DEF Init
  <2> QED BY <2>1, <2>2
<1>4. streams = [s \in StreamIds |-> Absent] /\ closed_streams = {}
  BY Zenon DEF Init
<1>5. RestType
  BY <1>1, <1>2, <1>3 DEF RestType
<1>6. TableInv
  BY <1>1, <1>4 DEF TableInv, TableType, TableGood
<1> QED BY <1>5, <1>6

LEMMA ApplicationKeeps ==
  ASSUME RestType, TableInv, Application
  PROVE  RestType' /\ TableInv'
<1>1. CASE \E m \in Requests, end \in BOOLEAN : StartStream(m, end)
  BY <1>1, StartStreamKeeps
<1>2. CASE \E s \in OpenStreams, r \in Responses, end \in BOOLEAN :
             Role = "server" /\ SendResponse(s, r, end)
  BY <1>2, SendResponseKeeps
<1>3. CASE \E s \in OpenStreams : SendTrailers(s)
  BY <1>3, SendTrailersKeeps
<1>4. CASE \E s \in OpenStreams, n \in AppSizes, end \in BOOLEAN : SendData(s, n, end)
  BY <1>4, SendDataKeeps
<1>5. CASE \E s \in KnownStreams, c \in Codes : ResetStream(s, c)
  BY <1>5, ResettingStepsKeep
<1>6. CASE SendPing \/ SendGoaway
  BY <1>6, QuietStepsKeep
<1>7. CASE \E s \in {0} \cup KnownStreams, n \in Credits : SendWindowUpdate(s, n)
  BY <1>7, SendWindowUpdateKeeps
<1> QED BY <1>1, <1>2, <1>3, <1>4, <1>5, <1>6, <1>7 DEF Application

LEMMA PeerHeadersKeeps ==
  ASSUME RestType, TableInv, PeerHeaders
  PROVE  RestType' /\ TableInv'
<1>1. CASE \E s \in PeerIds, h \in Blocks, end \in BOOLEAN : HandleHeaders(s, h, end)
  BY <1>1, HandleHeadersKeeps
<1>2. CASE \E s \in PeerIds, n \in Fragments, end \in BOOLEAN : HandleHeadersSplit(s, n, end)
  BY <1>2, HandleHeadersSplitKeeps
<1>3. CASE \E s \in PeerIds, n \in Fragments : HandleContinuationMore(s, n)
  BY <1>3, HandleContinuationMoreKeeps
<1>4. CASE \E s \in PeerIds, n \in Fragments, h \in Blocks : HandleContinuation(s, n, h)
  BY <1>4, HandleContinuationKeeps
<1> QED BY <1>1, <1>2, <1>3, <1>4 DEF PeerHeaders

LEMMA PeerFramesKeeps ==
  ASSUME RestType, TableInv, PeerFrames
  PROVE  RestType' /\ TableInv'
<1>1. CASE RejectFrame
  BY <1>1, ErrorKeeps DEF RejectFrame
<1>2. CASE \E s \in PeerIds : DecoderStreamError(s) \/ HandleUnknown(s)
  BY <1>2, ResettingStepsKeep
<1>3. CASE \E s \in PeerIds, n \in PeerSizes, p \in Pads, end \in BOOLEAN :
             HandleData(s, n, p, end)
  BY <1>3, HandleDataKeeps
<1>4. CASE \E s \in PeerIds, c \in Codes : HandleRstStream(s, c)
  BY <1>4, RstStreamKeeps
<1>5. CASE \E f \in PeerSettings : HandleSettings(f)
  BY <1>5, SettingsKeeps
<1>6. CASE \/ HandleSettingsAck \/ HandleGoaway \/ HandlePriority
           \/ \E a \in Pings : HandlePing(a)
           \/ \E s \in PeerIds : HandlePriorityUpdate(s)
  BY <1>6, QuietStepsKeep
<1>7. CASE \E n \in Increments : HandleConnectionWindowUpdate(n)
  BY <1>7, ConnectionWindowUpdateKeeps
<1>8. CASE \E s \in PeerIds, n \in Increments : HandleWindowUpdate(s, n)
  BY <1>8, WindowUpdateKeeps
<1> QED BY <1>1, <1>2, <1>3, <1>4, <1>5, <1>6, <1>7, <1>8 DEF PeerFrames

LEMMA NextHolds ==
  ASSUME RestType, TableInv, [Next]_vars
  PROVE  RestType' /\ TableInv'
<1>1. CASE Next
  BY <1>1, HandshakeKeeps, ApplicationKeeps, PeerHeadersKeeps, PeerFramesKeeps DEF Next
<1>2. CASE UNCHANGED vars
  <2>1. UNCHANGED <<state, handshake, remote_settings, windows, table, identifiers,
                    header_block, failed>>
    BY <1>2, Zenon DEF vars
  <2> QED BY <2>1, RestUnchanged, TableUnchanged DEF RestType, windows
<1> QED BY <1>1, <1>2

LEMMA InvariantHolds == Spec => [](RestType /\ TableInv)
<1>1. Init => RestType /\ TableInv
  BY InitHolds
<1>2. RestType /\ TableInv /\ [Next]_vars => (RestType /\ TableInv)'
  BY NextHolds
<1> QED BY <1>1, <1>2, PTL DEF Spec

(* Every field of the connection keeps its type, whatever the application  *)
(* and the peer do: no handler of connection.rs stores a value outside the *)
(* range its field is given here, and no flush takes more from a           *)
(* SendBuffer than it holds.                                               *)
THEOREM TypeCorrect == Spec => []TypeOK
<1>1. RestType /\ TableInv => TypeOK
  BY InvariantParts
<1> QED BY <1>1, InvariantHolds, PTL

(* An entry of the stream map is never in state Closed (nor Idle): every   *)
(* operation that ends a stream - HEADERS, trailers or DATA of either      *)
(* side, a flush of queued DATA, a reset - also removes it in the same     *)
(* call (try_remove_closed_stream and the removals of the handlers).       *)
THEOREM ClosedStreamsLeave == Spec => []LiveStreams
<1>1. RestType /\ TableInv => LiveStreams
  BY InvariantParts
<1> QED BY <1>1, InvariantHolds, PTL

(* Data queued by send_data is never stranded by the state machine: while  *)
(* a buffer holds data its stream may still send, and a pending END_STREAM *)
(* is behind data.                                                         *)
THEOREM QueuedDataIsSendable == Spec => []QueuedDataSendable
<1>1. RestType /\ TableInv => QueuedDataSendable
  BY InvariantParts
<1> QED BY <1>1, InvariantHolds, PTL

(* Every event that could unblock queued data - WINDOW_UPDATE of the       *)
(* stream or of the connection, SETTINGS_INITIAL_WINDOW_SIZE, more data -  *)
(* flushes what it unblocks: data is left only where a window is used up.  *)
THEOREM QueuedDataAwaitsWindow == Spec => []NoStalledData
<1>1. RestType /\ TableInv => NoStalledData
  BY InvariantParts
<1> QED BY <1>1, InvariantHolds, PTL

-----------------------------------------------------------------------------
(* The stream table: which identifiers are open, which are remembered as   *)
(* closed, and what the counters next to the table say of them.  Every     *)
(* operation is first reduced to its effect on the two sets; the           *)
(* invariants are then proved from the effects alone.                      *)
(* What a step can do to the open and the closed streams.                  *)

Steady == OpenStreams' \subseteq OpenStreams /\ UNCHANGED closed_streams

Closes(R) ==
  /\ R \subseteq OpenStreams
  /\ OpenStreams' \subseteq OpenStreams \ R
  /\ closed_streams' = ClosedInsert(R)

(* EnsureAndReset: s need not have been open.                              *)
Refuses(s) ==
  /\ OpenStreams' \subseteq OpenStreams \ {s}
  /\ closed_streams' = ClosedInsert({s})

Opens(s) == OpenStreams' \subseteq OpenStreams \cup {s} /\ UNCHANGED closed_streams

(* The counters and flags that the invariants relate the table to.         *)
counters == <<next_stream_id, last_recv_stream_id, last_successful_stream_id,
              header_continuation_stream, header_concurrent_limit_exceeded>>

(* A step that opens no stream and continues no header block.              *)
Ordinary == UNCHANGED counters /\ (Steady \/ \E R : Closes(R))

(* The end of a header block on s; limit: the flag noted when it began.    *)
BlockEnds(s, limit) ==
  \/ (Steady \/ Closes({s})) /\ UNCHANGED last_successful_stream_id
  \/ Refuses(s) /\ RecordSuccess(s)
  \/ ~limit /\ s \notin closed_streams /\ Opens(s) /\ RecordSuccess(s)

-----------------------------------------------------------------------------
LEMMA StoreEffect ==
  ASSUME TableType, NEW s, NEW r, streams' = [streams EXCEPT ![s] = r]
  PROVE  /\ OpenStreams' \subseteq OpenStreams \cup {s}
         /\ r = Absent => OpenStreams' \subseteq OpenStreams \ {s}
<1>1. \A t \in StreamIds : streams'[t] = IF t = s THEN r ELSE streams[t]
  BY DEF TableType
<1> QED BY <1>1 DEF OpenStreams, InMap

LEMMA TableKept ==
  ASSUME UNCHANGED table
  PROVE  Steady
BY DEF table, Steady, OpenStreams, InMap

LEMMA RemoveEffect ==
  ASSUME TableType, NEW s, RemoveStream(s)
  PROVE  Refuses(s) /\ (InMap(s) => Closes({s}))
<1>1. OpenStreams' \subseteq OpenStreams \ {s}
  BY StoreEffect DEF RemoveStream
<1> QED BY <1>1 DEF RemoveStream, Refuses, Closes, OpenStreams, InMap

LEMMA StoreOrCloseEffect ==
  ASSUME TableType, NEW s, NEW r, NEW closes, NEW reported,
         StoreOrClose(s, r, closes, reported)
  PROVE  /\ Refuses(s) \/ Opens(s)
         /\ InMap(s) => Steady \/ Closes({s})
<1>1. CASE closes
  BY <1>1, RemoveEffect DEF StoreOrClose
<1>2. CASE ~closes
  <2>1. OpenStreams' \subseteq OpenStreams \cup {s} /\ UNCHANGED closed_streams
    BY <1>2, StoreEffect DEF StoreOrClose
  <2>2. InMap(s) => OpenStreams' \subseteq OpenStreams
    BY <2>1 DEF InMap, OpenStreams
  <2> QED BY <2>1, <2>2 DEF Opens, Steady
<1> QED BY <1>1, <1>2

LEMMA ResetEffect ==
  ASSUME TableType, NEW s, NEW code, NEW n, ResetKnownStream(s, code, n)
  PROVE  Steady \/ Closes({s})
BY RemoveEffect, TableKept DEF ResetKnownStream

LEMMA FlushStreamEffect ==
  ASSUME TableType, NEW s, InMap(s), NEW r, NEW reported, FlushStream(s, r, reported)
  PROVE  Steady \/ Closes({s})
<1> DEFINE after == Flushed(r, FlushSize(r, send_window))
<1>1. \/ RemoveStream(s)
      \/ streams' = [streams EXCEPT ![s] = after] /\ UNCHANGED closed_streams
  BY Zenon DEF FlushStream
<1>2. CASE RemoveStream(s)
  BY <1>2, RemoveEffect
<1>3. CASE streams' = [streams EXCEPT ![s] = after] /\ UNCHANGED closed_streams
  <2>1. OpenStreams' \subseteq OpenStreams \cup {s}
    BY <1>3, StoreEffect
  <2>2. s \in OpenStreams
    BY DEF InMap, OpenStreams
  <2> QED BY <1>3, <2>1, <2>2 DEF Steady
<1> QED BY <1>1, <1>2, <1>3

LEMMA FlushAllEffect ==
  ASSUME NEW strs, \A s \in StreamIds : strs[s] # Absent => streams[s] # Absent,
         NEW window, NEW written, NEW reported, FlushAll(strs, window, written, reported)
  PROVE  \E R : Closes(R)
<1> DEFINE pending == {s \in StreamIds :
                         /\ strs[s] # Absent
                         /\ strs[s].send_buffer > 0 \/ strs[s].pending_end_stream}
<1>1. PICK sent \in [pending -> 0 .. BufferCapacity] :
        LET after   == [s \in pending |-> Flushed(strs[s], sent[s])]
            removed == {s \in pending : Removable(after[s])}
        IN  /\ streams' = [s \in StreamIds |-> IF s \in removed THEN Absent
                                               ELSE IF s \in pending THEN after[s]
                                               ELSE strs[s]]
            /\ closed_streams' = ClosedInsert(removed)
  BY DEF FlushAll
<1> DEFINE after   == [s \in pending |-> Flushed(strs[s], sent[s])]
           removed == {s \in pending : Removable(after[s])}
<1>2. removed \subseteq pending
  OBVIOUS
<1> HIDE DEF after, removed
<1>3. /\ streams' = [s \in StreamIds |-> IF s \in removed THEN Absent
                                         ELSE IF s \in pending THEN after[s]
                                         ELSE strs[s]]
      /\ closed_streams' = ClosedInsert(removed)
  BY <1>1 DEF after, removed
<1>4. pending \subseteq OpenStreams
  BY DEF OpenStreams, InMap
<1>5. OpenStreams' \subseteq OpenStreams \ removed
  BY <1>3 DEF OpenStreams, InMap
<1>6. Closes(removed)
  BY <1>2, <1>3, <1>4, <1>5 DEF Closes
<1> QED BY <1>6

-----------------------------------------------------------------------------
(* The operations.                                                         *)

LEMMA ErrorEffect ==
  ASSUME ConnectionError
  PROVE  Ordinary
<1>1. UNCHANGED table /\ UNCHANGED counters
  BY DEF ConnectionError, counters, identifiers, header_block
<1> QED BY <1>1, TableKept DEF Ordinary

(* Steps of the handshake, and those that leave the table alone.           *)
LEMMA QuietEffect ==
  ASSUME \/ Handshake \/ SendPing \/ SendGoaway
         \/ HandleSettingsAck \/ HandleGoaway \/ HandlePriority
         \/ (\E a \in Pings : HandlePing(a))
         \/ (\E s \in PeerIds : HandlePriorityUpdate(s))
  PROVE  Ordinary
<1>1. CASE ConnectionError
  BY <1>1, ErrorEffect
<1>2. CASE ~ConnectionError
  <2>1. UNCHANGED table /\ UNCHANGED counters
    BY <1>2 DEF Handshake, ReceivePreface, MarkPrefaceSent, Initiate, SendSettings,
                AnnounceSettings, SendPing, SendGoaway, HandleSettingsAck, HandleGoaway,
                HandlePriority, HandlePing, HandlePriorityUpdate, counters, identifiers,
                header_block
  <2> QED BY <2>1, TableKept DEF Ordinary
<1> QED BY <1>1, <1>2

LEMMA SendingEffect ==
  ASSUME TableType, NEW s,
         \/ \E status, end : SendResponse(s, status, end)
         \/ SendTrailers(s)
         \/ \E n, end : SendData(s, n, end)
  PROVE  Ordinary
<1>1. UNCHANGED counters
  BY DEF SendResponse, SendTrailers, SendData, counters, identifiers, header_block
<1>2. InMap(s)
  BY DEF SendResponse, SendTrailers, SendData
<1>3. Steady \/ Closes({s})
  <2>1. CASE \E status, end : SendResponse(s, status, end)
    <3>1. \E r, closes : StoreOrClose(s, r, closes, <<>>)
      BY <2>1, Zenon DEF SendResponse
    <3> QED BY <1>2, <3>1, StoreOrCloseEffect
  <2>2. CASE SendTrailers(s)
    <3>1. \E r, closes : StoreOrClose(s, r, closes, <<>>)
      BY <2>2, Zenon DEF SendTrailers
    <3> QED BY <1>2, <3>1, StoreOrCloseEffect
  <2>3. CASE \E n, end : SendData(s, n, end)
    <3>1. \E r : FlushStream(s, r, <<>>)
      BY <2>3, Zenon DEF SendData
    <3> QED BY <1>2, <3>1, FlushStreamEffect
  <2> QED BY <2>1, <2>2, <2>3
<1> QED BY <1>1, <1>3 DEF Ordinary

LEMMA ResettingEffect ==
  ASSUME TableType, NEW s,
         \/ \E c : ResetStream(s, c) \/ HandleRstStream(s, c)
         \/ DecoderStreamError(s)
         \/ HandleUnknown(s)
  PROVE  Ordinary
<1>1. CASE ConnectionError
  BY <1>1, ErrorEffect
<1>2. CASE ~ConnectionError
  <2>1. UNCHANGED counters
    BY <1>2 DEF ResetStream, HandleRstStream, DecoderStreamError, HandleUnknown, counters,
                identifiers, header_block
  <2>2. \/ \E code, n : ResetKnownStream(s, code, n)
        \/ RemoveStream(s) /\ InMap(s)
        \/ UNCHANGED table
    BY <1>2, Zenon DEF ResetStream, HandleRstStream, DecoderStreamError, HandleUnknown
  <2>3. Steady \/ Closes({s})
    BY <2>2, ResetEffect, RemoveEffect, TableKept
  <2> QED BY <2>1, <2>3 DEF Ordinary
<1> QED BY <1>1, <1>2

LEMMA SendWindowUpdateEffect ==
  ASSUME TableType, NEW s, NEW n, SendWindowUpdate(s, n)
  PROVE  Ordinary
<1>1. UNCHANGED counters /\ UNCHANGED closed_streams
  BY DEF SendWindowUpdate, counters, identifiers, header_block
<1>2. UNCHANGED streams
        \/ (InMap(s) /\ streams' = [streams EXCEPT ![s].recv_window = @ + n])
  BY Zenon DEF SendWindowUpdate
<1>3. CASE UNCHANGED streams
  BY <1>1, <1>3, TableKept DEF Ordinary, table
<1>4. CASE InMap(s) /\ streams' = [streams EXCEPT ![s].recv_window = @ + n]
  <2>1. OpenStreams' \subseteq OpenStreams \cup {s}
    BY <1>4, StoreEffect
  <2>2. s \in OpenStreams
    BY <1>4 DEF OpenStreams, InMap
  <2> QED BY <1>1, <2>1, <2>2 DEF Ordinary, Steady
<1> QED BY <1>2, <1>3, <1>4

LEMMA HandleDataEffect ==
  ASSUME TableType, NEW s, NEW len, NEW pad, NEW end, HandleData(s, len, pad, end)
  PROVE  Ordinary
<1>1. CASE ConnectionError
  BY <1>1, ErrorEffect
<1>2. CASE ~ConnectionError
  <2>1. UNCHANGED <<identifiers, header_block>>
    BY <1>2, Zenon DEF HandleData
  <2>2. UNCHANGED counters
    BY <2>1 DEF counters, identifiers, header_block
  <2>3. \/ UNCHANGED table
        \/ \E code, n : ResetKnownStream(s, code, n)
        \/ InMap(s) /\ \E r, closes, reported : StoreOrClose(s, r, closes, reported)
    BY <1>2, Zenon DEF HandleData
  <2>4. Steady \/ Closes({s})
    BY <2>3, TableKept, ResetEffect, StoreOrCloseEffect
  <2> QED BY <2>2, <2>4 DEF Ordinary
<1> QED BY <1>1, <1>2

LEMMA SettingsEffect ==
  ASSUME NEW f \in PeerSettings, HandleSettings(f)
  PROVE  Ordinary
<1> DEFINE delta   == f.initial_window_size - remote_settings.initial_window_size
           shifted == [s \in StreamIds |->
                         IF InMap(s) THEN [streams[s] EXCEPT !.send_window = @ + delta]
                         ELSE Absent]
<1>1. CASE ConnectionError
  BY <1>1, ErrorEffect
<1>2. CASE ~ConnectionError
  <2>1. /\ \E written, reported : FlushAll(shifted, send_window, written, reported)
        /\ UNCHANGED <<identifiers, header_block>>
    BY <1>2, Zenon DEF HandleSettings
  <2>2. UNCHANGED counters
    BY <2>1 DEF counters, identifiers, header_block
  <2>3. \A s \in StreamIds : shifted[s] # Absent => streams[s] # Absent
    BY DEF InMap
  <2> QED BY <2>1, <2>2, <2>3, FlushAllEffect DEF Ordinary
<1> QED BY <1>1, <1>2

LEMMA WindowUpdateEffect ==
  ASSUME TableType, NEW n,
         HandleConnectionWindowUpdate(n) \/ \E s : HandleWindowUpdate(s, n)
  PROVE  Ordinary
<1>1. CASE ConnectionError
  BY <1>1, ErrorEffect
<1>2. CASE ~ConnectionError /\ HandleConnectionWindowUpdate(n)
  <2>1. /\ \E written, reported : FlushAll(streams, send_window + n, written, reported)
        /\ UNCHANGED <<identifiers, header_block>>
    BY <1>2, Zenon DEF HandleConnectionWindowUpdate
  <2>2. UNCHANGED counters
    BY <2>1 DEF counters, identifiers, header_block
  <2> QED BY <2>1, <2>2, FlushAllEffect DEF Ordinary
<1>3. CASE ~ConnectionError /\ \E s : HandleWindowUpdate(s, n)
  <2>1. PICK s : HandleWindowUpdate(s, n)
    BY <1>3
  <2>2. UNCHANGED <<identifiers, header_block>>
    BY <1>3, <2>1, Zenon DEF HandleWindowUpdate
  <2>3. UNCHANGED counters
    BY <2>2 DEF counters, identifiers, header_block
  <2>4. \/ UNCHANGED table
        \/ \E code : ResetKnownStream(s, code, 0)
        \/ InMap(s) /\ \E r, reported : FlushStream(s, r, reported)
    BY <1>3, <2>1, Zenon DEF HandleWindowUpdate
  <2>5. Steady \/ Closes({s})
    BY <2>4, TableKept, ResetEffect, FlushStreamEffect
  <2> QED BY <2>3, <2>5 DEF Ordinary
<1> QED BY <1>1, <1>2, <1>3

LEMMA StartStreamEffect ==
  ASSUME TableType, NEW m, NEW end, StartStream(m, end)
  PROVE  /\ Role = "client" /\ ~failed /\ state # "GoawayReceived"
         /\ Opens(next_stream_id)
         /\ next_stream_id' = next_stream_id + 2
         /\ UNCHANGED <<last_recv_stream_id, last_successful_stream_id,
                        header_continuation_stream, header_concurrent_limit_exceeded>>
<1>1. /\ Role = "client" /\ ~failed /\ state # "GoawayReceived"
      /\ next_stream_id' = next_stream_id + 2
      /\ UNCHANGED <<closed_streams, last_recv_stream_id, last_successful_stream_id,
                     header_block>>
      /\ \E r : streams' = [streams EXCEPT ![next_stream_id] = r]
  BY Zenon DEF StartStream
<1>2. OpenStreams' \subseteq OpenStreams \cup {next_stream_id}
  BY <1>1, StoreEffect
<1> QED BY <1>1, <1>2 DEF Opens, header_block

LEMMA CompleteBlockEffect ==
  ASSUME TableType, NEW s, NEW h, NEW end, NEW limit, NEW tunnel,
         CompleteBlock(s, h, end, s \in closed_streams, limit, tunnel)
  PROVE  BlockEnds(s, limit)
<1>1. CASE UNCHANGED <<table, last_successful_stream_id>>
  BY <1>1, TableKept DEF BlockEnds
<1>2. CASE RecordSuccess(s) /\ \E code : EnsureAndReset(s, code)
  BY <1>2, RemoveEffect DEF BlockEnds, EnsureAndReset
<1>3. CASE ResetKnownStream(s, "PROTOCOL_ERROR", 0) /\ UNCHANGED last_successful_stream_id
  BY <1>3, ResetEffect DEF BlockEnds
<1>4. CASE /\ s \notin closed_streams /\ ~limit /\ RecordSuccess(s)
           /\ ProcessHeaders(s, h, end)
  <2>1. \/ \E code : EnsureAndReset(s, code)
        \/ \E r, closes, reported : StoreOrClose(s, r, closes, reported)
    BY <1>4, Zenon DEF ProcessHeaders
  <2>2. Refuses(s) \/ Opens(s)
    BY <2>1, RemoveEffect, StoreOrCloseEffect DEF EnsureAndReset
  <2> QED BY <1>4, <2>2 DEF BlockEnds
<1> QED BY <1>1, <1>2, <1>3, <1>4, Zenon DEF CompleteBlock

-----------------------------------------------------------------------------
(* The steps of the specification by their effects.                        *)

Starts ==
  /\ Role = "client" /\ ~failed /\ state # "GoawayReceived"
  /\ Opens(next_stream_id)
  /\ next_stream_id' = next_stream_id + 2
  /\ UNCHANGED <<last_recv_stream_id, last_successful_stream_id,
                 header_continuation_stream, header_concurrent_limit_exceeded>>

(* Peers name streams the client has started, with an odd identifier.      *)
Named(s) == s \in StreamIds /\ (Role = "client" => s < next_stream_id)

(* HEADERS with END_HEADERS on s.                                          *)
Receives(s) ==
  /\ Named(s)
  /\ ~HeadersRejected(s)
  /\ header_continuation_stream = NoStream
  /\ last_recv_stream_id' = Greatest(s, last_recv_stream_id)
  /\ BlockEnds(s, header_concurrent_limit_exceeded \/ OverLimit(s))
  /\ UNCHANGED <<next_stream_id, header_continuation_stream>>

(* HEADERS without END_HEADERS on s.                                       *)
Begins(s) ==
  /\ Named(s)
  /\ ~HeadersRejected(s)
  /\ Steady
  /\ last_recv_stream_id' = Greatest(s, last_recv_stream_id)
  /\ header_continuation_stream' = s
  /\ header_concurrent_limit_exceeded' = (header_concurrent_limit_exceeded \/ OverLimit(s))
  /\ UNCHANGED <<next_stream_id, last_successful_stream_id, table>>

(* The last CONTINUATION of a block.                                       *)
Concludes(s) ==
  /\ Named(s)
  /\ s = header_continuation_stream
  /\ header_continuation_stream' = NoStream
  /\ BlockEnds(s, header_concurrent_limit_exceeded)
  /\ UNCHANGED <<next_stream_id, last_recv_stream_id>>

LEMMA HandleHeadersEffect ==
  ASSUME TableType, NEW s \in PeerIds, NEW h, NEW end, Admitted("HEADERS", s),
         HandleHeaders(s, h, end)
  PROVE  Ordinary \/ Receives(s)
<1>1. CASE ConnectionError
  BY <1>1, ErrorEffect
<1>2. CASE ~ConnectionError
  <2>1. /\ ~HeadersRejected(s)
        /\ last_recv_stream_id' = Greatest(s, last_recv_stream_id)
        /\ \E tunnel :
             CompleteBlock(s, h, end, s \in closed_streams,
                           header_concurrent_limit_exceeded \/ OverLimit(s), tunnel)
        /\ UNCHANGED <<next_stream_id, header_continuation_stream>>
    BY <1>2, Zenon DEF HandleHeaders
  <2>2. BlockEnds(s, header_concurrent_limit_exceeded \/ OverLimit(s))
    BY <2>1, CompleteBlockEffect
  <2>3. s \in StreamIds
    BY <2>1, HeadersAccepted
  <2>4. Named(s)
    BY <2>3 DEF Named, PeerIds, StreamIds
  <2>5. header_continuation_stream = NoStream
    BY DEF Admitted
  <2> QED BY <2>1, <2>2, <2>4, <2>5 DEF Receives
<1> QED BY <1>1, <1>2

LEMMA HandleHeadersSplitEffect ==
  ASSUME NEW s \in PeerIds, NEW n, NEW end, HandleHeadersSplit(s, n, end)
  PROVE  Ordinary \/ Begins(s)
<1>1. CASE ConnectionError
  BY <1>1, ErrorEffect
<1>2. CASE ~ConnectionError
  <2>1. /\ ~HeadersRejected(s)
        /\ last_recv_stream_id' = Greatest(s, last_recv_stream_id)
        /\ header_continuation_stream' = s
        /\ header_concurrent_limit_exceeded'
             = (header_concurrent_limit_exceeded \/ OverLimit(s))
        /\ UNCHANGED <<table, next_stream_id, last_successful_stream_id>>
    BY <1>2, Zenon DEF HandleHeadersSplit
  <2>2. s \in StreamIds
    BY <2>1, HeadersAccepted
  <2>3. Named(s)
    BY <2>2 DEF Named, PeerIds, StreamIds
  <2>4. Steady
    BY <2>1, TableKept
  <2> QED BY <2>1, <2>3, <2>4 DEF Begins
<1> QED BY <1>1, <1>2

LEMMA HandleContinuationEffect ==
  ASSUME RestType, TableType, NEW s \in PeerIds, NEW n,
         HandleContinuationMore(s, n) \/ \E h : HandleContinuation(s, n, h)
  PROVE  Ordinary \/ Concludes(s)
<1>1. CASE ConnectionError
  BY <1>1, ErrorEffect
<1>2. CASE ~ConnectionError /\ HandleContinuationMore(s, n)
  <2>1. UNCHANGED table /\ UNCHANGED counters
    BY <1>2 DEF HandleContinuationMore, counters, identifiers
  <2> QED BY <2>1, TableKept DEF Ordinary
<1>3. CASE ~ConnectionError /\ \E h : HandleContinuation(s, n, h)
  <2>1. /\ s = header_continuation_stream
        /\ header_continuation_stream' = NoStream
        /\ \E h, end, tunnel :
             CompleteBlock(s, h, end, s \in closed_streams,
                           header_concurrent_limit_exceeded, tunnel)
        /\ UNCHANGED <<next_stream_id, last_recv_stream_id>>
    BY <1>3, Zenon DEF HandleContinuation
  <2>2. BlockEnds(s, header_concurrent_limit_exceeded)
    BY <2>1, CompleteBlockEffect
  <2>3. s \in StreamIds
    BY <2>1 DEF RestType, NoStream, PeerIds, WireIds
  <2>4. Named(s)
    BY <2>3 DEF Named, PeerIds, StreamIds
  <2> QED BY <2>1, <2>2, <2>4 DEF Concludes
<1> QED BY <1>1, <1>2, <1>3

LEMMA ApplicationEffect ==
  ASSUME TableType, Application
  PROVE  Ordinary \/ Starts
<1>1. CASE \E m \in Requests, end \in BOOLEAN : StartStream(m, end)
  BY <1>1, StartStreamEffect DEF Starts
<1>2. CASE \E s \in OpenStreams :
             \/ \E r \in Responses, end \in BOOLEAN : SendResponse(s, r, end)
             \/ SendTrailers(s)
             \/ \E n \in AppSizes, end \in BOOLEAN : SendData(s, n, end)
  BY <1>2, SendingEffect
<1>3. CASE \E s \in KnownStreams, c \in Codes : ResetStream(s, c)
  BY <1>3, ResettingEffect
<1>4. CASE SendPing \/ SendGoaway
  BY <1>4, QuietEffect
<1>5. CASE \E s \in {0} \cup KnownStreams, n \in Credits : SendWindowUpdate(s, n)
  BY <1>5, SendWindowUpdateEffect
<1> QED BY <1>1, <1>2, <1>3, <1>4, <1>5 DEF Application

LEMMA PeerHeadersEffect ==
  ASSUME RestType, TableType, PeerHeaders
  PROVE  Ordinary \/ \E s : Receives(s) \/ Begins(s) \/ Concludes(s)
<1>1. CASE \E s \in PeerIds, h \in Blocks, end \in BOOLEAN :
             Admitted("HEADERS", s) /\ HandleHeaders(s, h, end)
  BY <1>1, HandleHeadersEffect
<1>2. CASE \E s \in PeerIds, n \in Fragments, end \in BOOLEAN : HandleHeadersSplit(s, n, end)
  BY <1>2, HandleHeadersSplitEffect
<1>3. CASE \E s \in PeerIds, n \in Fragments :
             HandleContinuationMore(s, n) \/ \E h \in Blocks : HandleContinuation(s, n, h)
  BY <1>3, HandleContinuationEffect
<1> QED BY <1>1, <1>2, <1>3 DEF PeerHeaders

LEMMA PeerFramesEffect ==
  ASSUME TableType, PeerFrames
  PROVE  Ordinary
<1>1. CASE RejectFrame
  BY <1>1, ErrorEffect DEF RejectFrame
<1>2. CASE \E s \in PeerIds :
             \/ DecoderStreamError(s) \/ HandleUnknown(s)
             \/ \E c \in Codes : HandleRstStream(s, c)
  BY <1>2, ResettingEffect
<1>3. CASE \E s \in PeerIds, n \in PeerSizes, p \in Pads, end \in BOOLEAN :
             HandleData(s, n, p, end)
  BY <1>3, HandleDataEffect
<1>4. CASE \E f \in PeerSettings : HandleSettings(f)
  BY <1>4, SettingsEffect
<1>5. CASE \/ HandleSettingsAck \/ HandleGoaway \/ HandlePriority
           \/ \E a \in Pings : HandlePing(a)
           \/ \E s \in PeerIds : HandlePriorityUpdate(s)
  BY <1>5, QuietEffect
<1>6. CASE \E n \in Increments :
             HandleConnectionWindowUpdate(n) \/ \E s \in PeerIds : HandleWindowUpdate(s, n)
  BY <1>6, WindowUpdateEffect
<1> QED BY <1>1, <1>2, <1>3, <1>4, <1>5, <1>6 DEF PeerFrames

LEMMA NextEffect ==
  ASSUME RestType, TableInv, [Next]_vars
  PROVE  Ordinary \/ Starts \/ \E s : Receives(s) \/ Begins(s) \/ Concludes(s)
<1>1. TableType
  BY DEF TableInv
<1>2. CASE Next
  BY <1>1, <1>2, QuietEffect, ApplicationEffect, PeerHeadersEffect, PeerFramesEffect DEF Next
<1>3. CASE UNCHANGED vars
  <2>1. UNCHANGED table /\ UNCHANGED counters
    BY <1>3 DEF vars, counters, identifiers, header_block
  <2> QED BY <2>1, TableKept DEF Ordinary
<1> QED BY <1>2, <1>3

-----------------------------------------------------------------------------
(* The identifiers in the table against the counters.                      *)

(* s is not beyond what the endpoint has opened or seen.                   *)
Within(s) == IF Role = "client" THEN s < next_stream_id ELSE s <= last_recv_stream_id

(* TableConsistent and GoawayCoversStreams, and the stream of a header     *)
(* block in progress: it is created by the last CONTINUATION, long after   *)
(* handle_headers has moved last_recv_stream_id.                           *)
Bookkeeping ==
  /\ TableConsistent
  /\ GoawayCoversStreams
  /\ Role = "server" => header_continuation_stream <= last_recv_stream_id

LEMMA ClosedInsertSubset ==
  ASSUME NEW S
  PROVE  ClosedInsert(S) \subseteq closed_streams \cup S
BY DEF ClosedInsert

(* A step opens some of N and remembers some of R as closed.               *)
LEMMA ConsistentFrom ==
  ASSUME TableConsistent, NEW N, NEW R,
         OpenStreams' \subseteq OpenStreams \cup N,
         closed_streams' \subseteq closed_streams \cup R,
         N \cap closed_streams = {},
         R \cap OpenStreams' = {},
         \A s \in KnownStreams \cup N \cup R : Within(s)'
  PROVE  TableConsistent'
<1>1. OpenStreams \cap closed_streams = {}
  BY DEF TableConsistent
<1>2. OpenStreams' \cap closed_streams' = {}
  BY <1>1
<1>3. \A s \in KnownStreams' : Within(s)'
  BY DEF KnownStreams
<1> QED BY <1>2, <1>3 DEF TableConsistent, Within

LEMMA ConsistentSteady ==
  ASSUME TableConsistent, Steady, \A s \in KnownStreams : Within(s)'
  PROVE  TableConsistent'
<1>1. OpenStreams' \cap closed_streams' = {}
  BY DEF TableConsistent, Steady
<1>2. \A s \in KnownStreams' : Within(s)'
  BY DEF KnownStreams, Steady
<1> QED BY <1>1, <1>2 DEF TableConsistent, Within

LEMMA KnownNumbers ==
  ASSUME TableType
  PROVE  \A s \in KnownStreams : s \in Nat
BY DEF TableType, KnownStreams, OpenStreams, StreamIds

(* The counters grow.                                                      *)
LEMMA WithinKept ==
  ASSUME TableType, RestType, TableConsistent,
         next_stream_id' \in Nat, next_stream_id' >= next_stream_id,
         last_recv_stream_id' \in Nat, last_recv_stream_id' >= last_recv_stream_id
  PROVE  \A s \in KnownStreams : Within(s)'
<1>1. \A s \in KnownStreams : s \in Nat /\ Within(s)
  BY KnownNumbers DEF TableConsistent, Within
<1>2. next_stream_id \in Nat /\ last_recv_stream_id \in Nat
  BY DEF RestType
<1> SUFFICES ASSUME NEW s \in KnownStreams PROVE Within(s)'
  OBVIOUS
<1> QED BY <1>1, <1>2 DEF Within

LEMMA OrdinaryKeepsBooks ==
  ASSUME RestType, TableType, Bookkeeping, Ordinary
  PROVE  Bookkeeping'
<1>1. \A s \in KnownStreams : Within(s)'
  BY WithinKept DEF Bookkeeping, Ordinary, counters, RestType
<1>2. OpenStreams' \subseteq OpenStreams
  BY DEF Ordinary, Steady, Closes
<1>3. TableConsistent'
  <2>1. CASE Steady
    BY <1>1, <2>1, ConsistentSteady DEF Bookkeeping
  <2>2. CASE \E R : Closes(R)
    <3>1. PICK R : Closes(R)
      BY <2>2
    <3>2. closed_streams' \subseteq closed_streams \cup R
      BY <3>1, ClosedInsertSubset DEF Closes
    <3>3. \A s \in R : s \in KnownStreams
      BY <3>1 DEF Closes, KnownStreams
    <3>4. R \cap OpenStreams' = {}
      BY <3>1 DEF Closes
    <3> QED BY <1>1, <1>2, <3>2, <3>3, <3>4, ConsistentFrom DEF Bookkeeping
  <2> QED BY <2>1, <2>2 DEF Ordinary
<1>4. GoawayCoversStreams'
  BY <1>2 DEF Bookkeeping, GoawayCoversStreams, Ordinary, counters
<1> QED BY <1>3, <1>4 DEF Bookkeeping, Ordinary, counters

LEMMA StartsKeepsBooks ==
  ASSUME RestType, TableType, Bookkeeping, Starts
  PROVE  Bookkeeping'
<1>1. next_stream_id \in Nat /\ last_recv_stream_id \in Nat
  BY DEF RestType
<1>2. \A s \in KnownStreams : Within(s)'
  BY <1>1, WithinKept DEF Bookkeeping, Starts
<1>3. next_stream_id \notin closed_streams
  BY <1>1 DEF Bookkeeping, TableConsistent, KnownStreams, Starts
<1>4. \A s \in {next_stream_id} : Within(s)'
  BY <1>1 DEF Within, Starts
<1>5. TableConsistent'
  <2> DEFINE N == {next_stream_id}
  <2>1. /\ OpenStreams' \subseteq OpenStreams \cup N
        /\ closed_streams' \subseteq closed_streams \cup {}
        /\ N \cap closed_streams = {}
        /\ \A s \in KnownStreams \cup N \cup {} : Within(s)'
    BY <1>2, <1>3, <1>4 DEF Starts, Opens
  <2> HIDE DEF N
  <2> QED BY <2>1, ConsistentFrom DEF Bookkeeping
<1> QED BY <1>5, RoleAssumption DEF Bookkeeping, GoawayCoversStreams, Starts

(* The end of a block on a stream the endpoint has seen.                   *)
LEMMA BlockKeepsBooks ==
  ASSUME RestType, TableType, Bookkeeping, NEW s \in StreamIds, NEW limit,
         BlockEnds(s, limit), Within(s)', UNCHANGED next_stream_id,
         last_recv_stream_id' \in Nat, last_recv_stream_id' >= last_recv_stream_id
  PROVE  TableConsistent' /\ GoawayCoversStreams'
<1>1. \A t \in KnownStreams : Within(t)'
  BY WithinKept DEF Bookkeeping, RestType
<1>2. \/ Steady
      \/ Closes({s}) \/ Refuses(s)
      \/ s \notin closed_streams /\ Opens(s)
  BY Zenon DEF BlockEnds
<1>3. TableConsistent'
  <2> DEFINE N == {s}
  <2>1. \A t \in KnownStreams \cup N : Within(t)'
    BY <1>1
  <2>2. CASE Steady
    BY <1>1, <2>2, ConsistentSteady DEF Bookkeeping
  <2>3. CASE Closes({s}) \/ Refuses(s)
    <3>1. /\ closed_streams' \subseteq closed_streams \cup N
          /\ OpenStreams' \subseteq OpenStreams \cup {}
          /\ N \cap OpenStreams' = {}
      BY <2>3, ClosedInsertSubset DEF Closes, Refuses
    <3> HIDE DEF N
    <3> QED BY <2>1, <3>1, ConsistentFrom DEF Bookkeeping
  <2>4. CASE s \notin closed_streams /\ Opens(s)
    <3>1. /\ closed_streams' \subseteq closed_streams \cup {}
          /\ OpenStreams' \subseteq OpenStreams \cup N
          /\ N \cap closed_streams = {}
      BY <2>4 DEF Opens
    <3> HIDE DEF N
    <3> QED BY <2>1, <3>1, ConsistentFrom DEF Bookkeeping
  <2> QED BY <1>2, <2>2, <2>3, <2>4
<1>4. GoawayCoversStreams'
  <2>1. /\ last_successful_stream_id \in Nat
        /\ s \in Nat
        /\ \A t \in OpenStreams : t \in Nat
    BY DEF RestType, StreamIds, OpenStreams
  <2>2. \/ OpenStreams' \subseteq OpenStreams /\ UNCHANGED last_successful_stream_id
        \/ OpenStreams' \subseteq OpenStreams \cup {s} /\ RecordSuccess(s)
    BY DEF BlockEnds, Steady, Closes, Refuses, Opens
  <2>3. SUFFICES ASSUME Role = "server", NEW t \in OpenStreams'
                 PROVE  t <= last_successful_stream_id'
    BY DEF GoawayCoversStreams
  <2>4. \A u \in OpenStreams : u <= last_successful_stream_id
    BY <2>3 DEF Bookkeeping, GoawayCoversStreams
  <2>5. CASE OpenStreams' \subseteq OpenStreams /\ UNCHANGED last_successful_stream_id
    BY <2>4, <2>5
  <2>6. CASE OpenStreams' \subseteq OpenStreams \cup {s} /\ RecordSuccess(s)
    BY <2>1, <2>4, <2>6 DEF RecordSuccess, Greatest
  <2> QED BY <2>2, <2>5, <2>6
<1> QED BY <1>3, <1>4

LEMMA HeadersKeepBooks ==
  ASSUME RestType, TableType, Bookkeeping, NEW s, Receives(s) \/ Begins(s) \/ Concludes(s)
  PROVE  Bookkeeping'
<1>1. /\ Named(s)
      /\ s \in StreamIds /\ s \in Nat
      /\ next_stream_id \in Nat /\ UNCHANGED next_stream_id
      /\ last_recv_stream_id \in Nat
  BY DEF Receives, Begins, Concludes, Named, RestType, StreamIds
<1>2. /\ last_recv_stream_id' \in Nat
      /\ last_recv_stream_id' >= last_recv_stream_id
      /\ Role = "server" => s <= last_recv_stream_id'
  BY <1>1 DEF Receives, Begins, Concludes, Greatest, Bookkeeping
<1>3. Within(s)'
  BY <1>1, <1>2, RoleAssumption DEF Within, Named
<1>4. TableConsistent' /\ GoawayCoversStreams'
  <2>1. CASE Receives(s) \/ Concludes(s)
    BY <1>1, <1>2, <1>3, <2>1, BlockKeepsBooks DEF Receives, Concludes
  <2>2. CASE Begins(s)
    <3>1. BlockEnds(s, TRUE)
      BY <2>2 DEF Begins, BlockEnds
    <3> QED BY <1>1, <1>2, <1>3, <3>1, BlockKeepsBooks
  <2> QED BY <2>1, <2>2
<1>5. Role = "server" => header_continuation_stream' <= last_recv_stream_id'
  BY <1>1, <1>2 DEF Receives, Begins, Concludes, NoStream
<1> QED BY <1>4, <1>5 DEF Bookkeeping

LEMMA BookkeepingHolds == Spec => []Bookkeeping
<1>1. Init => Bookkeeping
  <2> SUFFICES ASSUME Init PROVE Bookkeeping
    OBVIOUS
  <2>1. OpenStreams = {} /\ closed_streams = {}
    BY DEF Init, OpenStreams, InMap
  <2>2. header_continuation_stream = 0 /\ last_recv_stream_id = 0
    BY DEF Init, NoStream
  <2> QED BY <2>1, <2>2 DEF Bookkeeping, TableConsistent, GoawayCoversStreams, KnownStreams
<1>2. RestType /\ TableInv /\ Bookkeeping /\ [Next]_vars => Bookkeeping'
  BY NextEffect, OrdinaryKeepsBooks, StartsKeepsBooks, HeadersKeepBooks DEF TableInv
<1> QED BY <1>1, <1>2, InvariantHolds, PTL DEF Spec

(* The stream map and the memory of closed streams never disagree about an *)
(* identifier, and neither holds one that the endpoint has not opened or   *)
(* seen: not when a header block is completed by CONTINUATION after the    *)
(* stream was closed, reset or forgotten, not when a flush closes several  *)
(* streams at once, and not when the memory is full.                       *)
THEOREM TableStaysConsistent == Spec => []TableConsistent
<1>1. Bookkeeping => TableConsistent
  BY DEF Bookkeeping
<1> QED BY <1>1, BookkeepingHolds, PTL

(* Whatever the order of HEADERS, CONTINUATION, resets and GOAWAY, every   *)
(* stream a server has in its map is covered by the last-stream-id it      *)
(* would announce: the handlers record a stream in the step that opens it. *)
THEOREM GoawayCovers == Spec => []GoawayCoversStreams
<1>1. Bookkeeping => GoawayCoversStreams
  BY DEF Bookkeeping
<1> QED BY <1>1, BookkeepingHolds, PTL

-----------------------------------------------------------------------------
(* The limit on concurrent streams.                                        *)

(* The memory of closed streams holds no more than its bound: an insertion *)
(* of nothing evicts nothing.                                              *)
Trimmed ==
  \A s \in closed_streams : Cardinality({t \in closed_streams : t > s}) < ClosedCapacity

(* A header block in progress was within the limit when it began.  Its     *)
(* stream may have been open or closed then, and forgotten since; each     *)
(* stream that pushed it out of the memory has left the map.               *)
SlotReserved ==
  /\ header_continuation_stream # NoStream
  /\ ~header_concurrent_limit_exceeded
  /\ header_continuation_stream \notin KnownStreams
  => Cardinality(OpenStreams) < MaxConcurrent

SlotsInv == Role = "server" => ConcurrencyBound /\ Trimmed /\ SlotReserved

LEMMA FiniteIds == IsFiniteSet(StreamIds)
<1>1. IsFiniteSet(1 .. MaxStreamId) /\ StreamIds \in SUBSET (1 .. MaxStreamId)
  BY FS_Interval, SizeAssumption DEF StreamIds
<1> QED BY <1>1, FS_Subset

LEMMA FewerStreams ==
  ASSUME NEW S \in SUBSET StreamIds, NEW T \in SUBSET S
  PROVE  /\ Cardinality(S) \in Nat
         /\ Cardinality(T) \in Nat
         /\ Cardinality(T) <= Cardinality(S)
         /\ T # S => Cardinality(T) < Cardinality(S)
<1>1. IsFiniteSet(S)
  BY FiniteIds, FS_Subset
<1>2. IsFiniteSet(T) /\ Cardinality(T) <= Cardinality(S)
      /\ (Cardinality(S) = Cardinality(T) => S = T)
  BY <1>1, FS_Subset
<1>3. Cardinality(S) \in Nat /\ Cardinality(T) \in Nat
  BY <1>1, <1>2, FS_CardinalityType
<1> QED BY <1>2, <1>3

LEMMA OneMore ==
  ASSUME NEW S \in SUBSET StreamIds, NEW s \in StreamIds
  PROVE  Cardinality(S \cup {s}) <= Cardinality(S) + 1
<1>1. IsFiniteSet(S)
  BY FiniteIds, FS_Subset
<1>2. Cardinality(S) \in Nat
  BY <1>1, FS_CardinalityType
<1>3. Cardinality(S \cup {s}) = IF s \in S THEN Cardinality(S) ELSE Cardinality(S) + 1
  BY <1>1, FS_AddElement
<1> QED BY <1>2, <1>3

(* No stream in the map is Closed, so all of them count.                   *)
LEMMA AllCount ==
  ASSUME TableInv
  PROVE  CurrentOpen = Cardinality(OpenStreams)
<1>1. {s \in OpenStreams : streams[s].state # "Closed"} = OpenStreams
  BY DEF TableInv, TableGood, Good, Live, OpenStreams, InMap
<1> QED BY <1>1 DEF CurrentOpen

LEMMA InsertTrims ==
  ASSUME TableType, NEW R \in SUBSET StreamIds, closed_streams' = ClosedInsert(R)
  PROVE  Trimmed'
<1> DEFINE all == closed_streams \cup R
           new == {s \in all : Cardinality({t \in all : t > s}) < ClosedCapacity}
<1>1. all \in SUBSET StreamIds /\ closed_streams' = new /\ new \subseteq all
  BY DEF TableType, ClosedInsert
<1>2. ASSUME NEW s \in new
      PROVE  Cardinality({t \in new : t > s}) < ClosedCapacity
  <2> DEFINE more == {t \in all : t > s}
             less == {t \in new : t > s}
  <2>1. more \in SUBSET StreamIds /\ less \in SUBSET more
    BY <1>1
  <2>2. Cardinality(more) < ClosedCapacity
    BY <1>2
  <2> HIDE DEF more, less
  <2>3. Cardinality(less) <= Cardinality(more) /\ Cardinality(less) \in Nat
        /\ Cardinality(more) \in Nat
    BY <2>1, FewerStreams
  <2>4. Cardinality(less) < ClosedCapacity
    BY <2>2, <2>3, SizeAssumption
  <2> QED BY <2>4 DEF less
<1> HIDE DEF new
<1> QED BY <1>1, <1>2 DEF Trimmed

LEMMA InsertNothing ==
  ASSUME Trimmed
  PROVE  ClosedInsert({}) = closed_streams
<1>1. closed_streams \cup {} = closed_streams
  OBVIOUS
<1> QED BY <1>1 DEF ClosedInsert, Trimmed

LEMMA OrdinaryKeepsSlots ==
  ASSUME TableInv, SlotsInv, Ordinary
  PROVE  SlotsInv'
<1> SUFFICES ASSUME Role = "server" PROVE ConcurrencyBound' /\ Trimmed' /\ SlotReserved'
  BY DEF SlotsInv
<1>1. Cardinality(OpenStreams) <= MaxConcurrent /\ Trimmed /\ SlotReserved
  BY DEF SlotsInv, ConcurrencyBound
<1>2. /\ OpenStreams \in SUBSET StreamIds
      /\ OpenStreams' \in SUBSET OpenStreams
  BY DEF OpenStreams, Ordinary, Steady, Closes
<1>3. /\ Cardinality(OpenStreams) \in Nat
      /\ Cardinality(OpenStreams') \in Nat
      /\ Cardinality(OpenStreams') <= Cardinality(OpenStreams)
      /\ OpenStreams' # OpenStreams => Cardinality(OpenStreams') < Cardinality(OpenStreams)
  BY <1>2, FewerStreams
<1>4. ConcurrencyBound'
  BY <1>1, <1>3, SizeAssumption DEF ConcurrencyBound
<1>5. UNCHANGED closed_streams \/ OpenStreams' # OpenStreams
  <2>1. CASE Steady
    BY <2>1 DEF Steady
  <2>2. ASSUME NEW R, Closes(R)
        PROVE  UNCHANGED closed_streams \/ OpenStreams' # OpenStreams
    <3>1. CASE R = {}
      BY <1>1, <2>2, <3>1, InsertNothing DEF Closes
    <3>2. CASE R # {}
      BY <2>2, <3>2 DEF Closes
    <3> QED BY <3>1, <3>2
  <2> QED BY <2>1, <2>2 DEF Ordinary
<1>6. Trimmed'
  <2>1. CASE UNCHANGED closed_streams
    BY <1>1, <2>1 DEF Trimmed
  <2>2. ASSUME NEW R, Closes(R)
        PROVE  Trimmed'
    <3>1. R \in SUBSET StreamIds
      BY <1>2, <2>2 DEF Closes
    <3> QED BY <2>2, <3>1, InsertTrims DEF Closes, TableInv
  <2> QED BY <2>1, <2>2 DEF Ordinary, Steady
<1>7. SlotReserved'
  <2>1. CASE OpenStreams' # OpenStreams
    BY <1>1, <1>3, <2>1, SizeAssumption DEF SlotReserved
  <2>2. CASE OpenStreams' = OpenStreams
    <3>1. KnownStreams' = KnownStreams
      BY <1>5, <2>2 DEF KnownStreams
    <3> QED BY <1>1, <2>2, <3>1 DEF SlotReserved, Ordinary, counters
  <2> QED BY <2>1, <2>2
<1> QED BY <1>4, <1>6, <1>7

(* A block ends; a stream it opens was counted when the block began.       *)
LEMMA BlockKeepsSlots ==
  ASSUME TableInv, SlotsInv, NEW s \in StreamIds, NEW limit, BlockEnds(s, limit),
         ~limit /\ s \notin KnownStreams /\ Role = "server"
           => Cardinality(OpenStreams) < MaxConcurrent,
         header_continuation_stream' = NoStream
  PROVE  SlotsInv'
<1> SUFFICES ASSUME Role = "server" PROVE ConcurrencyBound' /\ Trimmed' /\ SlotReserved'
  BY DEF SlotsInv
<1>1. Cardinality(OpenStreams) <= MaxConcurrent /\ Trimmed
  BY DEF SlotsInv, ConcurrencyBound
<1>2. OpenStreams \in SUBSET StreamIds /\ {s} \in SUBSET StreamIds
  BY DEF OpenStreams
<1>3. ConcurrencyBound'
  <2>1. CASE OpenStreams' \subseteq OpenStreams
    <3>1. /\ Cardinality(OpenStreams) \in Nat
          /\ Cardinality(OpenStreams') \in Nat
          /\ Cardinality(OpenStreams') <= Cardinality(OpenStreams)
      BY <1>2, <2>1, FewerStreams
    <3> QED BY <1>1, <3>1, SizeAssumption DEF ConcurrencyBound
  <2>2. CASE s \notin OpenStreams /\ ~limit /\ s \notin closed_streams /\ Opens(s)
    <3>1. Cardinality(OpenStreams) < MaxConcurrent
      BY <2>2 DEF KnownStreams
    <3>2. Cardinality(OpenStreams \cup {s}) <= Cardinality(OpenStreams) + 1
      BY <1>2, OneMore
    <3>3. /\ OpenStreams \cup {s} \in SUBSET StreamIds
          /\ OpenStreams' \in SUBSET (OpenStreams \cup {s})
          /\ OpenStreams \in SUBSET (OpenStreams \cup {s})
      BY <1>2, <2>2 DEF Opens
    <3>4. /\ Cardinality(OpenStreams') \in Nat
          /\ Cardinality(OpenStreams) \in Nat
          /\ Cardinality(OpenStreams \cup {s}) \in Nat
          /\ Cardinality(OpenStreams') <= Cardinality(OpenStreams \cup {s})
      BY <3>3, FewerStreams
    <3> QED BY <3>1, <3>2, <3>4, SizeAssumption DEF ConcurrencyBound
  <2> QED BY <2>1, <2>2 DEF BlockEnds, Steady, Closes, Refuses, Opens
<1>4. Trimmed'
  <2>1. CASE UNCHANGED closed_streams
    BY <1>1, <2>1 DEF Trimmed
  <2>2. CASE closed_streams' = ClosedInsert({s})
    BY <1>2, <2>2, InsertTrims DEF TableInv
  <2> QED BY <2>1, <2>2 DEF BlockEnds, Steady, Closes, Refuses, Opens
<1>5. SlotReserved'
  BY DEF SlotReserved
<1> QED BY <1>3, <1>4, <1>5

LEMMA HeadersKeepSlots ==
  ASSUME TableInv, SlotsInv, NEW s, Receives(s) \/ Begins(s) \/ Concludes(s)
  PROVE  SlotsInv'
<1>1. s \in StreamIds
  BY DEF Receives, Begins, Concludes, Named
<1>2. ~OverLimit(s) /\ s \notin KnownStreams => Cardinality(OpenStreams) < MaxConcurrent
  <2> SUFFICES ASSUME ~OverLimit(s), s \notin KnownStreams
               PROVE  Cardinality(OpenStreams) < MaxConcurrent
    OBVIOUS
  <2>1. s \notin closed_streams /\ ~InMap(s)
    BY <1>1 DEF KnownStreams, OpenStreams
  <2>2. ~(CurrentOpen >= MaxConcurrent)
    BY <2>1 DEF OverLimit
  <2>3. CurrentOpen = Cardinality(OpenStreams)
    BY AllCount
  <2>4. Cardinality(OpenStreams) \in Nat
    BY FewerStreams DEF OpenStreams
  <2> QED BY <2>2, <2>3, <2>4, SizeAssumption
<1>3. CASE Receives(s)
  BY <1>1, <1>2, <1>3, BlockKeepsSlots DEF Receives
<1>4. CASE Begins(s)
  <2>1. UNCHANGED <<OpenStreams, closed_streams, KnownStreams>>
    BY <1>4 DEF Begins, table, OpenStreams, InMap, KnownStreams
  <2>2. SlotsInv => (Role = "server" => ConcurrencyBound' /\ Trimmed')
    BY <2>1 DEF SlotsInv, ConcurrencyBound, Trimmed
  <2>3. SlotReserved'
    BY <1>2, <1>4, <2>1 DEF SlotReserved, Begins
  <2> QED BY <2>2, <2>3 DEF SlotsInv
<1>5. CASE Concludes(s)
  <2>1. ~header_concurrent_limit_exceeded /\ s \notin KnownStreams /\ Role = "server"
          => Cardinality(OpenStreams) < MaxConcurrent
    BY <1>1, <1>5 DEF SlotsInv, SlotReserved, Concludes, NoStream, StreamIds
  <2> QED BY <1>1, <1>5, <2>1, BlockKeepsSlots DEF Concludes
<1> QED BY <1>3, <1>4, <1>5

LEMMA SlotsHold == Spec => []SlotsInv
<1>1. Init => SlotsInv
  <2> SUFFICES ASSUME Init PROVE SlotsInv
    OBVIOUS
  <2>1. OpenStreams = {} /\ closed_streams = {} /\ header_continuation_stream = NoStream
    BY DEF Init, OpenStreams, InMap
  <2>2. Cardinality(OpenStreams) = 0
    BY <2>1, FS_EmptySet
  <2> QED BY <2>1, <2>2, SizeAssumption DEF SlotsInv, ConcurrencyBound, Trimmed, SlotReserved
<1>2. Starts => SlotsInv'
  BY RoleAssumption DEF Starts, SlotsInv
<1>3. RestType /\ TableInv /\ SlotsInv /\ [Next]_vars => SlotsInv'
  BY <1>2, NextEffect, OrdinaryKeepsSlots, HeadersKeepSlots
<1> QED BY <1>1, <1>3, InvariantHolds, PTL DEF Spec

(* A server never has more streams in its map than the limit it announced, *)
(* although a split header block is counted when it begins and opens its   *)
(* stream when it ends, and although the identifier it is for may be       *)
(* forgotten in between.                                                   *)
THEOREM ConcurrencyBounded == Spec => []ConcurrencyBound
<1>1. SlotsInv => ConcurrencyBound
  BY DEF SlotsInv, ConcurrencyBound
<1> QED BY <1>1, SlotsHold, PTL

-----------------------------------------------------------------------------
(* Short sequences of events and frames as sets.                           *)

LEMMA ShortSets ==
  /\ ToSet(<<>>) = {}
  /\ \A x : ToSet(<<x>>) = {x}
  /\ \A x, y : ToSet(<<x, y>>) = {x, y}
<1>1. ToSet(<<>>) = {}
  BY DEF ToSet
<1>2. ASSUME NEW x PROVE ToSet(<<x>>) = {x}
  BY DEF ToSet
<1>3. ASSUME NEW x, NEW y PROVE ToSet(<<x, y>>) = {x, y}
  BY DEF ToSet
<1> QED BY <1>1, <1>2, <1>3

(* SetToSeq lists every element of a finite set.                           *)
LEMMA SetToSeqLists ==
  ASSUME NEW S, IsFiniteSet(S)
  PROVE  /\ SetToSeq(S) \in [1 .. Cardinality(S) -> S]
         /\ \A x \in S : \E i \in 1 .. Cardinality(S) : SetToSeq(S)[i] = x
<1> DEFINE n == Cardinality(S)
           q == SetToSeq(S)
<1>1. n \in Nat /\ ExistsBijection(1 .. n, S)
  BY FS_CardinalityType
<1>2. \E f \in [1 .. n -> S] : IsInjective(f)
  BY <1>1 DEF ExistsBijection, Bijection, Injection
<1>3. q \in [1 .. n -> S] /\ IsInjective(q)
  BY <1>2 DEF SetToSeq
<1>4. q \in Injection(1 .. n, S)
  BY <1>3 DEF Injection
<1>5. Cardinality(1 .. n) = n
  BY <1>1, FS_Interval
<1>6. q \in Surjection(1 .. n, S)
  BY <1>4, <1>5, FS_Injection
<1> QED BY <1>3, <1>6 DEF Surjection

(* Concatenation joins the sets.                                           *)
LEMMA ConcatSets ==
  ASSUME NEW X, NEW p \in Seq(X), NEW q \in Seq(X)
  PROVE  ToSet(p \o q) = ToSet(p) \cup ToSet(q)
<1>1. /\ Len(p) \in Nat /\ Len(q) \in Nat
      /\ DOMAIN p = 1 .. Len(p) /\ DOMAIN q = 1 .. Len(q)
      /\ DOMAIN (p \o q) = 1 .. Len(p) + Len(q)
  OBVIOUS
<1>2. \A i \in 1 .. Len(p) : (p \o q)[i] = p[i]
  OBVIOUS
<1>3. \A i \in 1 .. Len(q) : (p \o q)[Len(p) + i] = q[i]
  OBVIOUS
<1>4. \A i \in 1 .. Len(p) + Len(q) : i \in 1 .. Len(p) \/ i - Len(p) \in 1 .. Len(q)
  BY <1>1
<1>5. ToSet(p \o q) \subseteq ToSet(p) \cup ToSet(q)
  <2> SUFFICES ASSUME NEW i \in 1 .. Len(p) + Len(q)
               PROVE  (p \o q)[i] \in ToSet(p) \cup ToSet(q)
    BY <1>1 DEF ToSet
  <2>1. CASE i \in 1 .. Len(p)
    BY <1>1, <1>2, <2>1 DEF ToSet
  <2>2. CASE i - Len(p) \in 1 .. Len(q)
    <3>1. (p \o q)[i] = q[i - Len(p)]
      BY <1>1, <1>3, <2>2
    <3> QED BY <1>1, <2>2, <3>1 DEF ToSet
  <2> QED BY <1>4, <2>1, <2>2
<1>6. ToSet(p) \subseteq ToSet(p \o q)
  <2> SUFFICES ASSUME NEW i \in 1 .. Len(p) PROVE p[i] \in ToSet(p \o q)
    BY <1>1 DEF ToSet
  <2> QED BY <1>1, <1>2 DEF ToSet
<1>7. ToSet(q) \subseteq ToSet(p \o q)
  <2> SUFFICES ASSUME NEW i \in 1 .. Len(q) PROVE q[i] \in ToSet(p \o q)
    BY <1>1 DEF ToSet
  <2>1. Len(p) + i \in 1 .. Len(p) + Len(q)
    BY <1>1
  <2> QED BY <1>1, <1>3, <2>1 DEF ToSet
<1> QED BY <1>5, <1>6, <1>7

(* What a flush of all streams writes and reports: a frame for each stream *)
(* it serves, the end of each one it closes, in whatever order.            *)
Pending(strs) ==
  {s \in StreamIds : /\ strs[s] # Absent
                     /\ strs[s].send_buffer > 0 \/ strs[s].pending_end_stream}

FlushShows(strs, sent, written, reported) ==
  LET after   == [s \in Pending(strs) |-> Flushed(strs[s], sent[s])]
      removed == {s \in Pending(strs) : Removable(after[s])}
      flushed == {s \in Pending(strs) : FlushWrites(strs[s], sent[s])}
  IN  /\ \A s \in Pending(strs) :
           sent[s] <= Least(strs[s].send_buffer, SendAvailable(strs[s].send_window))
      /\ streams' = [s \in StreamIds |-> IF s \in removed THEN Absent
                                         ELSE IF s \in Pending(strs) THEN after[s]
                                         ELSE strs[s]]
      /\ closed_streams' = ClosedInsert(removed)
      /\ ToSet(output') = ToSet(written) \cup
           {Data(s, sent[s], FlushEnds(strs[s], sent[s])) : s \in flushed}
      /\ ToSet(events') =
           {StreamEvent("StreamClosed", s) : s \in removed} \cup ToSet(reported)

LEMMA FlushAllShows ==
  ASSUME NEW strs, NEW window, NEW X, NEW written \in Seq(X), NEW reported \in Seq(X),
         FlushAll(strs, window, written, reported)
  PROVE  \E sent \in [Pending(strs) -> 0 .. BufferCapacity] :
           FlushShows(strs, sent, written, reported)
<1> DEFINE pending == Pending(strs)
           want == [s \in pending |-> Least(strs[s].send_buffer,
                                            SendAvailable(strs[s].send_window))]
<1>1. PICK sent \in [pending -> 0 .. BufferCapacity] :
        LET after   == [s \in pending |-> Flushed(strs[s], sent[s])]
            removed == {s \in pending : Removable(after[s])}
            flushed == {s \in pending : FlushWrites(strs[s], sent[s])}
            Frame(s)  == Data(s, sent[s], FlushEnds(strs[s], sent[s]))
            Closed(s) == StreamEvent("StreamClosed", s)
        IN  /\ \A s \in pending : sent[s] <= want[s]
            /\ streams' = [s \in StreamIds |-> IF s \in removed THEN Absent
                                               ELSE IF s \in pending THEN after[s]
                                               ELSE strs[s]]
            /\ closed_streams' = ClosedInsert(removed)
            /\ output' = written \o InTurn(flushed, Frame)
            /\ events' = InTurn(removed, Closed) \o reported
  BY DEF FlushAll, Pending
<1> DEFINE after   == [s \in pending |-> Flushed(strs[s], sent[s])]
           removed == {s \in pending : Removable(after[s])}
           flushed == {s \in pending : FlushWrites(strs[s], sent[s])}
           Frame(s)  == Data(s, sent[s], FlushEnds(strs[s], sent[s]))
           Closed(s) == StreamEvent("StreamClosed", s)
<1>2. IsFiniteSet(flushed) /\ IsFiniteSet(removed)
  BY FiniteIds, FS_Subset DEF Pending
<1>3. ToSet(output') = ToSet(written) \cup {Frame(s) : s \in flushed}
  <2> DEFINE q == SetToSeq(flushed)
             n == Cardinality(flushed)
             p == [i \in 1 .. n |-> Frame(q[i])]
             Y == X \cup {Frame(s) : s \in flushed}
  <2>1. /\ q \in [1 .. n -> flushed]
        /\ \A x \in flushed : \E i \in 1 .. n : q[i] = x
        /\ n \in Nat
    BY <1>2, SetToSeqLists, FS_CardinalityType
  <2>2. output' = written \o p
    BY <1>1, <2>1 DEF InTurn
  <2> HIDE DEF q, n, Frame, flushed
  <2>3. p \in Seq(Y) /\ written \in Seq(Y)
    BY <2>1
  <2>4. ToSet(p) = {Frame(s) : s \in flushed}
    BY <2>1 DEF ToSet
  <2> HIDE DEF p, Y
  <2> QED BY <2>2, <2>3, <2>4, ConcatSets
<1>4. ToSet(events') = {Closed(s) : s \in removed} \cup ToSet(reported)
  <2> DEFINE q == SetToSeq(removed)
             n == Cardinality(removed)
             p == [i \in 1 .. n |-> Closed(q[i])]
             Y == X \cup {Closed(s) : s \in removed}
  <2>1. /\ q \in [1 .. n -> removed]
        /\ \A x \in removed : \E i \in 1 .. n : q[i] = x
        /\ n \in Nat
    BY <1>2, SetToSeqLists, FS_CardinalityType
  <2>2. events' = p \o reported
    BY <1>1, <2>1 DEF InTurn
  <2> HIDE DEF q, n, Closed, removed
  <2>3. p \in Seq(Y) /\ reported \in Seq(Y)
    BY <2>1
  <2>4. ToSet(p) = {Closed(s) : s \in removed}
    BY <2>1 DEF ToSet
  <2> HIDE DEF p, Y
  <2> QED BY <2>2, <2>3, <2>4, ConcatSets
<1>5. \A s \in pending :
        sent[s] <= Least(strs[s].send_buffer, SendAvailable(strs[s].send_window))
  BY <1>1
<1>6. FlushShows(strs, sent, written, reported)
  BY <1>1, <1>3, <1>4, <1>5 DEF FlushShows
<1> QED BY <1>6

-----------------------------------------------------------------------------
(* What a step tells the application: something on streams of D only, and  *)
(* the end of exactly those of T.                                          *)
Tells(D, T) ==
  StreamsOf(Delivery, events') \subseteq D /\ StreamsOf(Terminal, events') = T

(* A step that opens no stream and reports the end of each one it closes.  *)
Calm ==
  \/ Steady /\ Tells(OpenStreams, {})
  \/ \E R : Closes(R) /\ Tells(OpenStreams, R)

(* s is taken up by the end of a header block.                             *)
Fresh(s) ==
  /\ Named(s)
  /\ s \notin closed_streams
  /\ \/ s \in OpenStreams
     \/ s > last_recv_stream_id
     \/ s = header_continuation_stream

Takes(s) ==
  \/ Refuses(s) /\ Tells({s}, {s})
  \/ Opens(s) /\ Tells({s}, {})

LEMMA TellsNothing ==
  ASSUME ToSet(events') = {}
  PROVE  \A D : Tells(D, {})
BY DEF Tells, StreamsOf

(* One event.                                                              *)
LEMMA TellsOne ==
  ASSUME NEW e, ToSet(events') = {e}
  PROVE  /\ Terminal(e) => Tells({e.stream}, {e.stream})
         /\ ~Terminal(e) => Tells({e.stream}, {})
         /\ ~Delivery(e) => Tells({}, {})
<1>1. Terminal(e) => Delivery(e)
  BY DEF Terminal, Delivery
<1>2. StreamsOf(Delivery, events') = IF Delivery(e) THEN {e.stream} ELSE {}
  BY Zenon DEF StreamsOf
<1>3. StreamsOf(Terminal, events') = IF Terminal(e) THEN {e.stream} ELSE {}
  BY Zenon DEF StreamsOf
<1> QED BY <1>1, <1>2, <1>3 DEF Tells

LEMMA TellsMore ==
  ASSUME NEW T, NEW D, D \subseteq OpenStreams, Tells(D, T)
  PROVE  Tells(OpenStreams, T)
BY DEF Tells

LEMMA QuietCalm ==
  ASSUME UNCHANGED table, \E D \in SUBSET OpenStreams : Tells(D, {})
  PROVE  Calm
BY TableKept, TellsMore DEF Calm

LEMMA NoEventsCalm ==
  ASSUME UNCHANGED table, events' = <<>>
  PROVE  Calm
<1>1. Tells({}, {})
  BY ShortSets, TellsNothing
<1> QED BY <1>1, QuietCalm

LEMMA OtherEventCalm ==
  ASSUME UNCHANGED table, NEW e, events' = <<e>>, ~Delivery(e)
  PROVE  Calm
<1>1. Tells({}, {})
  BY ShortSets, TellsOne
<1> QED BY <1>1, QuietCalm

LEMMA RemoveCalm ==
  ASSUME TableType, NEW s, InMap(s), RemoveStream(s), Tells({s}, {s})
  PROVE  Calm
<1>1. Closes({s}) /\ {s} \subseteq OpenStreams
  BY RemoveEffect DEF OpenStreams, InMap
<1>2. Tells(OpenStreams, {s})
  BY <1>1, TellsMore
<1> QED BY <1>1, <1>2 DEF Calm

LEMMA ResetTells ==
  ASSUME NEW s, NEW code, NEW n, events' = <<StreamReset(s, code, n)>>
  PROVE  Tells({s}, {s})
BY ShortSets, TellsOne DEF StreamReset, Terminal

LEMMA ResetCalm ==
  ASSUME TableType, NEW s, NEW code, NEW n, ResetKnownStream(s, code, n)
  PROVE  Calm
<1>1. CASE InMap(s)
  <2>1. RemoveStream(s) /\ events' = <<StreamReset(s, code, n)>>
    BY <1>1, Zenon DEF ResetKnownStream
  <2> QED BY <1>1, <2>1, ResetTells, RemoveCalm
<1>2. CASE ~InMap(s)
  BY <1>2, NoEventsCalm DEF ResetKnownStream
<1> QED BY <1>1, <1>2

LEMMA EnsureAndResetTakes ==
  ASSUME TableType, NEW s, NEW code, EnsureAndReset(s, code)
  PROVE  Takes(s)
BY RemoveEffect, ResetTells DEF EnsureAndReset, Takes

(* e and StreamClosed.                                                     *)
LEMMA ClosedTells ==
  ASSUME NEW s, NEW e, ToSet(events') = {e, StreamEvent("StreamClosed", s)},
         ~Terminal(e), Delivery(e) => e.stream = s
  PROVE  Tells({s}, {s})
<1> DEFINE c == StreamEvent("StreamClosed", s)
<1>1. Terminal(c) /\ Delivery(c) /\ c.stream = s
  BY DEF StreamEvent, Terminal, Delivery
<1> HIDE DEF c
<1>2. StreamsOf(Terminal, events') = {s}
  BY <1>1, Zenon DEF StreamsOf, c
<1>3. StreamsOf(Delivery, events') \subseteq {s}
  BY <1>1, Zenon DEF StreamsOf, c
<1> QED BY <1>2, <1>3 DEF Tells

LEMMA OnlyClosedTells ==
  ASSUME NEW s, events' = <<StreamEvent("StreamClosed", s)>>
  PROVE  Tells({s}, {s})
BY ShortSets, TellsOne DEF StreamEvent, Terminal

(* An operation that reports nothing but the end of the stream.            *)
LEMMA StoreOrCloseCalm ==
  ASSUME TableType, NEW s, InMap(s), NEW r, NEW closes, StoreOrClose(s, r, closes, <<>>)
  PROVE  Calm
<1>1. CASE closes
  <2>1. RemoveStream(s) /\ events' = <<StreamEvent("StreamClosed", s)>>
    BY <1>1 DEF StoreOrClose
  <2> QED BY <2>1, OnlyClosedTells, RemoveCalm
<1>2. CASE ~closes
  <2>1. streams' = [streams EXCEPT ![s] = r] /\ UNCHANGED closed_streams /\ events' = <<>>
    BY <1>2 DEF StoreOrClose
  <2>2. OpenStreams' \subseteq OpenStreams \cup {s} /\ s \in OpenStreams
    BY <2>1, StoreEffect DEF OpenStreams, InMap
  <2>3. Steady
    BY <2>1, <2>2 DEF Steady
  <2> QED BY <2>1, <2>3, ShortSets, TellsNothing DEF Calm
<1> QED BY <1>1, <1>2

(* An operation that reports e, and the end of the stream behind it.       *)
LEMMA StoreOrCloseTakes ==
  ASSUME TableType, NEW s, NEW r, NEW closes, NEW e, StoreOrClose(s, r, closes, <<e>>),
         ~Terminal(e), e.stream = s
  PROVE  /\ Takes(s)
         /\ InMap(s) => Calm
<1>1. CASE closes
  <2>1. RemoveStream(s) /\ events' = <<e, StreamEvent("StreamClosed", s)>>
    BY <1>1 DEF StoreOrClose
  <2>2. Tells({s}, {s})
    BY <2>1, ShortSets, ClosedTells
  <2> QED BY <2>1, <2>2, RemoveEffect, RemoveCalm DEF Takes
<1>2. CASE ~closes
  <2>1. streams' = [streams EXCEPT ![s] = r] /\ UNCHANGED closed_streams /\ events' = <<e>>
    BY <1>2 DEF StoreOrClose
  <2>2. OpenStreams' \subseteq OpenStreams \cup {s}
    BY <2>1, StoreEffect
  <2>3. Tells({s}, {})
    BY <2>1, ShortSets, TellsOne
  <2>4. Takes(s)
    BY <2>1, <2>2, <2>3 DEF Takes, Opens
  <2>5. ASSUME InMap(s) PROVE Calm
    <3>1. {s} \subseteq OpenStreams
      BY <2>5 DEF OpenStreams, InMap
    <3>2. Tells(OpenStreams, {})
      BY <2>3, <3>1, TellsMore
    <3>3. Steady
      BY <2>1, <2>2, <3>1 DEF Steady
    <3> QED BY <3>2, <3>3 DEF Calm
  <2> QED BY <2>4, <2>5
<1> QED BY <1>1, <1>2

(* e: what was reported before, or nothing.                                *)
LEMMA FlushStreamCalm ==
  ASSUME TableType, NEW s, InMap(s), NEW r, NEW reported, FlushStream(s, r, reported),
         reported = <<>> \/ \E e : reported = <<e>> /\ ~Delivery(e)
  PROVE  Calm
<1> DEFINE after == Flushed(r, FlushSize(r, send_window))
           c == StreamEvent("StreamClosed", s)
<1>1. \/ RemoveStream(s) /\ events' = <<c>> \o reported
      \/ /\ streams' = [streams EXCEPT ![s] = after]
         /\ UNCHANGED closed_streams
         /\ events' = reported
  BY Zenon DEF FlushStream
<1>2. CASE RemoveStream(s) /\ events' = <<c>> \o reported
  <2>1. CASE reported = <<>>
    <3>1. events' = <<c>>
      BY <1>2, <2>1
    <3> QED BY <1>2, <3>1, OnlyClosedTells, RemoveCalm
  <2>2. CASE \E e : reported = <<e>> /\ ~Delivery(e)
    <3>1. PICK e : reported = <<e>> /\ ~Delivery(e)
      BY <2>2
    <3> HIDE DEF c
    <3>2. ToSet(events') = {e, c}
      <4>1. <<c>> \in Seq({c, e}) /\ <<e>> \in Seq({c, e})
        OBVIOUS
      <4>2. ToSet(<<c>> \o <<e>>) = ToSet(<<c>>) \cup ToSet(<<e>>)
        BY <4>1, ConcatSets
      <4> QED BY <1>2, <3>1, <4>2, ShortSets
    <3>3. ~Terminal(e)
      BY <3>1 DEF Terminal, Delivery
    <3>4. Tells({s}, {s})
      BY <3>1, <3>2, <3>3, ClosedTells DEF c
    <3> QED BY <1>2, <3>4, RemoveCalm
  <2> QED BY <2>1, <2>2
<1>3. CASE /\ streams' = [streams EXCEPT ![s] = after]
           /\ UNCHANGED closed_streams
           /\ events' = reported
  <2>1. OpenStreams' \subseteq OpenStreams \cup {s} /\ s \in OpenStreams
    BY <1>3, StoreEffect DEF OpenStreams, InMap
  <2>2. Steady
    BY <1>3, <2>1 DEF Steady
  <2>3. Tells({}, {})
    BY <1>3, ShortSets, TellsNothing, TellsOne
  <2> QED BY <2>2, <2>3, TellsMore DEF Calm
<1> QED BY <1>1, <1>2, <1>3

LEMMA FlushAllCalm ==
  ASSUME NEW strs, \A s \in StreamIds : strs[s] # Absent => streams[s] # Absent,
         NEW window, NEW X, NEW written \in Seq(X), NEW reported \in Seq(X),
         FlushAll(strs, window, written, reported),
         \A e \in ToSet(reported) : ~Delivery(e)
  PROVE  Calm
<1>1. PICK sent \in [Pending(strs) -> 0 .. BufferCapacity] :
        FlushShows(strs, sent, written, reported)
  BY FlushAllShows
<1> DEFINE after   == [s \in Pending(strs) |-> Flushed(strs[s], sent[s])]
           removed == {s \in Pending(strs) : Removable(after[s])}
<1>2. removed \subseteq Pending(strs)
  OBVIOUS
<1> HIDE DEF after, removed
<1>3. /\ streams' = [s \in StreamIds |-> IF s \in removed THEN Absent
                                         ELSE IF s \in Pending(strs) THEN after[s]
                                         ELSE strs[s]]
      /\ closed_streams' = ClosedInsert(removed)
      /\ ToSet(events') =
           {StreamEvent("StreamClosed", s) : s \in removed} \cup ToSet(reported)
  BY <1>1 DEF after, removed, FlushShows
<1>4. Pending(strs) \subseteq OpenStreams
  BY DEF Pending, OpenStreams, InMap
<1>5. Closes(removed)
  <2>1. OpenStreams' \subseteq OpenStreams \ removed
    BY <1>3 DEF OpenStreams, InMap, Pending
  <2> QED BY <1>2, <1>3, <1>4, <2>1 DEF Closes
<1>6. Tells(OpenStreams, removed)
  <2>1. \A s : LET c == StreamEvent("StreamClosed", s)
               IN  Terminal(c) /\ Delivery(c) /\ c.stream = s
    BY DEF StreamEvent, Terminal, Delivery
  <2>2. \A e \in ToSet(reported) : ~Terminal(e)
    BY DEF Terminal, Delivery
  <2>3. {y \in ToSet(events') : Terminal(y)} = {StreamEvent("StreamClosed", s) : s \in removed}
    BY <1>3, <2>1, <2>2
  <2>4. {y \in ToSet(events') : Delivery(y)} = {StreamEvent("StreamClosed", s) : s \in removed}
    BY <1>3, <2>1
  <2>5. {x.stream : x \in {StreamEvent("StreamClosed", s) : s \in removed}} = removed
    BY <2>1
  <2> QED BY <1>2, <1>4, <2>3, <2>4, <2>5 DEF Tells, StreamsOf
<1> QED BY <1>5, <1>6 DEF Calm

-----------------------------------------------------------------------------
(* The operations.                                                         *)

LEMMA ErrorCalm ==
  ASSUME ConnectionError
  PROVE  Calm
BY NoEventsCalm DEF ConnectionError

LEMMA SettingsAckCalm ==
  ASSUME HandleSettingsAck
  PROVE  Calm
<1> DEFINE e == Event("SettingsReceived ACK")
<1>1. ~Delivery(e)
  BY DEF Event, Delivery
<1>2. ConnectionError \/ (UNCHANGED table /\ events' = <<e>>)
  BY Zenon DEF HandleSettingsAck
<1> QED BY <1>1, <1>2, ErrorCalm, OtherEventCalm

LEMMA QuietStepsCalm ==
  ASSUME \/ Handshake \/ SendPing \/ SendGoaway
         \/ HandleGoaway \/ HandlePriority
         \/ (\E a \in Pings : HandlePing(a))
         \/ (\E s \in PeerIds : HandlePriorityUpdate(s))
  PROVE  Calm
<1>1. CASE ConnectionError
  BY <1>1, ErrorCalm
<1>2. CASE ~ConnectionError
  <2>1. /\ UNCHANGED table
        /\ \/ events' = <<>>
           \/ events' = <<Event("GoawayReceived")>>
           \/ events' = <<Event("PingReceived")>>
           \/ \E s : events' = <<StreamEvent("PriorityUpdateReceived", s)>>
    BY <1>2, Zenon
    DEF Handshake, ReceivePreface, MarkPrefaceSent, Initiate, SendSettings,
        AnnounceSettings, SendPing, SendGoaway, HandleGoaway, HandlePriority, HandlePing,
        HandlePriorityUpdate
  <2>2. /\ ~Delivery(Event("GoawayReceived"))
        /\ ~Delivery(Event("PingReceived"))
        /\ \A s : ~Delivery(StreamEvent("PriorityUpdateReceived", s))
    BY DEF Delivery, Event, StreamEvent
  <2> QED BY <2>1, <2>2, NoEventsCalm, OtherEventCalm
<1> QED BY <1>1, <1>2

LEMMA SendingCalm ==
  ASSUME TableType, NEW s,
         \/ \E status, end : SendResponse(s, status, end)
         \/ SendTrailers(s)
         \/ \E n, end : SendData(s, n, end)
  PROVE  Calm
<1>1. InMap(s)
  BY DEF SendResponse, SendTrailers, SendData
<1>2. CASE (\E status, end : SendResponse(s, status, end)) \/ SendTrailers(s)
  <2>1. \E r, closes : StoreOrClose(s, r, closes, <<>>)
    BY <1>2, Zenon DEF SendResponse, SendTrailers
  <2> QED BY <1>1, <2>1, StoreOrCloseCalm
<1>3. CASE \E n, end : SendData(s, n, end)
  <2>1. \E r : FlushStream(s, r, <<>>)
    BY <1>3, Zenon DEF SendData
  <2> QED BY <1>1, <2>1, FlushStreamCalm
<1> QED BY <1>2, <1>3

LEMMA ResettingCalm ==
  ASSUME TableType, NEW s,
         \/ \E c : ResetStream(s, c) \/ HandleRstStream(s, c)
         \/ DecoderStreamError(s)
         \/ HandleUnknown(s)
  PROVE  Calm
<1>1. CASE ConnectionError
  BY <1>1, ErrorCalm
<1>2. CASE ~ConnectionError
  <2>1. \/ \E code, n : ResetKnownStream(s, code, n)
        \/ InMap(s) /\ RemoveStream(s) /\ \E code : events' = <<StreamReset(s, code, 0)>>
        \/ UNCHANGED table /\ events' = <<>>
    BY <1>2, Zenon DEF ResetStream, HandleRstStream, DecoderStreamError, HandleUnknown
  <2> QED BY <2>1, ResetCalm, ResetTells, RemoveCalm, NoEventsCalm
<1> QED BY <1>1, <1>2

LEMMA SendWindowUpdateCalm ==
  ASSUME TableType, NEW s, NEW n, SendWindowUpdate(s, n)
  PROVE  Calm
<1>1. events' = <<>> /\ UNCHANGED closed_streams
  BY Zenon DEF SendWindowUpdate
<1>2. UNCHANGED streams
        \/ (InMap(s) /\ streams' = [streams EXCEPT ![s].recv_window = @ + n])
  BY Zenon DEF SendWindowUpdate
<1>3. CASE UNCHANGED streams
  BY <1>1, <1>3, NoEventsCalm DEF table
<1>4. CASE InMap(s) /\ streams' = [streams EXCEPT ![s].recv_window = @ + n]
  <2>1. OpenStreams' \subseteq OpenStreams \cup {s} /\ s \in OpenStreams
    BY <1>4, StoreEffect DEF OpenStreams, InMap
  <2>2. Steady
    BY <1>1, <2>1 DEF Steady
  <2> QED BY <1>1, <2>2, ShortSets, TellsNothing DEF Calm
<1> QED BY <1>2, <1>3, <1>4

LEMMA HandleDataCalm ==
  ASSUME TableType, NEW s, NEW len, NEW pad, NEW end, HandleData(s, len, pad, end)
  PROVE  Calm
<1> DEFINE d == DataDiscarded(s, len + pad)
           e == DataReceived(s, len, end)
<1>1. ~Delivery(d) /\ ~Terminal(e) /\ e.stream = s
  BY DEF DataDiscarded, DataReceived, Delivery, Terminal
<1>2. CASE ConnectionError
  BY <1>2, ErrorCalm
<1>3. CASE ~ConnectionError
  <2>1. \/ UNCHANGED table /\ (events' = <<d>> \/ events' = <<>>)
        \/ \E code : ResetKnownStream(s, code, len + pad)
        \/ InMap(s) /\ \E r, closes : StoreOrClose(s, r, closes, <<e>>)
    BY <1>3, Zenon DEF HandleData
  <2> HIDE DEF d, e
  <2> QED BY <1>1, <2>1, NoEventsCalm, OtherEventCalm, ResetCalm, StoreOrCloseTakes
<1> QED BY <1>2, <1>3

LEMMA SettingsCalm ==
  ASSUME NEW f \in PeerSettings, HandleSettings(f)
  PROVE  Calm
<1> DEFINE delta   == f.initial_window_size - remote_settings.initial_window_size
           shifted == [s \in StreamIds |->
                         IF InMap(s) THEN [streams[s] EXCEPT !.send_window = @ + delta]
                         ELSE Absent]
           a == Event("SettingsReceived")
           b == Event("ConnectionPreface")
           reported == IF state = "WaitingPreface" THEN <<a, b>> ELSE <<a>>
           X == {a, b, SettingsAck}
<1>1. CASE ConnectionError
  BY <1>1, ErrorCalm
<1>2. CASE ~ConnectionError
  <2>1. FlushAll(shifted, send_window, <<SettingsAck>>, reported)
    BY <1>2, Zenon DEF HandleSettings
  <2>2. \A s \in StreamIds : shifted[s] # Absent => streams[s] # Absent
    BY DEF InMap
  <2>3. ~Delivery(a) /\ ~Delivery(b)
    BY DEF Event, Delivery
  <2> HIDE DEF a, b
  <2>4. \A e \in ToSet(reported) : ~Delivery(e)
    BY <2>3, ShortSets
  <2>5. <<SettingsAck>> \in Seq(X) /\ reported \in Seq(X)
    <3>1. /\ <<SettingsAck>> \in Seq(X)
          /\ <<a, b>> \in Seq(X)
          /\ <<a>> \in Seq(X)
      OBVIOUS
    <3> QED BY <3>1
  <2> HIDE DEF shifted, reported, X
  <2> QED BY <2>1, <2>2, <2>4, <2>5, FlushAllCalm
<1> QED BY <1>1, <1>2

LEMMA WindowUpdateCalm ==
  ASSUME TableType, NEW n,
         HandleConnectionWindowUpdate(n) \/ \E s : HandleWindowUpdate(s, n)
  PROVE  Calm
<1>1. \A s : ~Delivery(StreamEvent("WindowUpdateReceived", s))
  BY DEF StreamEvent, Delivery
<1>2. CASE ConnectionError
  BY <1>2, ErrorCalm
<1>3. CASE ~ConnectionError /\ HandleConnectionWindowUpdate(n)
  <2> DEFINE e == StreamEvent("WindowUpdateReceived", 0)
             X == {e}
  <2>1. FlushAll(streams, send_window + n, <<>>, <<e>>)
    BY <1>3, Zenon DEF HandleConnectionWindowUpdate
  <2>2. \A x \in ToSet(<<e>>) : ~Delivery(x)
    BY <1>1, ShortSets
  <2>3. <<>> \in Seq(X) /\ <<e>> \in Seq(X)
    OBVIOUS
  <2> HIDE DEF e, X
  <2> QED BY <2>1, <2>2, <2>3, FlushAllCalm
<1>4. CASE ~ConnectionError /\ \E s : HandleWindowUpdate(s, n)
  <2>1. PICK s : HandleWindowUpdate(s, n)
    BY <1>4
  <2> DEFINE e == StreamEvent("WindowUpdateReceived", s)
  <2>2. \/ UNCHANGED table /\ (events' = <<>> \/ events' = <<e>>)
        \/ \E code : ResetKnownStream(s, code, 0)
        \/ InMap(s) /\ \E r : FlushStream(s, r, <<e>>)
    BY <1>4, <2>1, Zenon DEF HandleWindowUpdate
  <2>3. ~Delivery(e)
    BY <1>1
  <2> HIDE DEF e
  <2> QED BY <2>2, <2>3, NoEventsCalm, OtherEventCalm, ResetCalm, FlushStreamCalm
<1> QED BY <1>2, <1>3, <1>4

LEMMA CompleteBlockTakes ==
  ASSUME TableType, NEW s, NEW h, NEW end, NEW limit, NEW tunnel,
         CompleteBlock(s, h, end, s \in closed_streams, limit, tunnel)
  PROVE  Calm \/ (s \notin closed_streams /\ Takes(s))
<1> DEFINE e == HeadersEvent(s, h)
<1>1. ~Terminal(e) /\ e.stream = s
  BY DEF HeadersEvent, StreamEvent, Terminal
<1>2. \/ UNCHANGED table /\ events' = <<>>
      \/ ResetKnownStream(s, "PROTOCOL_ERROR", 0)
      \/ /\ s \notin closed_streams
         /\ \/ \E code : EnsureAndReset(s, code)
            \/ ProcessHeaders(s, h, end)
  BY Zenon DEF CompleteBlock
<1>3. ProcessHeaders(s, h, end) =>
         \/ \E code : EnsureAndReset(s, code)
         \/ \E r, closes : StoreOrClose(s, r, closes, <<e>>)
  BY Zenon DEF ProcessHeaders
<1> HIDE DEF e
<1> QED BY <1>1, <1>2, <1>3, NoEventsCalm, ResetCalm, EnsureAndResetTakes, StoreOrCloseTakes

LEMMA HeaderFramesTell ==
  ASSUME RestType, TableType, Bookkeeping, PeerHeaders
  PROVE  \/ Calm
         \/ \E s : /\ Fresh(s) /\ Takes(s)
                   /\ Role = "server" => s <= last_recv_stream_id'
<1>1. CASE ConnectionError
  BY <1>1, ErrorCalm
<1>2. ASSUME ~ConnectionError, NEW s \in PeerIds, NEW h \in Blocks, NEW end \in BOOLEAN,
             HandleHeaders(s, h, end)
      PROVE  \/ Calm
             \/ Fresh(s) /\ Takes(s) /\ s <= last_recv_stream_id'
  <2>1. /\ ~HeadersRejected(s)
        /\ last_recv_stream_id' = Greatest(s, last_recv_stream_id)
        /\ \E limit, tunnel : CompleteBlock(s, h, end, s \in closed_streams, limit, tunnel)
    BY <1>2, Zenon DEF HandleHeaders
  <2>2. s \in StreamIds
    BY <2>1, HeadersAccepted
  <2>3. s \notin closed_streams => Fresh(s)
    <3>1. s \in Nat /\ last_recv_stream_id \in Nat
      BY <2>2 DEF StreamIds, RestType
    <3> QED BY <2>1, <2>2, <3>1
            DEF Fresh, Named, HeadersRejected, PeerIds, StreamIds, OpenStreams
  <2>4. s <= last_recv_stream_id'
    BY <2>1, <2>2 DEF Greatest, StreamIds, RestType
  <2> QED BY <2>1, <2>3, <2>4, CompleteBlockTakes
<1>3. ASSUME ~ConnectionError, NEW s \in PeerIds, NEW n \in Fragments, NEW h \in Blocks,
             HandleContinuation(s, n, h)
      PROVE  \/ Calm
             \/ /\ Fresh(s) /\ Takes(s)
                /\ Role = "server" => s <= last_recv_stream_id'
  <2>1. /\ s = header_continuation_stream
        /\ \E end, limit, tunnel :
             CompleteBlock(s, h, end, s \in closed_streams, limit, tunnel)
        /\ UNCHANGED last_recv_stream_id
    BY <1>3, Zenon DEF HandleContinuation
  <2>2. s \in StreamIds
    BY <2>1 DEF RestType, NoStream, PeerIds, WireIds
  <2>3. s \notin closed_streams => Fresh(s)
    BY <2>1, <2>2 DEF Fresh, Named, PeerIds, StreamIds
  <2>4. Role = "server" => s <= last_recv_stream_id'
    BY <2>1 DEF Bookkeeping
  <2> QED BY <2>1, <2>3, <2>4, CompleteBlockTakes
<1>4. ASSUME ~ConnectionError, NEW s \in PeerIds, NEW n \in Fragments,
             HandleContinuationMore(s, n) \/ \E end \in BOOLEAN : HandleHeadersSplit(s, n, end)
      PROVE  Calm
  <2>1. UNCHANGED table /\ events' = <<>>
    BY <1>4, Zenon DEF HandleContinuationMore, HandleHeadersSplit
  <2> QED BY <2>1, NoEventsCalm
<1> QED BY <1>1, <1>2, <1>3, <1>4 DEF PeerHeaders

LEMMA NextTells ==
  ASSUME RestType, TableType, Bookkeeping, Next
  PROVE  \/ Calm
         \/ Starts /\ Tells({}, {})
         \/ \E s : /\ Fresh(s) /\ Takes(s)
                   /\ Role = "server" => s <= last_recv_stream_id'
<1>1. CASE Handshake
  BY <1>1, QuietStepsCalm
<1>2. CASE Application
  <2>1. CASE \E m \in Requests, end \in BOOLEAN : StartStream(m, end)
    <3>1. events' = <<>>
      BY <2>1, Zenon DEF StartStream
    <3> QED BY <2>1, <3>1, ShortSets, TellsNothing, StartStreamEffect DEF Starts
  <2>2. CASE \E s \in OpenStreams :
               \/ \E r \in Responses, end \in BOOLEAN : SendResponse(s, r, end)
               \/ SendTrailers(s)
               \/ \E n \in AppSizes, end \in BOOLEAN : SendData(s, n, end)
    BY <2>2, SendingCalm
  <2>3. CASE \E s \in KnownStreams, c \in Codes : ResetStream(s, c)
    BY <2>3, ResettingCalm
  <2>4. CASE SendPing \/ SendGoaway
    BY <2>4, QuietStepsCalm
  <2>5. CASE \E s \in {0} \cup KnownStreams, n \in Credits : SendWindowUpdate(s, n)
    BY <2>5, SendWindowUpdateCalm
  <2> QED BY <1>2, <2>1, <2>2, <2>3, <2>4, <2>5 DEF Application
<1>3. CASE PeerHeaders
  BY <1>3, HeaderFramesTell
<1>4. CASE PeerFrames
  <2>1. CASE RejectFrame
    BY <2>1, ErrorCalm DEF RejectFrame
  <2>2. CASE \E s \in PeerIds :
               \/ DecoderStreamError(s) \/ HandleUnknown(s)
               \/ \E c \in Codes : HandleRstStream(s, c)
    BY <2>2, ResettingCalm
  <2>3. CASE \E s \in PeerIds, n \in PeerSizes, p \in Pads, end \in BOOLEAN :
               HandleData(s, n, p, end)
    BY <2>3, HandleDataCalm
  <2>4. CASE \E f \in PeerSettings : HandleSettings(f)
    BY <2>4, SettingsCalm
  <2>5. CASE \/ HandleGoaway \/ HandlePriority
             \/ \E a \in Pings : HandlePing(a)
             \/ \E s \in PeerIds : HandlePriorityUpdate(s)
    BY <2>5, QuietStepsCalm
  <2>6. CASE HandleSettingsAck
    BY <2>6, SettingsAckCalm
  <2>7. CASE \E n \in Increments :
               HandleConnectionWindowUpdate(n) \/ \E s \in PeerIds : HandleWindowUpdate(s, n)
    BY <2>7, WindowUpdateCalm
  <2> QED BY <1>4, <2>1, <2>2, <2>3, <2>4, <2>5, <2>6, <2>7 DEF PeerFrames
<1> QED BY <1>1, <1>2, <1>3, <1>4 DEF Next

-----------------------------------------------------------------------------
(* The life of a stream as it is reported.                                 *)

(* The memory of closed streams is bounded.  A stream that has ended and   *)
(* been forgotten is known again by its identifier alone: it must not be   *)
(* above every one received, nor the one whose header block is in progress *)
(* (src/src/connection/headers.rs:286).                                    *)
Remembered ==
  \A s \in finished \ closed_streams :
    ~(s > last_recv_stream_id) /\ s # header_continuation_stream

LifeInv ==
  /\ LifecycleReported
  /\ finished \subseteq StreamIds
  /\ Role = "client" => \A s \in finished : s < next_stream_id

LEMMA FreshUnfinished ==
  ASSUME LifeInv, Remembered, NEW s, Fresh(s)
  PROVE  s \notin finished
BY DEF LifeInv, LifecycleReported, Remembered, Fresh

LEMMA NextGrows ==
  ASSUME RestType, TableInv, Next
  PROVE  next_stream_id' \in Nat /\ next_stream_id' >= next_stream_id
<1>1. next_stream_id \in Nat
  BY DEF RestType
<1>2. Ordinary \/ Starts \/ \E s : Receives(s) \/ Begins(s) \/ Concludes(s)
  BY NextEffect
<1> QED BY <1>1, <1>2 DEF Ordinary, counters, Starts, Receives, Begins, Concludes

LEMMA NextKeepsLife ==
  ASSUME RestType, TableInv, Bookkeeping, LifeInv, Remembered, Next, Observe
  PROVE  LifeInv' /\ StreamsOf(Delivery, events') \cap finished = {}
<1>1. /\ OpenStreams \cap finished = {}
      /\ closed_streams \subseteq finished
      /\ finished \subseteq StreamIds
      /\ Role = "client" => \A s \in finished : s < next_stream_id
  BY DEF LifeInv, LifecycleReported
<1>2. finished' = finished \cup StreamsOf(Terminal, events')
  BY DEF Observe
<1>3. /\ next_stream_id \in Nat
      /\ next_stream_id' \in Nat
      /\ next_stream_id' >= next_stream_id
      /\ TableType
  BY NextGrows DEF RestType, TableInv
<1>4. /\ OpenStreams \subseteq StreamIds
      /\ Role = "client" => \A s \in OpenStreams : s < next_stream_id
      /\ \A s \in StreamIds : s \in Nat
  BY DEF OpenStreams, StreamIds, Bookkeeping, TableConsistent, KnownStreams
<1>5. Role = "client" => \A s \in finished \cup OpenStreams : s < next_stream_id'
  BY <1>1, <1>3, <1>4
<1>6. CASE Steady /\ Tells(OpenStreams, {})
  BY <1>1, <1>2, <1>5, <1>6 DEF LifeInv, LifecycleReported, Steady, Tells
<1>7. ASSUME NEW R, Closes(R), Tells(OpenStreams, R)
      PROVE  LifeInv' /\ StreamsOf(Delivery, events') \cap finished = {}
  <2>1. closed_streams' \subseteq closed_streams \cup R
    BY <1>7, ClosedInsertSubset DEF Closes
  <2>2. R \subseteq OpenStreams /\ OpenStreams' \subseteq OpenStreams \ R
    BY <1>7 DEF Closes
  <2>3. finished' = finished \cup R /\ StreamsOf(Delivery, events') \subseteq OpenStreams
    BY <1>2, <1>7 DEF Tells
  <2>4. LifecycleReported'
    BY <1>1, <2>1, <2>2, <2>3 DEF LifecycleReported
  <2>5. /\ finished' \subseteq StreamIds
        /\ Role = "client" => \A s \in finished' : s < next_stream_id'
    BY <1>1, <1>4, <1>5, <2>2, <2>3
  <2> QED BY <1>1, <2>3, <2>4, <2>5 DEF LifeInv
<1>8. ASSUME Starts, Tells({}, {})
      PROVE  LifeInv' /\ StreamsOf(Delivery, events') \cap finished = {}
  <2>1. next_stream_id \notin finished
    BY <1>1, <1>3, <1>8 DEF Starts
  <2>2. /\ OpenStreams' \subseteq OpenStreams \cup {next_stream_id}
        /\ UNCHANGED closed_streams
    BY <1>8 DEF Starts, Opens
  <2>3. finished' = finished /\ StreamsOf(Delivery, events') = {}
    BY <1>2, <1>8 DEF Tells
  <2> QED BY <1>1, <1>5, <2>1, <2>2, <2>3 DEF LifeInv, LifecycleReported
<1>9. ASSUME NEW s, Fresh(s), Takes(s)
      PROVE  LifeInv' /\ StreamsOf(Delivery, events') \cap finished = {}
  <2>1. s \notin finished /\ s \in StreamIds /\ (Role = "client" => s < next_stream_id')
    BY <1>3, <1>9, FreshUnfinished DEF Fresh, Named, StreamIds
  <2>2. StreamsOf(Delivery, events') \subseteq {s}
    BY <1>9 DEF Takes, Tells
  <2>3. \/ /\ OpenStreams' \subseteq OpenStreams \ {s}
           /\ closed_streams' \subseteq closed_streams \cup {s}
           /\ finished' = finished \cup {s}
        \/ /\ OpenStreams' \subseteq OpenStreams \cup {s}
           /\ closed_streams' = closed_streams
           /\ finished' = finished
    <3>1. ClosedInsert({s}) \subseteq closed_streams \cup {s}
      BY ClosedInsertSubset
    <3> QED BY <1>2, <1>9, <3>1 DEF Takes, Tells, Refuses, Opens
  <2>4. LifecycleReported'
    BY <1>1, <2>1, <2>3 DEF LifecycleReported
  <2>5. /\ finished' \subseteq StreamIds
        /\ Role = "client" => \A t \in finished' : t < next_stream_id'
    BY <1>1, <1>5, <2>1, <2>3
  <2> QED BY <2>1, <2>2, <2>4, <2>5 DEF LifeInv
<1> QED BY <1>3, <1>6, <1>7, <1>8, <1>9, NextTells DEF Calm

LEMMA MonitoredImplements == MonitoredSpec => Spec
<1>1. MonitoredInit => Init
  BY DEF MonitoredInit
<1>2. [MonitoredNext]_mvars => [Next]_vars
  BY DEF MonitoredNext, mvars
<1> QED BY <1>1, <1>2, PTL DEF MonitoredSpec, Spec

LEMMA StutterKeepsLife ==
  ASSUME LifeInv, UNCHANGED mvars
  PROVE  LifeInv'
<1>1. UNCHANGED <<streams, closed_streams, finished, next_stream_id>>
  BY DEF mvars, vars, table, identifiers
<1> QED BY <1>1 DEF LifeInv, LifecycleReported, OpenStreams, InMap

LEMMA LifeHolds == MonitoredSpec /\ []Remembered => []LifeInv
<1>1. MonitoredInit => LifeInv
  BY DEF MonitoredInit, Init, LifeInv, LifecycleReported, OpenStreams, InMap
<1>2. /\ RestType /\ TableInv /\ Bookkeeping /\ LifeInv /\ Remembered
      /\ [MonitoredNext]_mvars
      => LifeInv'
  BY NextKeepsLife, StutterKeepsLife DEF MonitoredNext
<1> QED BY <1>1, <1>2, MonitoredImplements, InvariantHolds, BookkeepingHolds, PTL
        DEF MonitoredSpec

(* The application hears of the end of every stream that leaves the map,   *)
(* by StreamClosed or StreamReset, and a stream it has heard the end of is *)
(* never in the map again - as long as the identifier that a header block  *)
(* names has not been pushed out of the memory of closed streams.          *)
THEOREM LifecycleIsReported == MonitoredSpec /\ []Remembered => []LifecycleReported
<1>1. LifeInv => LifecycleReported
  BY DEF LifeInv
<1> QED BY <1>1, LifeHolds, PTL

(* Under the same condition the end of a stream is reported once, and      *)
(* nothing is reported for the stream afterwards.                          *)
THEOREM NothingFollowsTheEnd == MonitoredSpec /\ []Remembered => NothingAfterFinish
<1>1. /\ RestType /\ TableInv /\ Bookkeeping /\ LifeInv /\ Remembered
      /\ [MonitoredNext]_mvars
      => [StreamsOf(Delivery, events') \cap finished = {}]_mvars
  BY NextKeepsLife DEF MonitoredNext
<1> QED BY <1>1, LifeHolds, MonitoredImplements, InvariantHolds, BookkeepingHolds, PTL
        DEF MonitoredSpec, NothingAfterFinish

(* A server whose peer sends every header block in one frame: a forgotten  *)
(* stream is not above last_recv_stream_id, and no block is in progress.   *)
UnsplitInv ==
  header_continuation_stream = NoStream /\ \A s \in finished : s <= last_recv_stream_id

LEMMA UnsplitCounters ==
  ASSUME Fragments = {}, RestType, TableType, header_continuation_stream = NoStream, Next
  PROVE  /\ header_continuation_stream' = NoStream
         /\ last_recv_stream_id' \in Nat /\ last_recv_stream_id' >= last_recv_stream_id
<1>1. last_recv_stream_id \in Nat
  BY DEF RestType
<1>2. CASE PeerHeaders
  <2>1. CASE ConnectionError
    BY <1>1, <2>1 DEF ConnectionError, header_block, identifiers
  <2>2. ASSUME ~ConnectionError, NEW s \in PeerIds, NEW h \in Blocks, NEW end \in BOOLEAN,
               HandleHeaders(s, h, end)
        PROVE  /\ header_continuation_stream' = NoStream
               /\ last_recv_stream_id' \in Nat
               /\ last_recv_stream_id' >= last_recv_stream_id
    <3>1. /\ ~HeadersRejected(s)
          /\ last_recv_stream_id' = Greatest(s, last_recv_stream_id)
          /\ UNCHANGED header_continuation_stream
      BY <2>2, Zenon DEF HandleHeaders
    <3>2. s \in Nat
      BY <3>1, HeadersAccepted DEF StreamIds
    <3> QED BY <1>1, <3>1, <3>2 DEF Greatest
  <2> QED BY <1>2, <2>1, <2>2 DEF PeerHeaders
<1>3. CASE Handshake \/ Application \/ PeerFrames
  <2>1. Ordinary \/ Starts
    BY <1>3, QuietEffect, ApplicationEffect, PeerFramesEffect
  <2> QED BY <1>1, <2>1 DEF Ordinary, counters, Starts
<1> QED BY <1>2, <1>3 DEF Next

LEMMA NextKeepsUnsplit ==
  ASSUME Role = "server", Fragments = {}, RestType, TableInv, Bookkeeping, LifeInv,
         UnsplitInv, Next, Observe
  PROVE  UnsplitInv'
<1>1. TableType /\ last_recv_stream_id \in Nat
  BY DEF TableInv, RestType
<1>2. /\ header_continuation_stream = NoStream
      /\ \A s \in finished : s <= last_recv_stream_id
      /\ \A s \in finished \cup OpenStreams : s \in Nat
      /\ \A s \in OpenStreams : s <= last_recv_stream_id
  BY DEF UnsplitInv, LifeInv, OpenStreams, StreamIds, Bookkeeping, TableConsistent, KnownStreams
<1>3. finished' = finished \cup StreamsOf(Terminal, events')
  BY DEF Observe
<1>4. /\ header_continuation_stream' = NoStream
      /\ last_recv_stream_id' \in Nat /\ last_recv_stream_id' >= last_recv_stream_id
  BY <1>1, <1>2, UnsplitCounters
<1>5. \A s \in StreamsOf(Terminal, events') : s <= last_recv_stream_id'
  <2>1. CASE Calm
    <3>1. StreamsOf(Terminal, events') \subseteq OpenStreams
      BY <2>1 DEF Calm, Tells, Closes
    <3> QED BY <1>1, <1>2, <1>4, <3>1
  <2>2. CASE Starts /\ Tells({}, {})
    BY <2>2 DEF Tells
  <2>3. CASE \E s : /\ Fresh(s) /\ Takes(s)
                    /\ Role = "server" => s <= last_recv_stream_id'
    BY <2>3 DEF Takes, Tells
  <2> QED BY <1>1, <2>1, <2>2, <2>3, NextTells
<1>6. \A s \in finished : s <= last_recv_stream_id'
  BY <1>1, <1>2, <1>4
<1> QED BY <1>3, <1>4, <1>5, <1>6 DEF UnsplitInv

LEMMA UnsplitRemembered ==
  ASSUME RestType, LifeInv, UnsplitInv
  PROVE  Remembered
<1>1. last_recv_stream_id \in Nat /\ \A s \in finished : s \in Nat /\ s # NoStream
  BY DEF RestType, LifeInv, StreamIds, NoStream
<1> QED BY <1>1 DEF UnsplitInv, Remembered

(* For a server whose peer splits no header block nothing is conditional:  *)
(* however small the memory of closed streams, last_recv_stream_id keeps   *)
(* a forgotten stream from coming back.                                    *)
THEOREM UnsplitBlocksAreRemembered ==
  ASSUME Role = "server", Fragments = {}
  PROVE  MonitoredSpec => []Remembered
<1> DEFINE J == LifeInv /\ UnsplitInv
<1>1. MonitoredInit => J
  BY DEF MonitoredInit, Init, LifeInv, LifecycleReported, OpenStreams, InMap, UnsplitInv
<1>2. RestType /\ TableInv /\ Bookkeeping /\ J /\ [MonitoredNext]_mvars => J'
  <2> SUFFICES ASSUME RestType, TableInv, Bookkeeping, LifeInv, UnsplitInv,
                      [MonitoredNext]_mvars
               PROVE  LifeInv' /\ UnsplitInv'
    OBVIOUS
  <2>1. CASE MonitoredNext
    BY <2>1, NextKeepsLife, NextKeepsUnsplit, UnsplitRemembered DEF MonitoredNext
  <2>2. CASE UNCHANGED mvars
    <3>1. UNCHANGED <<header_continuation_stream, finished, last_recv_stream_id>>
      BY <2>2 DEF mvars, vars, header_block, identifiers
    <3> QED BY <2>2, <3>1, StutterKeepsLife DEF UnsplitInv
  <2> QED BY <2>1, <2>2
<1>3. RestType /\ J => Remembered
  BY UnsplitRemembered
<1> HIDE DEF J
<1> QED BY <1>1, <1>2, <1>3, MonitoredImplements, InvariantHolds, BookkeepingHolds, PTL
        DEF MonitoredSpec

(* No more streams have ended than the memory holds.                       *)
FewEnded == Cardinality(finished) <= ClosedCapacity

LEMMA InsertKeepsAll ==
  ASSUME NEW F \in SUBSET StreamIds, NEW T, F = closed_streams \cup T,
         Cardinality(F) <= ClosedCapacity
  PROVE  ClosedInsert(T) = F
<1>1. ASSUME NEW s \in F
      PROVE  Cardinality({t \in F : t > s}) < ClosedCapacity
  <2> DEFINE more == {t \in F : t > s}
  <2>1. more \in SUBSET F /\ more # F
    BY <1>1 DEF StreamIds
  <2> HIDE DEF more
  <2>2. /\ Cardinality(F) \in Nat /\ Cardinality(more) \in Nat
        /\ Cardinality(more) < Cardinality(F)
    BY <2>1, FewerStreams
  <2>3. Cardinality(more) < ClosedCapacity
    BY <2>2, SizeAssumption
  <2> QED BY <2>3 DEF more
<1> QED BY <1>1 DEF ClosedInsert

LEMMA NextKeepsAll ==
  ASSUME RestType, TableInv, Bookkeeping, LifeInv, closed_streams = finished,
         Next, Observe, FewEnded', LifeInv'
  PROVE  (closed_streams = finished)'
<1>1. TableType
  BY DEF TableInv
<1>2. finished' = finished \cup StreamsOf(Terminal, events') /\ finished' \in SUBSET StreamIds
  BY DEF Observe, LifeInv
<1>3. \/ UNCHANGED closed_streams /\ StreamsOf(Terminal, events') = {}
      \/ \E T : closed_streams' = ClosedInsert(T) /\ StreamsOf(Terminal, events') = T
  <2>1. CASE Calm
    BY <2>1 DEF Calm, Steady, Closes, Tells
  <2>2. CASE Starts /\ Tells({}, {})
    BY <2>2 DEF Starts, Opens, Tells
  <2>3. CASE \E s : Fresh(s) /\ Takes(s)
    BY <2>3 DEF Takes, Refuses, Opens, Tells
  <2> QED BY <1>1, <2>1, <2>2, <2>3, NextTells
<1>4. CASE UNCHANGED closed_streams /\ StreamsOf(Terminal, events') = {}
  BY <1>2, <1>4
<1>5. ASSUME NEW T, closed_streams' = ClosedInsert(T), StreamsOf(Terminal, events') = T
      PROVE  (closed_streams = finished)'
  BY <1>2, <1>5, InsertKeepsAll DEF FewEnded
<1> QED BY <1>3, <1>4, <1>5

(* While no more streams have ended than CLOSED_STREAMS_MAX_SIZE, none is  *)
(* forgotten: the memory is exactly the set of streams reported as ended.  *)
THEOREM FewStreamsAreRemembered ==
  MonitoredSpec /\ []FewEnded => [](closed_streams = finished) /\ []Remembered
<1> DEFINE J == LifeInv /\ closed_streams = finished
<1>1. MonitoredInit => J
  BY DEF MonitoredInit, Init, LifeInv, LifecycleReported, OpenStreams, InMap
<1>2. J => Remembered
  BY DEF Remembered
<1>3. RestType /\ TableInv /\ Bookkeeping /\ J /\ FewEnded' /\ [MonitoredNext]_mvars => J'
  <2> SUFFICES ASSUME RestType, TableInv, Bookkeeping, LifeInv, closed_streams = finished,
                      FewEnded', [MonitoredNext]_mvars
               PROVE  LifeInv' /\ (closed_streams = finished)'
    OBVIOUS
  <2>1. CASE MonitoredNext
    <3>1. Next /\ Observe /\ LifeInv'
      BY <1>2, <2>1, NextKeepsLife DEF MonitoredNext
    <3> QED BY <3>1, NextKeepsAll
  <2>2. CASE UNCHANGED mvars
    <3>1. UNCHANGED <<closed_streams, finished>>
      BY <2>2 DEF mvars, vars, table
    <3> QED BY <2>2, <3>1, StutterKeepsLife
  <2> QED BY <2>1, <2>2
<1>4. J => closed_streams = finished
  OBVIOUS
<1> HIDE DEF J
<1> QED BY <1>1, <1>2, <1>3, <1>4, MonitoredImplements, InvariantHolds, BookkeepingHolds, PTL
        DEF MonitoredSpec
=============================================================================
