---------------------------- MODULE WindowProofs ----------------------------
(***************************************************************************)
(* Proofs about the flow-control windows of one endpoint, for every value  *)
(* of the constants.                                                       *)
(***************************************************************************)
EXTENDS ConnectionProofs, SumProofs

-----------------------------------------------------------------------------
(* What WindowsInRange says of a stream with record r when the peer's      *)
(* SETTINGS_INITIAL_WINDOW_SIZE is i.                                      *)
InRange(r, i) ==
  /\ r.recv_window \in 0 .. MaxWindow
  /\ r.send_window \in i - MaxWindow .. MaxWindow

StreamsWithin ==
  \A s \in StreamIds :
    streams[s] # Absent => InRange(streams[s], remote_settings.initial_window_size)

ConnectionWithin == send_window \in 0 .. MaxWindow /\ recv_window \in 0 .. MaxWindow

LEMMA RangeParts == WindowsInRange <=> ConnectionWithin /\ StreamsWithin
BY DEF WindowsInRange, ConnectionWithin, StreamsWithin, InRange, OpenStreams, InMap

-----------------------------------------------------------------------------
LEMMA InitialType ==
  ASSUME RestType
  PROVE  remote_settings.initial_window_size \in 0 .. MaxWindow
BY DEF RestType

LEMMA StreamsUnmoved ==
  ASSUME StreamsWithin, UNCHANGED streams, UNCHANGED remote_settings
  PROVE  StreamsWithin'
BY DEF StreamsWithin, InRange

(* A step that removes a stream or stores a record that is in range.       *)
LEMMA StoreWithin ==
  ASSUME TableType, StreamsWithin, UNCHANGED remote_settings, NEW s, NEW r,
         streams' = [streams EXCEPT ![s] = r],
         r # Absent => InRange(r, remote_settings.initial_window_size)
  PROVE  StreamsWithin'
<1>1. \A t \in StreamIds : streams'[t] = IF t = s THEN r ELSE streams[t]
  BY DEF TableType
<1> SUFFICES ASSUME NEW t \in StreamIds, streams'[t] # Absent
             PROVE  InRange(streams'[t], remote_settings.initial_window_size)
  BY DEF StreamsWithin
<1> QED BY <1>1 DEF StreamsWithin

LEMMA RemoveWithin ==
  ASSUME TableType, StreamsWithin, UNCHANGED remote_settings, NEW s, RemoveStream(s)
  PROVE  StreamsWithin'
BY StoreWithin DEF RemoveStream

LEMMA StoreOrCloseWithin ==
  ASSUME TableType, StreamsWithin, UNCHANGED remote_settings, NEW s, NEW r, NEW closes,
         NEW reported, StoreOrClose(s, r, closes, reported),
         InRange(r, remote_settings.initial_window_size)
  PROVE  StreamsWithin'
BY RemoveWithin, StoreWithin DEF StoreOrClose

LEMMA ResetWithin ==
  ASSUME TableType, StreamsWithin, UNCHANGED remote_settings, NEW s, NEW code, NEW n,
         ResetKnownStream(s, code, n)
  PROVE  StreamsWithin'
BY RemoveWithin, StreamsUnmoved DEF ResetKnownStream, table

LEMMA InMapWithin ==
  ASSUME TableType, StreamsWithin, NEW s, InMap(s)
  PROVE  /\ s \in StreamIds
         /\ streams[s] \in Stream
         /\ InRange(streams[s], remote_settings.initial_window_size)
BY DEF TableType, StreamsWithin, InMap

(* A record whose windows are those of another one.                        *)
LEMMA SameWindows ==
  ASSUME NEW r, NEW old, NEW i, InRange(old, i),
         r.send_window = old.send_window, r.recv_window = old.recv_window
  PROVE  InRange(r, i)
BY DEF InRange

-----------------------------------------------------------------------------
(* Flushing takes no more than the two windows offer: an open window does  *)
(* not become negative, and a negative one does not move.                  *)

LEMMA FlushedWithin ==
  ASSUME NEW r \in Stream, NEW i \in 0 .. MaxWindow, InRange(r, i),
         NEW n \in Nat, n <= SendAvailable(r.send_window)
  PROVE  InRange(Flushed(r, n), i)
<1>1. /\ Flushed(r, n).send_window = r.send_window - n
      /\ Flushed(r, n).recv_window = r.recv_window
  BY DEF Flushed, Stream
<1>2. r.send_window \in Int /\ r.send_window <= MaxWindow /\ i - MaxWindow <= r.send_window
  BY MaxWindowAssumption DEF InRange, Stream
<1>3. r.send_window - n \in i - MaxWindow .. MaxWindow
  BY <1>2, MaxWindowAssumption DEF SendAvailable, Greatest
<1> QED BY <1>1, <1>3 DEF InRange

LEMMA FlushStreamWithin ==
  ASSUME RestType, TableType, WindowsInRange, UNCHANGED <<remote_settings, recv_window>>,
         NEW s, NEW r \in Stream, InRange(r, remote_settings.initial_window_size),
         NEW reported, FlushStream(s, r, reported)
  PROVE  WindowsInRange'
<1> DEFINE n == FlushSize(r, send_window)
           after == Flushed(r, n)
<1>1. ConnectionWithin /\ StreamsWithin
  BY RangeParts
<1>2. r.send_buffer \in Nat /\ r.send_window \in Int
  BY DEF Stream
<1>3. n \in Nat /\ n <= send_window /\ n <= SendAvailable(r.send_window)
  BY <1>1, <1>2, MaxWindowAssumption
  DEF ConnectionWithin, FlushSize, Least, SendAvailable, Greatest
<1>4. send_window' = send_window - n
  BY DEF FlushStream
<1>5. ConnectionWithin'
  <2> HIDE DEF n
  <2> QED BY <1>1, <1>3, <1>4, MaxWindowAssumption DEF ConnectionWithin
<1>6. InRange(after, remote_settings.initial_window_size)
  <2> HIDE DEF n
  <2> QED BY <1>3, InitialType, FlushedWithin
<1>7. RemoveStream(s) \/ streams' = [streams EXCEPT ![s] = after]
  BY Zenon DEF FlushStream
<1> HIDE DEF after
<1>8. StreamsWithin'
  BY <1>1, <1>6, <1>7, RemoveWithin, StoreWithin
<1> QED BY <1>5, <1>8, RangeParts, PTL

LEMMA FlushAllWithin ==
  ASSUME NEW strs \in [StreamIds -> Stream \cup {Absent}], NEW window \in 0 .. MaxWindow,
         NEW i \in 0 .. MaxWindow, remote_settings'.initial_window_size = i,
         \A s \in StreamIds : strs[s] # Absent => InRange(strs[s], i),
         NEW written, NEW reported, FlushAll(strs, window, written, reported)
  PROVE  send_window' \in 0 .. MaxWindow /\ StreamsWithin'
<1> DEFINE pending == {s \in StreamIds :
                         /\ strs[s] # Absent
                         /\ strs[s].send_buffer > 0 \/ strs[s].pending_end_stream}
           want == [s \in pending |-> Least(strs[s].send_buffer,
                                            SendAvailable(strs[s].send_window))]
<1>1. PICK sent \in [pending -> 0 .. BufferCapacity] :
        LET total   == SumFunction(sent)
            after   == [s \in pending |-> Flushed(strs[s], sent[s])]
            removed == {s \in pending : Removable(after[s])}
        IN  /\ \A s \in pending : sent[s] <= want[s]
            /\ total \in 0 .. SendAvailable(window)
            /\ send_window' = window - total
            /\ streams' = [s \in StreamIds |-> IF s \in removed THEN Absent
                                               ELSE IF s \in pending THEN after[s]
                                               ELSE strs[s]]
  BY DEF FlushAll
<1> DEFINE total == SumFunction(sent)
           after == [s \in pending |-> Flushed(strs[s], sent[s])]
<1>2. send_window' \in 0 .. MaxWindow
  <2>1. total \in 0 .. SendAvailable(window) /\ send_window' = window - total
    BY <1>1
  <2> HIDE DEF total
  <2> QED BY <2>1, MaxWindowAssumption DEF SendAvailable, Greatest
<1>3. ASSUME NEW s \in pending
      PROVE  InRange(after[s], i)
  <2>1. strs[s] \in Stream /\ InRange(strs[s], i)
    BY <1>3
  <2>2. strs[s].send_buffer \in Nat /\ strs[s].send_window \in Int
    BY <2>1 DEF Stream
  <2>3. sent[s] \in Nat /\ sent[s] <= want[s]
    BY <1>1, <1>3, SizeAssumption
  <2>4. sent[s] <= SendAvailable(strs[s].send_window)
    BY <2>2, <2>3 DEF Least, SendAvailable, Greatest
  <2>5. after[s] = Flushed(strs[s], sent[s])
    OBVIOUS
  <2> QED BY <2>1, <2>3, <2>4, <2>5, FlushedWithin
<1>4. ASSUME NEW s \in StreamIds, streams'[s] # Absent
      PROVE  InRange(streams'[s], i)
  <2> HIDE DEF after
  <2>1. CASE s \in pending
    <3>1. streams'[s] = after[s]
      BY <1>1, <1>4, <2>1 DEF after
    <3> QED BY <1>3, <2>1, <3>1
  <2>2. CASE s \notin pending
    <3>1. streams'[s] = strs[s]
      BY <1>1, <2>2
    <3> QED BY <1>4, <3>1
  <2> QED BY <2>1, <2>2
<1>5. StreamsWithin'
  BY <1>4 DEF StreamsWithin
<1> QED BY <1>2, <1>5

-----------------------------------------------------------------------------
(* The operations.                                                         *)

LEMMA WindowsUnmoved ==
  ASSUME WindowsInRange, StreamsWithin', UNCHANGED windows
  PROVE  WindowsInRange'
<1>1. ConnectionWithin'
  BY RangeParts DEF ConnectionWithin, windows
<1> QED BY <1>1, RangeParts, PTL

LEMMA ErrorWithin ==
  ASSUME WindowsInRange, ConnectionError
  PROVE  WindowsInRange'
BY RangeParts, StreamsUnmoved, WindowsUnmoved DEF ConnectionError, table

(* Steps that touch no window.                                             *)
LEMMA QuietWithin ==
  ASSUME WindowsInRange,
         \/ ReceivePreface \/ MarkPrefaceSent \/ SendPing \/ SendGoaway
         \/ HandleSettingsAck \/ HandleGoaway \/ HandlePriority
         \/ (\E a \in Pings : HandlePing(a))
         \/ (\E s \in PeerIds : HandlePriorityUpdate(s))
         \/ (\E s \in PeerIds, n \in Fragments, end \in BOOLEAN :
               HandleHeadersSplit(s, n, end))
         \/ (\E s \in PeerIds, n \in Fragments : HandleContinuationMore(s, n))
  PROVE  WindowsInRange'
<1>1. CASE ConnectionError
  BY <1>1, ErrorWithin
<1>2. CASE ~ConnectionError
  <2>1. UNCHANGED <<remote_settings, windows, table>>
    BY <1>2, Zenon
    DEF ReceivePreface, MarkPrefaceSent, SendPing, SendGoaway, HandleSettingsAck,
        HandleGoaway, HandlePriority, HandlePing, HandlePriorityUpdate,
        HandleHeadersSplit, HandleContinuationMore
  <2> QED BY <2>1, RangeParts, StreamsUnmoved, WindowsUnmoved DEF table
<1> QED BY <1>1, <1>2

(* The WINDOW_UPDATE that goes with the first SETTINGS.                    *)
LEMMA AnnounceWithin ==
  ASSUME WindowsInRange, Initiate \/ SendSettings
  PROVE  WindowsInRange'
<1>1. AnnounceSettings
  BY DEF Initiate, SendSettings
<1>2. UNCHANGED <<remote_settings, send_window, table>>
  BY <1>1, Zenon DEF AnnounceSettings
<1>3. ConnectionWithin /\ StreamsWithin
  BY RangeParts
<1>4. recv_window' \in 0 .. MaxWindow
  BY <1>1, <1>3, SizeAssumption, MaxWindowAssumption
  DEF AnnounceSettings, CanGrow, ConnectionWithin
<1>5. ConnectionWithin' /\ StreamsWithin'
  BY <1>2, <1>3, <1>4, StreamsUnmoved DEF ConnectionWithin, table
<1> QED BY <1>5, RangeParts, PTL

LEMMA SendingWithin ==
  ASSUME TableType, WindowsInRange, NEW s,
         (\E status, end : SendResponse(s, status, end)) \/ SendTrailers(s)
  PROVE  WindowsInRange'
<1> DEFINE i == remote_settings.initial_window_size
           old == streams[s]
<1>1. StreamsWithin
  BY RangeParts
<1>2. InMap(s) /\ UNCHANGED <<remote_settings, windows>>
  BY Zenon DEF SendResponse, SendTrailers
<1>3. old \in Stream /\ InRange(old, i)
  BY <1>1, <1>2, InMapWithin
<1>4. CASE \E status, end : SendResponse(s, status, end)
  <2>1. PICK status, end : SendResponse(s, status, end)
    BY <1>4
  <2> DEFINE r == [old EXCEPT
                     !.state = SendHeaders(@, end),
                     !.final_response_sent = @ \/ status \notin Informational,
                     !.connect_established =
                        @ \/ (status \in Successful /\ old.request_method = "CONNECT")]
  <2>2. StoreOrClose(s, r, end /\ r.state = "Closed", <<>>)
    BY <2>1, Zenon DEF SendResponse
  <2>3. r.send_window = old.send_window /\ r.recv_window = old.recv_window
    BY <1>3 DEF Stream
  <2> HIDE DEF r
  <2>4. InRange(r, i)
    BY <1>3, <2>3, SameWindows
  <2>5. StreamsWithin'
    BY <1>1, <1>2, <2>2, <2>4, StoreOrCloseWithin
  <2> QED BY <1>2, <2>5, WindowsUnmoved
<1>5. CASE SendTrailers(s)
  <2> DEFINE r == [old EXCEPT !.state = SendHeaders(@, TRUE)]
  <2>1. StoreOrClose(s, r, r.state = "Closed", <<>>)
    BY <1>5, Zenon DEF SendTrailers
  <2>2. r.send_window = old.send_window /\ r.recv_window = old.recv_window
    BY <1>3 DEF Stream
  <2> HIDE DEF r
  <2>3. InRange(r, i)
    BY <1>3, <2>2, SameWindows
  <2>4. StreamsWithin'
    BY <1>1, <1>2, <2>1, <2>3, StoreOrCloseWithin
  <2> QED BY <1>2, <2>4, WindowsUnmoved
<1> QED BY <1>4, <1>5

LEMMA NewStreamWithin ==
  ASSUME RestType
  PROVE  InRange(NewStream, remote_settings.initial_window_size)
BY InitialType, SizeAssumption, MaxWindowAssumption DEF InRange, NewStream

LEMMA StartStreamWithin ==
  ASSUME RestType, TableType, WindowsInRange, NEW m, NEW end, StartStream(m, end)
  PROVE  WindowsInRange'
<1> DEFINE r == [NewStream EXCEPT !.state = SendHeaders(@, end), !.request_method = m]
<1>1. /\ streams' = [streams EXCEPT ![next_stream_id] = r]
      /\ UNCHANGED <<remote_settings, windows>>
  BY Zenon DEF StartStream
<1>2. r.send_window = NewStream.send_window /\ r.recv_window = NewStream.recv_window
  BY DEF NewStream
<1> HIDE DEF r
<1>3. InRange(r, remote_settings.initial_window_size)
  BY <1>2, NewStreamWithin, SameWindows
<1>4. StreamsWithin'
  BY <1>1, <1>3, RangeParts, StoreWithin
<1> QED BY <1>1, <1>4, WindowsUnmoved

LEMMA SendDataWithin ==
  ASSUME RestType, TableType, WindowsInRange, NEW s, NEW n \in AppSizes, NEW end \in BOOLEAN,
         SendData(s, n, end)
  PROVE  WindowsInRange'
<1> DEFINE old == streams[s]
           r == [old EXCEPT !.send_buffer = @ + n, !.pending_end_stream = end]
<1>1. /\ InMap(s)
      /\ FlushStream(s, r, <<>>)
      /\ UNCHANGED <<remote_settings, recv_window>>
  BY Zenon DEF SendData
<1>2. old \in Stream /\ InRange(old, remote_settings.initial_window_size)
  BY <1>1, InMapWithin, RangeParts
<1>3. old.send_buffer + n \in Nat
  BY <1>2, InputAssumption DEF Stream
<1>4. r \in Stream
  BY <1>2, <1>3, Zenon DEF Stream
<1>5. r.send_window = old.send_window /\ r.recv_window = old.recv_window
  BY <1>2 DEF Stream
<1> HIDE DEF r
<1>6. InRange(r, remote_settings.initial_window_size)
  BY <1>2, <1>5, SameWindows
<1> QED BY <1>1, <1>4, <1>6, FlushStreamWithin

LEMMA ResettingWithin ==
  ASSUME TableType, WindowsInRange, NEW s,
         \/ \E c : ResetStream(s, c) \/ HandleRstStream(s, c)
         \/ DecoderStreamError(s)
         \/ HandleUnknown(s)
  PROVE  WindowsInRange'
<1>1. CASE ConnectionError
  BY <1>1, ErrorWithin
<1>2. CASE ~ConnectionError
  <2>1. /\ UNCHANGED <<remote_settings, windows>>
        /\ \/ \E code, n : ResetKnownStream(s, code, n)
           \/ RemoveStream(s)
           \/ UNCHANGED table
    BY <1>2, Zenon DEF ResetStream, HandleRstStream, DecoderStreamError, HandleUnknown
  <2>2. StreamsWithin'
    BY <2>1, RangeParts, ResetWithin, RemoveWithin, StreamsUnmoved DEF table
  <2> QED BY <2>1, <2>2, WindowsUnmoved
<1> QED BY <1>1, <1>2

LEMMA SendWindowUpdateWithin ==
  ASSUME TableType, WindowsInRange, NEW s, NEW n \in Credits, SendWindowUpdate(s, n)
  PROVE  WindowsInRange'
<1> DEFINE i == remote_settings.initial_window_size
           old == streams[s]
           r == [old EXCEPT !.recv_window = @ + n]
<1>1. ConnectionWithin /\ StreamsWithin
  BY RangeParts
<1>2. n \in Nat
  BY InputAssumption, MaxWindowAssumption
<1>3. UNCHANGED <<remote_settings, send_window>>
  BY Zenon DEF SendWindowUpdate
<1>4. \/ UNCHANGED streams /\ CanGrow(recv_window, n) /\ recv_window' = recv_window + n
      \/ /\ InMap(s) /\ CanGrow(old.recv_window, n)
         /\ streams' = [streams EXCEPT ![s].recv_window = @ + n]
         /\ UNCHANGED recv_window
      \/ UNCHANGED <<streams, recv_window>>
  BY Zenon DEF SendWindowUpdate
<1>5. ConnectionWithin'
  BY <1>1, <1>2, <1>3, <1>4, MaxWindowAssumption DEF ConnectionWithin, CanGrow
<1>6. CASE UNCHANGED streams
  <2>1. StreamsWithin'
    BY <1>1, <1>3, <1>6, StreamsUnmoved
  <2> QED BY <1>5, <2>1, RangeParts, PTL
<1>7. CASE /\ InMap(s) /\ CanGrow(old.recv_window, n)
           /\ streams' = [streams EXCEPT ![s].recv_window = @ + n]
  <2>1. old \in Stream /\ InRange(old, i)
    BY <1>1, <1>7, InMapWithin
  <2>2. r.send_window = old.send_window /\ r.recv_window = old.recv_window + n
    BY <2>1 DEF Stream
  <2>3. streams' = [streams EXCEPT ![s] = r]
    BY <1>7
  <2> HIDE DEF r
  <2>4. InRange(r, i)
    BY <1>2, <1>7, <2>1, <2>2, MaxWindowAssumption DEF InRange, CanGrow
  <2>5. StreamsWithin'
    BY <1>1, <1>3, <2>3, <2>4, StoreWithin
  <2> QED BY <1>5, <2>5, RangeParts, PTL
<1> QED BY <1>4, <1>6, <1>7

LEMMA HandleDataWithin ==
  ASSUME TableType, WindowsInRange, NEW s, NEW len \in PeerSizes, NEW pad \in Pads,
         NEW end \in BOOLEAN, HandleData(s, len, pad, end)
  PROVE  WindowsInRange'
<1> DEFINE i == remote_settings.initial_window_size
           size == len + pad
           old == streams[s]
           r == [old EXCEPT !.state = RecvData(@, end),
                            !.recv_window = @ - size,
                            !.received_content_length = AddReceived(old, len)]
<1>1. CASE ConnectionError
  BY <1>1, ErrorWithin
<1>2. CASE ~ConnectionError
  <2>1. /\ CanConsume(recv_window, size)
        /\ recv_window' = recv_window - size
        /\ UNCHANGED <<remote_settings, send_window>>
    BY <1>2, Zenon DEF HandleData
  <2>2. \/ UNCHANGED table
        \/ \E error : ResetKnownStream(s, error, size)
        \/ /\ InMap(s) /\ CanConsume(old.recv_window, size)
           /\ StoreOrClose(s, r, end /\ r.state = "Closed", <<DataReceived(s, len, end)>>)
    BY <1>2, Zenon DEF HandleData
  <2>3. size \in Nat
    BY InputAssumption
  <2>4. ConnectionWithin /\ StreamsWithin
    BY RangeParts
  <2> HIDE DEF size
  <2>5. ConnectionWithin'
    BY <2>1, <2>3, <2>4, MaxWindowAssumption DEF ConnectionWithin, CanConsume
  <2>6. StreamsWithin'
    <3>1. CASE UNCHANGED table
      BY <2>1, <2>4, <3>1, StreamsUnmoved DEF table
    <3>2. CASE \E error : ResetKnownStream(s, error, size)
      BY <2>1, <2>4, <3>2, ResetWithin
    <3>3. CASE /\ InMap(s) /\ CanConsume(old.recv_window, size)
               /\ StoreOrClose(s, r, end /\ r.state = "Closed",
                               <<DataReceived(s, len, end)>>)
      <4>1. old \in Stream /\ InRange(old, i)
        BY <2>4, <3>3, InMapWithin
      <4>2. r.send_window = old.send_window /\ r.recv_window = old.recv_window - size
        BY <4>1 DEF Stream
      <4> HIDE DEF r
      <4>3. InRange(r, i)
        BY <2>3, <3>3, <4>1, <4>2, MaxWindowAssumption DEF InRange, CanConsume
      <4> QED BY <2>1, <2>4, <3>3, <4>3, StoreOrCloseWithin
    <3> QED BY <2>2, <3>1, <3>2, <3>3
  <2> QED BY <2>5, <2>6, RangeParts, PTL
<1> QED BY <1>1, <1>2

(* The shift by the change of SETTINGS_INITIAL_WINDOW_SIZE moves the lower *)
(* bound with the windows; the upper one is what SettingsRejected examines. *)
LEMMA SettingsWithin ==
  ASSUME RestType, TableType, WindowsInRange, NEW f \in PeerSettings, HandleSettings(f)
  PROVE  WindowsInRange'
<1> DEFINE delta == f.initial_window_size - remote_settings.initial_window_size
           shifted == [s \in StreamIds |->
                         IF InMap(s) THEN [streams[s] EXCEPT !.send_window = @ + delta]
                         ELSE Absent]
<1>1. CASE ConnectionError
  BY <1>1, ErrorWithin
<1>2. CASE ~ConnectionError
  <2>1. /\ ~SettingsRejected(f, delta)
        /\ remote_settings' = f
        /\ \E reported : FlushAll(shifted, send_window, <<SettingsAck>>, reported)
        /\ UNCHANGED recv_window
    BY <1>2, Zenon DEF HandleSettings
  <2>2. /\ f.initial_window_size \in 0 .. MaxWindow
        /\ remote_settings.initial_window_size \in 0 .. MaxWindow
    BY InputAssumption, InitialType
  <2>3. delta \in Int
    BY <2>2, MaxWindowAssumption
  <2>4. ConnectionWithin /\ StreamsWithin
    BY RangeParts
  <2>5. ASSUME NEW s \in StreamIds, shifted[s] # Absent
        PROVE  shifted[s] \in Stream /\ InRange(shifted[s], f.initial_window_size)
    <3> DEFINE old == streams[s]
               r == [old EXCEPT !.send_window = @ + delta]
    <3>1. InMap(s) /\ shifted[s] = r
      BY <2>5
    <3>2. old \in Stream /\ InRange(old, remote_settings.initial_window_size)
      BY <2>4, <3>1, InMapWithin
    <3>3. CanGrow(old.send_window, delta)
      BY <2>1, <3>1 DEF SettingsRejected, OpenStreams
    <3> HIDE DEF delta
    <3>4. r \in Stream
      BY <2>3, <3>2 DEF Stream
    <3>5. r.send_window = old.send_window + delta /\ r.recv_window = old.recv_window
      BY <3>2 DEF Stream
    <3> HIDE DEF r, shifted
    <3>6. InRange(r, f.initial_window_size)
      <4>1. old.send_window \in Int
        BY <3>2 DEF Stream
      <4> QED BY <2>2, <3>2, <3>3, <3>5, <4>1, MaxWindowAssumption
              DEF InRange, CanGrow, delta
    <3> QED BY <3>1, <3>4, <3>6
  <2>6. shifted \in [StreamIds -> Stream \cup {Absent}]
    BY <2>5
  <2> HIDE DEF shifted, delta
  <2>7. send_window' \in 0 .. MaxWindow /\ StreamsWithin'
    <3>1. send_window \in 0 .. MaxWindow
      BY <2>4 DEF ConnectionWithin
    <3> QED BY <2>1, <2>2, <2>5, <2>6, <3>1, FlushAllWithin
  <2>8. ConnectionWithin'
    BY <2>1, <2>4, <2>7 DEF ConnectionWithin
  <2> QED BY <2>7, <2>8, RangeParts, PTL
<1> QED BY <1>1, <1>2

LEMMA ConnectionWindowUpdateWithin ==
  ASSUME RestType, TableType, WindowsInRange, NEW n \in Increments,
         HandleConnectionWindowUpdate(n)
  PROVE  WindowsInRange'
<1>1. CASE ConnectionError
  BY <1>1, ErrorWithin
<1>2. CASE ~ConnectionError
  <2>1. /\ CanGrow(send_window, n)
        /\ \E reported : FlushAll(streams, send_window + n, <<>>, reported)
        /\ UNCHANGED <<remote_settings, recv_window>>
    BY <1>2, Zenon DEF HandleConnectionWindowUpdate
  <2>2. ConnectionWithin /\ StreamsWithin
    BY RangeParts
  <2>3. send_window + n \in 0 .. MaxWindow
    BY <2>1, <2>2, InputAssumption, MaxWindowAssumption DEF ConnectionWithin, CanGrow
  <2>4. send_window' \in 0 .. MaxWindow /\ StreamsWithin'
    <3>1. streams \in [StreamIds -> Stream \cup {Absent}]
      BY DEF TableType
    <3>2. /\ remote_settings.initial_window_size \in 0 .. MaxWindow
          /\ remote_settings'.initial_window_size = remote_settings.initial_window_size
      BY <2>1, InitialType
    <3>3. \A s \in StreamIds :
            streams[s] # Absent => InRange(streams[s], remote_settings.initial_window_size)
      BY <2>2 DEF StreamsWithin
    <3> QED BY <2>1, <2>3, <3>1, <3>2, <3>3, FlushAllWithin
  <2>5. ConnectionWithin'
    BY <2>1, <2>2, <2>4 DEF ConnectionWithin
  <2> QED BY <2>4, <2>5, RangeParts, PTL
<1> QED BY <1>1, <1>2

LEMMA WindowUpdateWithin ==
  ASSUME RestType, TableType, WindowsInRange, NEW s, NEW n \in Increments,
         HandleWindowUpdate(s, n)
  PROVE  WindowsInRange'
<1> DEFINE i == remote_settings.initial_window_size
           old == streams[s]
           r == [old EXCEPT !.send_window = @ + n]
<1>1. CASE ConnectionError
  BY <1>1, ErrorWithin
<1>2. CASE ~ConnectionError
  <2>1. /\ UNCHANGED <<remote_settings, recv_window>>
        /\ \/ UNCHANGED <<table, send_window>>
           \/ ResetKnownStream(s, "FLOW_CONTROL_ERROR", 0) /\ UNCHANGED send_window
           \/ /\ InMap(s) /\ CanGrow(old.send_window, n)
              /\ FlushStream(s, r, <<StreamEvent("WindowUpdateReceived", s)>>)
    BY <1>2, Zenon DEF HandleWindowUpdate
  <2>2. StreamsWithin
    BY RangeParts
  <2>3. CASE UNCHANGED <<table, send_window>>
    <3>1. StreamsWithin' /\ UNCHANGED windows
      BY <2>1, <2>2, <2>3, StreamsUnmoved DEF table, windows
    <3> QED BY <3>1, WindowsUnmoved
  <2>4. CASE ResetKnownStream(s, "FLOW_CONTROL_ERROR", 0) /\ UNCHANGED send_window
    <3>1. StreamsWithin' /\ UNCHANGED windows
      BY <2>1, <2>2, <2>4, ResetWithin DEF windows
    <3> QED BY <3>1, WindowsUnmoved
  <2>5. CASE /\ InMap(s) /\ CanGrow(old.send_window, n)
             /\ FlushStream(s, r, <<StreamEvent("WindowUpdateReceived", s)>>)
    <3>1. old \in Stream /\ InRange(old, i) /\ n \in Nat
      BY <2>2, <2>5, InMapWithin, InputAssumption, MaxWindowAssumption
    <3>2. r \in Stream /\ r.send_window = old.send_window + n
      BY <3>1 DEF Stream
    <3>3. r.recv_window = old.recv_window /\ old.send_window \in Int
      BY <3>1 DEF Stream
    <3> HIDE DEF r
    <3>4. InRange(r, i)
      BY <2>5, <3>1, <3>2, <3>3, InitialType, MaxWindowAssumption DEF InRange, CanGrow
    <3> QED BY <2>1, <2>5, <3>2, <3>4, FlushStreamWithin
  <2> QED BY <2>1, <2>3, <2>4, <2>5
<1> QED BY <1>1, <1>2

LEMMA CompleteBlockWithin ==
  ASSUME RestType, TableInv, WindowsInRange, NEW s \in StreamIds, NEW h \in Blocks,
         NEW end \in BOOLEAN, NEW closed, NEW limit, NEW tunnel,
         CompleteBlock(s, h, end, closed, limit, tunnel), UNCHANGED remote_settings
  PROVE  StreamsWithin'
<1> DEFINE i == remote_settings.initial_window_size
           old == IF InMap(s) THEN streams[s] ELSE NewStream
           r == RecordBlock(s, old, h, end)
<1>1. TableType /\ StreamsWithin
  BY RangeParts DEF TableInv
<1>2. \/ UNCHANGED table
      \/ \E code : EnsureAndReset(s, code)
      \/ ResetKnownStream(s, "PROTOCOL_ERROR", 0)
      \/ ProcessHeaders(s, h, end)
  BY Zenon DEF CompleteBlock
<1>3. \/ UNCHANGED table
      \/ RemoveStream(s)
      \/ ResetKnownStream(s, "PROTOCOL_ERROR", 0)
      \/ /\ CanRecvHeaders(old.state) /\ ~MalformedBlock(old, h, end)
         /\ StoreOrClose(s, r, end /\ r.state = "Closed", <<HeadersEvent(s, h)>>)
  BY <1>2, Zenon DEF ProcessHeaders, EnsureAndReset
<1>4. CASE UNCHANGED table \/ RemoveStream(s) \/ ResetKnownStream(s, "PROTOCOL_ERROR", 0)
  BY <1>1, <1>4, StreamsUnmoved, RemoveWithin, ResetWithin DEF table
<1>5. CASE /\ CanRecvHeaders(old.state) /\ ~MalformedBlock(old, h, end)
           /\ StoreOrClose(s, r, end /\ r.state = "Closed", <<HeadersEvent(s, h)>>)
  <2>1. old \in Stream /\ old.state \in Live \cup {"Idle"} /\ InRange(old, i)
    <3>1. CASE InMap(s)
      BY <1>1, <3>1, InMapWithin, GoodInMap DEF Good
    <3>2. CASE ~InMap(s)
      <4>1. NewStream.state = "Idle"
        BY DEF NewStream
      <4> QED BY <3>2, <4>1, NewStreamType, NewStreamWithin
    <3> QED BY <3>1, <3>2
  <2> HIDE DEF old
  <2>2. RecvHeaders(old.state, end) \in StreamStates
    BY <1>5, <2>1, RecvHeadersFacts
  <2>3. r.send_window = old.send_window /\ r.recv_window = old.recv_window
    BY <1>5, <2>1, <2>2, RecordBlockFacts
  <2> HIDE DEF r
  <2>4. InRange(r, i)
    BY <2>1, <2>3, SameWindows
  <2> QED BY <1>1, <1>5, <2>4, StoreOrCloseWithin
<1> QED BY <1>3, <1>4, <1>5

LEMMA HeaderFramesWithin ==
  ASSUME RestType, TableInv, WindowsInRange, NEW s \in PeerIds, NEW h \in Blocks,
         \/ \E end \in BOOLEAN : HandleHeaders(s, h, end)
         \/ \E n \in Fragments : HandleContinuation(s, n, h)
  PROVE  WindowsInRange'
<1>1. CASE ConnectionError
  BY <1>1, ErrorWithin
<1>2. CASE ~ConnectionError
  <2>1. UNCHANGED <<remote_settings, windows>>
    BY <1>2, Zenon DEF HandleHeaders, HandleContinuation
  <2>2. CASE \E end \in BOOLEAN : HandleHeaders(s, h, end)
    <3>1. /\ ~HeadersRejected(s)
          /\ \E end \in BOOLEAN : \E closed, limit, tunnel :
               CompleteBlock(s, h, end, closed, limit, tunnel)
      BY <1>2, <2>2, Zenon DEF HandleHeaders
    <3>2. StreamsWithin'
      BY <2>1, <3>1, HeadersAccepted, CompleteBlockWithin
    <3> QED BY <2>1, <3>2, WindowsUnmoved
  <2>3. CASE \E n \in Fragments : HandleContinuation(s, n, h)
    <3>1. /\ s = header_continuation_stream
          /\ \E closed, limit, tunnel :
               CompleteBlock(s, h, header_end_stream, closed, limit, tunnel)
      BY <1>2, <2>3, Zenon DEF HandleContinuation
    <3>2. s \in StreamIds /\ header_end_stream \in BOOLEAN
      BY <3>1 DEF RestType, NoStream, PeerIds, WireIds
    <3>3. StreamsWithin'
      BY <2>1, <3>1, <3>2, CompleteBlockWithin
    <3> QED BY <2>1, <3>3, WindowsUnmoved
  <2> QED BY <2>2, <2>3
<1> QED BY <1>1, <1>2

-----------------------------------------------------------------------------
LEMMA InitWithin ==
  ASSUME Init
  PROVE  WindowsInRange
<1>1. ConnectionWithin
  BY SizeAssumption, MaxWindowAssumption DEF Init, ConnectionWithin
<1>2. StreamsWithin
  BY DEF Init, StreamsWithin
<1> QED BY <1>1, <1>2, RangeParts

LEMMA NextWithin ==
  ASSUME RestType, TableInv, WindowsInRange, [Next]_vars
  PROVE  WindowsInRange'
<1> TableType
  BY DEF TableInv
<1>1. CASE Handshake
  BY <1>1, QuietWithin, AnnounceWithin DEF Handshake
<1>2. CASE Application
  <2>1. CASE \E m \in Requests, end \in BOOLEAN : StartStream(m, end)
    BY <2>1, StartStreamWithin
  <2>2. CASE \/ \E s \in OpenStreams, r \in Responses, end \in BOOLEAN : SendResponse(s, r, end)
             \/ \E s \in OpenStreams : SendTrailers(s)
    BY <2>2, SendingWithin
  <2>3. CASE \E s \in OpenStreams, n \in AppSizes, end \in BOOLEAN : SendData(s, n, end)
    BY <2>3, SendDataWithin
  <2>4. CASE \E s \in KnownStreams, c \in Codes : ResetStream(s, c)
    BY <2>4, ResettingWithin
  <2>5. CASE SendPing \/ SendGoaway
    BY <2>5, QuietWithin
  <2>6. CASE \E s \in {0} \cup KnownStreams, n \in Credits : SendWindowUpdate(s, n)
    BY <2>6, SendWindowUpdateWithin
  <2> QED BY <1>2, <2>1, <2>2, <2>3, <2>4, <2>5, <2>6 DEF Application
<1>3. CASE PeerHeaders
  BY <1>3, HeaderFramesWithin, QuietWithin DEF PeerHeaders
<1>4. CASE PeerFrames
  <2>1. CASE RejectFrame
    BY <2>1, ErrorWithin DEF RejectFrame
  <2>2. CASE \E s \in PeerIds :
               \/ DecoderStreamError(s) \/ HandleUnknown(s)
               \/ \E c \in Codes : HandleRstStream(s, c)
    BY <2>2, ResettingWithin
  <2>3. CASE \E s \in PeerIds, n \in PeerSizes, p \in Pads, end \in BOOLEAN :
               HandleData(s, n, p, end)
    BY <2>3, HandleDataWithin
  <2>4. CASE \E f \in PeerSettings : HandleSettings(f)
    BY <2>4, SettingsWithin
  <2>5. CASE \/ HandleSettingsAck \/ HandleGoaway \/ HandlePriority
             \/ \E a \in Pings : HandlePing(a)
             \/ \E s \in PeerIds : HandlePriorityUpdate(s)
    BY <2>5, QuietWithin
  <2>6. CASE \E n \in Increments : HandleConnectionWindowUpdate(n)
    BY <2>6, ConnectionWindowUpdateWithin
  <2>7. CASE \E s \in PeerIds, n \in Increments : HandleWindowUpdate(s, n)
    BY <2>7, WindowUpdateWithin
  <2> QED BY <1>4, <2>1, <2>2, <2>3, <2>4, <2>5, <2>6, <2>7 DEF PeerFrames
<1>5. CASE UNCHANGED vars
  <2>1. UNCHANGED <<remote_settings, windows, table>>
    BY <1>5, Zenon DEF vars
  <2> QED BY <2>1, RangeParts, StreamsUnmoved, WindowsUnmoved DEF table
<1> QED BY <1>1, <1>2, <1>3, <1>4, <1>5 DEF Next

(* No window leaves the range the code's i64 arithmetic is written for:    *)
(* consume_send and consume_recv never take more than a window offers, no  *)
(* increment passes MAX_WINDOW_SIZE, and a stream's send window is         *)
(* negative only by what SETTINGS_INITIAL_WINDOW_SIZE took back, however   *)
(* many SETTINGS, WINDOW_UPDATEs and flushes come in whatever order.       *)
THEOREM WindowsStayInRange == Spec => []WindowsInRange
<1>1. Init => WindowsInRange
  BY InitWithin
<1>2. RestType /\ TableInv /\ WindowsInRange /\ [Next]_vars => WindowsInRange'
  BY NextWithin
<1> QED BY <1>1, <1>2, InvariantHolds, PTL DEF Spec

-----------------------------------------------------------------------------
(* The account of the connection's receive window: what the events of a    *)
(* step tell the application it has consumed, and what the WINDOW_UPDATEs  *)
(* of a step return.                                                       *)

EventsFree ==
  /\ \E X : events' \in Seq(X)
  /\ \A e \in ToSet(events') : Consumed(e) = 0

FramesFree ==
  /\ \E X : output' \in Seq(X)
  /\ \A f \in ToSet(output') : Returned(f) = 0

Even == recv_window' = recv_window /\ EventsFree /\ FramesFree

LEMMA FreeTotals ==
  /\ EventsFree => TotalOf(Consumed, events') = 0
  /\ FramesFree => TotalOf(Returned, output') = 0
<1>1. ASSUME EventsFree PROVE TotalOf(Consumed, events') = 0
  <2> DEFINE v == [k \in DOMAIN events' |-> Consumed(events'[k])]
  <2>1. DOMAIN events' = 1 .. Len(events') /\ Len(events') \in Nat
    BY <1>1 DEF EventsFree
  <2>2. \A k \in 1 .. Len(events') : Consumed(events'[k]) = 0
    BY <1>1, <2>1, Zenon DEF EventsFree, ToSet
  <2>3. v = [k \in 1 .. Len(events') |-> 0]
    BY <2>1, <2>2
  <2>4. v \in Seq(Int) /\ \A k \in 1 .. Len(v) : v[k] = 0
    BY <2>1, <2>3
  <2> QED BY <2>4, SumZero DEF TotalOf
<1>2. ASSUME FramesFree PROVE TotalOf(Returned, output') = 0
  <2> DEFINE v == [k \in DOMAIN output' |-> Returned(output'[k])]
  <2>1. DOMAIN output' = 1 .. Len(output') /\ Len(output') \in Nat
    BY <1>2 DEF FramesFree
  <2>2. \A k \in 1 .. Len(output') : Returned(output'[k]) = 0
    BY <1>2, <2>1, Zenon DEF FramesFree, ToSet
  <2>3. v = [k \in 1 .. Len(output') |-> 0]
    BY <2>1, <2>2
  <2>4. v \in Seq(Int) /\ \A k \in 1 .. Len(v) : v[k] = 0
    BY <2>1, <2>3
  <2> QED BY <2>4, SumZero DEF TotalOf
<1> QED BY <1>1, <1>2

LEMMA ShortTotals ==
  /\ \A e : Consumed(e) \in Int => TotalOf(Consumed, <<e>>) = Consumed(e)
  /\ \A e, c : Consumed(e) \in Int /\ Consumed(c) = 0 => TotalOf(Consumed, <<e, c>>) = Consumed(e)
  /\ \A f : Returned(f) \in Int => TotalOf(Returned, <<f>>) = Returned(f)
  /\ \A g, f : Returned(f) \in Int /\ Returned(g) = 0 => TotalOf(Returned, <<g, f>>) = Returned(f)
<1>1. \A x, y \in Int : SumOf(<<x>>) = x /\ SumOf(<<x, y>>) = x + y
  <2> SUFFICES ASSUME NEW x \in Int, NEW y \in Int
               PROVE  SumOf(<<x>>) = x /\ SumOf(<<x, y>>) = x + y
    OBVIOUS
  <2>1. <<x, y>> = Append(<<x>>, y) /\ <<x>> \in Seq(Int)
    OBVIOUS
  <2> QED BY <2>1, SumOne, SumAppend
<1>2. ASSUME NEW e, Consumed(e) \in Int PROVE TotalOf(Consumed, <<e>>) = Consumed(e)
  <2>1. [k \in DOMAIN <<e>> |-> Consumed(<<e>>[k])] = <<Consumed(e)>>
    OBVIOUS
  <2> QED BY <1>1, <1>2, <2>1, Zenon DEF TotalOf
<1>3. ASSUME NEW e, NEW c, Consumed(e) \in Int, Consumed(c) = 0
      PROVE  TotalOf(Consumed, <<e, c>>) = Consumed(e)
  <2>1. [k \in DOMAIN <<e, c>> |-> Consumed(<<e, c>>[k])] = <<Consumed(e), 0>>
    BY <1>3
  <2> DEFINE x == Consumed(e)
  <2>2. SumOf(<<x, 0>>) = x
    <3>1. x \in Int /\ 0 \in Int
      BY <1>3
    <3> HIDE DEF x
    <3>2. SumOf(<<x, 0>>) = x + 0
      BY <1>1, <3>1
    <3> QED BY <3>1, <3>2
  <2> QED BY <2>1, <2>2, Zenon DEF TotalOf
<1>4. ASSUME NEW f, Returned(f) \in Int PROVE TotalOf(Returned, <<f>>) = Returned(f)
  <2>1. [k \in DOMAIN <<f>> |-> Returned(<<f>>[k])] = <<Returned(f)>>
    OBVIOUS
  <2> QED BY <1>1, <1>4, <2>1, Zenon DEF TotalOf
<1>5. ASSUME NEW g, NEW f, Returned(f) \in Int, Returned(g) = 0
      PROVE  TotalOf(Returned, <<g, f>>) = Returned(f)
  <2>1. [k \in DOMAIN <<g, f>> |-> Returned(<<g, f>>[k])] = <<0, Returned(f)>>
    BY <1>5
  <2> DEFINE x == Returned(f)
  <2>2. SumOf(<<0, x>>) = x
    <3>1. x \in Int /\ 0 \in Int
      BY <1>5
    <3> HIDE DEF x
    <3>2. SumOf(<<0, x>>) = 0 + x
      BY <1>1, <3>1
    <3> QED BY <3>1, <3>2
  <2> QED BY <2>1, <2>2, Zenon DEF TotalOf
<1> QED BY <1>2, <1>3, <1>4, <1>5

(* Frames and events that have nothing to do with the account.             *)
LEMMA FreeFrames ==
  /\ Returned(Settings) = 0 /\ Returned(SettingsAck) = 0
  /\ \A s, n : Returned(RstStream(s, n)) = 0 /\ Returned(Headers(s, n)) = 0
  /\ \A s, n, end : Returned(Data(s, n, end)) = 0
  /\ \A a : Returned(Ping(a)) = 0 /\ Returned(Goaway(a)) = 0
  /\ \A s, n : s # 0 => Returned(WindowUpdate(s, n)) = 0
  /\ \A n : Returned(WindowUpdate(0, n)) = n
BY DEF Returned, Settings, SettingsAck, RstStream, Headers, Data, Ping, Goaway, WindowUpdate

LEMMA FreeEvents ==
  /\ Consumed(Event("SettingsReceived")) = 0
  /\ Consumed(Event("ConnectionPreface")) = 0
  /\ Consumed(Event("SettingsReceived ACK")) = 0
  /\ Consumed(Event("PingReceived")) = 0
  /\ Consumed(Event("GoawayReceived")) = 0
  /\ \A s : /\ Consumed(StreamEvent("StreamClosed", s)) = 0
            /\ Consumed(StreamEvent("WindowUpdateReceived", s)) = 0
            /\ Consumed(StreamEvent("PriorityUpdateReceived", s)) = 0
            /\ Consumed(StreamEvent("HeadersReceived", s)) = 0
            /\ Consumed(StreamEvent("TrailersReceived", s)) = 0
BY DEF Consumed, Event, StreamEvent

LEMMA FewFramesFree ==
  ASSUME output' = <<>> \/ \E f : output' = <<f>> /\ Returned(f) = 0
  PROVE  FramesFree
<1>1. <<>> \in Seq({}) /\ \A f : <<f>> \in Seq({f})
  OBVIOUS
<1>2. CASE output' = <<>>
  BY <1>1, <1>2, ShortSets, Zenon DEF FramesFree
<1>3. ASSUME NEW f, output' = <<f>>, Returned(f) = 0 PROVE FramesFree
  <2>1. ToSet(output') = {f}
    BY <1>3, ShortSets
  <2>2. output' \in Seq({f})
    BY <1>1, <1>3
  <2> QED BY <1>3, <2>1, <2>2, Zenon DEF FramesFree
<1> QED BY <1>2, <1>3

LEMMA FewEventsFree ==
  ASSUME \/ events' = <<>>
         \/ \E e : events' = <<e>> /\ Consumed(e) = 0
         \/ \E e, c : events' = <<e, c>> /\ Consumed(e) = 0 /\ Consumed(c) = 0
  PROVE  EventsFree
<1>1. <<>> \in Seq({}) /\ \A e : <<e>> \in Seq({e})
  OBVIOUS
<1>2. \A e, c : <<e, c>> \in Seq({e, c})
  OBVIOUS
<1>3. CASE events' = <<>>
  BY <1>1, <1>3, ShortSets, Zenon DEF EventsFree
<1>4. ASSUME NEW e, events' = <<e>>, Consumed(e) = 0 PROVE EventsFree
  <2>1. ToSet(events') = {e}
    BY <1>4, ShortSets
  <2>2. events' \in Seq({e})
    BY <1>1, <1>4
  <2> QED BY <1>4, <2>1, <2>2, Zenon DEF EventsFree
<1>5. ASSUME NEW e, NEW c, events' = <<e, c>>, Consumed(e) = 0, Consumed(c) = 0
      PROVE  EventsFree
  <2>1. ToSet(events') = {e, c}
    BY <1>5, ShortSets
  <2> QED BY <1>2, <1>5, <2>1, Zenon DEF EventsFree
<1> QED BY <1>3, <1>4, <1>5

LEMMA ErrorEven ==
  ASSUME ConnectionError
  PROVE  Even
<1>1. recv_window' = recv_window /\ output' = <<>> /\ events' = <<>>
  BY DEF ConnectionError, windows
<1> QED BY <1>1, FewFramesFree, FewEventsFree DEF Even

LEMMA ResetEven ==
  ASSUME NEW s, NEW code, ResetKnownStream(s, code, 0) \/ EnsureAndReset(s, code)
  PROVE  EventsFree /\ FramesFree
<1>1. /\ output' = <<RstStream(s, code)>>
      /\ events' = <<>> \/ events' = <<StreamReset(s, code, 0)>>
  BY Zenon DEF ResetKnownStream, EnsureAndReset
<1>2. FramesFree
  BY <1>1, FreeFrames, FewFramesFree
<1>3. EventsFree
  <2> DEFINE e == StreamReset(s, code, 0)
  <2>1. Consumed(e) = 0
    BY DEF Consumed, StreamReset
  <2>2. events' = <<>> \/ events' = <<e>>
    BY <1>1
  <2> HIDE DEF e
  <2> QED BY <2>1, <2>2, FewEventsFree
<1> QED BY <1>2, <1>3

LEMMA StoreOrCloseFree ==
  ASSUME NEW s, NEW r, NEW closes, NEW reported, StoreOrClose(s, r, closes, reported),
         reported = <<>> \/ \E e : reported = <<e>> /\ Consumed(e) = 0
  PROVE  EventsFree
<1> DEFINE c == StreamEvent("StreamClosed", s)
<1>1. Consumed(c) = 0
  BY FreeEvents
<1>2. events' = reported \/ events' = Append(reported, c)
  BY Zenon DEF StoreOrClose
<1> HIDE DEF c
<1>3. CASE reported = <<>>
  <2>1. events' = <<>> \/ events' = <<c>>
    BY <1>2, <1>3
  <2> QED BY <1>1, <2>1, FewEventsFree
<1>4. ASSUME NEW e, reported = <<e>>, Consumed(e) = 0 PROVE EventsFree
  <2>1. events' = <<e>> \/ events' = <<e, c>>
    BY <1>2, <1>4
  <2> QED BY <1>1, <1>4, <2>1, FewEventsFree
<1> QED BY <1>3, <1>4

LEMMA FlushStreamFree ==
  ASSUME NEW s, NEW r, NEW reported, FlushStream(s, r, reported),
         reported = <<>> \/ \E e : reported = <<e>> /\ Consumed(e) = 0
  PROVE  EventsFree /\ FramesFree
<1> DEFINE c == StreamEvent("StreamClosed", s)
           n == FlushSize(r, send_window)
           d == Data(s, n, FlushEnds(r, n))
<1>1. Consumed(c) = 0 /\ Returned(d) = 0
  <2>1. Consumed(c) = 0
    BY FreeEvents
  <2>2. d.type = "DATA"
    BY DEF Data
  <2>3. Returned(d) = 0
    <3> HIDE DEF d
    <3> QED BY <2>2 DEF Returned
  <2> QED BY <2>1, <2>3
<1>2. events' = <<c>> \o reported \/ events' = reported
  BY Zenon DEF FlushStream
<1>3. output' = <<d>> \/ output' = <<>>
  BY Zenon DEF FlushStream, FlushFrames
<1> HIDE DEF c, d
<1>4. FramesFree
  BY <1>1, <1>3, FewFramesFree
<1>5. CASE reported = <<>>
  <2>1. events' = <<c>> \/ events' = <<>>
    BY <1>2, <1>5
  <2> QED BY <1>1, <1>4, <2>1, FewEventsFree
<1>6. ASSUME NEW e, reported = <<e>>, Consumed(e) = 0 PROVE EventsFree
  <2>1. events' = <<c, e>> \/ events' = <<e>>
    BY <1>2, <1>6
  <2> QED BY <1>1, <1>6, <2>1, FewEventsFree
<1> QED BY <1>4, <1>5, <1>6

LEMMA FlushAllListed ==
  ASSUME NEW strs, NEW window, NEW X, NEW written \in Seq(X), NEW reported \in Seq(X),
         FlushAll(strs, window, written, reported)
  PROVE  (\E Y : output' \in Seq(Y)) /\ (\E Y : events' \in Seq(Y))
<1>1. PICK sent \in [Pending(strs) -> 0 .. BufferCapacity] :
        LET after   == [s \in Pending(strs) |-> Flushed(strs[s], sent[s])]
            removed == {s \in Pending(strs) : Removable(after[s])}
            flushed == {s \in Pending(strs) : FlushWrites(strs[s], sent[s])}
            Frame(s)  == Data(s, sent[s], FlushEnds(strs[s], sent[s]))
            Closed(s) == StreamEvent("StreamClosed", s)
        IN  /\ output' = written \o InTurn(flushed, Frame)
            /\ events' = InTurn(removed, Closed) \o reported
  BY DEF FlushAll, Pending
<1> DEFINE after   == [s \in Pending(strs) |-> Flushed(strs[s], sent[s])]
           removed == {s \in Pending(strs) : Removable(after[s])}
           flushed == {s \in Pending(strs) : FlushWrites(strs[s], sent[s])}
           Frame(s)  == Data(s, sent[s], FlushEnds(strs[s], sent[s]))
           Closed(s) == StreamEvent("StreamClosed", s)
<1>2. IsFiniteSet(flushed) /\ IsFiniteSet(removed)
  BY FiniteIds, FS_Subset DEF Pending
<1>3. \E Y : output' \in Seq(Y)
  <2> DEFINE q == SetToSeq(flushed)
             n == Cardinality(flushed)
             p == [i \in 1 .. n |-> Frame(q[i])]
             Y == X \cup {Frame(s) : s \in flushed}
  <2>1. q \in [1 .. n -> flushed] /\ n \in Nat
    BY <1>2, SetToSeqLists, FS_CardinalityType
  <2>2. output' = written \o p
    BY <1>1, <2>1 DEF InTurn
  <2> HIDE DEF q, n, Frame, flushed
  <2>3. p \in Seq(Y) /\ written \in Seq(Y)
    BY <2>1
  <2> HIDE DEF p, Y
  <2>4. output' \in Seq(Y)
    BY <2>2, <2>3
  <2> QED BY <2>4
<1>4. \E Y : events' \in Seq(Y)
  <2> DEFINE q == SetToSeq(removed)
             n == Cardinality(removed)
             p == [i \in 1 .. n |-> Closed(q[i])]
             Y == X \cup {Closed(s) : s \in removed}
  <2>1. q \in [1 .. n -> removed] /\ n \in Nat
    BY <1>2, SetToSeqLists, FS_CardinalityType
  <2>2. events' = p \o reported
    BY <1>1, <2>1 DEF InTurn
  <2> HIDE DEF q, n, Closed, removed
  <2>3. p \in Seq(Y) /\ reported \in Seq(Y)
    BY <2>1
  <2> HIDE DEF p, Y
  <2>4. events' \in Seq(Y)
    BY <2>2, <2>3
  <2> QED BY <2>4
<1> QED BY <1>3, <1>4

LEMMA FlushAllFree ==
  ASSUME NEW strs, NEW window, NEW X, NEW written \in Seq(X), NEW reported \in Seq(X),
         FlushAll(strs, window, written, reported),
         \A f \in ToSet(written) : Returned(f) = 0,
         \A e \in ToSet(reported) : Consumed(e) = 0
  PROVE  EventsFree /\ FramesFree
<1>1. PICK sent \in [Pending(strs) -> 0 .. BufferCapacity] :
        FlushShows(strs, sent, written, reported)
  BY FlushAllShows
<1>2. \A f \in ToSet(output') :
        f \in ToSet(written) \/ \E s : f = Data(s, sent[s], FlushEnds(strs[s], sent[s]))
  BY <1>1 DEF FlushShows
<1>3. \A e \in ToSet(events') :
        e \in ToSet(reported) \/ \E s : e = StreamEvent("StreamClosed", s)
  BY <1>1 DEF FlushShows
<1>4. (\E Y : output' \in Seq(Y)) /\ (\E Y : events' \in Seq(Y))
  BY FlushAllListed
<1>5. \A f \in ToSet(output') : Returned(f) = 0
  BY <1>2, FreeFrames
<1>6. \A e \in ToSet(events') : Consumed(e) = 0
  BY <1>3, FreeEvents
<1> QED BY <1>4, <1>5, <1>6 DEF EventsFree, FramesFree

LEMMA QuietStepsEven ==
  ASSUME \/ ReceivePreface \/ MarkPrefaceSent \/ SendPing \/ SendGoaway
         \/ HandleSettingsAck \/ HandlePriority \/ HandleGoaway
         \/ (\E a \in Pings : HandlePing(a))
         \/ (\E s \in PeerIds : HandlePriorityUpdate(s))
         \/ (\E s, n, end : HandleHeadersSplit(s, n, end) \/ HandleContinuationMore(s, n))
         \/ (\E m, end : StartStream(m, end))
  PROVE  Even
<1>1. CASE ConnectionError
  BY <1>1, ErrorEven
<1>2. CASE ~ConnectionError
  <2>1. UNCHANGED windows
    BY <1>2, Zenon
    DEF ReceivePreface, MarkPrefaceSent, SendPing, SendGoaway, HandleSettingsAck,
        HandlePriority, HandleGoaway, HandlePing, HandlePriorityUpdate, HandleHeadersSplit,
        HandleContinuationMore, StartStream
  <2>2. \/ events' = <<>>
        \/ events' = <<Event("SettingsReceived ACK")>>
        \/ events' = <<Event("PingReceived")>>
        \/ events' = <<Event("GoawayReceived")>>
        \/ \E s : events' = <<StreamEvent("PriorityUpdateReceived", s)>>
    BY <1>2, Zenon
    DEF ReceivePreface, MarkPrefaceSent, SendPing, SendGoaway, HandleSettingsAck,
        HandlePriority, HandleGoaway, HandlePing, HandlePriorityUpdate, HandleHeadersSplit,
        HandleContinuationMore, StartStream
  <2>3. \/ output' = <<>>
        \/ \E a : output' = <<Ping(a)>>
        \/ \E a : output' = <<Goaway(a)>>
        \/ \E s, end : output' = <<Headers(s, end)>>
    BY <1>2, Zenon
    DEF ReceivePreface, MarkPrefaceSent, SendPing, SendGoaway, HandleSettingsAck,
        HandlePriority, HandleGoaway, HandlePing, HandlePriorityUpdate, HandleHeadersSplit,
        HandleContinuationMore, StartStream
  <2>4. EventsFree
    <3>1. events' = <<>> \/ \E e : events' = <<e>> /\ Consumed(e) = 0
      BY <2>2, FreeEvents
    <3> QED BY <3>1, FewEventsFree
  <2>5. FramesFree
    BY <2>3, FreeFrames, FewFramesFree
  <2> QED BY <2>1, <2>4, <2>5 DEF Even, windows
<1> QED BY <1>1, <1>2

LEMMA SendingEven ==
  ASSUME NEW s,
         \/ \E r, end : SendResponse(s, r, end)
         \/ SendTrailers(s)
         \/ \E n, end : SendData(s, n, end)
  PROVE  Even
<1>1. recv_window' = recv_window
  BY Zenon DEF SendResponse, SendTrailers, SendData, windows
<1>2. CASE (\E r, end : SendResponse(s, r, end)) \/ SendTrailers(s)
  <2>1. /\ \E end : output' = <<Headers(s, end)>>
        /\ \E r, closes : StoreOrClose(s, r, closes, <<>>)
    BY <1>2, Zenon DEF SendResponse, SendTrailers
  <2>2. FramesFree
    BY <2>1, FreeFrames, FewFramesFree
  <2>3. EventsFree
    BY <2>1, StoreOrCloseFree
  <2> QED BY <1>1, <2>2, <2>3 DEF Even
<1>3. CASE \E n, end : SendData(s, n, end)
  <2>1. \E r : FlushStream(s, r, <<>>)
    BY <1>3, Zenon DEF SendData
  <2> QED BY <1>1, <2>1, FlushStreamFree DEF Even
<1> QED BY <1>2, <1>3

LEMMA ResettingEven ==
  ASSUME NEW s,
         \/ \E c : ResetStream(s, c) \/ HandleRstStream(s, c)
         \/ DecoderStreamError(s)
         \/ HandleUnknown(s)
  PROVE  Even
<1>1. CASE ConnectionError
  BY <1>1, ErrorEven
<1>2. CASE ~ConnectionError
  <2>1. UNCHANGED windows
    BY <1>2, Zenon DEF ResetStream, HandleRstStream, DecoderStreamError, HandleUnknown
  <2>2. \/ \E code : ResetKnownStream(s, code, 0)
        \/ /\ output' = <<>>
           /\ events' = <<>> \/ \E code : events' = <<StreamReset(s, code, 0)>>
    BY <1>2, Zenon DEF ResetStream, HandleRstStream, DecoderStreamError, HandleUnknown
  <2>3. \A code : Consumed(StreamReset(s, code, 0)) = 0
    BY DEF Consumed, StreamReset
  <2> QED BY <2>1, <2>2, <2>3, ResetEven, FewFramesFree, FewEventsFree DEF Even, windows
<1> QED BY <1>1, <1>2

LEMMA CompleteBlockFree ==
  ASSUME NEW s, NEW h, NEW end, NEW limit, NEW tunnel, NEW closed,
         CompleteBlock(s, h, end, closed, limit, tunnel)
  PROVE  EventsFree /\ FramesFree
<1> DEFINE x == HeadersEvent(s, h)
<1>1. \/ output' = <<>> /\ events' = <<>>
      \/ \E code : ResetKnownStream(s, code, 0) \/ EnsureAndReset(s, code)
      \/ ProcessHeaders(s, h, end)
  BY Zenon DEF CompleteBlock
<1>2. ProcessHeaders(s, h, end) =>
         \/ \E code : EnsureAndReset(s, code)
         \/ output' = <<>> /\ \E r, closes : StoreOrClose(s, r, closes, <<x>>)
  BY Zenon DEF ProcessHeaders
<1>3. Consumed(x) = 0
  BY DEF HeadersEvent, StreamEvent, Consumed
<1> HIDE DEF x
<1>4. CASE output' = <<>> /\ events' = <<>>
  BY <1>4, FewFramesFree, FewEventsFree
<1>5. CASE \E code : ResetKnownStream(s, code, 0) \/ EnsureAndReset(s, code)
  BY <1>5, ResetEven
<1>6. CASE output' = <<>> /\ \E r, closes : StoreOrClose(s, r, closes, <<x>>)
  BY <1>3, <1>6, FewFramesFree, StoreOrCloseFree
<1> QED BY <1>1, <1>2, <1>4, <1>5, <1>6

LEMMA HeaderFramesEven ==
  ASSUME PeerHeaders
  PROVE  Even
<1>1. CASE ConnectionError
  BY <1>1, ErrorEven
<1>2. CASE \E s, n, end : HandleHeadersSplit(s, n, end) \/ HandleContinuationMore(s, n)
  BY <1>2, QuietStepsEven
<1>3. ASSUME ~ConnectionError, NEW s, NEW n, NEW h, NEW end,
             HandleHeaders(s, h, end) \/ HandleContinuation(s, n, h)
      PROVE  Even
  <2>1. UNCHANGED windows
    BY <1>3, Zenon DEF HandleHeaders, HandleContinuation
  <2>2. \E e, closed, limit, tunnel : CompleteBlock(s, h, e, closed, limit, tunnel)
    BY <1>3, Zenon DEF HandleHeaders, HandleContinuation
  <2>3. EventsFree /\ FramesFree
    BY <2>2, CompleteBlockFree
  <2> QED BY <2>1, <2>3 DEF Even, windows
<1> QED BY <1>1, <1>2, <1>3 DEF PeerHeaders

LEMMA WindowUpdateEven ==
  ASSUME NEW n, HandleConnectionWindowUpdate(n) \/ \E s : HandleWindowUpdate(s, n)
  PROVE  Even
<1>1. \A s : Consumed(StreamEvent("WindowUpdateReceived", s)) = 0
  BY FreeEvents
<1>2. CASE ConnectionError
  BY <1>2, ErrorEven
<1>3. CASE ~ConnectionError /\ HandleConnectionWindowUpdate(n)
  <2> DEFINE e == StreamEvent("WindowUpdateReceived", 0)
             X == {e}
  <2>1. FlushAll(streams, send_window + n, <<>>, <<e>>) /\ recv_window' = recv_window
    BY <1>3, Zenon DEF HandleConnectionWindowUpdate
  <2>2. (\A x \in ToSet(<<e>>) : Consumed(x) = 0) /\ ToSet(<<>>) = {}
    BY <1>1, ShortSets
  <2>3. <<>> \in Seq(X) /\ <<e>> \in Seq(X)
    OBVIOUS
  <2> HIDE DEF e, X
  <2> QED BY <2>1, <2>2, <2>3, FlushAllFree DEF Even
<1>4. ASSUME ~ConnectionError, NEW s, HandleWindowUpdate(s, n)
      PROVE  Even
  <2> DEFINE e == StreamEvent("WindowUpdateReceived", s)
  <2>1. \/ output' = <<>> /\ (events' = <<>> \/ events' = <<e>>)
        \/ \E code : ResetKnownStream(s, code, 0)
        \/ \E r : FlushStream(s, r, <<e>>)
    BY <1>4, Zenon DEF HandleWindowUpdate
  <2>2. recv_window' = recv_window
    BY <1>4, Zenon DEF HandleWindowUpdate
  <2>3. Consumed(e) = 0
    BY <1>1
  <2> HIDE DEF e
  <2>4. EventsFree /\ FramesFree
    BY <2>1, <2>3, ResetEven, FewFramesFree, FewEventsFree, FlushStreamFree
  <2> QED BY <2>2, <2>4 DEF Even
<1> QED BY <1>2, <1>3, <1>4

LEMMA SettingsEven ==
  ASSUME NEW f \in PeerSettings, HandleSettings(f)
  PROVE  Even
<1> DEFINE delta   == f.initial_window_size - remote_settings.initial_window_size
           shifted == [s \in StreamIds |->
                         IF InMap(s) THEN [streams[s] EXCEPT !.send_window = @ + delta]
                         ELSE Absent]
           a == Event("SettingsReceived")
           b == Event("ConnectionPreface")
           k == SettingsAck
           reported == IF state = "WaitingPreface" THEN <<a, b>> ELSE <<a>>
           X == {a, b, k}
<1>1. CASE ConnectionError
  BY <1>1, ErrorEven
<1>2. CASE ~ConnectionError
  <2>1. FlushAll(shifted, send_window, <<k>>, reported) /\ recv_window' = recv_window
    BY <1>2, Zenon DEF HandleSettings
  <2>2. Consumed(a) = 0 /\ Consumed(b) = 0 /\ Returned(k) = 0
    BY FreeEvents, FreeFrames
  <2> HIDE DEF a, b, k
  <2>3. /\ \A e \in ToSet(reported) : Consumed(e) = 0
        /\ \A e \in ToSet(<<k>>) : Returned(e) = 0
    BY <2>2, ShortSets
  <2>4. <<k>> \in Seq(X) /\ reported \in Seq(X)
    <3>1. <<k>> \in Seq(X) /\ <<a, b>> \in Seq(X) /\ <<a>> \in Seq(X)
      OBVIOUS
    <3> QED BY <3>1
  <2> HIDE DEF shifted, reported, X
  <2> QED BY <2>1, <2>3, <2>4, FlushAllFree DEF Even
<1> QED BY <1>1, <1>2

(* A step that moves the window: waste octets of it are reported to nobody *)
(* and returned by nobody.                                                 *)
Balanced(waste) ==
  /\ TotalOf(Consumed, events') \in Int
  /\ TotalOf(Returned, output') \in Int
  /\ recv_window'
       = recv_window + TotalOf(Returned, output') - TotalOf(Consumed, events') - waste

LEMMA EvenBalanced ==
  ASSUME RestType, Even
  PROVE  Balanced(0)
BY FreeTotals DEF Even, Balanced, RestType

(* WINDOW_UPDATE, at once or after SETTINGS.                               *)
LEMMA ReturningBalanced ==
  ASSUME RestType,
         \/ Initiate \/ SendSettings
         \/ \E s \in {0} \cup KnownStreams, n \in Credits : SendWindowUpdate(s, n)
  PROVE  Balanced(0)
<1>0. events' = <<>>
  BY Zenon DEF Initiate, SendSettings, AnnounceSettings, SendWindowUpdate
<1>1. TotalOf(Consumed, events') = 0 /\ recv_window \in Int
  BY <1>0, FewEventsFree, FreeTotals DEF RestType
<1>2. CASE Initiate \/ SendSettings
  <2> DEFINE n == ConnectionWindow - DefaultWindow
             w == WindowUpdate(0, n)
  <2>1. n \in Int
    BY SizeAssumption
  <2>2. \/ recv_window' = recv_window /\ output' = <<Settings>>
        \/ recv_window' = recv_window + n /\ output' = <<Settings, w>>
    BY <1>2, Zenon DEF Initiate, SendSettings, AnnounceSettings
  <2>3. Returned(w) = n /\ Returned(Settings) = 0
    BY DEF Returned, WindowUpdate, Settings
  <2> HIDE DEF n, w
  <2>4. \/ recv_window' = recv_window /\ TotalOf(Returned, output') = 0
        \/ recv_window' = recv_window + n /\ TotalOf(Returned, output') = n
    <3>1. Returned(w) \in Int /\ Returned(Settings) \in Int
      BY <2>1, <2>3
    <3>2. /\ TotalOf(Returned, <<Settings>>) = Returned(Settings)
          /\ TotalOf(Returned, <<Settings, w>>) = Returned(w)
      BY <2>3, <3>1, ShortTotals
    <3> QED BY <2>2, <2>3, <3>2
  <2> QED BY <1>1, <2>1, <2>4 DEF Balanced
<1>3. ASSUME NEW s \in {0} \cup KnownStreams, NEW n \in Credits, SendWindowUpdate(s, n)
      PROVE  Balanced(0)
  <2> DEFINE w == WindowUpdate(s, n)
  <2>1. n \in Int
    BY InputAssumption
  <2>2. output' = <<w>>
    BY <1>3, Zenon DEF SendWindowUpdate
  <2>3. Returned(w) = IF s = 0 THEN n ELSE 0
    BY DEF Returned, WindowUpdate
  <2>4. recv_window' = IF s = 0 THEN recv_window + n ELSE recv_window
    <3>1. ~InMap(0)
      BY DEF InMap, StreamIds
    <3> QED BY <1>3, <3>1, Zenon DEF SendWindowUpdate
  <2> HIDE DEF w
  <2>5. Returned(w) \in Int
    BY <2>1, <2>3
  <2>6. TotalOf(Returned, output') = Returned(w)
    BY <2>2, <2>5, ShortTotals
  <2> QED BY <1>1, <2>1, <2>3, <2>4, <2>6 DEF Balanced
<1> QED BY <1>2, <1>3

LEMMA HandleDataBalanced ==
  ASSUME RestType, NEW s, NEW n \in PeerSizes, NEW p \in Pads, NEW end \in BOOLEAN,
         HandleData(s, n, p, end)
  PROVE  \E waste \in {0, p} : Balanced(waste)
<1> DEFINE d == DataDiscarded(s, n + p)
           e == DataReceived(s, n, end)
           c == StreamEvent("StreamClosed", s)
<1>0. n \in Nat /\ p \in Nat /\ n + p \in Nat /\ recv_window \in Int
  BY InputAssumption DEF RestType
<1>1. CASE ConnectionError
  BY <1>1, ErrorEven, EvenBalanced
<1>2. CASE ~ConnectionError
  <2>1. recv_window' = recv_window - (n + p)
    BY <1>2, Zenon DEF HandleData
  <2>2. \/ output' = <<>> /\ events' = IF n + p > 0 THEN <<d>> ELSE <<>>
        \/ InMap(s) /\ \E code : ResetKnownStream(s, code, n + p)
        \/ output' = <<>> /\ \E r, closes : StoreOrClose(s, r, closes, <<e>>)
    BY <1>2, Zenon DEF HandleData
  <2>3. /\ Consumed(d) = n + p
        /\ Consumed(e) = n
        /\ Consumed(c) = 0
        /\ \A code : Consumed(StreamReset(s, code, n + p)) = n + p
    BY DEF Consumed, DataDiscarded, DataReceived, StreamEvent, StreamReset
  <2>4. \E code : output' \in {<<>>, <<RstStream(s, code)>>}
    BY <2>2 DEF ResetKnownStream
  <2>5. TotalOf(Returned, output') = 0
    <3>1. output' = <<>> \/ \E f : output' = <<f>> /\ Returned(f) = 0
      BY <2>4, FreeFrames
    <3> QED BY <3>1, FewFramesFree, FreeTotals
  <2> HIDE DEF d, e, c
  <2>6. CASE events' = IF n + p > 0 THEN <<d>> ELSE <<>>
    <3>1. TotalOf(Consumed, <<d>>) = n + p
      <4>1. Consumed(d) \in Int
        BY <1>0, <2>3
      <4> QED BY <2>3, <4>1, ShortTotals
    <3>2. CASE events' = <<>> /\ n + p = 0
      BY <3>2, <1>0, <2>1, <2>5, FewEventsFree, FreeTotals DEF Balanced
    <3>3. CASE events' = <<d>>
      BY <3>1, <3>3, <1>0, <2>1, <2>5 DEF Balanced
    <3> QED BY <1>0, <2>6, <3>2, <3>3
  <2>7. CASE InMap(s) /\ \E code : ResetKnownStream(s, code, n + p)
    <3>1. PICK code : events' = <<StreamReset(s, code, n + p)>>
      BY <2>7 DEF ResetKnownStream
    <3>2. TotalOf(Consumed, events') = n + p
      <4> DEFINE x == StreamReset(s, code, n + p)
      <4>1. Consumed(x) \in Int /\ Consumed(x) = n + p /\ events' = <<x>>
        BY <1>0, <2>3, <3>1
      <4> HIDE DEF x
      <4> QED BY <4>1, ShortTotals
    <3> QED BY <1>0, <2>1, <2>5, <3>2 DEF Balanced
  <2>8. CASE \E r, closes : StoreOrClose(s, r, closes, <<e>>)
    <3>1. events' = <<e>> \/ events' = <<e, c>>
      BY <2>8 DEF StoreOrClose, c
    <3>2. TotalOf(Consumed, events') = n
      <4>1. Consumed(e) \in Int
        BY <1>0, <2>3
      <4> QED BY <2>3, <3>1, <4>1, ShortTotals
    <3>3. Balanced(p)
      BY <1>0, <2>1, <2>5, <3>2 DEF Balanced
    <3> QED BY <3>3
  <2> QED BY <2>2, <2>6, <2>7, <2>8
<1> QED BY <1>1, <1>2

LEMMA NextBalanced ==
  ASSUME RestType, Next
  PROVE  \E waste \in {0} \cup Pads : Balanced(waste)
<1>0. SUFFICES ASSUME ~Balanced(0), ~Even
               PROVE  \E waste \in Pads : Balanced(waste)
  BY EvenBalanced
<1>1. CASE Handshake
  BY <1>0, <1>1, QuietStepsEven, ReturningBalanced DEF Handshake
<1>2. CASE Application
  <2>1. CASE \E m \in Requests, end \in BOOLEAN : StartStream(m, end)
    BY <1>0, <2>1, QuietStepsEven
  <2>2. CASE \E s \in OpenStreams :
               \/ \E r \in Responses, end \in BOOLEAN : SendResponse(s, r, end)
               \/ SendTrailers(s)
               \/ \E n \in AppSizes, end \in BOOLEAN : SendData(s, n, end)
    BY <1>0, <2>2, SendingEven
  <2>3. CASE \E s \in KnownStreams, c \in Codes : ResetStream(s, c)
    BY <1>0, <2>3, ResettingEven
  <2>4. CASE SendPing \/ SendGoaway
    BY <1>0, <2>4, QuietStepsEven
  <2>5. CASE \E s \in {0} \cup KnownStreams, n \in Credits : SendWindowUpdate(s, n)
    BY <1>0, <2>5, ReturningBalanced
  <2> QED BY <1>2, <2>1, <2>2, <2>3, <2>4, <2>5 DEF Application
<1>3. CASE PeerHeaders
  BY <1>0, <1>3, HeaderFramesEven
<1>4. CASE PeerFrames
  <2>1. CASE RejectFrame
    BY <1>0, <2>1, ErrorEven DEF RejectFrame
  <2>2. CASE \E s \in PeerIds :
               \/ DecoderStreamError(s) \/ HandleUnknown(s)
               \/ \E c \in Codes : HandleRstStream(s, c)
    BY <1>0, <2>2, ResettingEven
  <2>3. CASE \E s \in PeerIds, n \in PeerSizes, p \in Pads, end \in BOOLEAN :
               HandleData(s, n, p, end)
    BY <1>0, <2>3, HandleDataBalanced
  <2>4. CASE \E f \in PeerSettings : HandleSettings(f)
    BY <1>0, <2>4, SettingsEven
  <2>5. CASE \/ HandleSettingsAck \/ HandlePriority \/ HandleGoaway
             \/ \E a \in Pings : HandlePing(a)
             \/ \E s \in PeerIds : HandlePriorityUpdate(s)
    BY <1>0, <2>5, QuietStepsEven
  <2>6. CASE \E n \in Increments :
               HandleConnectionWindowUpdate(n) \/ \E s \in PeerIds : HandleWindowUpdate(s, n)
    BY <1>0, <2>6, WindowUpdateEven
  <2> QED BY <1>4, <2>1, <2>2, <2>3, <2>4, <2>5, <2>6 DEF PeerFrames
<1> QED BY <1>1, <1>2, <1>3, <1>4 DEF Next

(* The application is never told that it may return more than the peer has *)
(* used: with whatever padding, discarded frames and resets, the window    *)
(* and what is still owed to it stay within what it began with.            *)
Covered == owed \in Int /\ recv_window + owed <= DefaultWindow

THEOREM NoneIsOverpaid == MonitoredSpec => []Covered
<1>1. MonitoredInit => Covered
  BY SizeAssumption DEF MonitoredInit, Init, Covered
<1>2. RestType /\ Covered /\ [MonitoredNext]_mvars => Covered'
  <2> SUFFICES ASSUME RestType, Covered, [MonitoredNext]_mvars PROVE Covered'
    OBVIOUS
  <2>1. CASE UNCHANGED mvars
    BY <2>1 DEF mvars, vars, windows, Covered
  <2>2. CASE MonitoredNext
    <3>1. PICK waste \in {0} \cup Pads : Balanced(waste)
      BY <2>2, NextBalanced DEF MonitoredNext
    <3>2. waste \in Nat /\ DefaultWindow \in Int /\ recv_window \in Int
      BY InputAssumption, SizeAssumption DEF RestType
    <3> QED BY <2>2, <3>1, <3>2 DEF MonitoredNext, Observe, Balanced, Covered
  <2> QED BY <2>1, <2>2
<1> QED BY <1>1, <1>2, MonitoredImplements, InvariantHolds, PTL DEF MonitoredSpec

(* Without padding the window is short by exactly what the events told the *)
(* application.  DataReceived does not say how much padding its frame had  *)
(* (src/src/connection.rs:1106), so with padding the rest is never         *)
(* returned by an application that returns what it is told.                *)
THEOREM WindowIsAccountedFor ==
  ASSUME Pads \subseteq {0}
  PROVE  MonitoredSpec => []WindowAccounting
<1> DEFINE J == owed \in Int /\ WindowAccounting
<1>1. MonitoredInit => J
  BY SizeAssumption DEF MonitoredInit, Init, WindowAccounting
<1>2. RestType /\ J /\ [MonitoredNext]_mvars => J'
  <2> SUFFICES ASSUME RestType, J, [MonitoredNext]_mvars PROVE J'
    OBVIOUS
  <2>1. CASE UNCHANGED mvars
    BY <2>1 DEF mvars, vars, windows, WindowAccounting
  <2>2. CASE MonitoredNext
    <3>1. PICK waste \in {0} \cup Pads : Balanced(waste)
      BY <2>2, NextBalanced DEF MonitoredNext
    <3>2. waste = 0 /\ DefaultWindow \in Int /\ recv_window \in Int
      BY SizeAssumption DEF RestType
    <3> QED BY <2>2, <3>1, <3>2 DEF MonitoredNext, Observe, Balanced, WindowAccounting
  <2> QED BY <2>1, <2>2
<1> QED BY <1>1, <1>2, MonitoredImplements, InvariantHolds, PTL DEF MonitoredSpec
=============================================================================
