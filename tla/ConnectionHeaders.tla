------------------------- MODULE ConnectionHeaders -------------------------
(***************************************************************************)
(* HEADERS and CONTINUATION (src/src/connection/headers.rs): sending a     *)
(* response or trailers, and receiving a header block that may be split    *)
(* over several frames with application calls in between.                  *)
(*                                                                         *)
(* A decoded header block is a record: whether it has pseudo-header fields *)
(* (pseudo), whether it passes the validation of src/src/validation.rs     *)
(* (valid), its :method or :status (kind) and its content-length.          *)
(***************************************************************************)
EXTENDS ConnectionCore

Informational == {"1xx"}
Successful    == {"200", "204"}
NoContent     == {"204", "304"}

-----------------------------------------------------------------------------
(* Sending.  A call that the code rejects with Err changes nothing, so the *)
(* conditions under which it is accepted are the guards.                   *)

SendResponse(s, status, end_stream) ==
  /\ ~failed
  /\ InMap(s)
  /\ ~streams[s].connect_established
  /\ status \in Informational => ~end_stream
  /\ status \notin Informational => ~streams[s].final_response_sent
  /\ end_stream => streams[s].send_buffer = 0
  /\ CanSendHeaders(streams[s].state)
  /\ LET old == streams[s]
         r == [old EXCEPT
                 !.state = SendHeaders(@, end_stream),
                 !.final_response_sent = @ \/ status \notin Informational,
                 !.connect_established =
                    @ \/ (status \in Successful /\ old.request_method = "CONNECT")]
     IN  /\ output' = <<Headers(s, end_stream)>>
         /\ StoreOrClose(s, r, end_stream /\ r.state = "Closed", <<>>)
  /\ UNCHANGED <<state, handshake, remote_settings, windows, identifiers, header_block, failed>>

(* Variant of SendTrailers: queued data is not looked at.                  *)
SendTrailersOverData(s) ==
  /\ ~failed
  /\ InMap(s)
  /\ CanSendHeaders(streams[s].state)
  /\ LET r == [streams[s] EXCEPT !.state = SendHeaders(@, TRUE)]
     IN  /\ output' = <<Headers(s, TRUE)>>
         /\ StoreOrClose(s, r, r.state = "Closed", <<>>)
  /\ UNCHANGED <<state, handshake, remote_settings, windows, identifiers, header_block, failed>>

SendTrailers(s) ==
  /\ ~failed
  /\ InMap(s)
  /\ ~streams[s].connect_established
  /\ Role = "server" => streams[s].final_response_sent
  /\ streams[s].send_buffer = 0
  /\ CanSendHeaders(streams[s].state)
  /\ LET r == [streams[s] EXCEPT !.state = SendHeaders(@, TRUE)]
     IN  /\ output' = <<Headers(s, TRUE)>>
         /\ StoreOrClose(s, r, r.state = "Closed", <<>>)
  /\ UNCHANGED <<state, handshake, remote_settings, windows, identifiers, header_block, failed>>

-----------------------------------------------------------------------------
(* Receiving: process_headers.                                             *)

(* Malformed before the state machine moves: PROTOCOL_ERROR.  A block with *)
(* pseudo-headers must be the first final one of the stream and a block    *)
(* without them must not be.                                               *)
MalformedBlock(r, h, end_stream) ==
  \/ h.pseudo = r.initial_headers_received
  \/ ~h.valid
  \/ ~h.pseudo /\ ~end_stream
  \/ /\ h.pseudo
     /\ \/ h.length = BadLength
        \/ Role = "server" /\ h.kind = "EXTENDED CONNECT" /\ ~ConnectProtocol

(* Malformed only when it also ends the stream; detected after the state   *)
(* machine has moved.  r is the stream after RecordBlock.                  *)
MalformedEnd(r, h, end_stream) ==
  /\ h.pseudo /\ end_stream
  /\ \/ Role = "client" /\ h.kind \in Informational
     \/ /\ h.length \notin {NoLength, 0}
        /\ Role = "client" => h.kind \notin NoContent /\ r.request_method # "HEAD"

(* What a well-formed initial block records in the stream.                 *)
RecordBlock(s, r, h, end_stream) ==
  LET moved == [r EXCEPT !.state = RecvHeaders(@, end_stream)]
  IN  IF ~h.pseudo THEN moved
      ELSE IF Role = "server"
      THEN [moved EXCEPT !.request_method = h.kind,
                         !.expected_content_length = h.length,
                         !.initial_headers_received = TRUE]
      ELSE [moved EXCEPT
              !.connect_established =
                 @ \/ (h.kind \in Successful /\ r.request_method = "CONNECT"),
              !.no_content =
                 @ \/ (InMap(s) /\ (h.kind \in NoContent \/ r.request_method = "HEAD")),
              !.expected_content_length = h.length,
              !.initial_headers_received = h.kind \notin Informational]

HeadersEvent(s, h) ==
  StreamEvent(IF h.pseudo THEN "HeadersReceived" ELSE "TrailersReceived", s)

ProcessHeaders(s, h, end_stream) ==
  LET old == IF InMap(s) THEN streams[s] ELSE NewStream
      r   == RecordBlock(s, old, h, end_stream)
      malformed == MalformedBlock(old, h, end_stream)
  IN  IF malformed THEN EnsureAndReset(s, "PROTOCOL_ERROR")
      ELSE IF ~CanRecvHeaders(old.state) THEN EnsureAndReset(s, "STREAM_CLOSED")
      ELSE IF MalformedEnd(r, h, end_stream) THEN EnsureAndReset(s, "PROTOCOL_ERROR")
      ELSE /\ output' = <<>>
           /\ StoreOrClose(s, r, end_stream /\ r.state = "Closed", <<HeadersEvent(s, h)>>)

-----------------------------------------------------------------------------
(* Receiving: the frames.                                                  *)

(* Variant of RecordSuccess: the update is forgotten.                      *)
RecordNothing(s) == UNCHANGED last_successful_stream_id

(* The stream has been acted upon and counts for GOAWAY.                   *)
RecordSuccess(s) ==
  last_successful_stream_id' = Greatest(s, last_successful_stream_id)

(* The end of handle_headers and of handle_continuation: the block is      *)
(* complete and decoded.  closed: the stream was closed earlier; limit,    *)
(* tunnel: the two flags noted before decoding.  A reset of a tunnel finds *)
(* the stream in the map, which it left in no other way than by closing.   *)
CompleteBlock(s, h, end_stream, closed, limit, tunnel) ==
  \/ /\ closed \/ IsStreamClosed(s)
     /\ header_concurrent_limit_exceeded' = limit
     /\ connect_established_headers_received' = FALSE
     /\ output' = <<>>
     /\ events' = <<>>
     /\ UNCHANGED <<table, last_successful_stream_id>>
  \/ /\ ~closed /\ ~IsStreamClosed(s) /\ limit
     /\ header_concurrent_limit_exceeded' = FALSE
     /\ connect_established_headers_received' = tunnel
     /\ EnsureAndReset(s, "REFUSED_STREAM")
     /\ RecordSuccess(s)
  \/ /\ ~closed /\ ~IsStreamClosed(s) /\ ~limit /\ tunnel
     /\ header_concurrent_limit_exceeded' = FALSE
     /\ connect_established_headers_received' = FALSE
     /\ ResetKnownStream(s, "PROTOCOL_ERROR", 0)
     /\ UNCHANGED last_successful_stream_id
  \/ /\ ~closed /\ ~IsStreamClosed(s) /\ ~limit /\ ~tunnel
     /\ header_concurrent_limit_exceeded' = FALSE
     /\ connect_established_headers_received' = FALSE
     /\ ProcessHeaders(s, h, end_stream)
     /\ RecordSuccess(s)

(* Variants of HeadersRejected: identifiers need not grow, or GOAWAY is    *)
(* not looked at.                                                          *)
HeadersRejectedUnordered(s) ==
  s % 2 = 0 \/ (s > last_recv_stream_id /\ state = "GoawaySent")
HeadersRejectedGoaway(s) ==
  s % 2 = 0 \/ (~InMap(s) /\ s \notin closed_streams /\ s <= last_recv_stream_id)

(* handle_headers returns a connection error before it looks at the block. *)
HeadersRejected(s) ==
  \/ s % 2 = 0
  \/ /\ ~InMap(s)
     /\ s \notin closed_streams
     /\ s <= last_recv_stream_id \/ state = "GoawaySent"

(* Variant of OnTunnel: the wrong kind of CONNECT is looked for.           *)
OnExtendedTunnel(s) ==
  InMap(s) /\ streams[s].connect_established /\ streams[s].request_method # "CONNECT"

(* CONNECT tunnel noticed by handle_headers.                               *)
OnTunnel(s) == s \notin closed_streams /\ InMap(s) /\ streams[s].connect_established

(* Variant of OverLimit: off by one.                                       *)
OverLimitOffByOne(s) ==
  s \notin closed_streams /\ ~InMap(s) /\ CurrentOpen > MaxConcurrent

(* check_concurrent_streams_limit fails.                                   *)
OverLimit(s) == s \notin closed_streams /\ ~InMap(s) /\ CurrentOpen >= MaxConcurrent

(* handle_headers, END_HEADERS set.                                        *)
HandleHeaders(s, h, end_stream) ==
  \/ HeadersRejected(s) /\ ConnectionError
  \/ /\ ~HeadersRejected(s)
     /\ last_recv_stream_id' = Greatest(s, last_recv_stream_id)
     /\ CompleteBlock(s, h, end_stream, s \in closed_streams,
                      header_concurrent_limit_exceeded \/ OverLimit(s),
                      connect_established_headers_received \/ OnTunnel(s))
     /\ UNCHANGED <<state, handshake, remote_settings, windows, next_stream_id,
                    last_sent_goaway_stream_id, header_continuation_stream,
                    header_block_fragment, header_end_stream, failed>>

(* handle_headers, END_HEADERS clear: the block is continued and only the  *)
(* flags of its start are kept.                                            *)
HandleHeadersSplit(s, size, end_stream) ==
  \/ /\ HeadersRejected(s) \/ size > MaxFragment
     /\ ConnectionError
  \/ /\ ~HeadersRejected(s)
     /\ size <= MaxFragment
     /\ last_recv_stream_id' = Greatest(s, last_recv_stream_id)
     /\ header_continuation_stream' = s
     /\ header_block_fragment' = size
     /\ header_end_stream' = end_stream
     /\ header_concurrent_limit_exceeded' = (header_concurrent_limit_exceeded \/ OverLimit(s))
     /\ connect_established_headers_received' =
          (connect_established_headers_received \/ OnTunnel(s))
     /\ output' = <<>>
     /\ events' = <<>>
     /\ UNCHANGED <<state, handshake, remote_settings, windows, table, next_stream_id,
                    last_successful_stream_id, last_sent_goaway_stream_id, failed>>

(* handle_continuation, END_HEADERS clear.                                 *)
HandleContinuationMore(s, size) ==
  \/ /\ s # header_continuation_stream \/ header_block_fragment + size > MaxFragment
     /\ ConnectionError
  \/ /\ s = header_continuation_stream
     /\ header_block_fragment + size <= MaxFragment
     /\ header_block_fragment' = header_block_fragment + size
     /\ output' = <<>>
     /\ events' = <<>>
     /\ UNCHANGED <<state, handshake, remote_settings, windows, table, identifiers,
                    header_continuation_stream, header_end_stream,
                    header_concurrent_limit_exceeded, connect_established_headers_received,
                    failed>>

(* handle_continuation, END_HEADERS set.  Whether the stream was closed is *)
(* looked up now, not when the block began.                                *)
HandleContinuation(s, size, h) ==
  \/ /\ s # header_continuation_stream \/ header_block_fragment + size > MaxFragment
     /\ ConnectionError
  \/ /\ s = header_continuation_stream
     /\ header_block_fragment + size <= MaxFragment
     /\ header_continuation_stream' = NoStream
     /\ header_block_fragment' = 0
     /\ header_end_stream' = FALSE
     /\ CompleteBlock(s, h, header_end_stream, s \in closed_streams,
                      header_concurrent_limit_exceeded,
                      connect_established_headers_received)
     /\ UNCHANGED <<state, handshake, remote_settings, windows, next_stream_id,
                    last_recv_stream_id, last_sent_goaway_stream_id, failed>>
=============================================================================
