------------------------------ MODULE WtPairMC ------------------------------
(* Instances of WtPair for TLC.                                            *)
EXTENDS WtPair

CONSTANTS
  Credit,        \* initial credit of every kind
  Header         \* values of br in WebTransport-Init

(* A peer that announces every limit, and one that leaves the credit of    *)
(* streams it accepts to WebTransport-Init.                                *)
Full ==
  [max_data |-> Credit, bidi_local |-> Credit, bidi_remote |-> Credit, uni |-> Credit,
   max_streams |-> [b \in BOOLEAN |-> 1]]

MCServerSettings == {Full}
MCClientSettings == {Full, [Full EXCEPT !.bidi_remote = Absent]}
MCInits == {<<[key |-> "br", value |-> v]>> : v \in Header}
MCExtras == {[type |-> "PADDING"], [type |-> "UNKNOWN"]}

(* One bidirectional stream with everything that may end it; the client    *)
(* or the server opens it.                                                 *)
BidiPlan(r) ==
  {<<r, "bidi">>} \cup Roles \X {"data", "reset", "stop", "max_stream_data"}

(* Two streams of one end, one of which makes the other known, and all the *)
(* credit the other end can give.                                          *)
CreditPlan ==
  ({"client"} \X {"bidi", "data"})
    \cup ({"server"} \X {"max_data", "max_streams", "max_stream_data", "stop"})

(* A unidirectional stream that both ends try to end, by a FIN after the   *)
(* data too.                                                               *)
UniPlan ==
  ({"server"} \X {"uni", "data", "empty", "reset", "extra"})
    \cup ({"client"} \X {"stop", "max_stream_data", "max_data"})

(* The end of the session crosses everything else.                         *)
ClosePlan ==
  ({"client"} \X {"uni", "data", "close", "drain"})
    \cup ({"server"} \X {"datagram", "close", "drain", "stop"})

MCPlans == {BidiPlan(r) : r \in Roles} \cup {CreditPlan, UniPlan, ClosePlan}
=============================================================================
