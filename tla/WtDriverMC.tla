----------------------------- MODULE WtDriverMC -----------------------------
(* Instances of WtDriver for TLC.                                          *)
EXTENDS WtDriver

CONSTANTS
  Credit         \* initial credit of every kind

MCSettings ==
  [max_data |-> Credit, bidi_local |-> Credit, bidi_remote |-> Credit, uni |-> Credit,
   max_streams |-> [b \in BOOLEAN |-> 1]]

GoodRequest ==
  [tls13 |-> TRUE, https |-> TRUE, origin |-> "allowed", init |-> << >>,
   protocols |-> {"chat"}, selected |-> "chat"]

(* The request that is accepted, and one for each refusal.                 *)
MCRequests ==
  {GoodRequest,
   [GoodRequest EXCEPT !.https = FALSE], [GoodRequest EXCEPT !.origin = "other"],
   [GoodRequest EXCEPT !.init = << [key |-> "u", value |-> Absent] >>],
   [GoodRequest EXCEPT !.selected = "other"]}

Send(id, fin) == [op |-> "send", id |-> id, fin |-> fin]
Do(op, id) == [op |-> op, id |-> id]

(* The client sends on a stream, the tasks stop it and answer.             *)
ReceivePlan(kind, bytes, commands) ==
  [client |-> {kind, "send", "reset"}, bytes |-> bytes, calls |-> 2, parts |-> FALSE, drop |-> FALSE,
   commands |-> commands]

BidiPlan == ReceivePlan("bidi", 2, {Do("stop", 0), Send(0, TRUE), Do("reset", 0)})
UniPlan  == ReceivePlan("uni", 3, {Do("stop", 2), Do("stop", 6)})

(* The tasks send more than HTTP/2 takes at once, and close.               *)
SendPlan ==
  [client |-> {"stop", "RST_STREAM"}, bytes |-> 0, calls |-> 4, parts |-> FALSE, drop |-> TRUE,
   commands |-> {[op |-> "open", bidirectional |-> TRUE], Send(1, FALSE),
                 [op |-> "datagram"], [op |-> "close"], [op |-> "drain"]}]

(* Either end leaves while the other is busy.                              *)
LeavePlan ==
  [client |-> {"uni", "send", "close", "END_STREAM", "EOF"}, bytes |-> 1, calls |-> 2,
   parts |-> TRUE, drop |-> TRUE,
   commands |-> {[op |-> "open", bidirectional |-> FALSE], Send(3, TRUE), [op |-> "export"],
                 [op |-> "close"]}]

(* A stream that the client leaves without ending it.                      *)
BrokenPlan ==
  [client |-> {"uni", "send", "RST_STREAM"}, bytes |-> 1, calls |-> 0,
   parts |-> FALSE, drop |-> FALSE, commands |-> {}]

MCBrokenPlans == {BrokenPlan}
MCSendPlans == {SendPlan}
MCPlans == {BidiPlan, UniPlan, SendPlan, LeavePlan}
=============================================================================
