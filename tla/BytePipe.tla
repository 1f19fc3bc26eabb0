------------------------------ MODULE BytePipe ------------------------------
(***************************************************************************)
(* What the application of a WebTransport session is promised about each   *)
(* direction of each stream: a reliable, ordered pipe of bytes that the    *)
(* writer ends with FIN or with a reset.  Bytes are numbered by the        *)
(* writer.  FIN and reset overtake nothing that was written before them,   *)
(* and the reader is told of at most one of the two.                       *)
(***************************************************************************)
EXTENDS Integers, Sequences

CONSTANTS
  Pipes          \* the directions of the streams

VARIABLES
  written,       \* number of bytes the writer has handed over
  ended,         \* "open", "fin" or "reset": how the writer has ended the pipe
  read,          \* the bytes the reader has been given
  seen           \* how the reader has been told the pipe ended

vars == <<written, ended, read, seen>>

(* The first n bytes of a pipe.                                            *)
FirstBytes(n) == [k \in 1 .. n |-> k]

Init ==
  /\ written = [p \in Pipes |-> 0]
  /\ ended = [p \in Pipes |-> "open"]
  /\ read = [p \in Pipes |-> << >>]
  /\ seen = [p \in Pipes |-> "open"]

(* Any number of bytes, with or without FIN.                               *)
Write(p) ==
  /\ ended[p] = "open"
  /\ written'[p] >= written[p]
  /\ written' = [written EXCEPT ![p] = written'[p]]
  /\ \E e \in {"open", "fin"} : ended' = [ended EXCEPT ![p] = e]
  /\ UNCHANGED <<read, seen>>

Reset(p) ==
  /\ ended[p] = "open"
  /\ ended' = [ended EXCEPT ![p] = "reset"]
  /\ UNCHANGED <<written, read, seen>>

(* The next bytes, and FIN only with the last ones.                        *)
Read(p) ==
  /\ seen[p] = "open"
  /\ \E n \in Len(read[p]) .. written[p] : read' = [read EXCEPT ![p] = FirstBytes(n)]
  /\ \/ seen' = seen
     \/ /\ ended[p] = "fin" /\ Len(read'[p]) = written[p]
        /\ seen' = [seen EXCEPT ![p] = "fin"]
  /\ UNCHANGED <<written, ended>>

SeeReset(p) ==
  /\ seen[p] = "open"
  /\ ended[p] = "reset"
  /\ Len(read[p]) = written[p]
  /\ seen' = [seen EXCEPT ![p] = "reset"]
  /\ UNCHANGED <<written, ended, read>>

Next == \E p \in Pipes : Write(p) \/ Reset(p) \/ Read(p) \/ SeeReset(p)

Spec == Init /\ [][Next]_vars
=============================================================================
