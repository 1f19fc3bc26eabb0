---------------------------- MODULE FlowControl ----------------------------
(***************************************************************************)
(* The window arithmetic of src/src/flow_control.rs, shared by the         *)
(* connection's windows and by those of every stream.  The code keeps a    *)
(* window in an i64, so a send window may be negative after the peer has   *)
(* lowered SETTINGS_INITIAL_WINDOW_SIZE; no i64 operation of the code can  *)
(* wrap because every value stays within 2^32 of zero.                     *)
(***************************************************************************)
EXTENDS Integers

CONSTANTS
  MaxWindow      \* MAX_WINDOW_SIZE, 2^31 - 1 in the code

ASSUME MaxWindowAssumption == MaxWindow \in Nat \ {0}

(* The smaller of two numbers (usize::min).                                *)
Least(a, b) == IF a <= b THEN a ELSE b

(* The larger of two numbers.                                              *)
Greatest(a, b) == IF a >= b THEN a ELSE b

(* send_available: a window that is negative offers nothing.               *)
SendAvailable(window) == Greatest(window, 0)

(* consume_send, consume_recv: Err when the size does not fit.             *)
CanConsume(window, size) == size <= window

(* Variant of CanGrow: off by one at MAX_WINDOW_SIZE.                      *)
CanGrowOffByOne(window, increment) == window + increment <= MaxWindow + 1

(* recv_window_update, add_recv_window, update_initial_window_size: Err    *)
(* when the window would exceed MAX_WINDOW_SIZE.                           *)
CanGrow(window, increment) == window + increment <= MaxWindow
=============================================================================
