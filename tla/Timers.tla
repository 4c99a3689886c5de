------------------------------- MODULE Timers -------------------------------
(* The timer_t of can_tp.c and of uds.c, and the macros TIMER, ENABLE_TIMER  *)
(* and DISENABLE_TIMER that both files define alike.                         *)
EXTENDS Integers

(* A timer_t is Stopped, its status reading TIMER_TIMEOUT, or counts down.   *)
(* Once initialised it has is_valid = TIMER_START exactly when status =      *)
(* TIMER_TIMING, so that one number holds is_valid, status and cnt.          *)
Stopped == -1
Timer(max) == Stopped .. max
Timing(t) == t # Stopped

(* Faulty variants of Tick: it counts through the end, or never reaches it.  *)
TickThrough(t) == t - 1
TickStaysAtZero(t) == IF t <= 0 THEN t ELSE t - 1

Tick(t) == IF t = Stopped THEN Stopped ELSE t - 1
=============================================================================
