--------------------------- MODULE MCContextSwitch ---------------------------
(***************************************************************************)
(* Small instances of ContextSwitch for TLC: two processes that call the   *)
(* kernel and a sleeper, and sleeps of 0 to 3 ticks, so that timers tie,   *)
(* elapse together and overtake one another.                               *)
(***************************************************************************)
EXTENDS ContextSwitch

CONSTANTS p0, p1, p2
==============================================================================
