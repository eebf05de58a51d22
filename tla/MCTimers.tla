------------------------------ MODULE MCTimers -------------------------------
(* Instance of Timers for TLC. *)
EXTENDS Timers

\* AE_NOMORE, 0, 1 (the interval again, for addtimer), and a time of its own.
SomeReturns == {0, 1, 2}
=============================================================================
