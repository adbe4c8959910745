----------------------------- MODULE SystemTime -----------------------------
(***************************************************************************)
(* The controller's millisecond clock and the arithmetic every controller  *)
(* does with it.  get_system_time_ms() returns a uint32 that wraps, and a  *)
(* duration is always the uint32 difference of two time stamps.            *)
(***************************************************************************)
EXTENDS Integers

CONSTANT TimeMod  \* the number of values of the clock, 2^32 in the code

ASSUME TimeModAssumption == TimeMod \in Nat /\ TimeMod > 1

Time == 0 .. TimeMod - 1

\* The clock d milliseconds (d < TimeMod) later.
Later(t, d) == IF t + d >= TimeMod THEN t + d - TimeMod ELSE t + d

\* The uint32 subtraction t - s.
Elapsed(t, s) == IF t >= s THEN t - s ELSE t - s + TimeMod
=============================================================================
