-------------------------------- MODULE Ramp --------------------------------
(***************************************************************************)
(* The ramp helper (ramp_calc.c) as the work functions use it: called once *)
(* per turn, with limits the caller sets before each call.  The amounts    *)
(* are whole numbers; the refusal of NaN parameters is left out.           *)
(***************************************************************************)
EXTENDS SystemTime

\* f32_output and u32_last_time_ms (0: not called yet).
RampState(max) == [output : 0 .. max, last : Time]

rampInit(safe) == [output |-> safe, last |-> 0]

Clamp(x, lo, hi) == IF x < lo THEN lo ELSE IF x > hi THEN hi ELSE x

Approach(from, to, step) ==
  IF to > from THEN IF to - from > step THEN from + step ELSE to
  ELSE IF from - to > step THEN from - step ELSE to

\* The output is brought into the limits at once and then moves towards the
\* target by at most the rate; the first call only clamps, and so does a call
\* after one at time 0.
rampCalc(r, target, lo, hi, rate, now) ==
  [output |-> IF r.last = 0 THEN Clamp(r.output, lo, hi)
              ELSE Approach(Clamp(r.output, lo, hi), Clamp(target, lo, hi),
                            rate * Elapsed(now, r.last)),
   last   |-> now]
=============================================================================
