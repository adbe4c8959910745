------------------------------ MODULE Throttle ------------------------------
(***************************************************************************)
(* The engine speed request (throttle_control.c): two switches that bump   *)
(* the request when they are pressed and step it while they are held, and  *)
(* the idle speed that is kept for a while after a start of the engine.    *)
(*                                                                         *)
(* The request is counted in steps of THROTTLE_ADJUST_RPM above the        *)
(* default, which is also the minimum.  The time stamps of the two         *)
(* commands are one field: each is taken whenever the command changes to   *)
(* its own and read only under that command.  The bump flags are true only *)
(* in the turn of that change when they are read.  The time stamp of the   *)
(* engine's last change is written and never read.                         *)
(***************************************************************************)
EXTENDS EngineStatus

CONSTANTS IdleDelay,  \* THROTTLE_6S_DELAY_MS, 6000 ms
          HoldTime,   \* THROTTLE_HOLD_TIME_MS, 1000 ms
          StepTime,   \* 50 ms
          MaxSteps    \* steps from 1000 to 2350 rpm

ASSUME ThrottleAssumption ==
  /\ IdleDelay \in Nat
  /\ {HoldTime, StepTime, MaxSteps} \subseteq Nat \ {0}
  /\ StepTime <= HoldTime

Commands == {"maintain", "decrease", "increase"}
Switches == {"released", "pressed", "fault"}

\* u8_throttle_cmd, which between two calls is u8_prev_throttle_cmd as well,
\* u32_up_cmd_time or u32_dwn_cmd_time, f32_target_req_rpm.
ThrottleState == [cmd : Commands, since : Time, target : 0 .. MaxSteps]

init_throttleControl == [cmd |-> "maintain", since |-> 0, target |-> 0]

\* A switch at fault counts as released; of two pressed ones DOWN wins.
ThrottleCommand(up, down) ==
  IF down = "pressed" THEN "decrease"
  ELSE IF up = "pressed" THEN "increase"
  ELSE "maintain"

\* Faulty variant: the press is not timed afresh when the other switch takes
\* over without a release in between.
TimedFromRelease(t, now, command) ==
  IF t.cmd = "maintain" /\ command # "maintain" THEN now ELSE t.since

CommandTime(t, now, command) ==
  IF command \notin {t.cmd, "maintain"} THEN now ELSE t.since

\* n % step = 0
Multiple(n, step) == \E k \in 0 .. n : n = k * step

\* FR-14.1 and FR-14.3: a bump when the command changes, then, once it has
\* been held, a step in every turn that falls on a multiple of StepTime.
Steps(t, now, command) ==
  \/ command # t.cmd
  \/ LET held == Elapsed(now, CommandTime(t, now, command)) IN
     held > HoldTime /\ Multiple(held, StepTime)

Stepped(target, command) ==
  CASE command = "decrease" -> IF target = 0 THEN 0 ELSE target - 1
    [] command = "increase" -> IF target = MaxSteps THEN MaxSteps ELSE target + 1
    [] OTHER -> target

\* FR-14.2: after a start the request is held at idle.
HeldAtIdle(e, now) == e.running /\ get_engineRuntime(e, now) < IdleDelay

update_throttleControl(t, now, command, e) ==
  [cmd    |-> command,
   since  |-> CommandTime(t, now, command),
   target |-> IF HeldAtIdle(e, now) THEN 0
              ELSE IF Steps(t, now, command) THEN Stepped(t.target, command)
              ELSE t.target]
=============================================================================
