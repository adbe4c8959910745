----------------------------- MODULE CoolingFan -----------------------------
(***************************************************************************)
(* The reversing cooling fan (cooling_fan_control.c).  To blow the cooler  *)
(* clean the fan is ramped down, kept stopped, reversed, ramped up, run    *)
(* for the purge time and brought back the same way, in stages timed by    *)
(* time stamps; a fault may abort the sequence in any stage.               *)
(*                                                                         *)
(* Speeds are counted upwards from standstill: 0 is CF_PWM_HIGH_LIMIT and  *)
(* a cooling demand n asks for n * RampTime, so that the slope that covers *)
(* it in RampTime is n per millisecond.                                    *)
(***************************************************************************)
EXTENDS SystemTime

CONSTANTS RampTime,   \* CF_RAMP_DOWN_TIME = CF_RAMP_UP_TIME, 2500 ms
          StopTime,   \* CF_STOPPED_TIME, 1500 ms
          PurgeTime,  \* u8_purge_active_time
          AutoCycle,  \* u16_auto_cycle_time
          MaxDemand,  \* the highest cooling demand
          SafeDemand, \* the demand CF_SAFE_PWM corresponds to
          RunSlope,   \* CF_FWD_RUN_RAMP
          MaxCycle    \* bound on the time one turn of the main loop takes

ASSUME CoolingFanAssumption ==
  /\ {RampTime, MaxCycle, MaxDemand, RunSlope} \subseteq Nat \ {0}
  /\ {StopTime, PurgeTime, AutoCycle} \subseteq Nat
  /\ SafeDemand \in 0 .. MaxDemand
  /\ \A limit \in {RampTime, StopTime, PurgeTime} : limit + MaxCycle < TimeMod

VARIABLES
  now,   \* get_system_time_ms()
  cf,    \* the module's structure mt_cf
  out,   \* f32_output of the speed ramp, sent to COOL_FAN_SPEED
  seen,  \* inputs of the last turn: a fault (or engine off), a temperature
         \* above 200 degrees, a manual purge request
  since, \* history: ms since the forward run was last entered
  atSpeed, \* history: the fan was at its commanded speed when it last
           \* started to ramp down, and no fault has interfered since
  cleaning \* history: ms since the active cleanout was started

vars == <<now, cf, out, seen, since, atSpeed, cleaning>>

Stages == {"runFwd", "rampDown", "stopped", "rampUp", "runRev"}
Speed(demand) == demand * RampTime
Speeds == 0 .. Speed(MaxDemand)

\* The time a cleanout may take: four ramps, two stops and the purge.  Each of
\* them is left a turn late and, but for the first, entered a turn late.
CleanoutTime == 4 * RampTime + 2 * StopTime + PurgeTime + 13 * MaxCycle

CoolingFanState ==
  [stage : Stages, prev : Stages,    \* e_fanstate, e_prev_fanstate
   cleanout : BOOLEAN,               \* u8_cleanout_active
   reverse : BOOLEAN,                \* f32_dir_cmd = CF_DIR_REVERSE
   cmd : Speeds,                     \* f32_speed_cmd
   demand : 0 .. MaxDemand,          \* f32_cooling_demand
   slope : Nat,                      \* f32_ramp_rate of the speed ramp
   fwdStart : Time, downStart : Time,
   stageStart : Time]  \* u32_stop_, ramp_up_ or rev_run_starttime: each is
                       \* written before its stage reads it (StagesEntered)

Inputs == [fault : BOOLEAN, hot : BOOLEAN, purge : BOOLEAN]
NoInputs == [fault |-> FALSE, hot |-> FALSE, purge |-> FALSE]

init_coolingFanControl ==
  [stage |-> "runFwd", prev |-> "stopped", cleanout |-> FALSE,
   reverse |-> FALSE, cmd |-> 0, demand |-> 0, slope |-> RunSlope,
   fwdStart |-> 0, downStart |-> 0, stageStart |-> 0]

Init ==
  /\ now = 0
  /\ cf = init_coolingFanControl
  /\ out = Speed(SafeDemand)
  /\ seen = NoInputs
  /\ since = 0
  /\ atSpeed = FALSE
  /\ cleaning = 0

-----------------------------------------------------------------------------
\* Faulty variant: the direction output is left as it is.
SafeStateKeepsDirection(f) ==
  [f EXCEPT !.cleanout = FALSE, !.stage = "runFwd", !.cmd = Speed(SafeDemand)]

\* Forward at the safe speed.  Neither the previous stage nor the slope of
\* the ramp is touched.
set_fanSafeState(f) ==
  [f EXCEPT !.cleanout = FALSE, !.stage = "runFwd", !.reverse = FALSE,
            !.cmd = Speed(SafeDemand)]

\* A temperature fault forces the safe state and keeps the old demand.
calc_coolingDemand(f, tooHot, demand) ==
  IF tooHot THEN set_fanSafeState(f) ELSE [f EXCEPT !.demand = demand]

\* Faulty variant: a cleanout starts in the middle of another one.
CleanoutDueAnyTime(f, t, purge, moving) ==
  purge \/ (moving /\ Elapsed(t, f.fwdStart) >= AutoCycle)

CleanoutDue(f, t, purge, moving) ==
  /\ ~f.cleanout
  /\ purge \/ (moving /\ Elapsed(t, f.fwdStart) >= AutoCycle)

StartCleanout(f) == [f EXCEPT !.stage = "rampDown", !.cleanout = TRUE]

\* Faulty variant: the forward run is not timed afresh.
EnterRunFwdUntimed(f, t) ==
  IF f.prev = "runFwd" THEN f
  ELSE [f EXCEPT !.slope = RunSlope, !.prev = "runFwd"]

EnterRunFwd(f, t) ==
  IF f.prev = "runFwd" THEN f
  ELSE [f EXCEPT !.fwdStart = t, !.slope = RunSlope, !.prev = "runFwd"]

RunFwd(f, t) ==
  [EnterRunFwd(f, t) EXCEPT !.cmd = Speed(f.demand), !.cleanout = FALSE]

\* Only coming from a run stage is the ramp set up and timed.
BeginsRampDown(f) == f.stage = "rampDown" /\ f.prev \in {"runFwd", "runRev"}

\* Faulty variant: the command is cleared before the slope is computed.
EnterRampDownSwapped(f, t) ==
  IF BeginsRampDown(f)
  THEN [f EXCEPT !.downStart = t, !.cmd = 0, !.slope = 0, !.prev = "rampDown"]
  ELSE f

\* The slope is computed from the speed command, not from the ramp's output:
\* cmd = demand * RampTime, and the division is exact.
EnterRampDown(f, t) ==
  IF BeginsRampDown(f)
  THEN [f EXCEPT !.downStart = t, !.slope = f.cmd \div RampTime, !.cmd = 0,
                 !.prev = "rampDown"]
  ELSE f

LeaveRampDown(f, t) ==
  IF Elapsed(t, f.downStart) > RampTime
  THEN [f EXCEPT !.prev = "rampDown", !.stage = "stopped", !.stageStart = t]
  ELSE f

\* The direction is switched once, on entry.
EnterStopped(f, t) ==
  IF f.prev = "rampDown"
  THEN [f EXCEPT !.stageStart = t, !.reverse = ~f.reverse, !.prev = "stopped"]
  ELSE f

LeaveStopped(f, t) ==
  IF Elapsed(t, f.stageStart) >= StopTime THEN [f EXCEPT !.stage = "rampUp"] ELSE f

EnterRampUp(f, t) ==
  IF f.prev = "stopped"
  THEN [f EXCEPT !.stageStart = t, !.cmd = Speed(f.demand), !.slope = f.demand,
                 !.prev = "rampUp"]
  ELSE f

LeaveRampUp(f, t) ==
  IF Elapsed(t, f.stageStart) > RampTime
  THEN [f EXCEPT !.stage = IF f.reverse THEN "runRev" ELSE "runFwd"]
  ELSE f

\* Faulty variant: the purge is timed from every turn anew.
EnterRunRevRestamped(f, t) == [f EXCEPT !.stageStart = t, !.prev = "runRev"]

EnterRunRev(f, t) ==
  IF f.prev = "rampUp" THEN [f EXCEPT !.stageStart = t, !.prev = "runRev"] ELSE f

LeaveRunRev(f, t) ==
  IF Elapsed(t, f.stageStart) > PurgeTime THEN [f EXCEPT !.stage = "rampDown"] ELSE f

RunStage(f, t) ==
  CASE f.stage = "runFwd"   -> RunFwd(f, t)
    [] f.stage = "rampDown" -> LeaveRampDown(EnterRampDown(f, t), t)
    [] f.stage = "stopped"  -> LeaveStopped(EnterStopped(f, t), t)
    [] f.stage = "rampUp"   -> LeaveRampUp(EnterRampUp(f, t), t)
    [] f.stage = "runRev"   -> LeaveRunRev(EnterRunRev(f, t), t)

\* rampCalc: at most slope * dt towards the command; the first call (no time
\* stamp yet) does not move.
Approach(from, to, step) ==
  IF to > from THEN IF to - from > step THEN from + step ELSE to
  ELSE IF from - to > step THEN from - step ELSE to

rampCalc(f, d) == Approach(out, f.cmd, IF now = 0 THEN 0 ELSE f.slope * d)

Saturate(n, max) == IF n > max THEN max ELSE n

-----------------------------------------------------------------------------
\* One turn of the main loop, d ms after the one before, with the engine off
\* or only just started or one of the outputs at fault.
SafeTurn == \E d \in 0 .. MaxCycle :
  /\ now' = Later(now, d)
  /\ cf' = set_fanSafeState(cf)
  /\ out' = rampCalc(cf', d)
  /\ since' = Saturate(since + d, AutoCycle)
  /\ atSpeed' = FALSE
  /\ cleaning' = 0
  /\ seen' = [NoInputs EXCEPT !.fault = TRUE]

\* A regular turn: demand, cleanout request, one stage, ramp.
ControlTurn ==
  \E d \in 0 .. MaxCycle, tooHot, purge, moving \in BOOLEAN, demand \in 0 .. MaxDemand :
    LET t == Later(now, d)
        calculated == calc_coolingDemand(cf, tooHot, demand)
        starts == CleanoutDue(calculated, t, purge, moving)
        requested == IF starts THEN StartCleanout(calculated) ELSE calculated
    IN /\ now' = t
       /\ seen' = [fault |-> FALSE, hot |-> tooHot, purge |-> purge]
       /\ cf' = RunStage(requested, t)
       /\ out' = rampCalc(cf', d)
       /\ since' = IF requested.stage = "runFwd" /\ cf.prev # "runFwd" THEN 0
                   ELSE Saturate(since + d, AutoCycle)
       /\ atSpeed' = /\ now # 0
                     /\ IF BeginsRampDown(requested) THEN out = requested.cmd
                        ELSE atSpeed /\ ~tooHot
       /\ cleaning' = IF cf'.cleanout /\ ~starts
                      THEN Saturate(cleaning + d, CleanoutTime + 1) ELSE 0

Next == SafeTurn \/ ControlTurn

Spec == Init /\ [][Next]_vars

ClockMoves == \E d \in 1 .. MaxCycle : now' = Later(now, d)

\* The main loop never stops turning, and its turns take time, though any
\* number of them may fall into one millisecond.
FairSpec == Spec /\ WF_now(ClockMoves)

-----------------------------------------------------------------------------
TypeOK ==
  /\ now \in Time
  /\ cf \in CoolingFanState
  /\ out \in Speeds
  /\ seen \in Inputs
  /\ since \in 0 .. AutoCycle
  /\ atSpeed \in BOOLEAN
  /\ cleaning \in 0 .. CleanoutTime + 1

\* Whatever faults, requests and temperatures interfere, the stages after the
\* ramp down are reached only from their predecessor, so that each of them
\* runs its entry action and is timed by a time stamp of its own; the fan is
\* out of its forward run, or in reverse, only in an active cleanout
\* (cooling_fan_control.c lines 342-457, e_prev_fanstate).
StagesEntered ==
  /\ cf.stage = "stopped" => cf.prev \in {"rampDown", "stopped"}
  /\ cf.stage = "rampUp" => cf.prev \in {"stopped", "rampUp"}
  /\ cf.stage = "runRev" => cf.prev \in {"rampUp", "runRev"} /\ cf.reverse
  /\ cf.stage # "runFwd" => cf.cleanout
  /\ cf.stage = "runFwd" => ~cf.reverse

\* A cleanout switches the direction of a standing fan, in both of its turns,
\* provided the fan had reached its commanded speed when the ramp down began,
\* no fault interfered (line 395) and the ramp lost no turn to the time stamp
\* 0, which it takes for its first call (ramp_calc.c line 127).
ReversesAtStandstill ==
  [][cf'.reverse # cf.reverse /\ cf'.prev = "stopped" /\ atSpeed'
       => out = 0 /\ out' = 0]_vars

\* An automatic cleanout never follows the end of a cleanout, or any other
\* start of the forward run, sooner than the configured time (line 334).
NoEarlyCleanout ==
  [][~cf.cleanout /\ cf'.cleanout /\ ~seen'.purge => since' >= AutoCycle]_vars

\* A cleanout is over in time, and with it the fan's turning in reverse: the
\* seven timed stages follow each other without any of them being timed twice,
\* by a stamp it did not take or by one the wrapping clock has outrun, also if
\* a temperature fault started the cleanout afresh in the middle of one
\* (cooling_fan_control.c lines 326, 342-457).
CleanoutInTime == cf.cleanout => cleaning <= CleanoutTime

\* The fan never stays in reverse (lines 446 and 427).
ReverseEnds == cf.reverse ~> ~cf.reverse

\* A cleanout ends even if the purge request is held, unless a temperature
\* fault keeps interfering (lines 326 and 360).
CleanoutEnds == cf.cleanout ~> (~cf.cleanout \/ seen.hot)
=============================================================================
