----------------------------- MODULE Propulsion -----------------------------
(***************************************************************************)
(* Driving (propulsion_control.c): joystick command, cruise control, speed *)
(* limit, interlocks, the ramp of the valve current and the two EDC valves.*)
(* One action is one turn of the main loop.                                *)
(*                                                                         *)
(* The joystick deflection is counted from 0, inside NEUTRAL_DEADBAND, to  *)
(* MaxCmd; a deflection c maps to the current MinCurr + c.  The configured *)
(* currents are taken equal in both directions.  Gear selection and wheel  *)
(* speed are independent of this state and left out; the gear is part of   *)
(* Attachments, which a module may extend together with this one.          *)
(***************************************************************************)
EXTENDS ToggleButton

CONSTANTS MaxCmd,       \* full deflection
          LimitCmd,     \* SPEED_LIMIT_PER, 47.5 %
          MinCurr,      \* u16_min_curr_fwd, the threshold current of a valve
          RawGain,      \* how much an unscaled command exceeds its current
          DriveDeb,     \* debounce of both buttons, 250 ms
          StartupDelay, \* EDC_STARTUP_DELAY, 4000 ms
          AccelRate,    \* ACCEL_RATE: the default of ramp_targetSpeedCommand
          DecelRate,    \* MAX_DECCEL_RATE
          MaxTurn       \* bound on the time one turn of the main loop takes

ASSUME PropulsionAssumption ==
  /\ MaxCmd \in Nat /\ LimitCmd \in 1 .. MaxCmd
  /\ {MinCurr, RawGain, MaxTurn, AccelRate, DecelRate} \subseteq Nat \ {0}
  /\ DriveDeb \in Nat /\ StartupDelay \in Nat
  /\ MaxTurn < TimeMod

VARIABLES
  clock,    \* get_system_time_ms()
  joy,      \* joystick state, command and cruise control of mt_prop_control
  cruise,   \* t_cc_enable, state = u8_cc_enable
  limit,    \* t_speed_limit_enable, state = u8_speed_limit_enable
  ramp,     \* t_js_command: output and lower limit
  edc,      \* u8_edc_enable
  valve,    \* values set for PROPEL_FWD, PROPEL_REV and BACKUP_ALARM
  coasting  \* history: ms the ramp had to bring the valves down, up to MaxCmd

driveVars == <<clock, joy, cruise, limit, ramp, edc, valve, coasting>>

Directions == {"fwd", "rev", "neutral"}
Commands == 0 .. MaxCmd
MaxCurr == MinCurr + MaxCmd

\* u8_prev_active of check_ccLimits always equals u8_cc_active between calls.
Joystick == [state : Directions, command : Commands,
             ccActive : BOOLEAN, ccMax : Commands]
Ramp == [out : 0 .. MaxCurr, min : {0, MinCurr}]
Valves == [fwd : 0 .. MaxCurr, rev : 0 .. MaxCurr, alarm : BOOLEAN]

\* What one turn samples: deflection and direction flag (forward wins if both
\* are set).  In the deadband the flags are not looked at.
Sticks == {[pos |-> 0, flag |-> "none"]} \cup
          [pos : Commands \ {0}, flag : {"fwd", "rev", "none"}]

\* The enum value 0 of a static variable is E_JOYSTICK_FWD.
DriveInit ==
  /\ clock = 0
  /\ joy = [state |-> "fwd", command |-> 0, ccActive |-> FALSE, ccMax |-> 0]
  /\ cruise = toggleButton_init
  /\ limit = toggleButton_init
  /\ ramp = [out |-> 0, min |-> 0]
  /\ edc = FALSE
  /\ valve = [fwd |-> 0, rev |-> 0, alarm |-> FALSE]
  /\ coasting = 0

-----------------------------------------------------------------------------
AtMost(c, max) == IF c > max THEN max ELSE c
AtLeast(c, min) == IF c < min THEN min ELSE c

\* Faulty variant: cruise control ends as soon as it is switched off.
CruiseHeldWhileOn(enabled, active, command, ccMax) == enabled

\* Once active, cruise control outlives its button until the operator has
\* taken the joystick below the set speed.
CruiseHeld(enabled, active, command, ccMax) ==
  enabled \/ (active /\ command >= ccMax)

\* Faulty variant: the set speed follows the command while active.
CcLimitsNoEdge(j, command, enabled) ==
  [j EXCEPT !.ccActive = CruiseHeld(enabled, j.ccActive, command, j.ccMax),
            !.ccMax = command, !.command = command]

\* check_ccLimits: the set speed is taken when cruise control becomes active.
check_ccLimits(j, command, enabled) ==
  LET active == CruiseHeld(enabled, j.ccActive, command, j.ccMax)
      ccMax == IF active /\ ~j.ccActive THEN command ELSE j.ccMax
  IN [j EXCEPT !.ccActive = active, !.ccMax = ccMax,
               !.command = IF active THEN AtMost(command, ccMax) ELSE command]

\* Outside the deadband and without a direction flag the state is kept.
JoystickState(old, stick, command) ==
  IF command = 0 THEN "neutral"
  ELSE IF stick.flag = "none" THEN old
  ELSE stick.flag

calc_joystickSpeedCommand(j, stick, ccEnabled, limited) ==
  LET wanted == IF limited THEN AtMost(stick.pos, LimitCmd) ELSE stick.pos
      k == check_ccLimits(j, wanted, ccEnabled)
  IN [k EXCEPT !.state = JoystickState(j.state, stick, k.command)]

\* The target of the ramp.  In neutral the command is not scaled to a current:
\* it is not 0 if the joystick is deflected without a direction flag.
RawOutput(j) == IF j.state = "neutral" THEN RawGain * j.command ELSE MinCurr + j.command

\* Driving in a direction sets the limits of the ramp to the valve's range;
\* nothing ever resets them.
LimitedRamp(r, j) == IF j.state = "neutral" THEN r ELSE [r EXCEPT !.min = MinCurr]

\* Faulty variant: the ramp does not follow a lower target.
ApproachFromBelow(from, to, step) ==
  IF to - from > step THEN from + step ELSE AtLeast(from, to)

Approach(from, to, step) ==
  IF to > from THEN IF to - from > step THEN from + step ELSE to
  ELSE IF from - to > step THEN from - step ELSE to

Clamped(c, r) == AtMost(AtLeast(c, r.min), MaxCurr)

\* Faulty variant: the ramp does not run while the drive is disabled.
RampHeld(r, target, step, t) ==
  IF target = 0 THEN r
  ELSE [r EXCEPT !.out = Approach(Clamped(r.out, r), target, step)]

\* rampCalc with output and target clamped to the limits; the first call (no
\* time stamp) only clamps.  t is the time of the call before.
RampStep(r, target, step, t) ==
  [r EXCEPT !.out = Approach(Clamped(r.out, r), Clamped(target, r),
                             IF t = 0 THEN 0 ELSE step)]

\* Faulty variant: neutral leaves the valve of the last direction open.
ValvesKeptInNeutral(j, current) ==
  [fwd |-> IF j.state = "rev" THEN 0 ELSE current,
   rev |-> IF j.state = "rev" THEN current ELSE 0, alarm |-> j.state = "rev"]

\* output_edcValves and the reverse indicator: the ramped current goes to the
\* valve of the joystick's direction.
output_edcValves(j, current) ==
  [fwd |-> IF j.state = "fwd" THEN current ELSE 0,
   rev |-> IF j.state = "rev" THEN current ELSE 0, alarm |-> j.state = "rev"]

\* interlocks: engine running, no fault of a valve, park brake released.
EdcPermitted(t, interlocks) == t >= StartupDelay /\ interlocks

-----------------------------------------------------------------------------
\* A turn with the EDC disabled (or, with it enabled, the joystick interlocks
\* open): the command is calculated once, the buttons are not polled and the
\* ramp gets the target 0.
StopTurn == \E d \in 0 .. MaxTurn, interlocks \in BOOLEAN, stick \in Sticks :
  /\ clock' = Later(clock, d)
  /\ edc' = EdcPermitted(clock', interlocks)
  /\ joy' = calc_joystickSpeedCommand(joy, stick, cruise.state, limit.state)
  /\ ramp' = RampStep(LimitedRamp(ramp, joy'), 0, DecelRate * d, clock)
  /\ valve' = output_edcValves(joy', ramp'.out)
  /\ coasting' = IF clock = 0 THEN coasting ELSE AtMost(coasting + d, MaxCmd)
  /\ UNCHANGED <<cruise, limit>>

\* A turn with the drive enabled: the command is calculated, the buttons are
\* polled, and the command is calculated again.
DriveTurn == \E d \in 0 .. MaxTurn, raw, limitRaw \in BOOLEAN, stick \in Sticks :
  LET first == calc_joystickSpeedCommand(joy, stick, cruise.state, limit.state) IN
  /\ clock' = Later(clock, d)
  /\ edc' = EdcPermitted(clock', TRUE)
  /\ edc'
  /\ cruise' = toggleButton(cruise, clock', raw, FALSE, DriveDeb, FALSE)
  /\ limit' = toggleButton(limit, clock', limitRaw, FALSE, DriveDeb, FALSE)
  /\ joy' = calc_joystickSpeedCommand(first, stick, cruise'.state, limit'.state)
  /\ ramp' = RampStep(LimitedRamp(LimitedRamp(ramp, first), joy'), RawOutput(joy'),
                      AccelRate * d, clock)
  /\ valve' = output_edcValves(joy', ramp'.out)
  /\ coasting' = 0

DriveNext == StopTurn \/ DriveTurn

DriveSpec == DriveInit /\ [][DriveNext]_driveVars

ClockMoves == \E d \in 1 .. MaxTurn : clock' = Later(clock, d)

\* The main loop never stops turning, and its turns take time, though any
\* number of them may fall into one millisecond.
DriveFairSpec == DriveSpec /\ WF_clock(ClockMoves)

-----------------------------------------------------------------------------
DriveTypeOK ==
  /\ clock \in Time
  /\ joy \in Joystick
  /\ cruise \in Button
  /\ limit \in Button
  /\ ramp \in Ramp
  /\ edc \in BOOLEAN
  /\ valve \in Valves
  /\ coasting \in Commands

\* Joystick in neutral, the permissive for cranking the engine, means that
\* both valves are closed in the same turn, and reversing that the alarm
\* sounds (FR-13.9, FR-13.10; lines 185-200).
NeutralMeansStopped ==
  /\ joy.state = "neutral" => valve.fwd = 0 /\ valve.rev = 0
  /\ valve.rev > 0 => valve.alarm /\ joy.state = "rev" /\ valve.fwd = 0

\* Cruise control never lets go upwards: it ends only in a turn that saw the
\* operator's command below the set speed, however its button, the speed
\* limit and the interlocks interfere (lines 341-350).
CruiseEndsFromBelow ==
  [][joy.ccActive /\ ~joy'.ccActive => joy'.command < joy.ccMax]_driveVars

\* While it is active the command is capped by the set speed, which moves only
\* when the operator switches cruise control on again (lines 352-358).
CruiseKeepsSpeed ==
  [][joy'.ccActive =>
       /\ joy'.command <= joy'.ccMax
       /\ joy.ccActive /\ joy'.ccMax # joy.ccMax => cruise'.state /\ ~cruise.state]_driveVars

\* A drive that is stopped has come down to the threshold current as soon as
\* the ramp had the time from full deflection, whatever the joystick does and
\* however often the interlocks open and close in between; a turn after one at
\* clock 0 does not count, the ramp takes its time stamp for none (FR-13.6,
\* lines 155-159 and 178-181).
SettlesInTime ==
  DecelRate * coasting >= MaxCmd => valve.fwd <= MinCurr /\ valve.rev <= MinCurr

\* With an interlock of the drive open for good, whatever the joystick does,
\* the valves come down to their threshold current (FR-13.6, line 154), which
\* is where the ramp's lower limit keeps them while the joystick is deflected.
DisabledDriveSettles ==
  <>[]~edc => <>[](valve.fwd <= MinCurr /\ valve.rev <= MinCurr)

\* The ramp is there "to prevent sudden, jerky movements" (line 406): the
\* current of a valve rises by no more than a turn of the ramp above its
\* threshold.  A change of direction hands the ramp's output to the other valve.
ValvesRampUp ==
  [][\A dir \in {"fwd", "rev"} :
       valve'[dir] <= AtLeast(valve[dir], MinCurr) + AccelRate * MaxTurn]_driveVars
=====================
