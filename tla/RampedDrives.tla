---------------------------- MODULE RampedDrives ----------------------------
(***************************************************************************)
(* The drives whose speed is ramped: elevator (elevator_control.c), front  *)
(* sweeps (front_sweeps_control.c) and rotary trap (rotary_trap_control.c).*)
(* In every turn of the main loop they run in this order, sweeps and trap  *)
(* after the cleaning chains controller whose shaft drive they follow.     *)
(* The functions of one turn read the same time.                           *)
(***************************************************************************)
EXTENDS Ramp, ToggleButton

CONSTANTS MaxCycle,               \* bound on the time one turn takes
          ButtonDeb,              \* debounce of the elevator button, 250 ms
          MinCurrent,             \* ELEVATOR_MIN_CURRENT_MA
          VL3514Max, VL3512Max,   \* maximum currents of the two valves
          ElevatorRate,           \* ELEVATOR_RAMP_RATE
          SweepsMax, SweepsRate,  \* FRONT_SWEEPS_MAX, FRONT_SWEEPS_RAMP_RATE
          LowMin, LowMax,         \* ROTARY_TRAP_LOW_MIN ... MAX_MAX
          MedMin, MedMax,
          MaxMin, MaxMax,
          TrapRate                \* ROTARY_TRAP_RAMP_RATE

ASSUME RampedDrivesAssumption ==
  /\ MaxCycle \in Nat \ {0} /\ MaxCycle < TimeMod
  /\ ButtonDeb \in Nat
  /\ {MinCurrent, VL3514Max, VL3512Max, ElevatorRate, SweepsMax, SweepsRate,
      TrapRate} \subseteq Nat \ {0}
  /\ MinCurrent <= VL3514Max /\ VL3514Max <= VL3512Max
  /\ {LowMin, LowMax, MedMin, MedMax, MaxMin, MaxMax} \subseteq Nat
  /\ 0 < LowMin /\ LowMin <= MedMin /\ MedMin <= MedMax
  /\ LowMax = MedMax /\ MedMax < MaxMin /\ MaxMin <= MaxMax

VARIABLES
  now,      \* get_system_time_ms()
  phase,    \* the next function main() calls
  shaft,    \* get_shaftDriveStatus: the latch of the cleaning chains
  enable,   \* t_btn_enable of the elevator, state = u8_elevator_enabled
  elevator, \* its ramp
  sweeps,   \* ramp of the front sweeps
  trap,     \* ramp of the rotary trap
  out,      \* values set for FLOW_CONTROL, DV_SWEEP and ROTARY_TRAP
  resting   \* history: ms the ramp of the sweeps had to bring them to rest

vars == <<now, phase, shaft, enable, elevator, sweeps, trap, out, resting>>

Phases == {"inputs", "elevator", "cChains", "frontSweeps", "rotaryTrap", "hwOutputs"}

\* The two bits the elevator button sends.
Codes == {"released", "pressed", "error", "fault"}

Outputs == [flow : 0 .. VL3512Max, sweeps : 0 .. SweepsMax, trap : 0 .. MaxMax]

\* The elevator starts enabled, before any press of its button (FR-6.3).
Init ==
  /\ now = 0
  /\ phase = "inputs"
  /\ shaft = FALSE
  /\ enable = [toggleButton_init EXCEPT !.state = TRUE]
  /\ elevator = rampInit(0)
  /\ sweeps = rampInit(0)
  /\ trap = rampInit(0)
  /\ out = [flow |-> 0, sweeps |-> 0, trap |-> 0]
  /\ resting = 0

-----------------------------------------------------------------------------
\* The inputs are read; d milliseconds have passed since the turn before.
UpdateInputs ==
  /\ phase = "inputs"
  /\ phase' = "elevator"
  /\ \E d \in 0 .. MaxCycle : now' = Later(now, d)
  /\ UNCHANGED <<shaft, enable, elevator, sweeps, trap, out, resting>>

\* Faulty variant: a disabled elevator keeps the requested speed.
TargetWhenDisabled(enabled, valveFault, request, maxCurrent) ==
  IF ~valveFault THEN request ELSE MinCurrent

\* The current for a requested speed; a disabled elevator and one whose valve
\* has a fault requests 0.
ElevatorTarget(enabled, valveFault, request, maxCurrent) ==
  IF enabled /\ ~valveFault THEN request ELSE MinCurrent

\* The valve is set only while it has no fault; a fault of the valve or of the
\* button switches the elevator off until the button is pressed again.
UpdateElevator ==
  /\ phase = "elevator"
  /\ phase' = "cChains"
  /\ \E code \in Codes, valveFault \in BOOLEAN, maxCurrent \in {VL3514Max, VL3512Max} :
       /\ enable' = toggleButton(enable, now, code # "released",
                      valveFault \/ code = "fault", ButtonDeb, FALSE)
       /\ \E request \in MinCurrent .. maxCurrent :
            elevator' = rampCalc(elevator,
                          ElevatorTarget(enable'.state, valveFault, request, maxCurrent),
                          MinCurrent, maxCurrent, ElevatorRate, now)
       /\ out' = IF valveFault THEN out ELSE [out EXCEPT !.flow = elevator'.output]
  /\ UNCHANGED <<now, shaft, sweeps, trap, resting>>

\* update_cChainsControl switches the shaft drive (see StartInterlock).
UpdateCChains ==
  /\ phase = "cChains"
  /\ phase' = "frontSweeps"
  /\ shaft' \in BOOLEAN
  /\ UNCHANGED <<now, enable, elevator, sweeps, trap, out, resting>>

Saturate(n, max) == IF n > max THEN max ELSE n

\* FR-3.4: enabled on the display, installed, and the shaft drive on.
SweepsRunning(enabled, installed) == enabled /\ shaft /\ installed

\* A fault of the output sets the safe value; the ramp goes on.
UpdateFrontSweeps ==
  /\ phase = "frontSweeps"
  /\ phase' = "rotaryTrap"
  /\ \E enabled, installed, outputFault \in BOOLEAN, request \in 0 .. SweepsMax :
       LET running == SweepsRunning(enabled, installed) IN
       /\ sweeps' = rampCalc(sweeps, IF running THEN request ELSE 0,
                             0, SweepsMax, SweepsRate, now)
       /\ out' = [out EXCEPT !.sweeps = IF outputFault THEN 0 ELSE sweeps'.output]
  /\ resting' = IF shaft THEN 0
                ELSE IF sweeps.last = 0 THEN resting
                ELSE Saturate(resting + Elapsed(now, sweeps.last), SweepsMax)
  /\ UNCHANGED <<now, shaft, enable, elevator, trap>>

Ranges == {"low", "med", "max", "unknown"}

\* An unknown code leaves the limits initialised before the switch, LOW; the
\* target its case chooses, the present speed, is overwritten at line 173.
RangeMin(range) == CASE range = "med" -> MedMin [] range = "max" -> MaxMin [] OTHER -> LowMin
RangeMax(range) == CASE range = "med" -> MedMax [] range = "max" -> MaxMax [] OTHER -> LowMax

\* Faulty variant: the limits of the range stay when the shaft drive is off.
TrapRampStopTargetOnly(range, boost, target) ==
  IF ~shaft THEN rampCalc(trap, 0, RangeMin(range), RangeMax(range), TrapRate, now)
  ELSE rampCalc(trap, target, RangeMin(range), RangeMax(range), TrapRate, now)

\* Without the shaft drive both limits are 0; the speed increase button asks
\* for the highest speed of all ranges; otherwise the wheel speed sets a
\* target within the range.
TrapRamp(range, boost, target) ==
  IF ~shaft THEN rampCalc(trap, 0, 0, 0, TrapRate, now)
  ELSE IF boost THEN rampCalc(trap, MaxMax, RangeMin(range), MaxMax, TrapRate, now)
  ELSE rampCalc(trap, target, RangeMin(range), RangeMax(range), TrapRate, now)

UpdateRotaryTrap ==
  /\ phase = "rotaryTrap"
  /\ phase' = "hwOutputs"
  /\ \E range \in Ranges, boost, outputFault \in BOOLEAN :
       /\ \E target \in RangeMin(range) .. RangeMax(range) :
            trap' = TrapRamp(range, boost, target)
       /\ out' = [out EXCEPT !.trap = IF outputFault THEN 0 ELSE trap'.output]
  /\ UNCHANGED <<now, shaft, enable, elevator, sweeps, resting>>

\* update_hwOutputs writes the values; then the next turn begins.
UpdateOutputs ==
  /\ phase = "hwOutputs"
  /\ phase' = "inputs"
  /\ UNCHANGED <<now, shaft, enable, elevator, sweeps, trap, out, resting>>

Next == \/ UpdateInputs
        \/ UpdateElevator
        \/ UpdateCChains
        \/ UpdateFrontSweeps
        \/ UpdateRotaryTrap
        \/ UpdateOutputs

Spec == Init /\ [][Next]_vars

-----------------------------------------------------------------------------
TypeOK ==
  /\ now \in Time
  /\ phase \in Phases
  /\ shaft \in BOOLEAN
  /\ enable \in Button
  /\ elevator \in RampState(VL3512Max)
  /\ sweeps \in RampState(SweepsMax)
  /\ trap \in RampState(MaxMax)
  /\ out \in Outputs
  /\ resting \in 0 .. SweepsMax

\* What the loop writes while the shaft drive is off: the trap stands still in
\* the same turn, in whatever range it ran, and the sweeps as soon as the ramp
\* has had the time for its whole way, whatever faults came and went, and
\* across a wrap of the clock and a turn lost at time 0 (FR-3.4, FR-4.7;
\* front_sweeps_control.c line 128, rotary_trap_control.c lines 159-161).
StopsWithShaft ==
  phase = "hwOutputs" /\ ~shaft =>
    /\ out.trap = 0
    /\ SweepsRate * resting >= SweepsMax => out.sweeps = 0

\* A disabled elevator never speeds up, however the faults of its valve come
\* and go and whichever valve is configured: after a fault it comes back at no
\* more than the current it was left with (elevator_control.c lines 174-200).
OffNeverSpeedsUp ==
  [][~enable'.state => out'.flow <= Clamp(out.flow, MinCurrent, VL3512Max)]_vars
=============================================================================
