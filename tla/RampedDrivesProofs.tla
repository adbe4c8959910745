------------------------- MODULE RampedDrivesProofs -------------------------
(***************************************************************************)
(* The ramped drives for every clock width, every bound on its turns,      *)
(* every rate and every set of limits: without the shaft drive sweeps and  *)
(* trap come to rest in time, and a disabled elevator never speeds up.     *)
(***************************************************************************)
EXTENDS RampedDrives, TLAPS

USE TimeModAssumption, RampedDrivesAssumption

\* What the sweeps have left of their way fits into what is left of the time,
\* and their output is the ramp's or the safe value.
SweepsBacked ==
  /\ out.sweeps = 0 \/ out.sweeps = sweeps.output
  /\ sweeps.output = 0 \/ sweeps.output + SweepsRate * resting <= SweepsMax

\* After its controller ran, the trap is driven only with the shaft drive.
TrapBacked == phase = "hwOutputs" /\ ~shaft => out.trap = 0

\* The ramp of the elevator is never above what the valve was set to.
ElevatorBacked == elevator.output <= Clamp(out.flow, MinCurrent, VL3512Max)

IInv == TypeOK /\ SweepsBacked /\ TrapBacked /\ ElevatorBacked

\* The ramp moves from its clamped output towards its clamped target and
\* stays within the limits.
LEMMA RampLemma ==
  ASSUME NEW max \in Nat, NEW r \in RampState(max), NEW target \in Nat,
         NEW lo \in Nat, NEW hi \in Nat, lo <= hi, hi <= max,
         NEW rate \in Nat, NEW t \in Time
  PROVE  LET s == rampCalc(r, target, lo, hi, rate, t) IN
         /\ s \in RampState(max)
         /\ lo <= s.output /\ s.output <= hi
         /\ target <= lo => s.output <= Clamp(r.output, lo, hi)
<1> DEFINE step == rate * Elapsed(t, r.last)
           from == Clamp(r.output, lo, hi)
           to == Clamp(target, lo, hi)
           s == rampCalc(r, target, lo, hi, rate, t)
<1>1. Elapsed(t, r.last) \in Nat
  BY DEF Elapsed, RampState, Time
<1>2. step \in Nat
  BY <1>1
<1>3. /\ from \in Nat /\ lo <= from /\ from <= hi
      /\ to \in Nat /\ lo <= to /\ to <= hi
      /\ target <= lo => to = lo
  BY DEF Clamp, RampState
<1>4. s.last = t /\ s = [output |-> s.output, last |-> s.last]
  BY DEF rampCalc
<1>5. s.output = IF r.last = 0 THEN from ELSE Approach(from, to, step)
  BY DEF rampCalc
<1> HIDE DEF step, from, to, s
<1>6. /\ s.output \in Nat /\ lo <= s.output /\ s.output <= hi
      /\ to = lo => s.output <= from
  BY <1>2, <1>3, <1>5 DEF Approach
<1>7. s \in RampState(max)
  BY <1>4, <1>6 DEF RampState
<1> QED
  BY <1>3, <1>6, <1>7 DEF s, from

\* Away from time 0 a ramp to rest goes the whole step, or arrives.
LEMMA RampToRestLemma ==
  ASSUME NEW max \in Nat, NEW r \in RampState(max), NEW rate \in Nat,
         NEW t \in Time, r.last # 0
  PROVE  LET s == rampCalc(r, 0, 0, max, rate, t) IN
         s.output = 0 \/ s.output = r.output - rate * Elapsed(t, r.last)
<1> DEFINE step == rate * Elapsed(t, r.last)
<1>1. Clamp(r.output, 0, max) = r.output /\ Clamp(0, 0, max) = 0 /\ r.output \in Nat
  BY DEF Clamp, RampState
<1>2. rampCalc(r, 0, 0, max, rate, t).output = Approach(r.output, 0, step)
  BY <1>1 DEF rampCalc
<1> HIDE DEF step
<1>3. Approach(r.output, 0, step) \in {0, r.output - step}
  BY <1>1 DEF Approach
<1> QED
  BY <1>2, <1>3 DEF step

\* A call of the helper gives a button.
LEMMA ButtonLemma ==
  ASSUME NEW b \in Button, NEW t \in Time, NEW raw \in BOOLEAN,
         NEW reset \in BOOLEAN
  PROVE  LET c == toggleButton(b, t, raw, reset, ButtonDeb, FALSE) IN
         c \in Button /\ (reset => ~c.state)
<1>1. 0 \in Time
  BY DEF Time
<1>2. CASE reset
  BY <1>1, <1>2 DEF toggleButton, ResetButton, Button
<1>3. CASE ~reset /\ ~raw
  BY <1>1, <1>3 DEF toggleButton, ReleasedButton, Button
<1>4. CASE ~reset /\ raw
  <2>1. PressStart(b, t) \in Time
    BY DEF PressStart, Button
  <2>2. Toggles(b, t, ButtonDeb) \in BOOLEAN
    BY DEF Toggles, Button
  <2>3. PressedButton(b, t, ButtonDeb) \in Button
    BY <2>1, <2>2 DEF PressedButton, Button
  <2> QED
    BY <1>4, <2>3 DEF toggleButton
<1> QED
  BY <1>2, <1>3, <1>4

\* The elevator turn: types, and what a disabled elevator does.
LEMMA ElevatorLemma ==
  ASSUME IInv, UpdateElevator
  PROVE  /\ enable' \in Button
         /\ elevator' \in RampState(VL3512Max)
         /\ out' \in Outputs
         /\ out'.sweeps = out.sweeps
         /\ ElevatorBacked'
         /\ ~enable'.state => out'.flow <= Clamp(out.flow, MinCurrent, VL3512Max)
<1> USE DEF IInv
<1>1. PICK code \in Codes, valveFault \in BOOLEAN, maxCurrent \in {VL3514Max, VL3512Max} :
        /\ enable' = toggleButton(enable, now, code # "released",
                       valveFault \/ code = "fault", ButtonDeb, FALSE)
        /\ \E request \in MinCurrent .. maxCurrent :
             elevator' = rampCalc(elevator,
                           ElevatorTarget(enable'.state, valveFault, request, maxCurrent),
                           MinCurrent, maxCurrent, ElevatorRate, now)
        /\ out' = IF valveFault THEN out ELSE [out EXCEPT !.flow = elevator'.output]
  BY DEF UpdateElevator
<1>2. PICK request \in MinCurrent .. maxCurrent :
        elevator' = rampCalc(elevator,
                      ElevatorTarget(enable'.state, valveFault, request, maxCurrent),
                      MinCurrent, maxCurrent, ElevatorRate, now)
  BY <1>1
<1> DEFINE target == ElevatorTarget(enable'.state, valveFault, request, maxCurrent)
<1>3. enable' \in Button /\ (valveFault => ~enable'.state)
  BY <1>1, ButtonLemma DEF TypeOK
<1>4. /\ target \in Nat
      /\ ~enable'.state => target = MinCurrent
      /\ maxCurrent \in Nat /\ MinCurrent <= maxCurrent /\ maxCurrent <= VL3512Max
  BY DEF ElevatorTarget
<1> HIDE DEF target
<1>5. elevator' = rampCalc(elevator, target, MinCurrent, maxCurrent, ElevatorRate, now)
  BY <1>2 DEF target
<1>6. /\ elevator' \in RampState(VL3512Max)
      /\ MinCurrent <= elevator'.output /\ elevator'.output <= maxCurrent
      /\ target <= MinCurrent =>
           elevator'.output <= Clamp(elevator.output, MinCurrent, maxCurrent)
  BY <1>4, <1>5, RampLemma DEF TypeOK
<1>7. out.flow \in 0 .. VL3512Max /\ elevator.output \in 0 .. VL3512Max
  BY DEF TypeOK, Outputs, RampState
<1>8. ~enable'.state => elevator'.output <= Clamp(out.flow, MinCurrent, VL3512Max)
  <2>1. elevator.output <= Clamp(out.flow, MinCurrent, VL3512Max)
    BY DEF ElevatorBacked
  <2>2. elevator'.output \in Nat
    BY <1>6 DEF RampState
  <2> DEFINE known == out.flow
             before == elevator.output
             after == elevator'.output
  <2>3. /\ known \in Nat /\ before \in Nat /\ after \in Nat
        /\ before <= Clamp(known, MinCurrent, VL3512Max)
        /\ ~enable'.state => after <= Clamp(before, MinCurrent, maxCurrent)
    BY <1>4, <1>6, <1>7, <2>1, <2>2
  <2> HIDE DEF known, before, after
  <2>4. ~enable'.state => after <= Clamp(known, MinCurrent, VL3512Max)
    BY <1>4, <2>3 DEF Clamp
  <2> QED
    BY <2>4 DEF known, after
<1>9. /\ out' \in Outputs /\ out'.sweeps = out.sweeps
      /\ out'.flow = IF valveFault THEN out.flow ELSE elevator'.output
  BY <1>1, <1>6 DEF TypeOK, Outputs, RampState
<1>10. ElevatorBacked'
  BY <1>3, <1>4, <1>6, <1>7, <1>8, <1>9 DEF ElevatorBacked, Clamp, RampState
<1>11. ~enable'.state => out'.flow <= Clamp(out.flow, MinCurrent, VL3512Max)
  BY <1>7, <1>8, <1>9 DEF Clamp
<1> QED
  BY <1>3, <1>6, <1>9, <1>10, <1>11

LEMMA ElevatorKeepsIInv == IInv /\ UpdateElevator => IInv'
<1> SUFFICES ASSUME IInv, UpdateElevator PROVE IInv'
  OBVIOUS
<1>1. phase' = "cChains" /\ UNCHANGED <<now, shaft, sweeps, trap, resting>>
  BY DEF UpdateElevator
<1>2. TypeOK'
  BY <1>1, ElevatorLemma DEF IInv, TypeOK, Phases
<1> QED
  BY <1>1, <1>2, ElevatorLemma DEF IInv, SweepsBacked, TrapBacked

LEMMA SweepsKeepIInv == IInv /\ UpdateFrontSweeps => IInv'
<1> SUFFICES ASSUME IInv, UpdateFrontSweeps PROVE IInv'
  OBVIOUS
<1> USE DEF IInv
<1>1. PICK enabled \in BOOLEAN, installed \in BOOLEAN, outputFault \in BOOLEAN,
           request \in 0 .. SweepsMax :
        /\ sweeps' = rampCalc(sweeps,
                       IF SweepsRunning(enabled, installed) THEN request ELSE 0,
                       0, SweepsMax, SweepsRate, now)
        /\ out' = [out EXCEPT !.sweeps = IF outputFault THEN 0 ELSE sweeps'.output]
  BY DEF UpdateFrontSweeps
<1> DEFINE target == IF SweepsRunning(enabled, installed) THEN request ELSE 0
           e == Elapsed(now, sweeps.last)
<1>2. /\ phase' = "rotaryTrap"
      /\ resting' = IF shaft THEN 0
                    ELSE IF sweeps.last = 0 THEN resting
                    ELSE Saturate(resting + e, SweepsMax)
      /\ UNCHANGED <<now, shaft, enable, elevator, trap>>
  BY DEF UpdateFrontSweeps
<1>3. target \in Nat /\ (~shaft => target = 0)
  BY DEF SweepsRunning
<1> HIDE DEF target
<1>4. sweeps' = rampCalc(sweeps, target, 0, SweepsMax, SweepsRate, now)
  BY <1>1 DEF target
<1>5. sweeps \in RampState(SweepsMax) /\ now \in Time
  BY DEF TypeOK
<1>6. /\ sweeps' \in RampState(SweepsMax)
      /\ target = 0 => sweeps'.output <= Clamp(sweeps.output, 0, SweepsMax)
      /\ target = 0 /\ sweeps.last # 0 =>
           sweeps'.output = 0 \/ sweeps'.output = sweeps.output - SweepsRate * e
  <2>1. 0 \in Nat /\ SweepsMax \in Nat /\ 0 <= SweepsMax /\ SweepsMax <= SweepsMax
        /\ SweepsRate \in Nat
    OBVIOUS
  <2>2. /\ sweeps' \in RampState(SweepsMax)
        /\ target <= 0 => sweeps'.output <= Clamp(sweeps.output, 0, SweepsMax)
    BY <1>3, <1>4, <1>5, <2>1, RampLemma, Zenon
  <2>3. ASSUME target = 0, sweeps.last # 0
        PROVE  sweeps'.output = 0 \/ sweeps'.output = sweeps.output - SweepsRate * e
    <3>1. sweeps' = rampCalc(sweeps, 0, 0, SweepsMax, SweepsRate, now)
      BY <1>4, <2>3
    <3> QED
      BY <1>5, <2>1, <2>3, <3>1, RampToRestLemma
  <2> QED
    BY <2>2, <2>3
<1>7. e \in Nat /\ resting \in 0 .. SweepsMax
  BY <1>5 DEF Elapsed, Time, RampState, TypeOK
<1>8. sweeps.output \in 0 .. SweepsMax /\ sweeps'.output \in 0 .. SweepsMax
  BY <1>5, <1>6 DEF RampState
<1>9. target = 0 => sweeps'.output <= sweeps.output
  BY <1>6, <1>8 DEF Clamp
<1>10. sweeps'.output = 0 \/ sweeps'.output + SweepsRate * resting' <= SweepsMax
  <2>1. CASE shaft
    BY <1>2, <1>8, <2>1
  <2>2. CASE ~shaft /\ sweeps.last = 0
    <3>1. resting' = resting
      BY <1>2, <2>2
    <3>2. SweepsRate * resting \in Nat
      BY <1>7
    <3> QED
      BY <1>3, <1>8, <1>9, <2>2, <3>1, <3>2 DEF SweepsBacked
  <2>3. CASE ~shaft /\ sweeps.last # 0
    <3>1. resting' \in Nat /\ resting' <= resting + e
      BY <1>2, <1>7, <2>3 DEF Saturate
    <3>2. /\ SweepsRate * resting' <= SweepsRate * (resting + e)
          /\ SweepsRate * (resting + e) = SweepsRate * resting + SweepsRate * e
      BY <1>7, <3>1, Z3
    <3>3. {SweepsRate * resting', SweepsRate * resting, SweepsRate * e} \subseteq Nat
      BY <1>7, <3>1
    <3> DEFINE new == SweepsRate * resting'
               old == SweepsRate * resting
               covered == SweepsRate * e
    <3>4. /\ {new, old, covered} \subseteq Nat /\ new <= old + covered
          /\ sweeps.output = 0 \/ sweeps.output + old <= SweepsMax
          /\ sweeps'.output = 0 \/ sweeps'.output = sweeps.output - covered
      BY <1>3, <1>6, <2>3, <3>2, <3>3 DEF SweepsBacked
    <3> HIDE DEF new, old, covered
    <3>5. sweeps'.output = 0 \/ sweeps'.output + new <= SweepsMax
      BY <1>3, <1>8, <1>9, <2>3, <3>4
    <3> QED
      BY <3>5 DEF new
  <2> QED
    BY <2>1, <2>2, <2>3
<1>11. /\ out' \in Outputs /\ out'.flow = out.flow
       /\ out'.sweeps = 0 \/ out'.sweeps = sweeps'.output
  BY <1>1, <1>8 DEF TypeOK, Outputs
<1>12. resting' \in 0 .. SweepsMax
  BY <1>2, <1>7 DEF Saturate
<1>13. TypeOK'
  BY <1>2, <1>6, <1>11, <1>12 DEF TypeOK, Phases
<1> QED
  BY <1>2, <1>10, <1>11, <1>13 DEF SweepsBacked, TrapBacked, ElevatorBacked

\* Every range is within the limits of the trap, from LOW to MAX.
LEMMA RangeLemma ==
  ASSUME NEW range \in Ranges
  PROVE  /\ RangeMin(range) \in Nat /\ RangeMax(range) \in Nat
         /\ RangeMin(range) <= RangeMax(range) /\ RangeMax(range) <= MaxMax
  BY DEF Ranges, RangeMin, RangeMax

LEMMA TrapKeepsIInv == IInv /\ UpdateRotaryTrap => IInv'
<1> SUFFICES ASSUME IInv, UpdateRotaryTrap PROVE IInv'
  OBVIOUS
<1> USE DEF IInv
<1>1. PICK range \in Ranges, boost \in BOOLEAN, outputFault \in BOOLEAN :
        /\ \E target \in RangeMin(range) .. RangeMax(range) :
             trap' = TrapRamp(range, boost, target)
        /\ out' = [out EXCEPT !.trap = IF outputFault THEN 0 ELSE trap'.output]
  BY DEF UpdateRotaryTrap
<1>2. PICK target \in RangeMin(range) .. RangeMax(range) :
        trap' = TrapRamp(range, boost, target)
  BY <1>1
<1>3. /\ phase' = "hwOutputs"
      /\ UNCHANGED <<now, shaft, enable, elevator, sweeps, resting>>
  BY DEF UpdateRotaryTrap
<1>4. trap \in RampState(MaxMax) /\ now \in Time /\ shaft \in BOOLEAN
  BY DEF TypeOK
<1>5. trap' \in RampState(MaxMax) /\ (~shaft => trap'.output = 0)
  <2>1. CASE ~shaft
    <3>1. trap' = rampCalc(trap, 0, 0, 0, TrapRate, now)
      BY <1>2, <2>1 DEF TrapRamp
    <3>2. 0 \in Nat /\ MaxMax \in Nat /\ 0 <= 0 /\ 0 <= MaxMax /\ TrapRate \in Nat
      OBVIOUS
    <3>3. /\ trap' \in RampState(MaxMax)
          /\ 0 <= trap'.output /\ trap'.output <= 0
      BY <1>4, <3>1, <3>2, RampLemma, Zenon
    <3> QED
      BY <3>3 DEF RampState
  <2>2. CASE shaft /\ boost
    <3>1. trap' = rampCalc(trap, MaxMax, RangeMin(range), MaxMax, TrapRate, now)
      BY <1>2, <2>2 DEF TrapRamp
    <3>2. /\ MaxMax \in Nat /\ MaxMax <= MaxMax /\ TrapRate \in Nat
          /\ RangeMin(range) \in Nat /\ RangeMin(range) <= MaxMax
      BY RangeLemma
    <3> QED
      BY <1>4, <2>2, <3>1, <3>2, RampLemma, Zenon
  <2>3. CASE shaft /\ ~boost
    <3>1. target \in Nat
      BY <1>2, RangeLemma
    <3> QED
      BY <1>2, <1>4, <2>3, <3>1, RangeLemma, RampLemma DEF TrapRamp
  <2> QED
    BY <1>4, <2>1, <2>2, <2>3
<1>6. /\ out' \in Outputs /\ out'.flow = out.flow /\ out'.sweeps = out.sweeps
      /\ out'.trap = IF outputFault THEN 0 ELSE trap'.output
  BY <1>1, <1>5 DEF TypeOK, Outputs, RampState
<1>7. TypeOK'
  BY <1>3, <1>5, <1>6 DEF TypeOK, Phases
<1> QED
  BY <1>3, <1>5, <1>6, <1>7 DEF SweepsBacked, TrapBacked, ElevatorBacked

LEMMA OtherStepsKeepIInv ==
  IInv /\ (UpdateInputs \/ UpdateCChains \/ UpdateOutputs) => IInv'
<1> SUFFICES ASSUME IInv, UpdateInputs \/ UpdateCChains \/ UpdateOutputs
             PROVE  IInv'
  OBVIOUS
<1>1. now' \in Time /\ shaft' \in BOOLEAN
  <2>1. \A d \in 0 .. MaxCycle : now \in Time => Later(now, d) \in Time
    BY DEF Later, Time
  <2> QED
    BY <2>1 DEF IInv, TypeOK, UpdateInputs, UpdateCChains, UpdateOutputs
<1>2. /\ phase' \in Phases \ {"hwOutputs"}
      /\ UNCHANGED <<enable, elevator, sweeps, trap, out, resting>>
  BY DEF UpdateInputs, UpdateCChains, UpdateOutputs, Phases
<1> QED
  BY <1>1, <1>2 DEF IInv, TypeOK, SweepsBacked, TrapBacked, ElevatorBacked

LEMMA InitIInv == Init => IInv
<1> SUFFICES ASSUME Init PROVE IInv
  OBVIOUS
<1>1. 0 \in Time
  BY DEF Time
<1>2. [toggleButton_init EXCEPT !.state = TRUE] \in Button
  BY <1>1 DEF toggleButton_init, Button
<1>3. \A max \in Nat : rampInit(0) \in RampState(max)
  BY <1>1 DEF rampInit, RampState
<1>4. /\ elevator \in RampState(VL3512Max) /\ sweeps \in RampState(SweepsMax)
      /\ trap \in RampState(MaxMax)
  BY <1>3 DEF Init
<1>5. TypeOK
  <2>1. now \in Time /\ enable \in Button
    BY <1>1, <1>2 DEF Init
  <2>2. out \in Outputs /\ resting \in 0 .. SweepsMax
    BY DEF Init, Outputs
  <2>3. phase \in Phases /\ shaft \in BOOLEAN
    BY DEF Init, Phases
  <2> QED
    BY <1>4, <2>1, <2>2, <2>3 DEF TypeOK
<1> QED
  BY <1>5 DEF Init, IInv, SweepsBacked, TrapBacked, ElevatorBacked, rampInit, Clamp

LEMMA NextKeepsIInv == IInv /\ [Next]_vars => IInv'
<1>1. IInv /\ UNCHANGED vars => IInv'
  BY DEF vars, IInv, TypeOK, SweepsBacked, TrapBacked, ElevatorBacked
<1> QED
  BY <1>1, ElevatorKeepsIInv, SweepsKeepIInv, TrapKeepsIInv, OtherStepsKeepIInv
  DEF Next

LEMMA Invariance == Spec => []IInv
  BY InitIInv, NextKeepsIInv, PTL DEF Spec

\* The state of the ramped drives keeps its type, for every setting of the
\* ramps and limits.
THEOREM TypeCorrect == Spec => []TypeOK
<1>1. IInv => TypeOK
  BY DEF IInv
<1> QED
  BY <1>1, Invariance, PTL

\* For every rate, limit and bound on the turns: what the loop writes
\* with the shaft drive off leaves the trap standing at once and the sweeps
\* once their ramp had the time for its whole way (front_sweeps_control.c
\* lines 122-146, rotary_trap_control.c lines 157-198).
THEOREM DrivesRestWithShaft == Spec => [](TypeOK /\ StopsWithShaft)
<1>1. IInv => TypeOK /\ StopsWithShaft
  <2> SUFFICES ASSUME IInv PROVE StopsWithShaft
    BY DEF IInv
  <2> DEFINE covered == SweepsRate * resting
  <2>1. covered \in Nat /\ sweeps.output \in Nat
    BY DEF IInv, TypeOK, RampState
  <2>2. sweeps.output = 0 \/ sweeps.output + covered <= SweepsMax
    BY DEF IInv, SweepsBacked
  <2>3. out.sweeps = 0 \/ out.sweeps = sweeps.output
    BY DEF IInv, SweepsBacked
  <2> HIDE DEF covered
  <2>4. covered >= SweepsMax => out.sweeps = 0
    BY <2>1, <2>2, <2>3
  <2> QED
    BY <2>4 DEF IInv, TrapBacked, StopsWithShaft, covered
<1> QED
  BY <1>1, Invariance, PTL

\* For every pair of valves and every request: a disabled elevator never
\* speeds up, also when a fault of its valve clears (elevator_control.c lines
\* 174-200).
THEOREM DisabledElevatorSlows == Spec => OffNeverSpeedsUp
<1> DEFINE Slows == ~enable'.state => out'.flow <= Clamp(out.flow, MinCurrent, VL3512Max)
<1>1. IInv /\ [Next]_vars => [Slows]_vars
  <2> SUFFICES ASSUME IInv, Next PROVE Slows
    OBVIOUS
  <2>1. out.flow \in 0 .. VL3512Max
    BY DEF IInv, TypeOK, Outputs
  <2>2. out.flow <= Clamp(out.flow, MinCurrent, VL3512Max)
    BY <2>1 DEF Clamp
  <2>3. CASE UpdateElevator
    BY <2>3, ElevatorLemma
  <2>4. CASE UpdateInputs \/ UpdateCChains \/ UpdateOutputs
    BY <2>2, <2>4 DEF UpdateInputs, UpdateCChains, UpdateOutputs
  <2>5. ASSUME UpdateFrontSweeps \/ UpdateRotaryTrap PROVE out'.flow = out.flow
    BY <2>5 DEF UpdateFrontSweeps, UpdateRotaryTrap, IInv, TypeOK, Outputs
  <2> QED
    BY <2>2, <2>3, <2>4, <2>5 DEF Next
<1> QED
  BY <1>1, Invariance, PTL DEF Spec, OffNeverSpeedsUp
=============================================================================
