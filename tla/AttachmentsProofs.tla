-------------------------- MODULE AttachmentsProofs --------------------------
(***************************************************************************)
(* Shifting ends power assist, nothing restarts itself and the relays keep *)
(* their meaning; neutral closes the valves and cruise control never lets  *)
(* go upwards, for every clock width, debounce and bound on the turns.     *)
(***************************************************************************)
EXTENDS Attachments, Propulsion, TLAPS

USE TimeModAssumption, AttachmentsAssumption

\* After a turn that wrote power assist and the high gear, the gear is still
\* the high one when power assist is decided, and power assist goes off.
ShiftBacked ==
  /\ out["SHIFT_COIL"] = gear
  /\ together # 0 => IF phase \in {"inputs", "powerAssist"} THEN gear ELSE ~out["POWER_ASSIST"]

\* A latch that is on was started, and an output that was set is its latch.
LatchBacked ==
  /\ out["POWER_ASSIST"] = assist.state
  /\ assist.state => "assist" \in started
  /\ box.state => "box" \in started
  /\ remover.state => "remover" \in started
  /\ phase \notin {"stickRemover", "hwOutputs"} => kept = {}
  /\ phase \in {"stickRemover", "hwOutputs"} /\ ~boxMode /\ "box" \notin kept =>
       out["STICKBOX_CLOSE"] = box.state
  /\ phase = "hwOutputs" /\ "remover" \notin kept => out["STICK_REMOVER"] = remover.state

IInv == TypeOK /\ ShiftEndsAssist /\ ShiftBacked /\ LatchBacked /\ OnNeverAlone

\* A call of the helper gives a button; a reset one is off.
LEMMA ButtonLemma ==
  ASSUME NEW b \in Button, NEW raw \in BOOLEAN, NEW reset \in BOOLEAN,
         now \in Time
  PROVE  LET c == toggleButton(b, now, raw, reset, ButtonDeb, FALSE) IN
         /\ c \in Button
         /\ reset => ~c.state
<1>1. 0 \in Time
  BY DEF Time
<1>2. CASE reset
  BY <1>1, <1>2 DEF toggleButton, ResetButton, Button
<1>3. CASE ~reset /\ ~raw
  BY <1>1, <1>3 DEF toggleButton, ReleasedButton, Button
<1>4. CASE ~reset /\ raw
  <2>1. PressStart(b, now) \in Time
    BY DEF PressStart, Button
  <2>2. Toggles(b, now, ButtonDeb) \in BOOLEAN
    BY DEF Toggles, Button
  <2>3. PressedButton(b, now, ButtonDeb) \in Button
    BY <2>1, <2>2 DEF PressedButton, Button
  <2> QED
    BY <1>4, <2>3 DEF toggleButton
<1> QED
  BY <1>2, <1>3, <1>4

\* The history follows the latch: on from its button to the next stop.
LEMMA StartedLemma ==
  ASSUME NEW a \in Latched, NEW b \in Button, NEW c \in Button,
         NEW stopped \in BOOLEAN, started \in SUBSET Latched,
         b.state => a \in started, c.state => ~stopped
  PROVE  LET s == NowStarted(a, b, c, stopped) IN
         /\ s \in SUBSET Latched
         /\ c.state => a \in s
         /\ \A o \in Latched \ {a} : o \in s <=> o \in started
  BY DEF NowStarted

LEMMA PowerAssistKeepsIInv == IInv /\ UpdatePowerAssist => IInv'
<1> SUFFICES ASSUME IInv, UpdatePowerAssist PROVE IInv'
  OBVIOUS
<1> USE DEF IInv
<1>1. PICK button \in BOOLEAN, blocked \in BOOLEAN, outputFault \in BOOLEAN,
           installed \in BOOLEAN, traction \in BOOLEAN :
        /\ assist' = toggleButton(assist, now, button,
                                  AssistReset(blocked, outputFault), ButtonDeb, FALSE)
        /\ started' = NowStarted("assist", assist, assist', outputFault)
        /\ out' = [out EXCEPT !["POWER_ASSIST"] = assist'.state,
                              !["TRACTION_VALVE"] = assist'.state /\ installed /\ traction]
  BY DEF UpdatePowerAssist
<1>2. /\ AssistReset(blocked, outputFault) \in BOOLEAN
      /\ gear => AssistReset(blocked, outputFault)
      /\ outputFault => AssistReset(blocked, outputFault)
  BY DEF AssistReset, TypeOK
<1>3. /\ assist' \in Button
      /\ gear => ~assist'.state
      /\ outputFault => ~assist'.state
  BY <1>1, <1>2, ButtonLemma DEF TypeOK
<1>4. /\ started' \in SUBSET Latched
      /\ assist'.state => "assist" \in started'
      /\ \A o \in Latched \ {"assist"} : o \in started' <=> o \in started
  BY <1>1, <1>3, StartedLemma DEF TypeOK, Latched, LatchBacked
<1>5. /\ phase = "powerAssist" /\ phase' = "propulsion"
      /\ UNCHANGED <<now, gear, boxMode, box, remover, kept, together>>
  BY DEF UpdatePowerAssist
<1>6. /\ out' \in [Outputs -> BOOLEAN]
      /\ out'["POWER_ASSIST"] = assist'.state
      /\ \A o \in Outputs \ {"POWER_ASSIST", "TRACTION_VALVE"} : out'[o] = out[o]
  BY <1>1, <1>3 DEF TypeOK, Outputs, Button
<1>7. TypeOK'
  BY <1>3, <1>4, <1>5, <1>6 DEF TypeOK, Phases
<1>8. ShiftEndsAssist' /\ ShiftBacked'
  BY <1>3, <1>5, <1>6 DEF ShiftEndsAssist, ShiftBacked, Outputs
<1>9. LatchBacked'
  BY <1>4, <1>5, <1>6 DEF LatchBacked, Latched, Outputs
<1>10. OnNeverAlone'
  BY <1>6 DEF OnNeverAlone, Outputs
<1> QED
  BY <1>7, <1>8, <1>9, <1>10

LEMMA GearKeepsIInv == IInv /\ UpdateGear => IInv'
<1> SUFFICES ASSUME IInv, UpdateGear PROVE IInv'
  OBVIOUS
<1> USE DEF IInv
<1>1. /\ phase = "propulsion" /\ phase' = "stickB"
      /\ gear' \in BOOLEAN
      /\ UNCHANGED <<now, assist, boxMode, box, remover, kept, started, together>>
  BY DEF UpdateGear
<1>2. /\ out' \in [Outputs -> BOOLEAN]
      /\ out'["SHIFT_COIL"] = gear'
      /\ \A o \in Outputs \ {"SHIFT_COIL"} : out'[o] = out[o]
  BY <1>1 DEF UpdateGear, TypeOK, Outputs
<1>3. TypeOK'
  BY <1>1, <1>2 DEF TypeOK, Phases
<1>4. ShiftEndsAssist' /\ ShiftBacked'
  BY <1>1, <1>2 DEF ShiftEndsAssist, ShiftBacked, Outputs
<1>5. LatchBacked'
  BY <1>1, <1>2 DEF LatchBacked, Outputs
<1>6. OnNeverAlone'
  BY <1>2 DEF OnNeverAlone, Outputs
<1> QED
  BY <1>3, <1>4, <1>5, <1>6

LEMMA StickBKeepsIInv == IInv /\ UpdateStickB => IInv'
<1> SUFFICES ASSUME IInv, UpdateStickB PROVE IInv'
  OBVIOUS
<1> USE DEF IInv
<1>1. PICK close \in BOOLEAN, open \in BOOLEAN, doorStop \in BOOLEAN,
           closeFault \in BOOLEAN, onFault \in BOOLEAN :
        LET b == CloseButton(close, doorStop \/ onFault) IN
        /\ box' = [b EXCEPT !.state = b.state /\ ~onFault]
        /\ out' = Relays(b.state, boxMode /\ open, closeFault, onFault)
        /\ kept' = IF RelaysKept(b.state, closeFault, onFault) THEN kept \union {"box"} ELSE kept
        /\ started' = IF boxMode /\ close THEN started \union {"box"}
                      ELSE NowStarted("box", box, box', onFault)
  BY DEF UpdateStickB
<1> DEFINE b == CloseButton(close, doorStop \/ onFault)
<1>2. b \in Button /\ (boxMode => b.state = close)
  <2>1. CASE boxMode
    BY <2>1 DEF CloseButton, TypeOK, Button
  <2>2. CASE ~boxMode
    BY <2>2, ButtonLemma DEF CloseButton, TypeOK
  <2> QED
    BY <2>1, <2>2
<1>3. /\ box' = [b EXCEPT !.state = b.state /\ ~onFault]
      /\ out' = Relays(b.state, boxMode /\ open, closeFault, onFault)
      /\ kept' = IF RelaysKept(b.state, closeFault, onFault) THEN kept \union {"box"} ELSE kept
      /\ started' = IF boxMode /\ close THEN started \union {"box"}
                    ELSE NowStarted("box", box, box', onFault)
  BY <1>1
<1> HIDE DEF b
<1>4. box' \in Button /\ box'.state = (b.state /\ ~onFault) /\ b.state \in BOOLEAN
  BY <1>2, <1>3 DEF Button
<1>5. /\ started' \in SUBSET Latched
      /\ box'.state => "box" \in started'
      /\ \A o \in Latched \ {"box"} : o \in started' <=> o \in started
  <2>1. CASE boxMode /\ close
    BY <1>3, <2>1 DEF TypeOK, Latched
  <2>2. CASE ~(boxMode /\ close)
    BY <1>3, <1>4, <2>2, StartedLemma DEF TypeOK, Latched, LatchBacked
  <2> QED
    BY <2>1, <2>2
<1>6. /\ out' \in [Outputs -> BOOLEAN]
      /\ out'["STICKBOX_ON"] => out'["STICKBOX_CLOSE"]
      /\ ~RelaysKept(b.state, closeFault, onFault) =>
           out'["STICKBOX_CLOSE"] = (b.state \/ (boxMode /\ open))
      /\ \A o \in Outputs \ {"STICKBOX_CLOSE", "STICKBOX_ON"} : out'[o] = out[o]
  <2>1. out' = Relays(b.state, boxMode /\ open, closeFault, onFault)
    BY <1>3
  <2>2. CASE RelaysKept(b.state, closeFault, onFault)
    BY <2>1, <2>2 DEF Relays, TypeOK, OnNeverAlone
  <2>3. CASE ~RelaysKept(b.state, closeFault, onFault)
    <3>1. out' = [out EXCEPT !["STICKBOX_CLOSE"] = b.state \/ (boxMode /\ open),
                             !["STICKBOX_ON"] = (boxMode /\ open) /\ ~b.state]
      BY <2>1, <2>3 DEF Relays
    <3> QED
      BY <3>1 DEF TypeOK, Outputs
  <2> QED
    BY <2>2, <2>3
<1>7. /\ phase = "stickB" /\ phase' = "stickRemover"
      /\ UNCHANGED <<now, gear, assist, boxMode, remover, together>>
  BY DEF UpdateStickB
<1>8. /\ kept' \in SUBSET Latched
      /\ "box" \notin kept' => ~RelaysKept(b.state, closeFault, onFault)
  BY <1>3 DEF TypeOK, Latched
<1>9. TypeOK'
  BY <1>4, <1>5, <1>6, <1>7, <1>8 DEF TypeOK, Phases
<1>10. ShiftEndsAssist' /\ ShiftBacked'
  BY <1>6, <1>7 DEF ShiftEndsAssist, ShiftBacked, Outputs
<1>11. ~boxMode' /\ "box" \notin kept' => out'["STICKBOX_CLOSE"] = box'.state
  BY <1>4, <1>6, <1>7, <1>8 DEF RelaysKept
<1>12. LatchBacked'
  BY <1>5, <1>6, <1>7, <1>11 DEF LatchBacked, Latched, Outputs
<1>13. OnNeverAlone'
  BY <1>6 DEF OnNeverAlone
<1> QED
  BY <1>9, <1>10, <1>12, <1>13

LEMMA StickRemoverKeepsIInv == IInv /\ UpdateStickRemover => IInv'
<1> SUFFICES ASSUME IInv, UpdateStickRemover PROVE IInv'
  OBVIOUS
<1> USE DEF IInv
<1>1. PICK button \in BOOLEAN, doorStop \in BOOLEAN, outputFault \in BOOLEAN :
        /\ remover' = RemoverAfterFault(
                        toggleButton(remover, now, button, doorStop, ButtonDeb, FALSE),
                        outputFault)
        /\ out' = IF outputFault THEN out ELSE [out EXCEPT !["STICK_REMOVER"] = remover'.state]
        /\ kept' = IF outputFault THEN kept \union {"remover"} ELSE kept
        /\ started' = NowStarted("remover", remover, remover', outputFault)
  BY DEF UpdateStickRemover
<1> DEFINE b == toggleButton(remover, now, button, doorStop, ButtonDeb, FALSE)
<1>2. b \in Button
  BY ButtonLemma DEF TypeOK
<1>3. remover' = RemoverAfterFault(b, outputFault)
  BY <1>1
<1> HIDE DEF b
<1>4. remover' \in Button /\ (remover'.state => ~outputFault)
  BY <1>2, <1>3 DEF RemoverAfterFault, Button
<1>5. /\ started' \in SUBSET Latched
      /\ remover'.state => "remover" \in started'
      /\ \A o \in Latched \ {"remover"} : o \in started' <=> o \in started
  BY <1>1, <1>4, StartedLemma DEF TypeOK, Latched, LatchBacked
<1>6. /\ out' \in [Outputs -> BOOLEAN]
      /\ ~outputFault => out'["STICK_REMOVER"] = remover'.state
      /\ \A o \in Outputs \ {"STICK_REMOVER"} : out'[o] = out[o]
  BY <1>1, <1>4 DEF TypeOK, Outputs, Button
<1>7. /\ phase = "stickRemover" /\ phase' = "hwOutputs"
      /\ UNCHANGED <<now, gear, assist, boxMode, box, together>>
  BY DEF UpdateStickRemover
<1>8. /\ kept' \in SUBSET Latched
      /\ "remover" \notin kept' => ~outputFault
      /\ "box" \in kept' <=> "box" \in kept
  BY <1>1 DEF TypeOK, Latched
<1>9. TypeOK'
  BY <1>4, <1>5, <1>6, <1>7, <1>8 DEF TypeOK, Phases
<1>10. ShiftEndsAssist' /\ ShiftBacked'
  BY <1>6, <1>7 DEF ShiftEndsAssist, ShiftBacked, Outputs
<1>11. LatchBacked'
  BY <1>5, <1>6, <1>7, <1>8 DEF LatchBacked, Latched, Outputs
<1>12. OnNeverAlone'
  BY <1>6 DEF OnNeverAlone, Outputs
<1> QED
  BY <1>9, <1>10, <1>11, <1>12

LEMMA InputsKeepIInv == IInv /\ UpdateInputs => IInv'
<1> SUFFICES ASSUME IInv, UpdateInputs PROVE IInv'
  OBVIOUS
<1> USE DEF IInv
<1>1. PICK d \in 0 .. MaxCycle : now' = Later(now, d)
  BY DEF UpdateInputs
<1>2. now' \in Time
  BY <1>1 DEF TypeOK, Later, Time
<1>3. /\ phase = "inputs" /\ phase' = "powerAssist" /\ boxMode' \in BOOLEAN
      /\ UNCHANGED <<gear, assist, box, remover, out, kept, started, together>>
  BY DEF UpdateInputs
<1>4. TypeOK'
  BY <1>2, <1>3 DEF TypeOK, Phases
<1> QED
  BY <1>3, <1>4 DEF ShiftEndsAssist, ShiftBacked, LatchBacked, OnNeverAlone

LEMMA OutputsKeepIInv == IInv /\ UpdateOutputs => IInv'
<1> SUFFICES ASSUME IInv, UpdateOutputs PROVE IInv'
  OBVIOUS
<1> USE DEF IInv
<1>1. /\ phase = "hwOutputs" /\ phase' = "inputs" /\ kept' = {}
      /\ together' = IF ~(out["POWER_ASSIST"] /\ out["SHIFT_COIL"]) THEN 0
                     ELSE IF together = 2 THEN 2 ELSE together + 1
      /\ UNCHANGED <<now, gear, assist, boxMode, box, remover, out, started>>
  BY DEF UpdateOutputs
<1>2. together' \in {0, 1} /\ (together' # 0 => gear')
  BY <1>1 DEF TypeOK, ShiftBacked
<1>3. TypeOK'
  BY <1>1, <1>2 DEF TypeOK, Phases, Latched
<1> QED
  BY <1>1, <1>2, <1>3 DEF ShiftEndsAssist, ShiftBacked, LatchBacked, OnNeverAlone

LEMMA Inductive ==
  /\ Init => IInv
  /\ IInv /\ [Next]_vars => IInv'
<1>1. Init => IInv
  <2> SUFFICES ASSUME Init PROVE IInv
    OBVIOUS
  <2>1. 0 \in Time /\ toggleButton_init \in Button /\ toggleButton_init.state = FALSE
    BY DEF Time, toggleButton_init, Button
  <2>2. out \in [Outputs -> BOOLEAN] /\ \A o \in Outputs : out[o] = FALSE
    BY DEF Init
  <2>3. /\ gear \in BOOLEAN /\ boxMode \in BOOLEAN /\ phase = "inputs"
        /\ out["SHIFT_COIL"] = gear
    BY DEF Init, Outputs
  <2>4. kept = {} /\ started = {} /\ together = 0
    BY DEF Init
  <2>5. /\ assist \in Button /\ box \in Button /\ remover \in Button /\ now \in Time
        /\ assist.state = FALSE /\ box.state = FALSE /\ remover.state = FALSE
    BY <2>1 DEF Init
  <2>6. TypeOK
    BY <2>2, <2>3, <2>4, <2>5 DEF TypeOK, Phases
  <2>7. ShiftEndsAssist /\ ShiftBacked
    BY <2>2, <2>3, <2>4 DEF ShiftEndsAssist, ShiftBacked, Outputs
  <2>8. out["POWER_ASSIST"] = assist.state
    BY <2>2, <2>5 DEF Outputs
  <2>9. LatchBacked /\ OnNeverAlone
    BY <2>2, <2>3, <2>4, <2>5, <2>8 DEF LatchBacked, OnNeverAlone, Outputs
  <2> QED
    BY <2>6, <2>7, <2>9 DEF IInv
<1>2. IInv /\ UNCHANGED vars => IInv'
  BY DEF IInv, TypeOK, ShiftEndsAssist, ShiftBacked, LatchBacked, OnNeverAlone, vars
<1> QED
  BY <1>1, <1>2, PowerAssistKeepsIInv, GearKeepsIInv, StickBKeepsIInv,
     StickRemoverKeepsIInv, InputsKeepIInv, OutputsKeepIInv DEF Next

\* The variables keep their types.
THEOREM AttachmentsType == Spec => []TypeOK
  BY Inductive, PTL DEF Spec, IInv

\* Power assist and the high gear are written together for one turn at most,
\* however long the turns are (power_assist_control.c lines 157-161).
THEOREM ShiftEndsPowerAssist == Spec => []ShiftEndsAssist
  BY Inductive, PTL DEF Spec, IInv

\* A fault that comes and goes restarts no attachment, in whatever order the
\* faults, the interlocks, the buttons and the mode change come
\* (stick_box_control.c line 203, stick_remover_control.c line 151).
THEOREM FaultsRestartNothing == Spec => []NothingRestartsItself
<1>1. IInv => NothingRestartsItself
  BY DEF IInv, LatchBacked, NothingRestartsItself
<1> QED
  BY <1>1, Inductive, PTL DEF Spec

\* STICKBOX_ON is never set without STICKBOX_CLOSE (stick_box_control.c lines
\* 189-236).
THEOREM RelaysKeepTheirMeaning == Spec => []OnNeverAlone
  BY Inductive, PTL DEF Spec, IInv

-----------------------------------------------------------------------------
(***************************************************************************)
(* Driving.  propulsion_control.c selects the gear, which is part of       *)
(* Attachments, and drives, which is Propulsion.                           *)
(***************************************************************************)

USE PropulsionAssumption

\* A set speed held without the button was reached in the last calculation of
\* the last turn, with the limit the next turn starts with.
CruiseBacked ==
  joy.ccActive /\ ~cruise.state /\ limit.state => joy.ccMax <= LimitCmd

DriveInv == DriveTypeOK /\ NeutralMeansStopped /\ CruiseBacked

\* A poll of a button that is not reset gives a button.
LEMMA DriveButton ==
  ASSUME NEW b \in Button, NEW t \in Time, NEW raw \in BOOLEAN
  PROVE  toggleButton(b, t, raw, FALSE, DriveDeb, FALSE) \in Button
<1>1. 0 \in Time
  BY DEF Time
<1>2. PressStart(b, t) \in Time /\ Toggles(b, t, DriveDeb) \in BOOLEAN
  BY DEF PressStart, Toggles, Button
<1> QED
  BY <1>1, <1>2 DEF toggleButton, PressedButton, ReleasedButton, Button

\* What one calculation makes of cruise control, its set speed and the command.
LEMMA JoystickCommand ==
  ASSUME NEW j \in Joystick, NEW stick \in Sticks,
         NEW enabled \in BOOLEAN, NEW limited \in BOOLEAN
  PROVE  LET wanted == IF limited THEN AtMost(stick.pos, LimitCmd) ELSE stick.pos
             k == calc_joystickSpeedCommand(j, stick, enabled, limited)
         IN /\ k \in Joystick
            /\ k.ccActive <=> enabled \/ (j.ccActive /\ wanted >= j.ccMax)
            /\ k.ccActive => k.command <= k.ccMax
            /\ k.ccActive /\ ~j.ccActive => k.ccMax = wanted
            /\ ~k.ccActive => k.command = wanted
            /\ j.ccActive \/ ~k.ccActive => k.ccMax = j.ccMax
<1> DEFINE wanted == IF limited THEN AtMost(stick.pos, LimitCmd) ELSE stick.pos
           active == enabled \/ (j.ccActive /\ wanted >= j.ccMax)
           ccMax == IF active /\ ~j.ccActive THEN wanted ELSE j.ccMax
           command == IF active THEN AtMost(wanted, ccMax) ELSE wanted
           k == calc_joystickSpeedCommand(j, stick, enabled, limited)
<1>1. wanted \in Commands /\ stick.flag \in {"fwd", "rev", "none"}
  BY DEF Sticks, Commands, AtMost
<1>2. ccMax \in Commands /\ command \in Commands /\ active \in BOOLEAN
  BY <1>1 DEF Joystick, Commands, AtMost
<1>3. JoystickState(j.state, stick, command) \in Directions
  BY <1>1 DEF JoystickState, Joystick, Directions
<1>4. k = [state |-> JoystickState(j.state, stick, command), command |-> command,
           ccActive |-> active, ccMax |-> ccMax]
  <2> DEFINE c == check_ccLimits(j, wanted, enabled)
  <2>1. c = [state |-> j.state, command |-> command, ccActive |-> active, ccMax |-> ccMax]
    <3>1. CruiseHeld(enabled, j.ccActive, wanted, j.ccMax) = active
      BY DEF CruiseHeld
    <3>2. c = [j EXCEPT !.ccActive = active, !.ccMax = ccMax, !.command = command]
      BY <3>1 DEF check_ccLimits
    <3> HIDE DEF wanted, active, command, ccMax, c
    <3> QED
      BY <3>2 DEF Joystick
  <2>2. k = [c EXCEPT !.state = JoystickState(j.state, stick, c.command)]
    BY DEF calc_joystickSpeedCommand
  <2> HIDE DEF c, k, command, active, ccMax, wanted
  <2> QED
    BY <2>1, <2>2
<1>5. k \in Joystick
  BY <1>2, <1>3, <1>4 DEF Joystick
<1>6. active => command <= ccMax
  BY <1>1, <1>2 DEF AtMost, Commands
<1>7. k.ccActive = active /\ k.command = command /\ k.ccMax = ccMax
  <2> HIDE DEF k, command, active, ccMax
  <2> QED
    BY <1>4
<1>8. /\ active <=> enabled \/ (j.ccActive /\ wanted >= j.ccMax)
      /\ active /\ ~j.ccActive => ccMax = wanted
      /\ ~active => command = wanted
      /\ j.ccActive \/ ~active => ccMax = j.ccMax
  OBVIOUS
<1>9. /\ k \in Joystick
      /\ k.ccActive <=> enabled \/ (j.ccActive /\ wanted >= j.ccMax)
      /\ k.ccActive => k.command <= k.ccMax
      /\ k.ccActive /\ ~j.ccActive => k.ccMax = wanted
      /\ ~k.ccActive => k.command = wanted
      /\ j.ccActive \/ ~k.ccActive => k.ccMax = j.ccMax
  <2> HIDE DEF k, command, active, ccMax
  <2> QED
    BY <1>5, <1>6, <1>7, <1>8
<1> QED
  BY <1>9

\* Without its button, cruise control outlives a calculation under the speed
\* limit only with a set speed the limit allows.
LEMMA CruiseWithinLimit ==
  ASSUME NEW j \in Joystick, NEW stick \in Sticks,
         NEW enabled \in BOOLEAN, NEW limited \in BOOLEAN
  PROVE  LET k == calc_joystickSpeedCommand(j, stick, enabled, limited)
         IN /\ k \in Joystick
            /\ k.ccActive /\ ~enabled /\ limited => k.ccMax <= LimitCmd
BY JoystickCommand DEF Joystick, Commands, Sticks, AtMost

\* The ramp stays below the current of full deflection.
LEMMA RampTyped ==
  ASSUME NEW r \in Ramp, NEW target \in Nat, NEW step \in Nat,
         NEW t \in Time
  PROVE  RampStep(r, target, step, t) \in Ramp
<1> DEFINE stp == IF t = 0 THEN 0 ELSE step
           low == Clamped(r.out, r)
           goal == Clamped(target, r)
<1>1. MaxCurr \in Nat /\ MinCurr <= MaxCurr
  BY DEF MaxCurr
<1>2. low \in 0 .. MaxCurr /\ goal \in 0 .. MaxCurr /\ stp \in Nat
  BY <1>1 DEF Clamped, AtMost, AtLeast, Ramp
<1>3. Approach(low, goal, stp) \in 0 .. MaxCurr
  <2> HIDE DEF low, goal, stp
  <2> QED
    BY <1>1, <1>2 DEF Approach
<1> QED
  BY <1>3 DEF RampStep, Ramp

LEMMA LimitsTyped ==
  ASSUME NEW r \in Ramp, NEW j \in Joystick
  PROVE  LimitedRamp(r, j) \in Ramp
BY DEF LimitedRamp, Ramp

\* The current goes to the valve of the joystick's direction alone.
LEMMA ValvesTyped ==
  ASSUME NEW j \in Joystick, NEW current \in 0 .. MaxCurr
  PROVE  LET v == output_edcValves(j, current) IN
         /\ v \in Valves
         /\ j.state = "neutral" => v.fwd = 0 /\ v.rev = 0
         /\ v.rev > 0 => v.alarm /\ j.state = "rev" /\ v.fwd = 0
<1>1. 0 \in 0 .. MaxCurr
  BY DEF MaxCurr
<1> DEFINE v == output_edcValves(j, current)
<1>2. /\ v.fwd = IF j.state = "fwd" THEN current ELSE 0
      /\ v.rev = IF j.state = "rev" THEN current ELSE 0
      /\ (v.alarm <=> j.state = "rev")
      /\ v \in Valves
  BY <1>1 DEF output_edcValves, Valves
<1>3. /\ j.state = "neutral" => v.fwd = 0 /\ v.rev = 0
      /\ v.rev > 0 => v.alarm /\ j.state = "rev" /\ v.fwd = 0
  <2> HIDE DEF v
  <2> QED
    BY <1>2
<1> QED
  BY <1>2, <1>3

LEMMA ClockTyped ==
  ASSUME NEW t \in Time, NEW d \in 0 .. MaxTurn
  PROVE  Later(t, d) \in Time
BY DEF Later, Time

LEMMA StepIsNat ==
  ASSUME NEW d \in 0 .. MaxTurn
  PROVE  DecelRate * d \in Nat /\ AccelRate * d \in Nat
OBVIOUS

LEMMA StopKeepsDriveInv ==
  ASSUME DriveInv, StopTurn
  PROVE  DriveInv'
<1> USE DEF DriveInv
<1>1. PICK d \in 0 .. MaxTurn, interlocks \in BOOLEAN, stick \in Sticks :
        /\ clock' = Later(clock, d)
        /\ edc' = EdcPermitted(clock', interlocks)
        /\ joy' = calc_joystickSpeedCommand(joy, stick, cruise.state, limit.state)
        /\ ramp' = RampStep(LimitedRamp(ramp, joy'), 0, DecelRate * d, clock)
        /\ valve' = output_edcValves(joy', ramp'.out)
        /\ coasting' = IF clock = 0 THEN coasting ELSE AtMost(coasting + d, MaxCmd)
        /\ UNCHANGED <<cruise, limit>>
  BY DEF StopTurn
<1>2. clock' \in Time /\ cruise.state \in BOOLEAN /\ limit.state \in BOOLEAN
  BY <1>1, ClockTyped DEF DriveTypeOK, Button
<1>3. /\ joy' \in Joystick
      /\ joy'.ccActive /\ ~cruise.state /\ limit.state => joy'.ccMax <= LimitCmd
  BY <1>1, <1>2, JoystickCommand
     DEF DriveTypeOK, CruiseBacked, Joystick, Commands, AtMost
<1>4. ramp' \in Ramp
  <2>1. DecelRate * d \in Nat
    BY StepIsNat
  <2> QED
    BY <1>1, <1>3, <2>1, LimitsTyped, RampTyped DEF DriveTypeOK
<1>5. valve' \in Valves /\ NeutralMeansStopped'
  BY <1>1, <1>3, <1>4, ValvesTyped DEF NeutralMeansStopped, Ramp
<1>6. edc' \in BOOLEAN /\ coasting' \in Commands
  BY <1>1 DEF EdcPermitted, DriveTypeOK, Commands, AtMost
<1> QED
  BY <1>1, <1>2, <1>3, <1>4, <1>5, <1>6 DEF DriveTypeOK, CruiseBacked

LEMMA DriveKeepsDriveInv ==
  ASSUME DriveInv, DriveTurn
  PROVE  DriveInv'
<1> USE DEF DriveInv
<1> DEFINE first(stick) == calc_joystickSpeedCommand(joy, stick, cruise.state, limit.state)
<1>1. PICK d \in 0 .. MaxTurn, raw \in BOOLEAN, limitRaw \in BOOLEAN, stick \in Sticks :
        /\ clock' = Later(clock, d)
        /\ edc' = EdcPermitted(clock', TRUE)
        /\ cruise' = toggleButton(cruise, clock', raw, FALSE, DriveDeb, FALSE)
        /\ limit' = toggleButton(limit, clock', limitRaw, FALSE, DriveDeb, FALSE)
        /\ joy' = calc_joystickSpeedCommand(first(stick), stick, cruise'.state, limit'.state)
        /\ ramp' = RampStep(
                     LimitedRamp(LimitedRamp(ramp, first(stick)), joy'),
                     RawOutput(joy'), AccelRate * d, clock)
        /\ valve' = output_edcValves(joy', ramp'.out)
        /\ coasting' = 0
  BY DEF DriveTurn
<1>2. clock' \in Time /\ cruise' \in Button /\ limit' \in Button
  BY <1>1, ClockTyped, DriveButton DEF DriveTypeOK
<1>3. first(stick) \in Joystick
  BY JoystickCommand DEF DriveTypeOK, Button
<1>4. /\ joy' \in Joystick
      /\ joy'.ccActive /\ ~cruise'.state /\ limit'.state => joy'.ccMax <= LimitCmd
  <2>1. cruise'.state \in BOOLEAN /\ limit'.state \in BOOLEAN
    BY <1>2 DEF Button
  <2> HIDE DEF first
  <2> QED
    BY <1>1, <1>3, <2>1, CruiseWithinLimit
<1>5. ramp' \in Ramp
  <2>1. AccelRate * d \in Nat /\ RawOutput(joy') \in Nat
    BY <1>4, StepIsNat DEF RawOutput, Joystick, Commands
  <2>2. LimitedRamp(LimitedRamp(ramp, first(stick)), joy') \in Ramp
    BY <1>3, <1>4, LimitsTyped DEF DriveTypeOK
  <2> QED
    BY <1>1, <2>1, <2>2, RampTyped DEF DriveTypeOK
<1>6. valve' \in Valves /\ NeutralMeansStopped'
  <2>1. ramp'.out \in 0 .. MaxCurr
    BY <1>5 DEF Ramp
  <2>2. valve' = output_edcValves(joy', ramp'.out)
    BY <1>1
  <2> QED
    BY <1>4, <2>1, <2>2, ValvesTyped DEF NeutralMeansStopped
<1>7. edc' \in BOOLEAN /\ coasting' \in Commands
  BY <1>1 DEF EdcPermitted, Commands
<1> QED
  BY <1>2, <1>4, <1>5, <1>6, <1>7 DEF DriveTypeOK, CruiseBacked

LEMMA DriveInductive ==
  /\ DriveInit => DriveInv
  /\ DriveInv /\ [DriveNext]_driveVars => DriveInv'
<1>1. DriveInit => DriveInv
  <2>1. 0 \in Time /\ 0 \in Commands /\ 0 \in 0 .. MaxCurr
    BY DEF Time, Commands, MaxCurr
  <2>2. toggleButton_init \in Button
    BY <2>1 DEF toggleButton_init, Button
  <2>3. DriveInit => /\ clock \in Time /\ edc \in BOOLEAN /\ coasting \in Commands
                      /\ cruise \in Button /\ limit \in Button
    BY <2>1, <2>2 DEF DriveInit
  <2>4. DriveInit => joy \in Joystick
    BY <2>1 DEF DriveInit, Joystick, Directions
  <2>5. DriveInit => ramp \in Ramp /\ valve \in Valves
    BY <2>1 DEF DriveInit, Ramp, Valves
  <2>6. DriveInit => DriveTypeOK
    BY <2>3, <2>4, <2>5 DEF DriveTypeOK
  <2> QED
    BY <2>6 DEF DriveInit, DriveInv, NeutralMeansStopped, CruiseBacked
<1>2. DriveInv /\ UNCHANGED driveVars => DriveInv'
  BY DEF DriveInv, DriveTypeOK, NeutralMeansStopped, CruiseBacked, driveVars
<1> QED
  BY <1>1, <1>2, StopKeepsDriveInv, DriveKeepsDriveInv DEF DriveNext

LEMMA StopKeepsCruise ==
  ASSUME DriveInv, StopTurn
  PROVE  /\ joy.ccActive /\ ~joy'.ccActive => joy'.command < joy.ccMax
         /\ joy'.ccActive => joy'.command <= joy'.ccMax
         /\ joy.ccActive => joy'.ccMax = joy.ccMax
<1>1. PICK stick \in Sticks :
        joy' = calc_joystickSpeedCommand(joy, stick, cruise.state, limit.state)
  BY DEF StopTurn
<1> QED
  BY <1>1, JoystickCommand
     DEF DriveInv, DriveTypeOK, Button, Joystick, Commands,
         Sticks, AtMost

\* Only the speed limit can make the first half of a turn end cruise control
\* while the second half sees a higher command; but then the set speed is
\* below the limit, and so is the stick.
LEMMA DriveKeepsCruise ==
  ASSUME DriveInv, DriveTurn
  PROVE  /\ joy.ccActive /\ ~joy'.ccActive => joy'.command < joy.ccMax
         /\ joy'.ccActive => joy'.command <= joy'.ccMax
         /\ joy.ccActive /\ joy'.ccMax # joy.ccMax => cruise'.state /\ ~cruise.state
<1>1. PICK stick \in Sticks :
        LET first == calc_joystickSpeedCommand(joy, stick, cruise.state, limit.state) IN
        joy' = calc_joystickSpeedCommand(first, stick, cruise'.state, limit'.state)
  BY DEF DriveTurn
<1> DEFINE first == calc_joystickSpeedCommand(joy, stick, cruise.state, limit.state)
           before == IF limit.state THEN AtMost(stick.pos, LimitCmd) ELSE stick.pos
           after == IF limit'.state THEN AtMost(stick.pos, LimitCmd) ELSE stick.pos
<1>2. cruise' \in Button /\ limit' \in Button
  BY DriveKeepsDriveInv DEF DriveInv, DriveTypeOK
<1>3. /\ first \in Joystick
      /\ first.ccActive <=> cruise.state \/ (joy.ccActive /\ before >= joy.ccMax)
      /\ joy.ccActive \/ ~first.ccActive => first.ccMax = joy.ccMax
  BY JoystickCommand DEF DriveInv, DriveTypeOK, Button
<1>4. /\ joy' \in Joystick
      /\ joy'.ccActive <=> cruise'.state \/ (first.ccActive /\ after >= first.ccMax)
      /\ joy'.ccActive => joy'.command <= joy'.ccMax
      /\ ~joy'.ccActive => joy'.command = after
      /\ first.ccActive \/ ~joy'.ccActive => joy'.ccMax = first.ccMax
  <2>1. cruise'.state \in BOOLEAN /\ limit'.state \in BOOLEAN
    BY <1>2 DEF Button
  <2>2. joy' = calc_joystickSpeedCommand(first, stick, cruise'.state, limit'.state)
    BY <1>1
  <2> HIDE DEF first
  <2> QED
    BY <1>3, <2>1, <2>2, JoystickCommand
<1>5. /\ before \in Nat /\ after \in Nat /\ joy.ccMax \in Nat
      /\ limit.state /\ joy.ccMax <= LimitCmd /\ before < joy.ccMax => after < joy.ccMax
      /\ ~limit.state => after <= before
  BY DEF Sticks, Commands, AtMost, DriveInv, DriveTypeOK, Joystick
<1>6. joy.ccActive /\ ~cruise.state /\ limit.state => joy.ccMax <= LimitCmd
  BY DEF DriveInv, CruiseBacked
<1> HIDE DEF first, before, after
<1> QED
  BY <1>2, <1>3, <1>4, <1>5, <1>6 DEF Button

\* The variables of the propulsion controller keep their types.
THEOREM DriveTyped == DriveSpec => []DriveTypeOK
  BY DriveInductive, PTL DEF DriveSpec, DriveInv

\* Neutral closes both valves in the same turn and only reversing opens the
\* reverse valve, with the alarm (propulsion_control.c lines 185-200).
THEOREM NeutralStops == DriveSpec => []NeutralMeansStopped
  BY DriveInductive, PTL DEF DriveSpec, DriveInv

\* Cruise control ends only with a command below its set speed, although the
\* command is calculated twice in a turn, around the buttons (lines 341-350).
THEOREM CruiseNeverLetsGoUpwards == DriveSpec => CruiseEndsFromBelow
<1>1. DriveInv /\ [DriveNext]_driveVars =>
        [joy.ccActive /\ ~joy'.ccActive => joy'.command < joy.ccMax]_driveVars
  BY StopKeepsCruise, DriveKeepsCruise DEF DriveNext
<1> QED
  BY <1>1, DriveInductive, PTL DEF DriveSpec, CruiseEndsFromBelow

\* The set speed caps the command and moves only when cruise control is
\* switched on again (lines 352-358).
THEOREM CruiseSpeedIsKept == DriveSpec => CruiseKeepsSpeed
<1>1. DriveInv /\ [DriveNext]_driveVars =>
        [joy'.ccActive =>
           /\ joy'.command <= joy'.ccMax
           /\ joy.ccActive /\ joy'.ccMax # joy.ccMax => cruise'.state /\ ~cruise.state]_driveVars
  BY StopKeepsCruise, DriveKeepsCruise DEF DriveNext
<1> QED
  BY <1>1, DriveInductive, PTL DEF DriveSpec, CruiseKeepsSpeed

-----------------------------------------------------------------------------
\* What the current of a drive that is stopped has left to lose, the ramp
\* loses with the time it had.
CoastingBacked ==
  /\ valve.fwd <= ramp.out /\ valve.rev <= ramp.out
  /\ ramp.out > MinCurr => (ramp.out - MinCurr) + DecelRate * coasting <= MaxCmd

\* Above the threshold the ramp falls by a whole step.
LEMMA StopLowers ==
  ASSUME NEW r \in Ramp, NEW step \in Nat, NEW t \in Time,
         RampStep(r, 0, step, t).out > MinCurr
  PROVE  RampStep(r, 0, step, t).out = r.out - (IF t = 0 THEN 0 ELSE step)
<1> DEFINE stp == IF t = 0 THEN 0 ELSE step
           low == Clamped(r.out, r)
           goal == Clamped(0, r)
<1>1. MaxCurr \in Nat /\ MinCurr <= MaxCurr
  BY DEF MaxCurr
<1>2. /\ goal \in 0 .. MinCurr /\ stp \in Nat /\ low \in 0 .. MaxCurr
      /\ low = r.out \/ low <= MinCurr
  BY <1>1 DEF Clamped, AtMost, AtLeast, Ramp
<1>3. RampStep(r, 0, step, t).out = Approach(low, goal, stp)
  BY DEF RampStep, Ramp
<1>4. Approach(low, goal, stp) > MinCurr => Approach(low, goal, stp) = low - stp /\ low > MinCurr
  <2> HIDE DEF low, goal, stp
  <2> QED
    BY <1>2 DEF Approach
<1> QED
  BY <1>2, <1>3, <1>4

\* The limits a direction sets leave the current of the ramp as it is.
LEMMA LimitsKeepOutput ==
  ASSUME NEW r \in Ramp, NEW j \in Joystick
  PROVE  LimitedRamp(r, j).out = r.out
BY DEF LimitedRamp, Ramp

\* Neither valve gets more than the ramp puts out.
LEMMA ValvesBelowRamp ==
  ASSUME NEW j \in Joystick, NEW current \in 0 .. MaxCurr
  PROVE  LET v == output_edcValves(j, current) IN
         v.fwd <= current /\ v.rev <= current
BY DEF output_edcValves, MaxCurr

\* The time a stopped drive had is worth no more than the whole step.
LEMMA CoastingCosts ==
  ASSUME NEW c \in Commands, NEW d \in 0 .. MaxTurn
  PROVE  DecelRate * AtMost(c + d, MaxCmd) <= DecelRate * c + DecelRate * d
<1>1. AtMost(c + d, MaxCmd) \in Nat /\ AtMost(c + d, MaxCmd) <= c + d
  BY DEF AtMost, Commands
<1>2. \A a, b \in Nat : a <= b => DecelRate * a <= DecelRate * b
  OBVIOUS
<1>3. DecelRate * (c + d) = DecelRate * c + DecelRate * d
  BY DEF Commands
<1> QED
  BY <1>1, <1>2, <1>3 DEF Commands

LEMMA StopKeepsCoasting ==
  ASSUME DriveInv, DriveInv', CoastingBacked, StopTurn
  PROVE  CoastingBacked'
<1>1. PICK d \in 0 .. MaxTurn, interlocks \in BOOLEAN, stick \in Sticks :
        /\ ramp' = RampStep(LimitedRamp(ramp, joy'), 0, DecelRate * d, clock)
        /\ valve' = output_edcValves(joy', ramp'.out)
        /\ coasting' = IF clock = 0 THEN coasting ELSE AtMost(coasting + d, MaxCmd)
  BY DEF StopTurn
<1>2. /\ joy' \in Joystick /\ ramp' \in Ramp /\ ramp \in Ramp
      /\ clock \in Time /\ coasting \in Commands
  BY DEF DriveInv, DriveTypeOK
<1>3. valve'.fwd <= ramp'.out /\ valve'.rev <= ramp'.out
  BY <1>1, <1>2, ValvesBelowRamp DEF Ramp
<1>4. ASSUME ramp'.out > MinCurr
      PROVE  (ramp'.out - MinCurr) + DecelRate * coasting' <= MaxCmd
  <2> DEFINE step == DecelRate * d
             fallen == IF clock = 0 THEN 0 ELSE step
  <2>1. step \in Nat
    BY StepIsNat
  <2>2. LimitedRamp(ramp, joy') \in Ramp /\ LimitedRamp(ramp, joy').out = ramp.out
    BY <1>2, LimitsTyped, LimitsKeepOutput
  <2>3. ramp'.out = ramp.out - fallen
    <3>1. ramp' = RampStep(LimitedRamp(ramp, joy'), 0, step, clock)
      BY <1>1
    <3> HIDE DEF step
    <3> DEFINE r == LimitedRamp(ramp, joy')
    <3>2. r \in Ramp /\ r.out = ramp.out /\ RampStep(r, 0, step, clock).out > MinCurr
      BY <1>4, <2>2, <3>1
    <3> HIDE DEF r
    <3>3. RampStep(r, 0, step, clock).out = r.out - fallen
      BY <1>2, <2>1, <3>2, StopLowers
    <3> QED
      BY <3>1, <3>2, <3>3 DEF r
  <2>4. DecelRate * coasting' <= DecelRate * coasting + fallen
    <3>1. CASE clock = 0
      BY <1>1, <1>2, <3>1 DEF Commands
    <3>2. CASE clock # 0
      BY <1>1, <1>2, <3>2, CoastingCosts
    <3> QED
      BY <3>1, <3>2
  <2>5. /\ DecelRate * coasting \in Nat /\ DecelRate * coasting' \in Nat
        /\ ramp.out \in Nat /\ fallen \in Nat
    BY <1>2, <2>1 DEF DriveInv, DriveTypeOK, Commands, Ramp, MaxCurr
  <2>6. (ramp.out - MinCurr) + DecelRate * coasting <= MaxCmd
    <3>1. ramp.out > MinCurr
      BY <1>4, <2>3, <2>5
    <3> QED
      BY <3>1 DEF CoastingBacked
  <2> HIDE DEF fallen, step
  <2> DEFINE before == DecelRate * coasting
             after == DecelRate * coasting'
  <2>7. after <= before + fallen /\ before \in Nat /\ after \in Nat
    BY <2>4, <2>5
  <2>8. (ramp.out - MinCurr) + before <= MaxCmd
    BY <2>6
  <2> HIDE DEF before, after
  <2>9. (ramp'.out - MinCurr) + after <= MaxCmd
    BY <2>3, <2>5, <2>7, <2>8
  <2> QED
    BY <2>9 DEF after
<1> QED
  BY <1>3, <1>4 DEF CoastingBacked

LEMMA DriveKeepsCoasting ==
  ASSUME DriveInv, DriveInv', CoastingBacked, DriveTurn
  PROVE  CoastingBacked'
<1>1. coasting' = 0 /\ valve' = output_edcValves(joy', ramp'.out)
  BY DEF DriveTurn
<1>2. joy' \in Joystick /\ ramp' \in Ramp
  BY DEF DriveInv, DriveTypeOK
<1>3. valve'.fwd <= ramp'.out /\ valve'.rev <= ramp'.out
  BY <1>1, <1>2, ValvesBelowRamp DEF Ramp
<1>4. ramp'.out <= MaxCurr /\ ramp'.out \in Int /\ DecelRate * coasting' = 0
  BY <1>1, <1>2 DEF Ramp, MaxCurr
<1> QED
  BY <1>3, <1>4 DEF CoastingBacked, MaxCurr

\* For every range of deflections, rate and bound on the turns a stopped drive
\* has come down to the threshold current in the time the ramp needs from full
\* deflection.
THEOREM DriveSettles == DriveSpec => []SettlesInTime
<1>1. DriveInit => CoastingBacked
  BY DEF DriveInit, CoastingBacked
<1>2. DriveInv /\ DriveInv' /\ CoastingBacked /\ [DriveNext]_driveVars => CoastingBacked'
  <2>1. CoastingBacked /\ UNCHANGED driveVars => CoastingBacked'
    BY DEF CoastingBacked, driveVars
  <2> QED
    BY <2>1, StopKeepsCoasting, DriveKeepsCoasting DEF DriveNext
<1>3. DriveInv /\ CoastingBacked => SettlesInTime
  <2> SUFFICES ASSUME DriveInv, CoastingBacked, DecelRate * coasting >= MaxCmd
               PROVE  valve.fwd <= MinCurr /\ valve.rev <= MinCurr
    BY DEF SettlesInTime
  <2> DEFINE run == DecelRate * coasting
  <2>1. run \in Nat /\ run >= MaxCmd
    BY DEF DriveInv, DriveTypeOK, Commands
  <2>2. ramp.out \in Int /\ valve.fwd \in Int /\ valve.rev \in Int
    BY DEF DriveInv, DriveTypeOK, Ramp, Valves, MaxCurr
  <2>3. ramp.out > MinCurr => (ramp.out - MinCurr) + run <= MaxCmd
    BY DEF CoastingBacked
  <2> HIDE DEF run
  <2>4. ramp.out <= MinCurr
    BY <2>1, <2>2, <2>3
  <2> QED
    BY <2>2, <2>4 DEF CoastingBacked
<1> QED
  BY <1>1, <1>2, <1>3, DriveInductive, PTL DEF DriveSpec
=============================================================================
