------------------------------ MODULE AugerCart ------------------------------
(***************************************************************************)
(* Unloading into a cart (auger_cart_control.c), the hitch the cart hangs  *)
(* on (hitch_position_control.c) and the header (header_lift_control.c).   *)
(* Header and hitch share two controls, foot pedals and joystick: a        *)
(* parameter gives one to each.  In every turn of the main loop the header *)
(* controller runs first, then the hitch controller, then the auger        *)
(* controller, which reads the hitch command just made, then the outputs   *)
(* are written.  The openSYDE task may change the parameter at any time.   *)
(***************************************************************************)
EXTENDS ToggleButton

CONSTANT ButtonDeb  \* debounce of both unload buttons, 500 ms

ASSUME AugerCartAssumption == ButtonDeb \in Nat

VARIABLES
  now,     \* get_system_time_ms()
  phase,   \* the next function main() calls
  hll,     \* u8_joystick_hll_enable: the joystick moves the header
  hitch,   \* u8_in_command and u8_out_command of the hitch controller
  auto,    \* Auger Unload toggle button, state = u8_auto_latched
  manual,  \* Manual Unload toggle button, state = u8_manual_latched
  fault,   \* diagnosed faults of the two unload outputs
  out,     \* values set with set_outputValue
  movedBy, \* history: which control moves header and hitch in this turn
  switched \* history: was the parameter changed since the header controller ran?

vars == <<now, phase, hll, hitch, auto, manual, fault, out, movedBy, switched>>
history == <<movedBy, switched>>

Phases == {"header", "hitchPos", "auger", "hwOutputs"}

\* The two bits a CAN button sends; in the code BTN_FAULT = JS_BUTTON_FAULT = 3.
Codes == {"released", "pressed", "error", "fault"}

Hitch == [inward : BOOLEAN, outward : BOOLEAN]
UnloadFaults == [auto : BOOLEAN, manual : BOOLEAN]
Outputs == [auto : BOOLEAN, manual : BOOLEAN, retract : BOOLEAN, extend : BOOLEAN,
            lift : BOOLEAN, lower : BOOLEAN]
Controls == {"pedals", "joystick"}

Init ==
  /\ now = 0
  /\ phase = "header"
  /\ hll \in BOOLEAN
  /\ hitch = [inward |-> FALSE, outward |-> FALSE]
  /\ auto = toggleButton_init
  /\ manual = toggleButton_init
  /\ fault = [auto |-> FALSE, manual |-> FALSE]
  /\ out = [auto |-> FALSE, manual |-> FALSE, retract |-> FALSE, extend |-> FALSE,
            lift |-> FALSE, lower |-> FALSE]
  /\ movedBy = [header |-> "none", hitch |-> "none"]
  /\ switched = FALSE

Tick ==
  /\ now' = Later(now, 1)
  /\ UNCHANGED <<phase, hll, hitch, auto, manual, fault, out, history>>

\* The service tool writes the parameter (sync_dashHandler in the openSYDE task).
ToolSwitches ==
  /\ hll' = ~hll
  /\ switched' = TRUE
  /\ UNCHANGED <<now, phase, hitch, auto, manual, fault, out, movedBy>>

HeaderControl == IF hll THEN "joystick" ELSE "pedals"

\* Lift and lower as the control commands them: none when one of its two
\* switches or buttons has a fault.  Unlike the hitch, the header moves on
\* the code "error" as well.
HeaderCommands ==
  IF HeaderControl = "pedals" THEN BOOLEAN \X BOOLEAN
  ELSE {IF "fault" \in {b5, b6} THEN <<FALSE, FALSE>>
        ELSE <<b5 # "released", b6 # "released">> : b5, b6 \in Codes}

\* update_headerControl: lift wins, down to the limit switch; a fault of one
\* of the coils stops both.
UpdateHeader ==
  /\ phase = "header"
  /\ phase' = "hitchPos"
  /\ \E cmd \in HeaderCommands, atLimit, coilFault \in BOOLEAN :
       out' = [out EXCEPT !.lift = cmd[1] /\ ~atLimit /\ ~coilFault,
                          !.lower = cmd[2] /\ ~cmd[1] /\ ~coilFault]
  /\ movedBy' = [header |-> IF out'.lift \/ out'.lower THEN HeaderControl ELSE "none",
                 hitch |-> "none"]
  /\ switched' = FALSE
  /\ UNCHANGED <<now, hll, hitch, auto, manual, fault>>

\* Faulty variant: the joystick moves both.
HitchControlJoystick == "joystick"

\* The control the header does not use.
HitchControl == IF hll THEN "pedals" ELSE "joystick"

NoMovement == [inward |-> FALSE, outward |-> FALSE]

\* Both pedals are ignored when one of the switches has a fault.
PedalCommands == [inward : BOOLEAN, outward : BOOLEAN]

\* Joystick buttons: only the code "pressed" commands; a fault on one of the
\* buttons clears both.
JoystickCommands ==
  {IF "fault" \in {b5, b6} THEN NoMovement
   ELSE [inward |-> b5 = "pressed", outward |-> b6 = "pressed"] : b5, b6 \in Codes}

HitchCommands ==
  IF HitchControl = "pedals" THEN PedalCommands ELSE JoystickCommands

\* A fault of one of the hitch outputs stops both; "in" wins over "out".
UpdateHitchPos ==
  /\ phase = "hitchPos"
  /\ phase' = "auger"
  /\ \E cmd \in HitchCommands, outputFault \in BOOLEAN :
       hitch' = IF outputFault THEN NoMovement ELSE cmd
  /\ out' = [out EXCEPT !.retract = hitch'.inward,
                        !.extend = hitch'.outward /\ ~hitch'.inward]
  /\ movedBy' = [movedBy EXCEPT !.hitch =
                   IF out'.retract \/ out'.extend THEN HitchControl ELSE "none"]
  /\ UNCHANGED <<now, hll, auto, manual, fault, switched>>

\* Faulty variant: only the inward command is looked at.
HitchOnInward == hitch.inward

get_hitchPosStatus == hitch.inward \/ hitch.outward

\* Faulty variant: the output fault does not reset the button.
UnloadResetNoFault(code, outputFault, interlock) ==
  code = "fault" \/ interlock \/ get_hitchPosStatus

\* A button's reset: its own code or output at fault, the common interlocks
\* (door, start-up debounce) or a moving hitch.
UnloadReset(code, outputFault, interlock) ==
  code = "fault" \/ outputFault \/ interlock \/ get_hitchPosStatus

Pressed(code) == code \in {"pressed", "error"}

\* FR-9.3: manual unload wins.  The auto latch is cleared behind the back of
\* its toggle button, whose time stamp and flag are left as they are.
AutoUnlessManual(a, m) == IF m.state THEN [a EXCEPT !.state = FALSE] ELSE a

\* An output is written only while it has no fault.
WrittenUnlessFault(latch, faulty, old) == IF faulty THEN old ELSE latch

UpdateAuger ==
  /\ phase = "auger"
  /\ phase' = "hwOutputs"
  /\ \E b2, b6 \in Codes, interlock \in BOOLEAN :
       LET a == toggleButton(auto, now, Pressed(b2),
                  UnloadReset(b2, fault.auto, interlock), ButtonDeb, FALSE)
           m == toggleButton(manual, now, Pressed(b6),
                  UnloadReset(b6, fault.manual, interlock), ButtonDeb, FALSE)
       IN /\ auto' = AutoUnlessManual(a, m)
          /\ manual' = m
  /\ out' = [out EXCEPT
       !.auto = WrittenUnlessFault(auto'.state, fault.auto, out.auto),
       !.manual = WrittenUnlessFault(manual'.state, fault.manual, out.manual)]
  /\ UNCHANGED <<now, hll, hitch, fault, history>>

\* update_hwOutputs diagnoses the outputs and writes their values; then the
\* next turn begins.
UpdateOutputs ==
  /\ phase = "hwOutputs"
  /\ phase' = "header"
  /\ fault' \in UnloadFaults
  /\ UNCHANGED <<now, hll, hitch, auto, manual, out, history>>

Loop == UpdateHeader \/ UpdateHitchPos \/ UpdateAuger \/ UpdateOutputs

Next == Tick \/ ToolSwitches \/ Loop

Spec == Init /\ [][Next]_vars

-----------------------------------------------------------------------------
TypeOK ==
  /\ now \in Time
  /\ phase \in Phases
  /\ hll \in BOOLEAN
  /\ hitch \in Hitch
  /\ auto \in Button
  /\ manual \in Button
  /\ fault \in UnloadFaults
  /\ out \in Outputs
  /\ movedBy \in [header : Controls \cup {"none"}, hitch : Controls \cup {"none"}]
  /\ switched \in BOOLEAN

\* One control never moves header and hitch in the same turn, unless the
\* parameter is changed between the two controllers; then the next turn is
\* right again (header_lift_control.c line 121, hitch_position_control.c 118).
OneControlOneLoad ==
  phase = "hwOutputs" /\ movedBy.header = movedBy.hitch /\ movedBy.header # "none"
    => switched

\* What the loop writes to the valves: never both unload outputs, and none
\* while the hitch is commanded, as long as no unload output has a fault
\* (FR-9.3 and FR-9.4, auger_cart_control.c lines 163 and 187).
UnloadExclusive ==
  (phase = "hwOutputs" /\ ~fault.auto /\ ~fault.manual) =>
    /\ ~(out.auto /\ out.manual)
    /\ out.retract \/ out.extend => ~out.auto /\ ~out.manual

\* The latches shown on the keypad and display tell what the outputs do,
\* except for an output that keeps its last value, on, because of a fault: its
\* latch is already off, so it goes off with the fault and needs a new press.
LatchTellsOutput ==
  phase = "hwOutputs" =>
    /\ out.auto # auto.state => out.auto /\ fault.auto
    /\ out.manual # manual.state => out.manual /\ fault.manual
=============================================================================
