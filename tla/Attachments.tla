---------------------------- MODULE Attachments ----------------------------
(***************************************************************************)
(* The functions an operator latches with one button and an interlock      *)
(* takes away again: power assist (power_assist_control.c) with the gear   *)
(* it excludes, stick box relays (stick_box_control.c) and stick remover   *)
(* (stick_remover_control.c).  The update functions run in this order in   *)
(* every turn of the main loop; a turn writes its outputs at the end.      *)
(***************************************************************************)
EXTENDS ToggleButton

CONSTANTS MaxCycle,    \* bound on the time one turn takes
          ButtonDeb    \* debounce of the three buttons, 250 ms

ASSUME AttachmentsAssumption ==
  /\ MaxCycle \in Nat \ {0} /\ MaxCycle < TimeMod
  /\ ButtonDeb \in Nat

VARIABLES
  now,      \* get_system_time_ms()
  phase,    \* the next function main() calls
  gear,     \* u8_active_gear, TRUE: the high gear
  assist,   \* t_btn_power_assist, state = u8_power_assist_latched
  boxMode,  \* u8_stick_box_installed: stick box mode, else auxiliary mode
  box,      \* t_btn_close_aux, state = u8_closed_cmd
  remover,  \* t_btn_stick_remover, state = u8_stick_remover_latched
  out,      \* values set for the outputs
  kept,     \* history: attachments whose outputs this turn did not set
  started,  \* history: attachments switched on since they were last stopped
  together  \* history: turns in a row that wrote power assist and high gear

vars == <<now, phase, gear, assist, boxMode, box, remover, out, kept, started, together>>

Phases == {"inputs", "powerAssist", "propulsion", "stickB", "stickRemover", "hwOutputs"}

Outputs == {"SHIFT_COIL", "TRACTION_VALVE", "POWER_ASSIST", "STICKBOX_CLOSE",
            "STICKBOX_ON", "STICK_REMOVER"}

Latched == {"assist", "box", "remover"}

Init ==
  /\ now = 0
  /\ phase = "inputs"
  /\ gear = FALSE
  /\ assist = toggleButton_init
  /\ boxMode \in BOOLEAN
  /\ box = toggleButton_init
  /\ remover = toggleButton_init
  /\ out = [o \in Outputs |-> FALSE]
  /\ kept = {}
  /\ started = {}
  /\ together = 0

-----------------------------------------------------------------------------
\* History: an attachment switched on by its button is started; switched off,
\* or stopped by a fault, it is not, until it is switched on again.
NowStarted(a, before, after, stopped) ==
  IF after.state /\ ~stopped /\ (a \in started \/ ~before.state)
  THEN started \union {a} ELSE started \ {a}

\* The inputs are read; the service tool may have changed the parameter.
UpdateInputs ==
  /\ phase = "inputs"
  /\ phase' = "powerAssist"
  /\ \E d \in 0 .. MaxCycle : now' = Later(now, d)
  /\ boxMode' \in BOOLEAN
  /\ UNCHANGED <<gear, assist, box, remover, out, kept, started, together>>

\* Faulty variant: the gear is forgotten.
AssistResetIgnoresGear(blocked, outputFault) == blocked \/ outputFault

\* blocked: the traction switch has a fault or the engine has just started.
AssistReset(blocked, outputFault) == gear \/ blocked \/ outputFault

\* Both outputs are set in every turn, whatever faults they have.
UpdatePowerAssist ==
  /\ phase = "powerAssist"
  /\ phase' = "propulsion"
  /\ \E button, blocked, outputFault, installed, traction \in BOOLEAN :
       /\ assist' = toggleButton(assist, now, button,
                                 AssistReset(blocked, outputFault), ButtonDeb, FALSE)
       /\ started' = NowStarted("assist", assist, assist', outputFault)
       /\ out' = [out EXCEPT !["POWER_ASSIST"] = assist'.state,
                             !["TRACTION_VALVE"] = assist'.state /\ installed /\ traction]
  /\ UNCHANGED <<now, gear, boxMode, box, remover, kept, together>>

\* The button of the gear may toggle it in any turn (see PolledButton).
UpdateGear ==
  /\ phase = "propulsion"
  /\ phase' = "stickB"
  /\ gear' \in BOOLEAN
  /\ out' = [out EXCEPT !["SHIFT_COIL"] = gear']
  /\ UNCHANGED <<now, assist, boxMode, box, remover, kept, started, together>>

\* In stick box mode the command follows the button and the helper is not
\* called: its time stamp and its flag stay as they were.
CloseButton(close, reset) ==
  IF boxMode THEN [box EXCEPT !.state = close]
  ELSE toggleButton(box, now, close, reset, ButtonDeb, FALSE)

\* Faulty variant: without a command each output needs only its own health.
RelaysOneByOne(closed, open, closeFault, onFault) ==
  [out EXCEPT !["STICKBOX_CLOSE"] = IF closeFault THEN @ ELSE closed \/ open,
              !["STICKBOX_ON"]    = IF onFault THEN @ ELSE open /\ ~closed]

\* Closing needs STICKBOX_ON healthy; opening and resting need both.
RelaysKept(closed, closeFault, onFault) == onFault \/ (closeFault /\ ~closed)

\* Closing energises STICKBOX_CLOSE alone, opening both; else none.
Relays(closed, open, closeFault, onFault) ==
  IF RelaysKept(closed, closeFault, onFault) THEN out
  ELSE [out EXCEPT !["STICKBOX_CLOSE"] = closed \/ open,
                   !["STICKBOX_ON"] = open /\ ~closed]

\* doorStop: the door is open or unknown, or the engine has just started.
UpdateStickB ==
  /\ phase = "stickB"
  /\ phase' = "stickRemover"
  /\ \E close, open, doorStop, closeFault, onFault \in BOOLEAN :
       LET b == CloseButton(close, doorStop \/ onFault) IN
       /\ box' = [b EXCEPT !.state = b.state /\ ~onFault]
       /\ out' = Relays(b.state, boxMode /\ open, closeFault, onFault)
       /\ kept' = IF RelaysKept(b.state, closeFault, onFault) THEN kept \union {"box"} ELSE kept
       /\ started' = IF boxMode /\ close THEN started \union {"box"}
                     ELSE NowStarted("box", box, box', onFault)
  /\ UNCHANGED <<now, gear, assist, boxMode, remover, together>>

\* Faulty variant: the latch survives a fault of the output.
RemoverKeepsLatch(b, outputFault) == b

\* A fault of the output clears the latch behind the helper's back.
RemoverAfterFault(b, outputFault) == [b EXCEPT !.state = b.state /\ ~outputFault]

UpdateStickRemover ==
  /\ phase = "stickRemover"
  /\ phase' = "hwOutputs"
  /\ \E button, doorStop, outputFault \in BOOLEAN :
       /\ remover' = RemoverAfterFault(
                       toggleButton(remover, now, button, doorStop, ButtonDeb, FALSE),
                       outputFault)
       /\ out' = IF outputFault THEN out ELSE [out EXCEPT !["STICK_REMOVER"] = remover'.state]
       /\ kept' = IF outputFault THEN kept \union {"remover"} ELSE kept
       /\ started' = NowStarted("remover", remover, remover', outputFault)
  /\ UNCHANGED <<now, gear, assist, boxMode, box, together>>

\* update_hwOutputs writes the values; then the next turn begins.
UpdateOutputs ==
  /\ phase = "hwOutputs"
  /\ phase' = "inputs"
  /\ kept' = {}
  /\ together' = IF ~(out["POWER_ASSIST"] /\ out["SHIFT_COIL"]) THEN 0
                 ELSE IF together = 2 THEN 2 ELSE together + 1
  /\ UNCHANGED <<now, gear, assist, boxMode, box, remover, out, started>>

Next == \/ UpdateInputs
        \/ UpdatePowerAssist
        \/ UpdateGear
        \/ UpdateStickB
        \/ UpdateStickRemover
        \/ UpdateOutputs

Spec == Init /\ [][Next]_vars

-----------------------------------------------------------------------------
TypeOK ==
  /\ now \in Time
  /\ phase \in Phases
  /\ gear \in BOOLEAN /\ boxMode \in BOOLEAN
  /\ {assist, box, remover} \subseteq Button
  /\ out \in [Outputs -> BOOLEAN]
  /\ kept \in SUBSET Latched
  /\ started \in SUBSET Latched
  /\ together \in 0 .. 2

\* The gear is shifted after power assist has been decided: one turn may write
\* both, two turns in a row never do (FR-15.3, power_assist_control.c lines
\* 157-161, propulsion_control.c line 139).
ShiftEndsAssist == together < 2

\* What runs was switched on by its button after the last fault or interlock
\* that stopped it: a fault that comes and goes restarts nothing, though the
\* faults reach the three latches in three ways, though a fault leaves the
\* output of the remover as it was, and however the mode of the stick box
\* changes (power_assist_control.c lines 171-179, stick_box_control.c lines
\* 166-175 and 201-205, stick_remover_control.c lines 130-153).
NothingRestartsItself ==
  phase = "hwOutputs" =>
    /\ out["POWER_ASSIST"] => "assist" \in started
    /\ out["STICKBOX_CLOSE"] /\ ~boxMode /\ "box" \notin kept => "box" \in started
    /\ out["STICK_REMOVER"] /\ "remover" \notin kept => "remover" \in started

\* The relays of the stick box mean "close" with STICKBOX_CLOSE alone and
\* "open" with both: whatever faults come between, STICKBOX_ON is never set
\* alone (stick_box_control.c lines 189-236).
OnNeverAlone == out["STICKBOX_ON"] => out["STICKBOX_CLOSE"]
=============================================================================
