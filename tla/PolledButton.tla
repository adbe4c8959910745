---------------------------- MODULE PolledButton ----------------------------
(***************************************************************************)
(* One latched button as most controllers use it: every turn of the main   *)
(* loop reads the clock and calls toggleButton once with the input the CAN *)
(* map copied and the interlock the controller computed.                   *)
(***************************************************************************)
EXTENDS ToggleButton

CONSTANTS Deb,       \* debounce time given to toggleButton_init
          MaxCycle,  \* bound on the time one turn of the main loop takes
          Safe       \* u8_safe_state

ASSUME PolledButtonAssumption ==
  /\ Deb \in Nat
  /\ MaxCycle \in Nat \ {0}
  /\ Deb + MaxCycle < TimeMod
  /\ Safe \in BOOLEAN

VARIABLES now,      \* get_system_time_ms()
          btn,      \* the T_ToggleBtn
          pressed,  \* history: the last call saw the button pressed, no reset
          held      \* history: how long every call has seen that, up to
                    \* Deb + MaxCycle

vars == <<now, btn, pressed, held>>

Saturate(n) == IF n > Deb + MaxCycle THEN Deb + MaxCycle ELSE n

Init == /\ now = 0
        /\ btn = toggleButton_init
        /\ pressed = FALSE
        /\ held = 0

\* One turn of the main loop, d milliseconds after the one before; nothing
\* paces the loop (main.c line 153), so d may be 0.
Poll(d, raw, reset) ==
  /\ now' = Later(now, d)
  /\ btn' = toggleButton(btn, now', raw, reset, Deb, Safe)
  /\ pressed' = (raw /\ ~reset)
  /\ held' = IF pressed' /\ pressed THEN Saturate(held + d) ELSE 0

PressCycle == \E d \in 0 .. MaxCycle : Poll(d, TRUE, FALSE)

ReleaseCycle == \E d \in 0 .. MaxCycle : Poll(d, FALSE, FALSE)

ResetCycle == \E d \in 0 .. MaxCycle, raw \in BOOLEAN : Poll(d, raw, TRUE)

Next == PressCycle \/ ReleaseCycle \/ ResetCycle

Spec == Init /\ [][Next]_vars

-----------------------------------------------------------------------------
TypeOK == /\ now \in Time
          /\ btn \in Button
          /\ pressed \in BOOLEAN
          /\ held \in 0 .. Deb + MaxCycle

\* The time stamp kept by the helper never claims a longer press than the
\* polls saw, and is kept only while a press is being measured (FR-21.1,
\* toggle_button.c line 121): what makes the debounce sound across a wrap of
\* the clock and with 0 used as "no press".
HoldTruthful ==
  btn.hold # 0 =>
    /\ pressed
    /\ Saturate(Elapsed(now, btn.hold)) <= held

\* A button that is armed has toggled when it has been held for the debounce
\* time and one turn more, the turn a time stamp of 0 may cost included: no
\* press is lost to the wrap of the clock or to the value that means "no
\* press" (FR-21.1, lines 113-132).
HeldTogglesInTime == btn.set /\ pressed => held < Deb + MaxCycle

Latch == INSTANCE DebouncedLatch WITH on <- btn.state, armed <- btn.set

\* The helper implements the debounced latch of FR-21 and IR-21: it toggles
\* once per press that lasts, only after the whole debounce time and within
\* one turn more, and after a reset (line 107) only when a release has been seen, even if the button was
\* held all through the reset.
Refinement == Latch!Spec

\* FR-21.1: a button that is armed and held long enough does toggle, wherever
\* the clock wraps and whatever its time stamp is, unless it is released or
\* reset first.
HeldButtonToggles == \A s \in BOOLEAN :
  (btn.set /\ pressed /\ btn.state = s) ~> (~pressed \/ btn.state # s)
=============================================================================
