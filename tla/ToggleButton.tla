---------------------------- MODULE ToggleButton ----------------------------
(***************************************************************************)
(* The push-on/push-off helper all operator functions are latched with     *)
(* (toggle_button.c).  A button is the helper's structure: the latched     *)
(* output it points to, the time stamp of the press being measured (0:     *)
(* none) and the flag that a release was seen since the last toggle.       *)
(***************************************************************************)
EXTENDS SystemTime

Button == [state : BOOLEAN, hold : Time, set : BOOLEAN]

toggleButton_init == [state |-> FALSE, hold |-> 0, set |-> TRUE]

\* Faulty variants, to test the properties: a reset that leaves the button
\* armed, a release that keeps the time stamp, a press that restamps itself.
ResetArmed(safe) == [state |-> safe, hold |-> 0, set |-> TRUE]
ReleasedKeepsHold(b) == [state |-> b.state, hold |-> b.hold, set |-> TRUE]
PressRestamped(b, now) == now

ResetButton(safe) == [state |-> safe, hold |-> 0, set |-> FALSE]

ReleasedButton(b) == [state |-> b.state, hold |-> 0, set |-> TRUE]

\* The time stamp the press is measured from: 0 means "no press yet".
PressStart(b, now) == IF b.hold = 0 THEN now ELSE b.hold

\* Faulty variant: the debounce time has to be exceeded.
TogglesLate(b, now, deb) == b.set /\ Elapsed(now, PressStart(b, now)) > deb

Toggles(b, now, deb) == b.set /\ Elapsed(now, PressStart(b, now)) >= deb

PressedButton(b, now, deb) ==
  [state |-> IF Toggles(b, now, deb) THEN ~b.state ELSE b.state,
   hold  |-> PressStart(b, now),
   set   |-> b.set /\ ~Toggles(b, now, deb)]

\* One call: a reset wins over the button, a release over a running press.
toggleButton(b, now, raw, reset, deb, safe) ==
  IF reset THEN ResetButton(safe)
  ELSE IF raw THEN PressedButton(b, now, deb)
  ELSE ReleasedButton(b)
=============================================================================
