--------------------------- MODULE DebouncedLatch ---------------------------
(***************************************************************************)
(* What a latched operator button promises (requirements FR-21.1, FR-21.2, *)
(* IR-21.1 and IR-21.2 named in toggle_button.c), without time stamps: the *)
(* button is polled, "held" is the time it has been pressed at every poll, *)
(* and the latch may change only after Deb of that time, once per press,   *)
(* and after a reset only when a release has been seen; and it does change *)
(* before the button has been held for another poll.                       *)
(***************************************************************************)
EXTENDS Integers

CONSTANTS Deb,       \* the debounce time
          MaxCycle,  \* the longest time between two polls
          Safe       \* the state a reset forces

VARIABLES on,        \* the latched state
          armed,     \* a release was seen since the last toggle or reset
          pressed,   \* the last poll saw the button pressed
          held       \* for how long all polls saw it pressed, up to Deb + MaxCycle

vars == <<on, armed, pressed, held>>

Saturate(n) == IF n > Deb + MaxCycle THEN Deb + MaxCycle ELSE n

Init == /\ on = FALSE
        /\ armed = TRUE
        /\ pressed = FALSE
        /\ held = 0

Reset == /\ on' = Safe
         /\ armed' = FALSE
         /\ pressed' = FALSE
         /\ held' = 0

Release == /\ armed' = TRUE
           /\ pressed' = FALSE
           /\ held' = 0
           /\ UNCHANGED on

Press(d) == /\ pressed' = TRUE
            /\ held' = IF pressed THEN Saturate(held + d) ELSE 0
            /\ \/ /\ armed => held' < Deb + MaxCycle
                  /\ UNCHANGED <<on, armed>>
               \/ /\ armed
                  /\ held' >= Deb
                  /\ on' = ~on
                  /\ armed' = FALSE

Next == Reset \/ Release \/ \E d \in 0 .. MaxCycle : Press(d)

Spec == Init /\ [][Next]_vars
=============================================================================
