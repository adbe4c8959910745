-------------------------- MODULE OperatorControls --------------------------
(***************************************************************************)
(* Two kinds of operator controls in one turn of the main loop: a latched  *)
(* button, and after it the engine status and the throttle switches that   *)
(* work on it.  Both measure presses with the same wrapping clock.         *)
(***************************************************************************)
EXTENDS PolledButton, Throttle

VARIABLES engine,    \* engine status and start time
          throttle,  \* the module's structure mt_throttle
          ran,       \* history: ms the engine was seen running, up to IdleDelay
          heldFor,   \* history: ms since the command began, beyond HoldTime
                     \* one more only
          rest       \* history: ms since the last step, up to StepTime

controlsVars == <<vars, engine, throttle, ran, heldFor, rest>>

ControlsInit ==
  /\ Init
  /\ engine = engineInit
  /\ throttle = init_throttleControl
  /\ ran = 0
  /\ heldFor = 0
  /\ rest = 0

\* The switches changed the request in this turn.
Moved == throttle'.target # throttle.target /\ ~HeldAtIdle(engine', now')

UpTo(n, max) == IF n > max THEN max ELSE n

\* update_engineStarterControl (status only) and update_throttleControl.
ChassisTurn ==
  /\ \E turning \in BOOLEAN : engine' = check_engineStatus(engine, now', turning)
  /\ \E command \in {ThrottleCommand(up, down) : up, down \in Switches} :
       throttle' = update_throttleControl(throttle, now', command, engine')
  /\ ran' = IF engine.running /\ engine'.running
            THEN UpTo(ran + Elapsed(now', now), IdleDelay) ELSE 0
  /\ heldFor' = IF throttle'.cmd = throttle.cmd
                THEN UpTo(heldFor + Elapsed(now', now), HoldTime + 1) ELSE 0
  /\ rest' = IF throttle'.cmd # throttle.cmd \/ Moved
             THEN 0 ELSE UpTo(rest + Elapsed(now', now), StepTime)

\* One turn of the loop: the button, then the controllers of the chassis.
Turn == Next /\ ChassisTurn

ControlsSpec == ControlsInit /\ [][Turn]_controlsVars

ClockMoves == \E d \in 1 .. MaxCycle : now' = Later(now, d)

\* The main loop never stops turning, and its turns take time, though any
\* number of them may fall into one millisecond: main() waits for nothing.
ControlsFairSpec == ControlsSpec /\ WF_now(ClockMoves)

-----------------------------------------------------------------------------
ControlsTypeOK ==
  /\ TypeOK
  /\ engine \in EngineState
  /\ throttle \in ThrottleState
  /\ ran \in 0 .. IdleDelay
  /\ heldFor \in 0 .. HoldTime + 1
  /\ rest \in 0 .. StepTime

\* After every start of the engine, a restart without a turn of rest in which
\* no switch was touched included, the request is idle until the engine has
\* been seen running for the whole delay, whatever the switches asked for
\* while it stood still and wherever the clock wraps (FR-14.2,
\* throttle_control.c line 220).
IdleAfterStart == engine.running /\ ran < IdleDelay => throttle.target = 0

\* A switch that stays pressed moves the request a second time only after the
\* hold time.  From then on it moves it in milliseconds that are a step time
\* apart, but in such a millisecond once in every turn that falls into it, as
\* many as the loop makes; also across wraps, and when one switch takes over
\* from the other (FR-14.3, lines 226-261).
HeldStepsApart ==
  [][throttle'.cmd = throttle.cmd /\ Moved
       => /\ heldFor' > HoldTime
          /\ LET sinceLast == rest + Elapsed(now', now) IN
             sinceLast = 0 \/ sinceLast >= StepTime]_controlsVars
=============================================================================
