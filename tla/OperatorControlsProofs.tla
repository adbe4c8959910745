----------------------- MODULE OperatorControlsProofs -----------------------
(***************************************************************************)
(* The operator controls, for every clock width, turn length and setting   *)
(* of the times: the toggle button implements the debounced latch, the     *)
(* engine idles after a start, and a held throttle switch steps a step     *)
(* time apart, or again in the same millisecond.                           *)
(***************************************************************************)
EXTENDS OperatorControls, TLAPS

USE TimeModAssumption, PolledButtonAssumption, ThrottleAssumption

\* The wrapping clock stays a clock value, and time stamps age by at most
\* the time that passed (less when the age itself wraps).
LEMMA ClockLemma ==
  ASSUME NEW t \in Time, NEW s \in Time, NEW d \in 0 .. MaxCycle
  PROVE  /\ Later(t, d) \in Time
         /\ Elapsed(t, s) \in Time
         /\ Elapsed(t, t) = 0
         /\ Elapsed(Later(t, d), s) <= Elapsed(t, s) + d
  BY DEF Later, Elapsed, Time

\* A poll gives a button that is a button.
LEMMA ButtonType ==
  ASSUME NEW b \in Button, NEW t \in Time, NEW raw \in BOOLEAN,
         NEW reset \in BOOLEAN
  PROVE  toggleButton(b, t, raw, reset, Deb, Safe) \in Button
<1>1. 0 \in Time
  BY DEF Time
<1>2. PressStart(b, t) \in Time
  BY DEF PressStart, Button
<1>3. Toggles(b, t, Deb) \in BOOLEAN
  BY DEF Toggles, Button
<1>4. ResetButton(Safe) \in Button
  BY <1>1 DEF ResetButton, Button
<1>5. ReleasedButton(b) \in Button
  BY <1>1 DEF ReleasedButton, Button
<1>6. PressedButton(b, t, Deb) \in Button
  BY <1>2, <1>3 DEF PressedButton, Button
<1> QED
  BY <1>4, <1>5, <1>6 DEF toggleButton

\* What the next poll does, whatever the kind of turn.
LEMMA NextPolls ==
  ASSUME Next
  PROVE  \E d \in 0 .. MaxCycle, raw, reset \in BOOLEAN : Poll(d, raw, reset)
  BY DEF Next, PressCycle, ReleaseCycle, ResetCycle

\* The other way round: what the time stamp of an armed button leaves out of
\* its press is one turn at most, the one that left clock 0.
Prompt ==
  btn.set /\ pressed =>
    IF btn.hold = 0 THEN now = 0 /\ held = 0 /\ Deb > 0
    ELSE /\ held <= Elapsed(now, btn.hold) + MaxCycle
         /\ Elapsed(now, btn.hold) < Deb

Inv == TypeOK /\ HoldTruthful /\ Prompt

\* A short age does not wrap.
LEMMA ShortAge ==
  ASSUME NEW t \in Time, NEW s \in Time, NEW d \in 0 .. MaxCycle,
         Elapsed(t, s) < Deb
  PROVE  Elapsed(Later(t, d), s) = Elapsed(t, s) + d
  BY DEF Later, Elapsed, Time

\* A poll keeps Prompt: a press that is not old enough to toggle is young.
LEMMA PollKeepsPrompt ==
  ASSUME TypeOK, HoldTruthful, Prompt, NEW d \in 0 .. MaxCycle,
         NEW raw \in BOOLEAN, NEW reset \in BOOLEAN, Poll(d, raw, reset)
  PROVE  Prompt'
<1> SUFFICES ASSUME btn'.set, pressed'
             PROVE  IF btn'.hold = 0 THEN now' = 0 /\ held' = 0 /\ Deb > 0
                    ELSE /\ held' <= Elapsed(now', btn'.hold) + MaxCycle
                         /\ Elapsed(now', btn'.hold) < Deb
  BY DEF Prompt
<1>1. btn' = PressedButton(btn, now', Deb)
  BY DEF Poll, toggleButton
<1>2. /\ btn.set /\ ~Toggles(btn, now', Deb)
      /\ btn'.hold = PressStart(btn, now')
  BY <1>1 DEF PressedButton
<1>3. Elapsed(now', btn'.hold) < Deb
  <2>1. now' \in Time /\ btn'.hold \in Time
    BY <1>2, ClockLemma DEF Poll, TypeOK, PressStart, Button
  <2> QED
    BY <1>2, <2>1 DEF Toggles, Elapsed, Time
<1>4. CASE ~pressed
  <2>1. held' = 0 /\ btn'.hold = now' /\ now' \in Time
    BY <1>2, <1>4, ClockLemma DEF Poll, HoldTruthful, PressStart, TypeOK
  <2>2. Elapsed(now', btn'.hold) = 0
    BY <2>1, ClockLemma
  <2> QED
    BY <1>3, <2>1, <2>2
<1>5. CASE pressed /\ btn.hold = 0
  <2>1. now = 0 /\ held = 0 /\ now' = d
    BY <1>2, <1>5 DEF Prompt, Poll, Later
  <2>2. btn'.hold = d /\ held' = d
    BY <1>2, <1>5, <2>1 DEF PressStart, Poll, Saturate
  <2>3. Elapsed(now', btn'.hold) = 0
    BY <2>1, <2>2 DEF Elapsed
  <2> QED
    BY <1>3, <2>1, <2>2, <2>3
<1>6. CASE pressed /\ btn.hold # 0
  <2>1. btn'.hold = btn.hold /\ held' = Saturate(held + d)
    BY <1>2, <1>6 DEF PressStart, Poll
  <2>2. /\ held <= Elapsed(now, btn.hold) + MaxCycle
        /\ Elapsed(now, btn.hold) < Deb
    BY <1>2, <1>6 DEF Prompt
  <2>3. now \in Time /\ btn.hold \in Time /\ now' = Later(now, d)
    BY DEF Poll, TypeOK, Button
  <2>4. Elapsed(now', btn.hold) = Elapsed(now, btn.hold) + d
    BY <2>2, <2>3, ShortAge
  <2>5. Elapsed(now, btn.hold) \in Int
    BY <2>3 DEF Elapsed, Time
  <2> QED
    BY <1>3, <1>6, <2>1, <2>2, <2>4, <2>5 DEF Saturate, TypeOK
<1> QED
  BY <1>4, <1>5, <1>6

\* The type invariant, HoldTruthful and Prompt are inductive together.
LEMMA PollKeepsInv ==
  ASSUME Inv, NEW d \in 0 .. MaxCycle, NEW raw \in BOOLEAN,
         NEW reset \in BOOLEAN, Poll(d, raw, reset)
  PROVE  Inv'
<1> USE DEF Inv
<1>1. now' \in Time
  BY ClockLemma DEF Poll, TypeOK
<1>2. btn' \in Button
  BY <1>1, ButtonType DEF Poll, TypeOK
<1>3. pressed' \in BOOLEAN /\ held' \in 0 .. Deb + MaxCycle
  BY DEF Poll, TypeOK, Saturate
<1>4. HoldTruthful'
  <2>1. CASE reset
    BY <2>1 DEF Poll, HoldTruthful, toggleButton, ResetButton
  <2>2. CASE ~reset /\ ~raw
    BY <2>2 DEF Poll, HoldTruthful, toggleButton, ReleasedButton
  <2>3. CASE ~reset /\ raw
    <3>1. pressed' /\ btn'.hold = PressStart(btn, now')
      BY <2>3 DEF Poll, toggleButton, PressedButton
    <3>2. CASE btn.hold = 0
      <4>1. Elapsed(now', btn'.hold) = 0
        BY <1>1, <3>1, <3>2, ClockLemma DEF PressStart
      <4> QED
        BY <1>3, <3>1, <4>1 DEF HoldTruthful, Saturate
    <3>3. CASE btn.hold # 0
      <4>1. btn'.hold = btn.hold /\ pressed
        BY <3>1, <3>3 DEF PressStart, HoldTruthful
      <4>2. held' = Saturate(held + d)
        BY <3>1, <4>1 DEF Poll
      <4>3. Elapsed(now', btn'.hold) <= Elapsed(now, btn.hold) + d
        BY <4>1, ClockLemma DEF TypeOK, Button, Poll
      <4>4. Saturate(Elapsed(now, btn.hold)) <= held
        BY <3>3 DEF HoldTruthful
      <4>5. Elapsed(now, btn.hold) \in Int /\ Elapsed(now', btn'.hold) \in Int
        BY <1>1, <1>2 DEF TypeOK, Button, Elapsed, Time
      <4>6. Saturate(Elapsed(now', btn'.hold)) <= held'
        BY <4>2, <4>3, <4>4, <4>5 DEF Saturate, TypeOK
      <4> QED
        BY <3>1, <4>6 DEF HoldTruthful
    <3> QED
      BY <3>2, <3>3
  <2> QED
    BY <2>1, <2>2, <2>3
<1> QED
  BY <1>1, <1>2, <1>3, <1>4, PollKeepsPrompt DEF TypeOK

LEMMA ButtonInvariant == Spec => []Inv
<1>1. Init => Inv
  <2>1. 0 \in Time /\ 0 \in 0 .. Deb + MaxCycle
    BY DEF Time
  <2>2. toggleButton_init \in Button /\ toggleButton_init.hold = 0
    BY <2>1 DEF toggleButton_init, Button
  <2> QED
    BY <2>1, <2>2 DEF Init, Inv, TypeOK, HoldTruthful, Prompt
<1>2. Inv /\ [Next]_vars => Inv'
  <2>1. Inv /\ Next => Inv'
    BY NextPolls, PollKeepsInv
  <2>2. Inv /\ UNCHANGED vars => Inv'
    BY DEF vars, Inv, TypeOK, HoldTruthful, Prompt, Saturate, Elapsed
  <2> QED
    BY <2>1, <2>2
<1> QED
  BY <1>1, <1>2, PTL DEF Spec

\* For every clock width, debounce time and bound on the turns, the state is well
\* typed and the time stamp never claims a longer press than was polled.
THEOREM HoldIsTruthful == Spec => [](TypeOK /\ HoldTruthful)
<1> QED
  BY ButtonInvariant, PTL DEF Inv
LEMMA YoungPress == Inv => HeldTogglesInTime
<1> SUFFICES ASSUME Inv, btn.set, pressed PROVE held < Deb + MaxCycle
  BY DEF HeldTogglesInTime
<1>1. CASE btn.hold = 0
  BY <1>1 DEF Inv, Prompt
<1>2. CASE btn.hold # 0
  <2>1. Elapsed(now, btn.hold) \in Int
    BY DEF Inv, TypeOK, Button, Elapsed, Time
  <2> QED
    BY <1>2, <2>1 DEF Inv, Prompt, TypeOK
<1> QED
  BY <1>1, <1>2

\* An armed button has toggled before it is held a turn longer than its
\* debounce time, wherever the clock wraps and also when the press begins at
\* clock 0.
THEOREM HeldIsToggled == Spec => []HeldTogglesInTime
<1> QED
  BY YoungPress, ButtonInvariant, PTL

\* One poll is one step of the debounced latch.
LEMMA PollIsLatchStep ==
  ASSUME Inv, Inv', HeldTogglesInTime', NEW d \in 0 .. MaxCycle, NEW raw \in BOOLEAN,
         NEW reset \in BOOLEAN, Poll(d, raw, reset)
  PROVE  Latch!Next
<1>1. CASE reset
  BY <1>1 DEF Poll, toggleButton, ResetButton, Latch!Next, Latch!Reset
<1>2. CASE ~reset /\ ~raw
  BY <1>2 DEF Poll, toggleButton, ReleasedButton, Latch!Next, Latch!Release
<1>3. CASE ~reset /\ raw
  <2>1. btn' = PressedButton(btn, now', Deb)
    BY <1>3 DEF Poll, toggleButton
  <2>2. pressed' = TRUE
    BY <1>3 DEF Poll
  <2>3. held' = IF pressed THEN Latch!Saturate(held + d) ELSE 0
    BY <2>2 DEF Poll, Saturate, Latch!Saturate
  <2>4. CASE ~Toggles(btn, now', Deb)
    <3>1. btn'.state = btn.state /\ btn'.set = btn.set
      BY <2>1, <2>4 DEF PressedButton, Inv, TypeOK, Button
    <3>2. btn'.set => held' < Deb + MaxCycle
      BY <2>2, HeldTogglesInTime' DEF HeldTogglesInTime
    <3> QED
      BY <2>2, <2>3, <3>1, <3>2 DEF Latch!Next, Latch!Press
  <2>5. CASE Toggles(btn, now', Deb)
    <3>1. btn'.state = ~btn.state /\ btn'.set = FALSE /\ btn.set
      BY <2>1, <2>5 DEF PressedButton, Toggles
    <3>2. btn'.hold = PressStart(btn, now')
      BY <2>1 DEF PressedButton
    <3>3. Elapsed(now', btn'.hold) >= Deb
      BY <2>5, <3>2 DEF Toggles
    <3>4. held' >= Deb
      <4>1. CASE btn'.hold # 0
        <5>1. Elapsed(now', btn'.hold) \in Int
          BY DEF Inv, TypeOK, Button, Elapsed, Time
        <5> QED
          BY <3>3, <4>1, <5>1 DEF Inv, HoldTruthful, Saturate, TypeOK
      <4>2. CASE btn'.hold = 0
        <5>1. now' = 0
          BY <3>2, <4>2 DEF PressStart
        <5>2. Elapsed(now', btn'.hold) = 0
          BY <4>2, <5>1 DEF Elapsed
        <5> QED
          BY <3>3, <5>2 DEF Inv, TypeOK
      <4> QED
        BY <4>1, <4>2
    <3> QED
      BY <2>2, <2>3, <3>1, <3>4 DEF Latch!Next, Latch!Press
  <2> QED
    BY <2>4, <2>5
<1> QED
  BY <1>1, <1>2, <1>3

\* Button, clock and the latch it implements keep their types, for every clock
\* width, debounce and cycle time.
THEOREM TypeCorrect == Spec => []TypeOK
<1>1. (TypeOK /\ HoldTruthful) => TypeOK
  BY Zenon
<1> QED
  BY <1>1, HoldIsTruthful, PTL

\* The helper implements the debounced latch, whatever the clock width, the
\* debounce time and the bound on the turns that poll it.
THEOREM ToggleImplementsLatch == Spec => Refinement
<1>1. Init => Latch!Init
  BY DEF Init, Latch!Init, toggleButton_init
<1>2. Inv /\ Inv' /\ HeldTogglesInTime' /\ [Next]_vars => [Latch!Next]_(Latch!vars)
  <2>1. Inv /\ Inv' /\ HeldTogglesInTime' /\ Next => Latch!Next
    BY NextPolls, PollIsLatchStep
  <2>2. UNCHANGED vars => UNCHANGED Latch!vars
    BY DEF vars, Latch!vars
  <2> QED
    BY <2>1, <2>2
<1> QED
  BY <1>1, <1>2, ButtonInvariant, YoungPress, PTL DEF Spec, Refinement, Latch!Spec
-----------------------------------------------------------------------------
\* The run time of the engine never looks longer than it was seen.
RuntimeTruthful ==
  engine.running => UpTo(Elapsed(now, engine.startTime), IdleDelay) <= ran

\* Neither does the press of a switch.
CommandTruthful ==
  throttle.cmd # "maintain"
    => UpTo(Elapsed(now, throttle.since), HoldTime + 1) <= heldFor

\* What is known about the last step taken less than a step time ago: the
\* press has only begun, or the step fell on a multiple of the step time, or
\* the measured time of the press has wrapped since.
StepBacked ==
  throttle.cmd # "maintain" /\ rest < StepTime =>
    LET e == Elapsed(now, throttle.since) IN
    \/ rest = heldFor
    \/ rest <= e /\ \E k \in 0 .. TimeMod : e - rest = k * StepTime
    \/ e < rest

CInv == /\ ControlsTypeOK
        /\ RuntimeTruthful
        /\ CommandTruthful
        /\ StepBacked
        /\ IdleAfterStart

\* A turn of d milliseconds ages a time stamp by d, or its age wraps.
LEMMA AgeLemma ==
  ASSUME NEW t \in Time, NEW d \in 0 .. MaxCycle
  PROVE  /\ Later(t, d) \in Time
         /\ Elapsed(Later(t, d), t) = d
         /\ \A s \in Time :
              /\ Elapsed(t, s) \in 0 .. TimeMod - 1
              /\ Elapsed(Later(t, d), s) \in 0 .. TimeMod - 1
              /\ \/ Elapsed(Later(t, d), s) = Elapsed(t, s) + d
                 \/ Elapsed(Later(t, d), s) = Elapsed(t, s) + d - TimeMod
<1>1. Later(t, d) \in Time /\ Elapsed(Later(t, d), t) = d
  BY DEF Later, Elapsed, Time
<1>2. ASSUME NEW s \in Time
      PROVE  /\ Elapsed(t, s) \in 0 .. TimeMod - 1
             /\ Elapsed(Later(t, d), s) \in 0 .. TimeMod - 1
             /\ \/ Elapsed(Later(t, d), s) = Elapsed(t, s) + d
                \/ Elapsed(Later(t, d), s) = Elapsed(t, s) + d - TimeMod
  BY DEF Later, Elapsed, Time
<1> QED
  BY <1>1, <1>2

\* The same of the clock of a turn.
LEMMA TurnAges ==
  ASSUME now \in Time, NEW d \in 0 .. MaxCycle, now' = Later(now, d)
  PROVE  /\ now' \in Time /\ d \in Nat
         /\ Elapsed(now', now) = d
         /\ Elapsed(now', now') = 0
         /\ \A s \in Time :
              /\ Elapsed(now, s) \in 0 .. TimeMod - 1
              /\ Elapsed(now', s) \in 0 .. TimeMod - 1
              /\ \/ Elapsed(now', s) = Elapsed(now, s) + d
                 \/ Elapsed(now', s) = Elapsed(now, s) + d - TimeMod
<1>1. Elapsed(now', now') = 0
  <2>1. now' \in Time
    BY AgeLemma
  <2> QED
    BY <2>1 DEF Elapsed, Time
<1> QED
  BY <1>1, AgeLemma

\* Two different multiples are a step time apart.
LEMMA MultiplesApart ==
  ASSUME NEW S \in Nat \ {0}, NEW p \in Nat, NEW q \in Nat, p * S < q * S
  PROVE  p * S + S <= q * S
<1>1. p < q
  BY SMTT(20)
<1>2. S <= S * (q - p)
  BY <1>1, SMTT(20)
<1> QED
  BY <1>2, SMTT(20)

\* The button stays well typed, whatever kind of turn polls it.
LEMMA TurnKeepsTypes ==
  ASSUME TypeOK, Turn
  PROVE  TypeOK'
<1>1. PICK d \in 0 .. MaxCycle, raw \in BOOLEAN, reset \in BOOLEAN : Poll(d, raw, reset)
  BY NextPolls DEF Turn
<1>2. now' \in Time
  BY <1>1, ClockLemma DEF Poll, TypeOK
<1>3. btn' \in Button
  BY <1>1, <1>2, ButtonType DEF Poll, TypeOK
<1>4. pressed' \in BOOLEAN /\ held' \in 0 .. Deb + MaxCycle
  BY <1>1 DEF Poll, TypeOK, Saturate
<1> QED
  BY <1>2, <1>3, <1>4 DEF TypeOK

LEMMA InitTypes == Init => TypeOK
<1>1. 0 \in Time /\ 0 \in 0 .. Deb + MaxCycle
  BY DEF Time
<1>2. toggleButton_init \in Button
  BY <1>1 DEF toggleButton_init, Button
<1> QED
  BY <1>1, <1>2 DEF Init, TypeOK

\* What a turn does, besides polling the button.
LEMMA TurnFacts ==
  ASSUME CInv, Turn
  PROVE  \E d \in 0 .. MaxCycle, turning \in BOOLEAN, command \in Commands :
           /\ now' = Later(now, d)
           /\ engine' = check_engineStatus(engine, now', turning)
           /\ throttle' = update_throttleControl(throttle, now', command, engine')
<1>1. PICK d \in 0 .. MaxCycle, raw \in BOOLEAN, reset \in BOOLEAN : Poll(d, raw, reset)
  BY NextPolls DEF Turn
<1>2. PICK turning \in BOOLEAN : engine' = check_engineStatus(engine, now', turning)
  BY DEF Turn, ChassisTurn
<1>3. PICK up \in Switches, down \in Switches :
        throttle' = update_throttleControl(throttle, now', ThrottleCommand(up, down), engine')
  BY DEF Turn, ChassisTurn
<1>4. ThrottleCommand(up, down) \in Commands
  BY DEF ThrottleCommand, Commands
<1> QED
  BY <1>1, <1>2, <1>3, <1>4 DEF Poll

\* A turn in which a switch that was pressed before moves the request.
LEMMA MoveFacts ==
  ASSUME ControlsTypeOK, NEW command \in Commands, now' \in Time,
         throttle' = update_throttleControl(throttle, now', command, engine'),
         throttle'.cmd = throttle.cmd, Moved
  PROVE  /\ throttle.cmd # "maintain"
         /\ Elapsed(now', throttle.since) > HoldTime
         /\ \E k \in 0 .. TimeMod : Elapsed(now', throttle.since) = k * StepTime
<1>1. throttle'.cmd = command /\ command = throttle.cmd
  BY DEF update_throttleControl
<1>2. CommandTime(throttle, now', command) = throttle.since
  BY <1>1 DEF CommandTime
<1>3. throttle'.target = IF Steps(throttle, now', command)
                         THEN Stepped(throttle.target, command) ELSE throttle.target
  BY DEF update_throttleControl, Moved
<1>4. Steps(throttle, now', command) /\ command # "maintain"
  BY <1>3 DEF Moved, Stepped
<1>5. Elapsed(now', throttle.since) \in 0 .. TimeMod
  BY DEF ControlsTypeOK, ThrottleState, Elapsed, Time
<1> QED
  BY <1>1, <1>2, <1>4, <1>5 DEF Steps, Multiple
LEMMA TurnKeepsCInv ==
  ASSUME CInv, Turn
  PROVE  CInv'
<1> USE DEF CInv
<1>1. PICK d \in 0 .. MaxCycle, turning \in BOOLEAN, command \in Commands :
        /\ now' = Later(now, d)
        /\ engine' = check_engineStatus(engine, now', turning)
        /\ throttle' = update_throttleControl(throttle, now', command, engine')
  BY TurnFacts
<1>2. now \in Time /\ now' = Later(now, d)
  BY <1>1 DEF ControlsTypeOK, TypeOK
<1>A. /\ now' \in Time /\ d \in Nat
      /\ Elapsed(now', now) = d /\ Elapsed(now', now') = 0
      /\ \A s \in Time :
           /\ Elapsed(now, s) \in 0 .. TimeMod - 1
           /\ Elapsed(now', s) \in 0 .. TimeMod - 1
           /\ \/ Elapsed(now', s) = Elapsed(now, s) + d
              \/ Elapsed(now', s) = Elapsed(now, s) + d - TimeMod
  BY <1>2, TurnAges
<1>3. TypeOK'
  BY TurnKeepsTypes DEF ControlsTypeOK
<1>4. /\ engine' \in EngineState
      /\ engine'.running = turning
      /\ turning /\ engine.running => engine'.startTime = engine.startTime
      /\ turning /\ ~engine.running => engine'.startTime = now'
  BY <1>1, <1>2, <1>A DEF check_engineStatus, EngineState, ControlsTypeOK
<1>5. /\ throttle'.cmd = command
      /\ throttle'.since = CommandTime(throttle, now', command)
      /\ HeldAtIdle(engine', now') => throttle'.target = 0
      /\ throttle'.target \in 0 .. MaxSteps
      /\ throttle' \in ThrottleState
  <2>1. CommandTime(throttle, now', command) \in Time
    BY <1>2, <1>A DEF CommandTime, ControlsTypeOK, ThrottleState
  <2>2. Stepped(throttle.target, command) \in 0 .. MaxSteps
    BY DEF Stepped, Commands, ControlsTypeOK, ThrottleState
  <2> QED
    BY <1>1, <2>1, <2>2 DEF update_throttleControl, ControlsTypeOK, ThrottleState
<1>6. /\ ran' = IF engine.running /\ turning THEN UpTo(ran + d, IdleDelay) ELSE 0
      /\ heldFor' = IF command = throttle.cmd THEN UpTo(heldFor + d, HoldTime + 1) ELSE 0
      /\ rest' = IF command # throttle.cmd \/ Moved THEN 0 ELSE UpTo(rest + d, StepTime)
  BY <1>2, <1>A, <1>4, <1>5 DEF Turn, ChassisTurn
<1>7. ControlsTypeOK'
  BY <1>2, <1>A, <1>3, <1>4, <1>5, <1>6 DEF ControlsTypeOK, UpTo
<1>8. RuntimeTruthful'
  <2> SUFFICES ASSUME turning
               PROVE  UpTo(Elapsed(now', engine'.startTime), IdleDelay) <= ran'
    BY <1>4 DEF RuntimeTruthful
  <2>1. CASE engine.running
    <3>1. engine'.startTime = engine.startTime /\ engine.startTime \in Time
      BY <1>4, <2>1 DEF ControlsTypeOK, EngineState
    <3> DEFINE a == Elapsed(now, engine.startTime)
               b == Elapsed(now', engine.startTime)
    <3>2. /\ a \in 0 .. TimeMod - 1 /\ b \in 0 .. TimeMod - 1
          /\ b = a + d \/ b = a + d - TimeMod
      BY <1>A, <3>1
    <3>3. UpTo(a, IdleDelay) <= ran
      BY <2>1 DEF RuntimeTruthful
    <3>4. Elapsed(now', engine'.startTime) = b
      BY <3>1
    <3> HIDE DEF a, b
    <3> QED
      BY <1>A, <1>6, <2>1, <3>2, <3>3, <3>4 DEF UpTo, ControlsTypeOK
  <2>2. CASE ~engine.running
    <3>1. Elapsed(now', engine'.startTime) = 0
      BY <1>2, <1>A, <1>4, <2>2 DEF Elapsed, Time
    <3> QED
      BY <1>6, <2>2, <3>1 DEF UpTo
  <2> QED
    BY <2>1, <2>2 DEF ControlsTypeOK, EngineState
<1>9. IdleAfterStart'
  <2> SUFFICES ASSUME engine'.running, ran' < IdleDelay PROVE throttle'.target = 0
    BY DEF IdleAfterStart
  <2>1. Elapsed(now', engine'.startTime) \in Int
    <3>1. engine'.startTime \in Time
      BY <1>4 DEF EngineState
    <3> QED
      BY <1>A, <3>1
  <2>2. HeldAtIdle(engine', now')
    BY <1>7, <1>8, <2>1 DEF RuntimeTruthful, UpTo, HeldAtIdle, get_engineRuntime, ControlsTypeOK
  <2> QED
    BY <1>5, <2>2
<1>10. CASE command # throttle.cmd
  <2>1. command # "maintain" => Elapsed(now', throttle'.since) = 0
    <3>1. command # "maintain" => throttle'.since = now'
      BY <1>5, <1>10 DEF CommandTime
    <3>2. Elapsed(now', now') = 0
      BY <1>1, <1>2, <1>A
    <3> QED
      BY <3>1, <3>2
  <2>2. heldFor' = 0 /\ rest' = 0
    BY <1>6, <1>10
  <2>3. CommandTruthful' /\ StepBacked'
    BY <1>5, <2>1, <2>2 DEF CommandTruthful, StepBacked, UpTo
  <2> QED
    BY <1>7, <1>8, <1>9, <2>3
<1>11. CASE command = throttle.cmd
  <2>1. throttle'.since = throttle.since /\ throttle.since \in Time
    BY <1>5, <1>11 DEF CommandTime, ControlsTypeOK, ThrottleState
  <2> DEFINE e == Elapsed(now, throttle.since)
             f == Elapsed(now', throttle.since)
  <2>2. /\ e \in Nat /\ f \in Nat /\ e < TimeMod
        /\ f = e + d \/ f = e + d - TimeMod
    BY <1>1, <1>2, <1>A, <2>1
  <2>3. CommandTruthful'
    <3> SUFFICES ASSUME command # "maintain"
                 PROVE  UpTo(f, HoldTime + 1) <= heldFor'
      BY <1>5, <2>1 DEF CommandTruthful
    <3>1. UpTo(e, HoldTime + 1) <= heldFor
      BY <1>11 DEF CommandTruthful
    <3> HIDE DEF e, f
    <3> QED
      BY <1>2, <1>A, <1>6, <1>11, <2>2, <3>1 DEF UpTo, ControlsTypeOK
  <2>4. StepBacked'
    <3> SUFFICES ASSUME command # "maintain", rest' < StepTime
                 PROVE  \/ rest' = heldFor'
                        \/ rest' <= f /\ \E k \in 0 .. TimeMod : f - rest' = k * StepTime
                        \/ f < rest'
      BY <1>5, <2>1 DEF StepBacked
    <3>1. CASE Moved
      <4>1. \E k \in 0 .. TimeMod : f = k * StepTime
        BY <1>1, <1>2, <1>A, <1>5, <1>11, <3>1, MoveFacts
      <4>2. rest' = 0
        BY <1>6, <3>1
      <4> QED
        BY <2>2, <4>1, <4>2
    <3>2. CASE ~Moved
      <4>1. rest' = rest + d /\ rest < StepTime
        BY <1>2, <1>A, <1>6, <1>11, <3>2 DEF UpTo, ControlsTypeOK
      <4>2. \/ rest = heldFor
            \/ rest <= e /\ \E k \in 0 .. TimeMod : e - rest = k * StepTime
            \/ e < rest
        BY <1>11, <4>1 DEF StepBacked
      <4>3. CASE rest = heldFor
        BY <1>2, <1>A, <1>6, <1>11, <4>1, <4>3 DEF UpTo, ControlsTypeOK
      <4>4. CASE rest <= e /\ \E k \in 0 .. TimeMod : e - rest = k * StepTime
        <5>1. PICK k \in 0 .. TimeMod : e - rest = k * StepTime
          BY <4>4
        <5>2. f = e + d => f - rest' = e - rest
          BY <1>2, <1>A, <2>2, <4>1 DEF ControlsTypeOK
        <5>3. f = e + d - TimeMod => f < rest'
          BY <1>2, <1>A, <2>2, <4>1 DEF ControlsTypeOK
        <5> QED
          BY <1>2, <1>A, <2>2, <4>1, <4>4, <5>1, <5>2, <5>3 DEF ControlsTypeOK
      <4>5. CASE e < rest
        BY <1>2, <1>A, <2>2, <4>1, <4>5 DEF ControlsTypeOK
      <4> QED
        BY <4>2, <4>3, <4>4, <4>5
    <3> QED
      BY <3>1, <3>2
  <2> QED
    BY <1>7, <1>8, <1>9, <2>3, <2>4
<1> QED
  BY <1>10, <1>11

\* A held switch steps in one millisecond, or a step time apart.
LEMMA StepsAreApart ==
  ASSUME CInv, CInv', Turn, throttle'.cmd = throttle.cmd, Moved
  PROVE  /\ heldFor' > HoldTime
         /\ LET sinceLast == rest + Elapsed(now', now) IN
            sinceLast = 0 \/ sinceLast >= StepTime
<1> USE DEF CInv
<1>1. PICK d \in 0 .. MaxCycle, turning \in BOOLEAN, command \in Commands :
        /\ now' = Later(now, d)
        /\ engine' = check_engineStatus(engine, now', turning)
        /\ throttle' = update_throttleControl(throttle, now', command, engine')
  BY TurnFacts
<1>2. now \in Time /\ now' = Later(now, d)
  BY <1>1 DEF ControlsTypeOK, TypeOK
<1>A. /\ now' \in Time /\ d \in Nat /\ Elapsed(now', now) = d
      /\ \A s \in Time :
           /\ Elapsed(now, s) \in 0 .. TimeMod - 1
           /\ Elapsed(now', s) \in 0 .. TimeMod - 1
           /\ \/ Elapsed(now', s) = Elapsed(now, s) + d
              \/ Elapsed(now', s) = Elapsed(now, s) + d - TimeMod
  BY <1>2, TurnAges
<1> DEFINE e == Elapsed(now, throttle.since)
           f == Elapsed(now', throttle.since)
<1>3. throttle.cmd # "maintain" /\ f > HoldTime /\ \E k \in 0 .. TimeMod : f = k * StepTime
  BY <1>1, <1>2, <1>A, MoveFacts
<1>4. throttle'.since = throttle.since /\ throttle.since \in Time
  <2>1. throttle'.cmd = command
    BY <1>1 DEF update_throttleControl
  <2> QED
    BY <1>1, <2>1 DEF update_throttleControl, CommandTime, ControlsTypeOK, ThrottleState
<1>5. /\ e \in Nat /\ f \in Nat /\ e < TimeMod
      /\ f = e + d \/ f = e + d - TimeMod
  BY <1>1, <1>2, <1>A, <1>4
<1>6. UpTo(f, HoldTime + 1) <= heldFor'
  BY <1>3, <1>4 DEF CommandTruthful
<1>7. heldFor' > HoldTime
  <2> HIDE DEF e, f
  <2> QED
    BY <1>3, <1>5, <1>6 DEF UpTo, ControlsTypeOK
<1>8. ASSUME 0 < rest + d, rest + d < StepTime PROVE FALSE
  <2>1. /\ rest \in Nat /\ heldFor \in Nat /\ rest < StepTime
        /\ heldFor' = UpTo(heldFor + d, HoldTime + 1)
    BY <1>2, <1>A, <1>8 DEF ControlsTypeOK, Turn, ChassisTurn
  <2>2. \/ rest = heldFor
        \/ rest <= e /\ \E k \in 0 .. TimeMod : e - rest = k * StepTime
        \/ e < rest
    BY <1>3, <2>1 DEF StepBacked
  <2> HIDE DEF e, f
  <2>3. rest # heldFor
    BY <1>2, <1>A, <1>7, <1>8, <2>1 DEF UpTo
  <2>4. f = e + d
    BY <1>2, <1>A, <1>3, <1>5, <1>8, <2>1
  <2>5. ~(e < rest)
    BY <1>2, <1>A, <1>3, <1>5, <1>8, <2>1, <2>4
  <2>6. PICK p \in 0 .. TimeMod : e - rest = p * StepTime
    BY <2>2, <2>3, <2>5
  <2>7. PICK q \in 0 .. TimeMod : f = q * StepTime
    BY <1>3
  <2>8. p * StepTime < q * StepTime
    BY <1>2, <1>A, <1>5, <1>8, <2>1, <2>4, <2>6, <2>7
  <2>9. p * StepTime + StepTime <= q * StepTime
    BY <2>8, MultiplesApart
  <2> QED
    BY <1>2, <1>A, <1>5, <1>8, <2>1, <2>4, <2>6, <2>7, <2>9
<1> QED
  BY <1>2, <1>A, <1>7, <1>8 DEF ControlsTypeOK

\* The button, the engine and the throttle together.
LEMMA ControlsInvariant == ControlsSpec => []CInv
<1>1. ControlsInit => CInv
  <2> SUFFICES ASSUME ControlsInit PROVE CInv
    OBVIOUS
  <2>1. TypeOK /\ 0 \in Time
    BY InitTypes DEF ControlsInit, Time
  <2>2. engine \in EngineState /\ engine.running = FALSE
    BY <2>1 DEF ControlsInit, engineInit, EngineState
  <2>3. throttle \in ThrottleState /\ throttle.cmd = "maintain"
    BY <2>1 DEF ControlsInit, init_throttleControl, ThrottleState, Commands
  <2>4. ControlsTypeOK
    BY <2>1, <2>2, <2>3 DEF ControlsInit, ControlsTypeOK
  <2> QED
    BY <2>2, <2>3, <2>4
       DEF CInv, RuntimeTruthful, CommandTruthful, StepBacked, IdleAfterStart
<1>2. CInv /\ [Turn]_controlsVars => CInv'
  <2>1. CInv /\ UNCHANGED controlsVars => CInv'
    BY DEF controlsVars, vars, CInv, ControlsTypeOK, TypeOK, RuntimeTruthful,
           CommandTruthful, StepBacked, IdleAfterStart
  <2> QED
    BY <2>1, TurnKeepsCInv
<1> QED
  BY <1>1, <1>2, PTL DEF ControlsSpec

\* Types of the controls, for every setting of the constants.
THEOREM ControlsTyped == ControlsSpec => []ControlsTypeOK
<1>1. CInv => ControlsTypeOK
  BY DEF CInv
<1> QED
  BY <1>1, ControlsInvariant, PTL

\* The engine idles for the whole delay after every start, for every clock
\* width, delay and bound on the turns.
THEOREM StartsAtIdle == ControlsSpec => []IdleAfterStart
<1>1. CInv => IdleAfterStart
  BY DEF CInv
<1> QED
  BY <1>1, ControlsInvariant, PTL

\* A held switch steps after the hold time only, and from then on in
\* milliseconds a step time apart, for every clock width (a multiple of the
\* step time or not), hold time and sequence of turns of 0 to MaxCycle ms.
THEOREM HeldSwitchSteps == ControlsSpec => HeldStepsApart
<1>1. CInv /\ CInv' /\ [Turn]_controlsVars
        => [throttle'.cmd = throttle.cmd /\ Moved
              => /\ heldFor' > HoldTime
                 /\ LET sinceLast == rest + Elapsed(now', now) IN
                    sinceLast = 0 \/ sinceLast >= StepTime]_controlsVars
  BY StepsAreApart
<1> QED
  BY <1>1, ControlsInvariant, PTL DEF ControlsSpec, HeldStepsApart
=============================================================================
