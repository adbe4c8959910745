---------------------------- MODULE AugerCartProofs ----------------------------
(***************************************************************************)
(* Unloading is exclusive, the latches tell the truth and a control moves  *)
(* one load at a time, for every clock width and every debounce time.      *)
(***************************************************************************)
EXTENDS AugerCart, TLAPS

USE TimeModAssumption, AugerCartAssumption

\* From the moment the hitch controller ran, its outputs are its commands,
\* "in" winning over "out".
HitchBacked ==
  phase \in {"auger", "hwOutputs"} =>
    /\ out.retract = hitch.inward
    /\ out.extend = (hitch.outward /\ ~hitch.inward)

\* While the parameter stays as it is, header and hitch belong to different
\* controls.
ControlsBacked ==
  ~switched =>
    /\ phase = "hitchPos" => movedBy.header \in {"none", HeaderControl}
    /\ phase \in {"auger", "hwOutputs"} =>
         movedBy.header = "none" \/ movedBy.header # movedBy.hitch

IInv == TypeOK /\ HitchBacked /\ ControlsBacked /\ UnloadExclusive /\ LatchTellsOutput

\* A call of the helper gives a button; a reset one is off.
LEMMA ButtonLemma ==
  ASSUME NEW b \in Button, NEW t \in Time, NEW raw \in BOOLEAN,
         NEW reset \in BOOLEAN
  PROVE  LET c == toggleButton(b, t, raw, reset, ButtonDeb, FALSE) IN
         /\ c \in Button
         /\ reset => ~c.state
<1>1. 0 \in Time
  BY DEF Time
<1>2. CASE reset
  BY <1>1, <1>2 DEF toggleButton, ResetButton, Button
<1>3. CASE ~reset /\ ~raw
  BY <1>1, <1>3 DEF toggleButton, ReleasedButton, Button
<1>4. CASE ~reset /\ raw
  <2>1. PressStart(b, t) \in Time
    BY DEF PressStart, Button
  <2>2. Toggles(b, t, ButtonDeb) \in BOOLEAN
    BY DEF Toggles, Button
  <2>3. PressedButton(b, t, ButtonDeb) \in Button
    BY <2>1, <2>2 DEF PressedButton, Button
  <2> QED
    BY <1>4, <2>3 DEF toggleButton
<1> QED
  BY <1>2, <1>3, <1>4

LEMMA HeaderKeepsIInv == IInv /\ UpdateHeader => IInv'
<1> SUFFICES ASSUME IInv, UpdateHeader PROVE IInv'
  OBVIOUS
<1> USE DEF IInv
<1>1. PICK cmd \in HeaderCommands, atLimit \in BOOLEAN, coilFault \in BOOLEAN :
        out' = [out EXCEPT !.lift = cmd[1] /\ ~atLimit /\ ~coilFault,
                           !.lower = cmd[2] /\ ~cmd[1] /\ ~coilFault]
  BY DEF UpdateHeader
<1>2. /\ out' \in Outputs
      /\ out'.auto = out.auto /\ out'.manual = out.manual
      /\ out'.retract = out.retract /\ out'.extend = out.extend
  BY <1>1 DEF TypeOK, Outputs
<1>3. /\ phase' = "hitchPos" /\ switched' = FALSE
      /\ movedBy'.header \in {"none", HeaderControl} /\ movedBy'.hitch = "none"
      /\ movedBy' \in [header : Controls \cup {"none"}, hitch : Controls \cup {"none"}]
      /\ UNCHANGED <<now, hll, hitch, auto, manual, fault>>
  BY DEF UpdateHeader, HeaderControl, Controls
<1>4. TypeOK'
  BY <1>2, <1>3 DEF TypeOK, Phases
<1>5. HitchBacked' /\ ControlsBacked'
  BY <1>3 DEF HitchBacked, ControlsBacked, HeaderControl
<1>6. UnloadExclusive' /\ LatchTellsOutput'
  BY <1>3 DEF UnloadExclusive, LatchTellsOutput
<1> QED
  BY <1>4, <1>5, <1>6

LEMMA HitchKeepsIInv == IInv /\ UpdateHitchPos => IInv'
<1> SUFFICES ASSUME IInv, UpdateHitchPos PROVE IInv'
  OBVIOUS
<1> USE DEF IInv
<1>1. PICK cmd \in PedalCommands \cup JoystickCommands, outputFault \in BOOLEAN :
        hitch' = IF outputFault THEN NoMovement ELSE cmd
  BY DEF UpdateHitchPos, HitchCommands
<1>2. PedalCommands \cup JoystickCommands \subseteq Hitch /\ NoMovement \in Hitch
  <2>1. PedalCommands = Hitch
    BY DEF PedalCommands, Hitch
  <2>2. NoMovement \in Hitch
    BY DEF NoMovement, Hitch
  <2>3. ASSUME NEW b5 \in Codes, NEW b6 \in Codes
        PROVE  [inward |-> b5 = "pressed", outward |-> b6 = "pressed"] \in Hitch
    <3>1. (b5 = "pressed") \in BOOLEAN /\ (b6 = "pressed") \in BOOLEAN
      OBVIOUS
    <3> QED
      BY <3>1 DEF Hitch
  <2>4. JoystickCommands \subseteq Hitch
    <3> SUFFICES ASSUME NEW c \in JoystickCommands PROVE c \in Hitch
      OBVIOUS
    <3>1. PICK b5 \in Codes, b6 \in Codes :
            \/ c = NoMovement
            \/ c = [inward |-> b5 = "pressed", outward |-> b6 = "pressed"]
      BY DEF JoystickCommands
    <3> QED
      BY <2>2, <2>3, <3>1
  <2> QED
    BY <2>1, <2>2, <2>4
<1>3. hitch' \in Hitch
  BY <1>1, <1>2
<1>4. /\ phase' = "auger"
      /\ out' = [out EXCEPT !.retract = hitch'.inward,
                            !.extend = hitch'.outward /\ ~hitch'.inward]
      /\ movedBy' = [movedBy EXCEPT !.hitch =
                       IF out'.retract \/ out'.extend THEN HitchControl ELSE "none"]
      /\ UNCHANGED <<now, hll, auto, manual, fault, switched>>
  BY DEF UpdateHitchPos
<1>5. out' \in Outputs
  BY <1>3, <1>4 DEF TypeOK, Outputs, Hitch
<1>6. /\ movedBy' \in [header : Controls \cup {"none"}, hitch : Controls \cup {"none"}]
      /\ movedBy'.header = movedBy.header
      /\ movedBy'.hitch \in {"none", HitchControl}
  BY <1>4 DEF TypeOK, HitchControl, Controls
<1>7. TypeOK'
  BY <1>3, <1>4, <1>5, <1>6 DEF TypeOK, Phases
<1>8. HitchBacked'
  BY <1>3, <1>4 DEF HitchBacked, TypeOK, Outputs
<1>9. ControlsBacked'
  <2> SUFFICES ASSUME ~switched, movedBy.header # "none"
               PROVE  movedBy'.header # movedBy'.hitch
    BY <1>4, <1>6 DEF ControlsBacked
  <2>1. phase = "hitchPos"
    BY DEF UpdateHitchPos
  <2>2. movedBy.header = HeaderControl
    BY <2>1 DEF ControlsBacked
  <2>3. HeaderControl # HitchControl /\ HeaderControl # "none"
    BY DEF HeaderControl, HitchControl
  <2> QED
    BY <1>6, <2>2, <2>3
<1>10. UnloadExclusive' /\ LatchTellsOutput'
  BY <1>4 DEF UnloadExclusive, LatchTellsOutput
<1> QED
  BY <1>7, <1>8, <1>9, <1>10

LEMMA AugerKeepsIInv == IInv /\ UpdateAuger => IInv'
<1> SUFFICES ASSUME IInv, UpdateAuger PROVE IInv'
  OBVIOUS
<1> USE DEF IInv
<1>1. PICK b2 \in Codes, b6 \in Codes, interlock \in BOOLEAN :
        LET a == toggleButton(auto, now, Pressed(b2),
                   UnloadReset(b2, fault.auto, interlock), ButtonDeb, FALSE)
            m == toggleButton(manual, now, Pressed(b6),
                   UnloadReset(b6, fault.manual, interlock), ButtonDeb, FALSE)
        IN auto' = AutoUnlessManual(a, m) /\ manual' = m
  BY DEF UpdateAuger
<1> DEFINE ra == UnloadReset(b2, fault.auto, interlock)
           rm == UnloadReset(b6, fault.manual, interlock)
           a == toggleButton(auto, now, Pressed(b2), ra, ButtonDeb, FALSE)
           m == toggleButton(manual, now, Pressed(b6), rm, ButtonDeb, FALSE)
<1>2. /\ ra \in BOOLEAN /\ rm \in BOOLEAN
      /\ Pressed(b2) \in BOOLEAN /\ Pressed(b6) \in BOOLEAN
      /\ hitch.inward \/ hitch.outward => ra /\ rm
      /\ fault.auto => ra
      /\ fault.manual => rm
  BY DEF UnloadReset, Pressed, get_hitchPosStatus, TypeOK, UnloadFaults, Hitch
<1>3. auto' = AutoUnlessManual(a, m) /\ manual' = m
  BY <1>1
<1> HIDE DEF ra, rm
<1>4. a \in Button /\ m \in Button /\ (ra => ~a.state) /\ (rm => ~m.state)
  BY <1>2, ButtonLemma DEF TypeOK
<1> HIDE DEF a, m
<1>5. /\ auto' \in Button /\ manual' \in Button
      /\ ra => ~auto'.state
      /\ rm => ~manual'.state
      /\ ~(auto'.state /\ manual'.state)
  BY <1>3, <1>4 DEF AutoUnlessManual, Button
<1>6. /\ phase' = "hwOutputs"
      /\ out' = [out EXCEPT !.auto = IF fault.auto THEN out.auto ELSE auto'.state,
                            !.manual = IF fault.manual THEN out.manual ELSE manual'.state]
      /\ UNCHANGED <<now, hll, hitch, fault, movedBy, switched>>
  BY DEF UpdateAuger, WrittenUnlessFault, history
<1>7. /\ out' \in Outputs
      /\ out'.retract = out.retract /\ out'.extend = out.extend
      /\ out'.auto = IF fault.auto THEN out.auto ELSE auto'.state
      /\ out'.manual = IF fault.manual THEN out.manual ELSE manual'.state
  BY <1>5, <1>6 DEF TypeOK, Outputs, Button
<1>8. TypeOK'
  BY <1>5, <1>6, <1>7 DEF TypeOK, Phases
<1>9. HitchBacked'
  BY <1>6, <1>7 DEF HitchBacked, UpdateAuger
<1>10. UnloadExclusive'
  BY <1>2, <1>5, <1>6, <1>7, <1>9 DEF UnloadExclusive, HitchBacked
<1>11. LatchTellsOutput'
  BY <1>2, <1>5, <1>6, <1>7, <1>8 DEF LatchTellsOutput, TypeOK, Outputs, Button
<1>12. ControlsBacked'
  BY <1>6 DEF UpdateAuger, ControlsBacked
<1> QED
  BY <1>8, <1>9, <1>10, <1>11, <1>12

LEMMA OutputsKeepIInv == IInv /\ UpdateOutputs => IInv'
  BY DEF IInv, UpdateOutputs, TypeOK, Phases, HitchBacked, UnloadExclusive,
         LatchTellsOutput, ControlsBacked, history

LEMMA TickKeepsIInv == IInv /\ Tick => IInv'
<1> SUFFICES ASSUME IInv, Tick PROVE IInv'
  OBVIOUS
<1>1. now' \in Time
  BY DEF IInv, TypeOK, Tick, Later, Time
<1> QED
  BY <1>1 DEF IInv, Tick, TypeOK, HitchBacked, UnloadExclusive, LatchTellsOutput,
              ControlsBacked, HeaderControl, history

\* The tool gives the controls the other way round: nothing is promised until
\* the next turn.
LEMMA SwitchKeepsIInv == IInv /\ ToolSwitches => IInv'
  BY DEF IInv, ToolSwitches, TypeOK, HitchBacked, ControlsBacked, UnloadExclusive,
         LatchTellsOutput

LEMMA Invariance == Spec => []IInv
<1>1. Init => IInv
  <2> SUFFICES ASSUME Init PROVE IInv
    OBVIOUS
  <2>1. toggleButton_init \in Button /\ 0 \in Time
    BY DEF toggleButton_init, Button, Time
  <2>2. TypeOK
    BY <2>1 DEF Init, TypeOK, Phases, Hitch, UnloadFaults, Outputs, Controls
  <2> QED
    BY <2>2 DEF Init, IInv, HitchBacked, UnloadExclusive, LatchTellsOutput,
                ControlsBacked
<1>2. IInv /\ UNCHANGED vars => IInv'
  BY DEF vars, IInv, TypeOK, HitchBacked, UnloadExclusive, LatchTellsOutput,
         ControlsBacked, HeaderControl
<1>3. IInv /\ [Next]_vars => IInv'
  BY <1>2, HeaderKeepsIInv, SwitchKeepsIInv, HitchKeepsIInv, AugerKeepsIInv, OutputsKeepIInv, TickKeepsIInv
  DEF Next, Loop
<1> QED
  BY <1>1, <1>3, PTL DEF Spec

\* The state of the composition keeps its type, for every debounce time.
THEOREM TypeCorrect == Spec => []TypeOK
<1>1. IInv => TypeOK
  BY DEF IInv
<1> QED
  BY <1>1, Invariance, PTL

\* Whenever the tool changes the parameter: one control moves header and hitch
\* in the same turn only if the change fell into that turn
\* (header_lift_control.c line 121, hitch_position_control.c line 118).
THEOREM ControlsAreExclusive == Spec => []OneControlOneLoad
<1>1. IInv => OneControlOneLoad
  BY DEF IInv, ControlsBacked, OneControlOneLoad
<1> QED
  BY <1>1, Invariance, PTL

\* For every debounce time: what the loop writes to the valves never unloads
\* both ways or while the hitch is commanded, unless an unload output has a
\* fault (auger_cart_control.c lines 155-210).
THEOREM UnloadingIsExclusive == Spec => []UnloadExclusive
<1>1. IInv => UnloadExclusive
  BY DEF IInv
<1> QED
  BY <1>1, Invariance, PTL

\* For every debounce time: a latch differs from its output only while a
\* fault keeps the output on (auger_cart_control.c lines 193-210).
THEOREM LatchesAreTruthful == Spec => []LatchTellsOutput
<1>1. IInv => LatchTellsOutput
  BY DEF IInv
<1> QED
  BY <1>1, Invariance, PTL
=============================================================================
