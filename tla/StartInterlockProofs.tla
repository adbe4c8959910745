------------------------ MODULE StartInterlockProofs ------------------------
(***************************************************************************)
(* The starter interlock and the start-up debounce hold for every clock    *)
(* width and every setting of the debounce times.                          *)
(***************************************************************************)
EXTENDS StartInterlock, TLAPS

\* The engine's start time never makes its run time look longer than it is.
RuntimeTruthful ==
  engine.running => Saturate(Elapsed(now, engine.startTime), StartDeb) <= settled

\* What a drive enabled by its controller in this turn relies on.
Released == engine.running /\ settled = StartDeb /\ door = "closed"

\* A drive's latch is backed by the samples of the turn from the moment its
\* controller ran until the next turn takes new samples.
DrivesBacked ==
  /\ chains.state /\ phase \in {"suctionFan", "hwOutputs", "hwInputs"} => Released
  /\ fan.state /\ phase \in {"hwOutputs", "hwInputs"} => Released
  /\ (chains.state \/ fan.state) /\ phase = "engineStarter" => engine.running
  /\ out.shaft = chains.state
  /\ phase \in {"hwInputs", "engineStarter", "cChains"} => prev.shaft = out.shaft

\* A starter that is or will be engaged: the engine stood still when that was
\* decided, and the drives whose controllers ran since are off and disarmed,
\* so that they need a release, hence one more turn, to be enabled again.
CrankBacked ==
  /\ out.starter => ~engine.running /\ ~prev.shaft
  /\ phase \in {"hwInputs", "engineStarter"} => prev.starter = out.starter
  /\ out.starter /\ phase \in {"suctionFan", "hwOutputs"} => ~chains.state /\ ~chains.set
  /\ out.starter /\ phase = "hwOutputs" => ~fan.state /\ ~fan.set
  /\ prev.starter => ~chains.state /\ ~fan.state /\ ~prev.shaft
  /\ prev.starter /\ phase \in {"hwInputs", "engineStarter", "cChains"} => ~chains.set
  /\ prev.starter /\ phase # "hwOutputs" => ~fan.set

\* The hardware does what the output handler noted, unless it failed to.
HardwareBacked == \A o \in {"starter", "shaft"} : Driven(o) => prev[o]

IInv == TypeOK /\ RuntimeTruthful /\ DrivesBacked /\ CrankBacked /\ HardwareBacked

USE TimeModAssumption, StartInterlockAssumption

\* The wrapping clock ages a time stamp by at most the time that passed.
LEMMA ClockLemma ==
  ASSUME NEW t \in Time, NEW s \in Time
  PROVE  /\ Later(t, 1) \in Time
         /\ Elapsed(t, s) \in Time
         /\ Elapsed(t, t) = 0
         /\ Elapsed(Later(t, 1), s) <= Elapsed(t, s) + 1
  BY DEF Later, Elapsed, Time

LEMMA SaturateType ==
  ASSUME NEW n \in Nat
  PROVE  Saturate(n, StartDeb) \in 0 .. StartDeb
  BY DEF Saturate

\* A call of the helper gives a button; a reset one is off and disarmed, and
\* a button that is off and disarmed stays off.
LEMMA ButtonLemma ==
  ASSUME NEW b \in Button, NEW t \in Time, NEW raw \in BOOLEAN,
         NEW reset \in BOOLEAN
  PROVE  LET c == toggleButton(b, t, raw, reset, ButtonDeb, FALSE) IN
         /\ c \in Button
         /\ reset => ~c.state /\ ~c.set
         /\ ~b.state /\ ~b.set => ~c.state
<1>1. 0 \in Time
  BY DEF Time
<1>2. CASE reset
  BY <1>1, <1>2 DEF toggleButton, ResetButton, Button
<1>3. CASE ~reset /\ ~raw
  BY <1>1, <1>3 DEF toggleButton, ReleasedButton, Button
<1>4. CASE ~reset /\ raw
  <2>1. PressStart(b, t) \in Time
    BY DEF PressStart, Button
  <2>2. Toggles(b, t, ButtonDeb) \in BOOLEAN /\ (~b.set => ~Toggles(b, t, ButtonDeb))
    BY DEF Toggles, Button
  <2>3. toggleButton(b, t, raw, reset, ButtonDeb, FALSE) = PressedButton(b, t, ButtonDeb)
    BY <1>4 DEF toggleButton
  <2>4. PressedButton(b, t, ButtonDeb) \in Button
    BY <2>1, <2>2 DEF PressedButton, Button
  <2>5. ~b.state /\ ~b.set => ~PressedButton(b, t, ButtonDeb).state
    BY <2>2 DEF PressedButton
  <2> QED
    BY <1>4, <2>3, <2>4, <2>5
<1> QED
  BY <1>2, <1>3, <1>4

\* A run time that has passed the debounce has really been observed.
LEMMA RuntimeLemma ==
  ASSUME TypeOK, RuntimeTruthful
  PROVE  /\ ~engine.running => Runtime < StartDeb
         /\ ~(Runtime < StartDeb) => engine.running /\ settled = StartDeb
<1>1. ~engine.running => Runtime = 0
  BY DEF Runtime, get_engineRuntime
<1>2. ASSUME engine.running, ~(Runtime < StartDeb)
      PROVE  settled = StartDeb
  <2>1. Runtime = Elapsed(now, engine.startTime) /\ Runtime \in Time
    BY <1>2, ClockLemma DEF Runtime, get_engineRuntime, TypeOK, EngineState
  <2>2. Saturate(Runtime, StartDeb) = StartDeb
    BY <1>2, <2>1 DEF Saturate, Time
  <2> QED
    BY <1>2, <2>1, <2>2 DEF RuntimeTruthful, TypeOK
<1> QED
  BY <1>1, <1>2

LEMMA TickKeepsIInv == IInv /\ Tick => IInv'
<1> SUFFICES ASSUME IInv, Tick PROVE IInv'
  OBVIOUS
<1> USE DEF IInv, Tick, outputs
<1>1. TypeOK'
  BY ClockLemma DEF TypeOK, Saturate
<1>2. RuntimeTruthful'
  <2> SUFFICES ASSUME engine.running
               PROVE  Saturate(Elapsed(now', engine.startTime), StartDeb) <= settled'
    BY DEF RuntimeTruthful
  <2>1. /\ Elapsed(now, engine.startTime) \in Nat
        /\ Elapsed(now', engine.startTime) \in Nat
        /\ Elapsed(now', engine.startTime) <= Elapsed(now, engine.startTime) + 1
    BY <1>1, ClockLemma DEF TypeOK, EngineState, Time
  <2>2. settled' = Saturate(settled + 1, StartDeb)
    OBVIOUS
  <2>3. Saturate(Elapsed(now, engine.startTime), StartDeb) <= settled
    BY DEF RuntimeTruthful
  <2> QED
    BY <2>1, <2>2, <2>3 DEF Saturate, TypeOK
<1>3. DrivesBacked'
  BY DEF DrivesBacked, Released, TypeOK, Saturate
<1>4. CrankBacked'
  BY DEF CrankBacked
<1>5. HardwareBacked'
  BY DEF HardwareBacked, Driven
<1> QED
  BY <1>1, <1>2, <1>3, <1>4, <1>5

LEMMA InputsKeepIInv == IInv /\ UpdateInputs => IInv'
  BY DEF IInv, UpdateInputs, TypeOK, RuntimeTruthful, DrivesBacked, Released,
         CrankBacked, HardwareBacked, Driven, outputs, Phases

LEMMA EngineStarterKeepsIInv == IInv /\ UpdateEngineStarter => IInv'
<1> SUFFICES ASSUME IInv, UpdateEngineStarter PROVE IInv'
  OBVIOUS
<1> USE DEF IInv
<1>1. PICK cmd \in BOOLEAN, report \in {NEUTRAL_SAFE_FALSE, NEUTRAL_SAFE_TRUE} :
        /\ neutralSafe' = report
        /\ out' = [out EXCEPT !.starter = cmd]
        /\ cmd => ~turning /\ ~chains.state
  BY DEF UpdateEngineStarter, StartPermitted
<1>2. engine' = check_engineStatus(engine, now, turning)
  BY DEF UpdateEngineStarter
<1>3. /\ engine' \in EngineState
      /\ engine'.running = turning
      /\ turning /\ engine.running => engine'.startTime = engine.startTime
      /\ turning /\ ~engine.running => engine'.startTime = now
  BY <1>2 DEF check_engineStatus, EngineState, TypeOK
<1>4. TypeOK'
  BY <1>1, <1>3 DEF UpdateEngineStarter, outputs, TypeOK, Outputs, Phases
<1>5. RuntimeTruthful'
  <2>1. CASE turning /\ engine.running
    BY <1>3, <2>1 DEF RuntimeTruthful, UpdateEngineStarter
  <2>2. CASE turning /\ ~engine.running
    <3>1. Elapsed(now', engine'.startTime) = 0 /\ settled' = 0
      BY <1>3, <2>2, ClockLemma DEF UpdateEngineStarter, outputs, TypeOK
    <3> QED
      BY <3>1 DEF RuntimeTruthful, Saturate
  <2>3. CASE ~turning
    BY <1>3, <2>3 DEF RuntimeTruthful
  <2> QED
    BY <2>1, <2>2, <2>3 DEF TypeOK
<1>6. DrivesBacked'
  BY <1>1 DEF UpdateEngineStarter, outputs, DrivesBacked, TypeOK, Outputs
<1>7. CrankBacked'
  BY <1>1, <1>3 DEF UpdateEngineStarter, outputs, CrankBacked, DrivesBacked, TypeOK, Outputs
<1>8. HardwareBacked'
  BY DEF UpdateEngineStarter, outputs, HardwareBacked, Driven
<1> QED
  BY <1>4, <1>5, <1>6, <1>7, <1>8

LEMMA CChainsKeepIInv == IInv /\ UpdateCChains => IInv'
<1> SUFFICES ASSUME IInv, UpdateCChains PROVE IInv'
  OBVIOUS
<1> USE DEF IInv
<1>1. PICK pressed \in BOOLEAN :
        chains' = toggleButton(chains, now, pressed, ChainsReset, ButtonDeb, FALSE)
  BY DEF UpdateCChains
<1>2. ChainsReset \in BOOLEAN
  BY DEF ChainsReset, TypeOK
<1>3. /\ chains' \in Button
      /\ ChainsReset => ~chains'.state /\ ~chains'.set
      /\ ~chains.state /\ ~chains.set => ~chains'.state
  BY <1>1, <1>2, ButtonLemma DEF TypeOK
<1>4. chains'.state => Released
  BY <1>3, RuntimeLemma DEF ChainsReset, Released
<1>5. ~engine.running => ~chains'.state /\ ~chains'.set
  BY <1>3, RuntimeLemma DEF ChainsReset
<1>6. TypeOK'
  BY <1>3 DEF UpdateCChains, outputs, TypeOK, Outputs, Button, Phases
<1>7. RuntimeTruthful'
  BY DEF UpdateCChains, outputs, RuntimeTruthful
<1>8. DrivesBacked'
  BY <1>4 DEF UpdateCChains, outputs, DrivesBacked, Released, TypeOK, Outputs
<1>9. CrankBacked'
  BY <1>3, <1>5 DEF UpdateCChains, outputs, CrankBacked, TypeOK, Outputs
<1>10. HardwareBacked'
  BY DEF UpdateCChains, outputs, HardwareBacked, Driven
<1> QED
  BY <1>6, <1>7, <1>8, <1>9, <1>10

LEMMA SuctionFanKeepsIInv == IInv /\ UpdateSuctionFan => IInv'
<1> SUFFICES ASSUME IInv, UpdateSuctionFan PROVE IInv'
  OBVIOUS
<1> USE DEF IInv
<1>1. PICK pressed \in BOOLEAN, speedFault \in BOOLEAN :
        fan' = toggleButton(fan, now, pressed, FanReset(speedFault), ButtonDeb, FALSE)
  BY DEF UpdateSuctionFan
<1>2. FanReset(speedFault) \in BOOLEAN
  BY DEF FanReset, TypeOK, EngineState
<1>3. /\ fan' \in Button
      /\ FanReset(speedFault) => ~fan'.state /\ ~fan'.set
      /\ ~fan.state /\ ~fan.set => ~fan'.state
  BY <1>1, <1>2, ButtonLemma DEF TypeOK
<1>4. fan'.state => Released
  BY <1>3, RuntimeLemma DEF FanReset, Released
<1>5. ~engine.running => ~fan'.state /\ ~fan'.set
  BY <1>3 DEF FanReset
<1>6. TypeOK'
  BY <1>3 DEF UpdateSuctionFan, outputs, TypeOK, Phases
<1>7. RuntimeTruthful'
  BY DEF UpdateSuctionFan, outputs, RuntimeTruthful
<1>8. DrivesBacked'
  BY <1>4 DEF UpdateSuctionFan, outputs, DrivesBacked, Released
<1>9. CrankBacked'
  BY <1>3, <1>5 DEF UpdateSuctionFan, outputs, CrankBacked
<1>10. HardwareBacked'
  BY DEF UpdateSuctionFan, outputs, HardwareBacked, Driven
<1> QED
  BY <1>6, <1>7, <1>8, <1>9, <1>10

LEMMA OutputsKeepIInv == IInv /\ UpdateOutputs => IInv'
<1> SUFFICES ASSUME IInv, UpdateOutputs PROVE IInv'
  OBVIOUS
<1> USE DEF IInv, UpdateOutputs
<1>1. PICK failed \in SUBSET (Changed \cap Unreliable) :
        /\ hw' = [o \in DOMAIN out |-> IF o \in Changed \ failed THEN out[o] ELSE hw[o]]
        /\ stuck' = (stuck \ Changed) \cup failed
  OBVIOUS
<1>2. DOMAIN out = {"starter", "shaft"}
  BY DEF TypeOK, Outputs
<1>3. hw' \in Outputs /\ \A o \in DOMAIN out :
        hw'[o] = IF o \in Changed \ failed THEN out[o] ELSE hw[o]
  BY <1>1, <1>2 DEF TypeOK, Outputs
<1>4. TypeOK'
  BY <1>1, <1>3 DEF TypeOK, Phases
<1>5. RuntimeTruthful'
  BY DEF RuntimeTruthful
<1>6. DrivesBacked'
  BY DEF DrivesBacked, Released
<1>7. CrankBacked'
  BY DEF CrankBacked, DrivesBacked
<1>8. HardwareBacked'
  <2> SUFFICES ASSUME NEW o \in {"starter", "shaft"}, hw'[o], o \notin stuck'
               PROVE  out[o]
    BY DEF HardwareBacked, Driven
  <2>1. CASE o \in Changed
    BY <1>1, <1>2, <1>3, <2>1
  <2>2. CASE o \notin Changed
    <3>1. hw[o] /\ o \notin stuck /\ out[o] = prev[o]
      BY <1>1, <1>2, <1>3, <2>2 DEF Changed
    <3> QED
      BY <3>1 DEF HardwareBacked, Driven
  <2> QED
    BY <2>1, <2>2
<1> QED
  BY <1>4, <1>5, <1>6, <1>7, <1>8

LEMMA InitIInv == Init => IInv
<1>1. 0 \in Time
  BY DEF Time
<1>2. /\ toggleButton_init \in Button
      /\ toggleButton_init.state = FALSE
      /\ engineInit \in EngineState
      /\ engineInit.running = FALSE
  BY <1>1 DEF toggleButton_init, Button, engineInit, EngineState
<1>3. AllOff \in Outputs /\ AllOff.starter = FALSE /\ AllOff.shaft = FALSE
  BY DEF AllOff, Outputs
<1>4. Init => TypeOK
  <2>1. "hwInputs" \in Phases /\ "open" \in Doors
    BY DEF Phases, Doors
  <2>2. 0 \in 0 .. StartDeb
    OBVIOUS
  <2> QED
    BY <1>1, <1>2, <1>3, <2>1, <2>2 DEF Init, TypeOK
<1>5. Init => RuntimeTruthful /\ DrivesBacked /\ CrankBacked /\ HardwareBacked
  BY <1>2, <1>3 DEF Init, RuntimeTruthful, DrivesBacked, CrankBacked,
                    HardwareBacked, Driven
<1> QED
  BY <1>4, <1>5 DEF IInv

LEMMA SpecIInv == Spec => []IInv
<1>1. IInv /\ [Next]_vars => IInv'
  <2>1. IInv /\ UNCHANGED vars => IInv'
    BY DEF vars, IInv, TypeOK, RuntimeTruthful, DrivesBacked, Released, CrankBacked,
           HardwareBacked, Driven
  <2> QED
    BY <2>1, TickKeepsIInv, InputsKeepIInv, EngineStarterKeepsIInv,
       CChainsKeepIInv, SuctionFanKeepsIInv, OutputsKeepIInv DEF Next, Loop
<1> QED
  BY <1>1, InitIInv, PTL DEF Spec

\* Type correctness of the loop, for every setting of the constants.
THEOREM TypeCorrect == Spec => []TypeOK
<1>1. IInv => TypeOK
  BY DEF IInv
<1> QED
  BY <1>1, SpecIInv, PTL

\* The starter never cranks with a drive enabled, although it decides on
\* latches that are one turn of the loop old.
THEOREM CrankingIsSafe == Spec => []CrankingExcludesDrives
<1>1. IInv => CrankingExcludesDrives
  BY DEF IInv, CrankBacked, HardwareBacked, CrankingExcludesDrives
<1> QED
  BY <1>1, SpecIInv, PTL

\* No drive is enabled before the engine has really run for the start-up
\* debounce, whatever the clock width and the debounce times.
THEOREM DrivesAreSettled == Spec => []DrivesOnlyWhenSettled
<1>1. IInv => DrivesOnlyWhenSettled
  BY DEF IInv, DrivesBacked, Released, CrankBacked, HardwareBacked, DrivesOnlyWhenSettled
<1> QED
  BY <1>1, SpecIInv, PTL
\* What the loop looks like from outside, apart from the clock.
LEMMA TickFollows ==
  ASSUME IInv, Tick
  PROVE  Protocol!Next \/ UNCHANGED Protocol!vars
<1>1. UNCHANGED <<engine.running, door = "closed", Driven("starter"), chains.state,
                  fan.state, Driven("shaft")>>
  BY DEF Tick, outputs, Driven
<1>2. CASE engine.running
  <2>1. settled = StartDeb => settled' = StartDeb
    BY <1>2 DEF Tick, Saturate, IInv, TypeOK
  <2>2. CASE settled' = StartDeb
    BY <1>1, <1>2, <2>2 DEF Protocol!Next, Protocol!EngineSettles, Protocol!drives
  <2>3. CASE settled' # StartDeb
    <3>1. UNCHANGED (settled = StartDeb)
      BY <2>1, <2>3
    <3> QED
      BY <1>1, <3>1 DEF Protocol!vars
  <2> QED
    BY <2>2, <2>3
<1>3. CASE ~engine.running
  <2>1. engine.running' = FALSE /\ (settled' = StartDeb) = FALSE
    BY <1>3 DEF Tick
  <2> QED
    BY <1>1, <2>1 DEF Protocol!Next, Protocol!EngineStops, Protocol!drives
<1> QED
  BY <1>2, <1>3

\* New samples change nothing but what is known of the door.
LEMMA InputsFollow ==
  ASSUME IInv, UpdateInputs
  PROVE  Protocol!Next
<1>1. UNCHANGED <<engine.running, settled = StartDeb, Driven("starter"), chains.state,
                  fan.state, Driven("shaft")>>
  BY DEF UpdateInputs, outputs, Driven
<1>2. (door = "closed")' \in BOOLEAN
  OBVIOUS
<1> QED
  BY <1>1, <1>2 DEF Protocol!Next, Protocol!Door, Protocol!drives

\* A drive that is still enabled when the starter is called belongs to an
\* engine that was running then: an engine starts with all of them off.
LEMMA EngineStarterFollows ==
  ASSUME IInv, UpdateEngineStarter
  PROVE  Protocol!Next \/ UNCHANGED Protocol!vars
<1>1. UNCHANGED <<door = "closed", Driven("starter"), chains.state, fan.state, Driven("shaft")>>
  BY DEF UpdateEngineStarter, outputs, Driven
<1>2. engine.running' = turning /\ turning \in BOOLEAN
  BY DEF UpdateEngineStarter, check_engineStatus, IInv, TypeOK
<1>3. CASE ~turning
  <2>1. (settled = StartDeb)' = FALSE
    BY <1>3 DEF UpdateEngineStarter
  <2> QED
    BY <1>1, <1>2, <1>3, <2>1 DEF Protocol!Next, Protocol!EngineStops, Protocol!drives
<1>4. CASE turning /\ engine.running
  <2>1. UNCHANGED <<engine.running, settled = StartDeb>>
    BY <1>2, <1>4 DEF UpdateEngineStarter
  <2> QED
    BY <1>1, <2>1 DEF Protocol!vars
<1>5. CASE turning /\ ~engine.running
  <2>1. (settled = StartDeb)' = FALSE
    BY <1>5 DEF UpdateEngineStarter
  <2>2. ~chains.state /\ ~fan.state /\ ~Driven("shaft")
    BY <1>5 DEF UpdateEngineStarter, IInv, HardwareBacked, DrivesBacked
  <2> QED
    BY <1>1, <1>2, <1>5, <2>1, <2>2 DEF Protocol!Next, Protocol!EngineStarts, Protocol!drives
<1> QED
  BY <1>2, <1>3, <1>4, <1>5

\* The cleaning chains are enabled only by a reset-free call, hence by an
\* engine that has settled; a starter still engaged leaves them disarmed.
LEMMA CChainsFollow ==
  ASSUME IInv, UpdateCChains
  PROVE  Protocol!Next
<1>1. UNCHANGED <<engine.running, settled = StartDeb, door = "closed", fan.state,
                  Driven("starter"), Driven("shaft")>>
  BY DEF UpdateCChains, outputs, Driven
<1>2. IInv'
  BY CChainsKeepIInv
<1>3. chains'.state \in BOOLEAN /\ phase' = "suctionFan" /\ prev' = prev
  BY <1>2 DEF UpdateCChains, outputs, IInv, TypeOK, Button
<1>4. CASE chains'.state
  <2>1. engine.running /\ settled = StartDeb /\ door = "closed"
    BY <1>1, <1>2, <1>3, <1>4 DEF UpdateCChains, IInv, DrivesBacked, Released
  <2>2. ~Driven("starter")
    BY <1>2, <1>3, <1>4 DEF IInv, CrankBacked, HardwareBacked
  <2> QED
    BY <1>1, <1>3, <1>4, <2>1, <2>2
       DEF Protocol!Next, Protocol!EnableChains, Protocol!Ready
<1>5. CASE ~chains'.state
  BY <1>1, <1>3, <1>5 DEF Protocol!Next, Protocol!SwitchOff
<1> QED
  BY <1>4, <1>5

LEMMA SuctionFanFollows ==
  ASSUME IInv, UpdateSuctionFan
  PROVE  Protocol!Next
<1>1. UNCHANGED <<engine.running, settled = StartDeb, door = "closed", chains.state,
                  Driven("starter"), Driven("shaft")>>
  BY DEF UpdateSuctionFan, outputs, Driven
<1>2. IInv'
  BY SuctionFanKeepsIInv
<1>3. fan'.state \in BOOLEAN /\ phase' = "hwOutputs" /\ prev' = prev
  BY <1>2 DEF UpdateSuctionFan, outputs, IInv, TypeOK, Button
<1>4. CASE fan'.state
  <2>1. engine.running /\ settled = StartDeb /\ door = "closed"
    BY <1>1, <1>2, <1>3, <1>4 DEF UpdateSuctionFan, IInv, DrivesBacked, Released
  <2>2. ~Driven("starter")
    BY <1>2, <1>3, <1>4 DEF IInv, CrankBacked, HardwareBacked
  <2> QED
    BY <1>1, <1>3, <1>4, <2>1, <2>2
       DEF Protocol!Next, Protocol!EnableFan, Protocol!Ready
<1>5. CASE ~fan'.state
  BY <1>1, <1>3, <1>5 DEF Protocol!Next, Protocol!SwitchOff
<1> QED
  BY <1>4, <1>5

\* The outputs of a turn switch on the starter or the pump, never both, and
\* never in the turn in which the other one is switched off.
LEMMA OutputsFollow ==
  ASSUME IInv, UpdateOutputs
  PROVE  Protocol!Next
<1>1. /\ UNCHANGED <<engine.running, settled = StartDeb, door = "closed", chains.state,
                     fan.state>>
      /\ phase = "hwOutputs" /\ prev' = out
  BY DEF UpdateOutputs
<1>2. IInv'
  BY OutputsKeepIInv
<1>3. \A o \in {"starter", "shaft"} : Driven(o)' => out[o]
  BY <1>1, <1>2 DEF IInv, HardwareBacked
<1>4. /\ out.starter => ~engine.running /\ ~chains.state /\ ~fan.state /\ ~prev.shaft
      /\ out.shaft => chains.state /\ ~prev.starter /\ engine.running
                      /\ settled = StartDeb /\ door = "closed"
  BY <1>1 DEF IInv, CrankBacked, DrivesBacked, Released
<1>5. /\ {Driven("starter"), Driven("shaft")} \subseteq BOOLEAN
      /\ {Driven("starter")', Driven("shaft")'} \subseteq BOOLEAN
  BY <1>2 DEF IInv, TypeOK, Outputs, Driven
<1>6. /\ Driven("starter") => prev.starter
      /\ Driven("shaft") => prev.shaft
  BY DEF IInv, HardwareBacked
<1>7. CASE Driven("starter")'
  BY <1>1, <1>3, <1>4, <1>5, <1>6, <1>7
     DEF Protocol!Next, Protocol!Crank, Protocol!drives
<1>8. CASE Driven("shaft")'
  BY <1>1, <1>3, <1>4, <1>5, <1>6, <1>8
     DEF Protocol!Next, Protocol!DrivePump, Protocol!Ready
<1>9. CASE ~Driven("starter")' /\ ~Driven("shaft")'
  BY <1>1, <1>5, <1>9 DEF Protocol!Next, Protocol!SwitchOff
<1> QED
  BY <1>7, <1>8, <1>9

\* The loop implements the protocol for every clock width and every setting of
\* the debounce times: initial states map to initial states, and every step to
\* a step of the protocol or to none.
THEOREM LoopFollowsProtocol == Spec => FollowsProtocol
<1>1. Init => Protocol!Init
  <2> SUFFICES ASSUME Init PROVE Protocol!Init
    OBVIOUS
  <2>1. engine.running = FALSE /\ chains.state = FALSE /\ fan.state = FALSE
    BY DEF Init, engineInit, toggleButton_init
  <2>2. settled # StartDeb /\ door # "closed"
    BY DEF Init
  <2>3. ~Driven("starter") /\ ~Driven("shaft")
    BY DEF Init, Driven, AllOff
  <2> QED
    BY <2>1, <2>2, <2>3 DEF Protocol!Init
<1>2. IInv /\ [Next]_vars => [Protocol!Next]_(Protocol!vars)
  <2>1. CASE UNCHANGED vars
    BY <2>1 DEF vars, Protocol!vars, Driven
  <2> QED
    BY <2>1, TickFollows, InputsFollow, EngineStarterFollows, CChainsFollow,
       SuctionFanFollows, OutputsFollow DEF Next, Loop
<1> QED
  BY <1>1, <1>2, SpecIInv, PTL DEF Spec, FollowsProtocol, Protocol!Spec
\* Where the loop has got to since the door was opened: the controllers of both
\* drives and the output handler have to run once each, in the order of main().
Open == door # "closed"
Before(ph) == phase = ph
FanNext == Before("suctionFan") /\ ~chains.state
OutputsNext == Before("hwOutputs") /\ ~chains.state /\ ~fan.state
AllStopped == ~chains.state /\ ~fan.state /\ ~prev.shaft

\* While the door is open, a latch that is off stays off, and with both off a
\* shaft pump noted as off is not driven again.
LEMMA OpenDoorKeepsOff ==
  ASSUME IInv, Open, [Next]_vars
  PROVE  /\ ~chains.state => ~chains'.state
         /\ ~fan.state => ~fan'.state
         /\ AllStopped => AllStopped'
<1>1. ~chains.state => ~chains'.state
  <2>1. CASE UpdateCChains
    <3>1. PICK pressed \in BOOLEAN :
            chains' = toggleButton(chains, now, pressed, ChainsReset, ButtonDeb, FALSE)
      BY <2>1 DEF UpdateCChains
    <3>2. ChainsReset = TRUE
      BY DEF ChainsReset, Open
    <3> QED
      BY <3>1, <3>2, ButtonLemma DEF IInv, TypeOK
  <2> QED
    BY <2>1 DEF Next, Loop, vars, Tick, UpdateInputs, UpdateEngineStarter,
                UpdateSuctionFan, UpdateOutputs
<1>2. ~fan.state => ~fan'.state
  <2>1. CASE UpdateSuctionFan
    <3>1. PICK pressed \in BOOLEAN, speedFault \in BOOLEAN :
            fan' = toggleButton(fan, now, pressed, FanReset(speedFault), ButtonDeb, FALSE)
      BY <2>1 DEF UpdateSuctionFan
    <3>2. FanReset(speedFault) = TRUE
      BY DEF FanReset, Open
    <3> QED
      BY <3>1, <3>2, ButtonLemma DEF IInv, TypeOK
  <2> QED
    BY <2>1 DEF Next, Loop, vars, Tick, UpdateInputs, UpdateEngineStarter,
                UpdateCChains, UpdateOutputs
<1>3. ASSUME AllStopped PROVE ~prev'.shaft
  <2>1. CASE UpdateOutputs
    <3>1. ~out.shaft
      BY <1>3 DEF AllStopped, IInv, DrivesBacked
    <3> QED
      BY <2>1, <3>1 DEF UpdateOutputs
  <2> QED
    BY <1>3, <2>1 DEF AllStopped, Next, Loop, vars, outputs, Tick, UpdateInputs,
                      UpdateEngineStarter, UpdateCChains, UpdateSuctionFan
<1> QED
  BY <1>1, <1>2, <1>3 DEF AllStopped

\* One call of the loop with the door open.
LEMMA OpenDoorCall ==
  ASSUME IInv, Open, Loop
  PROVE  /\ Before("suctionFan") => Before("hwOutputs")'
         /\ Before("hwOutputs") => Before("hwInputs")'
         /\ Before("hwInputs") => Before("engineStarter")'
         /\ Before("engineStarter") => Before("cChains")'
         /\ Before("cChains") => FanNext'
         /\ FanNext => OutputsNext'
         /\ OutputsNext => AllStopped'
<1>1. /\ ~chains.state => ~chains'.state
      /\ ~fan.state => ~fan'.state
  BY OpenDoorKeepsOff DEF Next
<1>2. Before("cChains") => FanNext'
  <2> SUFFICES ASSUME phase = "cChains" PROVE FanNext'
    BY DEF Before
  <2>1. UpdateCChains
    BY DEF Loop, UpdateInputs, UpdateEngineStarter, UpdateSuctionFan, UpdateOutputs
  <2>2. PICK pressed \in BOOLEAN :
          chains' = toggleButton(chains, now, pressed, ChainsReset, ButtonDeb, FALSE)
    BY <2>1 DEF UpdateCChains
  <2>3. ChainsReset = TRUE
    BY DEF ChainsReset, Open
  <2>4. ~chains'.state
    BY <2>2, <2>3, ButtonLemma DEF IInv, TypeOK
  <2> QED
    BY <2>1, <2>4 DEF UpdateCChains, FanNext, Before
<1>3. FanNext => OutputsNext'
  <2> SUFFICES ASSUME phase = "suctionFan", ~chains.state PROVE OutputsNext'
    BY DEF FanNext, Before
  <2>1. UpdateSuctionFan
    BY DEF Loop, UpdateInputs, UpdateEngineStarter, UpdateCChains, UpdateOutputs
  <2>2. PICK pressed \in BOOLEAN, speedFault \in BOOLEAN :
          fan' = toggleButton(fan, now, pressed, FanReset(speedFault), ButtonDeb, FALSE)
    BY <2>1 DEF UpdateSuctionFan
  <2>3. FanReset(speedFault) = TRUE
    BY DEF FanReset, Open
  <2>4. ~fan'.state
    BY <2>2, <2>3, ButtonLemma DEF IInv, TypeOK
  <2> QED
    BY <1>1, <2>1, <2>4 DEF UpdateSuctionFan, OutputsNext, Before
<1>4. OutputsNext => AllStopped'
  <2> SUFFICES ASSUME phase = "hwOutputs", ~chains.state, ~fan.state PROVE AllStopped'
    BY DEF OutputsNext, Before
  <2>1. UpdateOutputs
    BY DEF Loop, UpdateInputs, UpdateEngineStarter, UpdateCChains, UpdateSuctionFan
  <2>2. ~out.shaft
    BY DEF IInv, DrivesBacked
  <2> QED
    BY <1>1, <2>1, <2>2 DEF UpdateOutputs, AllStopped
<1>5. /\ Before("suctionFan") => Before("hwOutputs")'
      /\ Before("hwOutputs") => Before("hwInputs")'
      /\ Before("hwInputs") => Before("engineStarter")'
      /\ Before("engineStarter") => Before("cChains")'
  BY DEF Before, Loop, UpdateInputs, UpdateEngineStarter, UpdateCChains,
         UpdateSuctionFan, UpdateOutputs
<1> QED
  BY <1>2, <1>3, <1>4, <1>5

\* Between two calls of the loop only time passes.
LEMMA TimeKeepsPlace ==
  ASSUME [Next]_vars, ~Loop
  PROVE  /\ UNCHANGED <<phase, chains, fan, prev>>
         /\ \A ph \in Phases : Before(ph) => Before(ph)'
         /\ FanNext => FanNext'
         /\ OutputsNext => OutputsNext'
  BY DEF Next, Tick, vars, outputs, Before, FanNext, OutputsNext

\* A door that stays open stops both drives and the shaft pump, for every
\* setting of the constants: from wherever the loop was when it was opened, two
\* turns are enough.  All that is asked of the loop is that it gets on.
THEOREM OpenDoorIsObeyed == Spec /\ []<><<Loop>>_vars => OpenDoorStops
<1> DEFINE Stopped == ~Driven("shaft") /\ ~chains.state /\ ~fan.state
<1>1. IInv => \/ Before("hwInputs") \/ Before("engineStarter") \/ Before("cChains")
              \/ Before("suctionFan") \/ Before("hwOutputs")
  BY DEF IInv, TypeOK, Phases, Before
<1>2. IInv /\ Open /\ [Next]_vars
        => /\ Before("suctionFan") => Before("suctionFan")' \/ Before("hwOutputs")'
           /\ Before("hwOutputs") => Before("hwOutputs")' \/ Before("hwInputs")'
           /\ Before("hwInputs") => Before("hwInputs")' \/ Before("engineStarter")'
           /\ Before("engineStarter") => Before("engineStarter")' \/ Before("cChains")'
           /\ Before("cChains") => Before("cChains")' \/ FanNext'
           /\ FanNext => FanNext' \/ OutputsNext'
           /\ OutputsNext => OutputsNext' \/ AllStopped'
  BY OpenDoorCall, TimeKeepsPlace DEF Phases
<1>3. IInv /\ Open /\ <<Loop>>_vars
        => /\ Before("suctionFan") => Before("hwOutputs")'
           /\ Before("hwOutputs") => Before("hwInputs")'
           /\ Before("hwInputs") => Before("engineStarter")'
           /\ Before("engineStarter") => Before("cChains")'
           /\ Before("cChains") => FanNext'
           /\ FanNext => OutputsNext'
           /\ OutputsNext => AllStopped'
  BY OpenDoorCall
<1>4. IInv /\ Open /\ [Next]_vars => (AllStopped => AllStopped')
  BY OpenDoorKeepsOff
<1>5. IInv /\ AllStopped => Stopped
  BY DEF IInv, HardwareBacked, AllStopped
<1>6. Open <=> door # "closed"
  BY DEF Open
<1> HIDE DEF Stopped
<1>7. Spec /\ []<><<Loop>>_vars => (<>[]Open => <>[]Stopped)
  BY <1>1, <1>2, <1>3, <1>4, <1>5, SpecIInv, PTL DEF Spec
<1> QED
  BY <1>6, <1>7, PTL DEF OpenDoorStops, Stopped
=============================================================================
