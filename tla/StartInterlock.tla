--------------------------- MODULE StartInterlock ---------------------------
(***************************************************************************)
(* The main loop restricted to what may turn the engine over or turn a     *)
(* shaft: engine starter, cleaning chains (shaft drive) and suction fan.   *)
(*                                                                         *)
(* Each controller is one action, in the order main() calls them, so the   *)
(* starter decides on latches the work functions wrote one turn earlier,   *)
(* and the clock may advance between any two of them.  Controllers of the  *)
(* loop that touch none of this state are left out of the phases.  The     *)
(* output handler may fail to write the relay or the shaft pump.           *)
(***************************************************************************)
EXTENDS ToggleButton, EngineStatus

CONSTANTS StartDeb,   \* PROGRAM_START_DEB_MS, 3000 ms
          ButtonDeb,  \* debounce of both buttons, 250 ms
          Unreliable  \* digital outputs the hardware may refuse to switch

ASSUME StartInterlockAssumption ==
  /\ StartDeb \in 1 .. TimeMod - 1
  /\ ButtonDeb \in Nat
  /\ Unreliable \subseteq {"starter", "shaft"}

Phases == {"hwInputs", "engineStarter", "cChains", "suctionFan", "hwOutputs"}
Doors == {"closed", "open", "fault"}
Keys == {"off", "start", "fault"}

VARIABLES
  now,        \* get_system_time_ms()
  phase,      \* the next function main() calls
  door,       \* CAB_DOOR as sampled in this turn
  turning,    \* engine speed >= 450 rpm, as sampled in this turn
  engine,     \* engine status and start time
  chains,     \* cleaning chains toggle button, state = u8_shaft_drive_latched
  fan,        \* suction fan toggle button, state = u8_enable_latched
  fault,      \* is the shaft pump's output at fault, as diagnosed last turn?
  out,        \* values set with set_outputValue: is the output driven?
  prev,       \* f32_prevOutputValue: values the output handler last noted
  hw,         \* what the hardware does
  stuck,      \* history: outputs whose last write failed
  neutralSafe,\* u8_neutral_safe_status sent to the display
  settled     \* history: ms the engine has been seen running, up to StartDeb

vars == <<now, phase, door, turning, engine, chains, fan, fault, out, prev, hw,
          stuck, neutralSafe, settled>>
outputs == <<prev, hw, stuck>>

NEUTRAL_SAFE_FALSE == 0
NEUTRAL_SAFE_TRUE == 1

Outputs == [starter : BOOLEAN, shaft : BOOLEAN]
AllOff == [starter |-> FALSE, shaft |-> FALSE]

Init ==
  /\ now = 0
  /\ phase = "hwInputs"
  /\ door = "open"
  /\ turning = FALSE
  /\ engine = engineInit
  /\ chains = toggleButton_init
  /\ fan = toggleButton_init
  /\ fault = FALSE
  /\ out = AllOff
  /\ prev = AllOff
  /\ hw = AllOff
  /\ stuck = {}
  /\ neutralSafe = NEUTRAL_SAFE_FALSE
  /\ settled = 0

Saturate(n, max) == IF n > max THEN max ELSE n

\* Time passes between the calls of the loop.
Tick ==
  /\ now' = Later(now, 1)
  /\ settled' = IF engine.running THEN Saturate(settled + 1, StartDeb) ELSE 0
  /\ UNCHANGED <<phase, door, turning, engine, chains, fan, fault, out, outputs,
                 neutralSafe>>

\* update_hwInputs and update_canInputs: the samples this turn works on.
UpdateInputs ==
  /\ phase = "hwInputs"
  /\ phase' = "engineStarter"
  /\ door' \in Doors
  /\ turning' \in BOOLEAN
  /\ UNCHANGED <<now, engine, chains, fan, fault, out, outputs, neutralSafe,
                 settled>>

\* With the engine off, the permissives for cranking: joystick in neutral and
\* both drives off (latches of the previous turn).
StartPermitted(running, neutral) == ~running => neutral /\ ~fan.state /\ ~chains.state

UpdateEngineStarter ==
  /\ phase = "engineStarter"
  /\ phase' = "cChains"
  /\ engine' = check_engineStatus(engine, now, turning)
  /\ \E key \in Keys, neutral \in BOOLEAN :
       LET permitted == StartPermitted(turning, neutral) IN
       /\ neutralSafe' = IF permitted THEN NEUTRAL_SAFE_FALSE ELSE NEUTRAL_SAFE_TRUE
       /\ out' = [out EXCEPT !.starter = key = "start" /\ permitted /\ ~turning]
  /\ settled' = IF turning /\ engine.running THEN settled ELSE 0
  /\ UNCHANGED <<now, door, turning, chains, fan, fault, outputs>>

Runtime == get_engineRuntime(engine, now)

\* Faulty variant: the start-up debounce is forgotten.
ChainsResetNoDebounce == door # "closed" \/ fault

ChainsReset == door # "closed" \/ Runtime < StartDeb \/ fault

UpdateCChains ==
  /\ phase = "cChains"
  /\ phase' = "suctionFan"
  /\ \E pressed \in BOOLEAN :
       chains' = toggleButton(chains, now, pressed, ChainsReset, ButtonDeb, FALSE)
  /\ out' = [out EXCEPT !.shaft = chains'.state]
  /\ UNCHANGED <<now, door, turning, engine, fan, fault, outputs, neutralSafe,
                 settled>>

\* Faulty variant: the interlocks are only looked at to enable the fan.
FanResetToEnable(speedFault) ==
  \/ speedFault
  \/ ~fan.state /\ (door # "closed" \/ ~engine.running \/ Runtime < StartDeb)

FanReset(speedFault) ==
  door # "closed" \/ ~engine.running \/ Runtime < StartDeb \/ speedFault

\* The latch of the suction fan.  The speed control after it drives an output
\* of its own, FAN_HYDRO_FWD (see SuctionFan), which nothing here reads.
UpdateSuctionFan ==
  /\ phase = "suctionFan"
  /\ phase' = "hwOutputs"
  /\ \E pressed, speedFault \in BOOLEAN :
       fan' = toggleButton(fan, now, pressed, FanReset(speedFault), ButtonDeb, FALSE)
  /\ UNCHANGED <<now, door, turning, engine, chains, fault, out, outputs,
                 neutralSafe, settled>>

\* Faulty variant: an output once switched on is not compared any more.
ChangedUnlessOn == {o \in DOMAIN out : out[o] /\ ~prev[o]}

Changed == {o \in DOMAIN out : out[o] # prev[o]}

\* update_hwOutputs: diagnose the outputs and write the changed values.  The
\* value is noted even if the write failed, which is not tried again before
\* the value changes.
UpdateOutputs ==
  /\ phase = "hwOutputs"
  /\ phase' = "hwInputs"
  /\ fault' \in BOOLEAN
  /\ \E failed \in SUBSET (Changed \cap Unreliable) :
       /\ hw' = [o \in DOMAIN out |-> IF o \in Changed \ failed THEN out[o] ELSE hw[o]]
       /\ stuck' = (stuck \ Changed) \cup failed
  /\ prev' = out
  /\ UNCHANGED <<now, door, turning, engine, chains, fan, out, neutralSafe,
                 settled>>

Loop == \/ UpdateInputs
        \/ UpdateEngineStarter
        \/ UpdateCChains
        \/ UpdateSuctionFan
        \/ UpdateOutputs

Next == Tick \/ Loop

Spec == Init /\ [][Next]_vars

\* The main loop never stops turning.
FairSpec == Spec /\ WF_vars(Loop)

-----------------------------------------------------------------------------
TypeOK ==
  /\ now \in Time
  /\ phase \in Phases
  /\ door \in Doors
  /\ turning \in BOOLEAN
  /\ engine \in EngineState
  /\ chains \in Button
  /\ fan \in Button
  /\ fault \in BOOLEAN
  /\ out \in Outputs
  /\ prev \in Outputs
  /\ hw \in Outputs
  /\ stuck \subseteq Unreliable
  /\ neutralSafe \in {NEUTRAL_SAFE_FALSE, NEUTRAL_SAFE_TRUE}
  /\ settled \in 0 .. StartDeb

\* What the hardware does because it was told to, not because it failed to.
Driven(o) == hw[o] /\ o \notin stuck

\* The starter never turns the engine over while a shaft drive or the suction
\* fan is enabled, or while the shaft pump is driven, at any point of the loop:
\* although the starter reads latches one turn old and the relay is switched
\* only at the end of the turn (FR-12.3, engine_starter_control.c line 161).
\* Only an output the handler failed to switch off is exempt.
CrankingExcludesDrives ==
  Driven("starter") => ~chains.state /\ ~fan.state /\ ~Driven("shaft")

\* Between two turns of the loop, a drive that is enabled belongs to an engine
\* that has really been running for the whole start-up debounce, with the door
\* last seen closed, and an engaged starter to an engine that is not running;
\* also across engine stalls, restarts and a wrap of the clock
\* (FR-5.3, FR-8.2: suction_fan_control.c line 198, cleaning_chains line 148).
DrivesOnlyWhenSettled ==
  phase = "hwInputs" =>
    /\ chains.state \/ fan.state \/ Driven("shaft")
         => engine.running /\ settled = StartDeb /\ door = "closed"
    /\ Driven("starter") => ~engine.running

Protocol == INSTANCE DriveProtocol WITH
  running <- engine.running, settled <- settled = StartDeb,
  closed <- door = "closed", cranking <- Driven("starter"),
  chains <- chains.state, fan <- fan.state, pump <- Driven("shaft")

\* Whatever the order of calls, samples and clock ticks in a turn, what can be
\* seen from outside follows the protocol: each switching on is a step of its
\* own out of a state that permits it, no engine begins to run, cranked or
\* not, under a drive enabled before, and the pump is driven only under an
\* enabled shaft drive (FR-5.3, FR-8.2, FR-12.3).
FollowsProtocol == Protocol!Spec

\* A persistently open door stops both drives and the shaft pump for good,
\* unless the write that switches the pump off fails: then nothing ever
\* switches it off (output_handler_lib.c line 221).
OpenDoorStops ==
  <>[](door # "closed") => <>[](~Driven("shaft") /\ ~chains.state /\ ~fan.state)
=============================================================================
