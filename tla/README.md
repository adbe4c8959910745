# Formal model of the Flory 8772 controller

A TLA+ model of the application on the ESX-4CM-A controller of the Flory 8772
nut harvester: modules translated from the C source, TLC configurations that
check them on small instances, and theorems checked by the TLA+ proof system
(TLAPS) for every value of the constants. Paths without `src/` at the front are
relative to `src/ESX_4CM_A/appl_core/src/`; FR and IR numbers are those of the
code's own comments (the requirement documents are not in the repository).

    tlc -config StartInterlock.cfg StartInterlock     check one configuration
    tlapm StartInterlockProofs.tla                    check the proofs of a module

## 1. The system

One loop (`main.c`, lines 153-205) runs until a reset is requested. Every turn
it reads the inputs, copies the CAN data pool into the control structures, calls
the controllers in a fixed order, copies the results back and writes the outputs:

    update_hwInputs, canInputs, lightControl, powerAssist, propulsion,
    engineStarter, throttle, coolingFan, misc, elevator, header, hitchPos, auger,
    cChains, frontSweeps, rotaryTrap, stickB, stickRemover, suctionFan,
    faultHandler, dashHandler, canOutputs, hwOutputs

The controllers run to completion; what makes them hard is what they keep from
turn to turn (latches, time stamps, ramps, stages), what they read of each other
*before or after* the other one ran in this turn, and outputs that keep their
value while they have a fault. Real concurrency is confined to the openSYDE task
(`opensyde/osy_srv.c`, priority 5, main is priority 0): it receives CAN messages
into the data pool and serves the service tool.

Shared state: the engine status and run time (`get_engineStatus`,
`get_engineRuntime`), the latches behind `get_shaftDriveStatus`,
`get_suctionFanStatus` and `get_hitchPosStatus`, the CAN device structures, the
named inputs and outputs (`get_inputValue`, `set_outputValue`,
`get_outputFaultStatus`), the configuration structures kept in NVM, and the
millisecond clock, a `uint32` that wraps.

### Inventory

| component | state | operations | what is hard | what makes it correct |
|---|---|---|---|---|
| toggle button (`AgvHelper/toggle_button.c`) | latch, armed flag, press time | init, poll with reset | wrap of the clock, 0 as "no press", buttons held through a reset | one toggle per press, after the whole debounce; none after a reset without a release |
| ramp (`AgvHelper/ramp_calc.c`) | output, last call | calculate, set limits and rate | first call, limits that change, 0 as "first call" | moves by at most the rate, unless a limit moves it |
| engine starter, engine status (`AgvChassis/engine_starter_control.c`) | status, start time | status, permissives, relay | decides on latches one turn old; stalls and restarts | never cranks with a drive enabled; run time never too long |
| cleaning chains (`AgvWork/cleaning_chains_control.c`) | latch of the shaft drive | interlocks, latch, output | door, restart inside a turn | enabled only by a settled engine and a closed door |
| suction fan (`AgvWork/suction_fan_control.c`) | latch, ramp, PID | interlocks, latch, speed control | integral kept while disabled, output kept during a fault | latch as above; not driven for good when disabled, which the code does not keep (section 4) |
| auger cart, hitch, header (`AgvWork/auger_cart_control.c`, `hitch_position_control.c`, `AgvChassis/header_lift_control.c`) | two latches; hitch commands; which control moves what | commands, exclusion, outputs | order of the three controllers, a parameter read by two of them, one output at fault | one control moves one load; never unloads both ways or with a moving hitch; latch tells the output |
| cooling fan (`AgvChassis/cooling_fan_control.c`) | stage, previous stage, time stamps, ramp | demand, cleanout requests, stages, safe state | faults abort any stage | stages in order, reverses at standstill, ends |
| elevator, front sweeps, rotary trap (`AgvWork/`) | latch and ramps | targets, limits, outputs | limits that change with range and shaft drive; faults | rest with the shaft drive off; off never speeds up |
| propulsion (`AgvChassis/propulsion_control.c`) | joystick state, cruise control, two buttons, ramp | command, limits, interlocks, valves | command calculated twice a turn around the buttons; clock compared absolutely | neutral closes the valves; cruise control never lets go upwards; current does not jump |
| machine parameters (`System/NVM/nvm_handler.c`, `AgvDiag/dashboard_handler.c`, `opensyde/osy_app.c`, reset in `misc_control.c`) | four copies, dirty mask, reset flag | load, mirror, write event, save, reset | two tasks, power loss, 8 bit mask | what the machine uses survives; the tool has the last word |
| trouble codes (`HAL/alarm_handler_lib.c`, `HAL/nvm_handler_lib.c`, `AgvDiag/fault_handler.c`) | EEPROM block, addresses, counts, flags | register, count, clear, erase | power loss between writes, full block, order of diagnosis and counting | no shared records; counts survive |
| power assist and gear (`AgvChassis/power_assist_control.c`, gear in propulsion) | latch, gear latch | interlocks, valve | reads the gear before it is selected in the turn | no assist in high gear, but for the turn of the shift; a fault restarts nothing |
| stick box, stick remover (`AgvWork/`) | open, close, latch | two modes, shared outputs | faults in the turn of a release; a latch cleared behind its button; mode changes | relays keep their meaning; a fault restarts nothing |
| throttle (`AgvChassis/throttle_control.c`) | command, press time, requested speed | start delay, bump, hold | steps only in turns that meet a multiple of 50 ms, stamps across a wrap | idles after every start; one bump, then steps only in milliseconds a step time apart |
| lighting, misc. functions | lighting mode, edge flags, timers of the filter minder | outputs from inputs, a learned parameter | little is kept between turns | mode cycles; what is learned is saved |
| output and input handlers, hardware tables (`HAL/`) | values, previous values, fault status and modes | diagnose, write | failed writes are noted as written; status and modes are derived differently; failed readings keep the flags | outputs get the last value set; a fault that stops a controller is also counted |
| CAN handler and maps | data pool | copy in, copy out | no time-out of received values | consistent snapshots |
| PID and filters | floating point history | calculate | an integral nothing clears, ticks of a microsecond | bounded outputs |
| openSYDE and J1939 start-up, Ethernet | tasks of the vendor's stack | configuration | vendored | - |
| boot core, safety core, generated pools, test harness | - | - | vendored, generated or not firmware | - |

`PROJECT.json` lists every component with its status, and under `hazards` the
places in this code a test would hardly reach, each with the properties that
cover it or the reason why none does.

## 2. Modules

| module | models | notes |
|---|---|---|
| `SystemTime` | the wrapping millisecond clock and differences of time stamps | `TimeMod` stands for 2^32 |
| `ToggleButton` | the button helper, one call as a function | used by six modules |
| `DebouncedLatch` | *abstract*: what FR-21 and IR-21 promise of a latched button, without time stamps | a held press toggles after the debounce, and within one turn (`MaxCycle`) more it must have |
| `PolledButton` | one button polled once per turn; implements `DebouncedLatch` under `on <- btn.state, armed <- btn.set` | history variables `pressed`, `held` |
| `Throttle` | the throttle's functions: switches, command, idle hold, bump and steps | pure operators; the request counts steps above idle |
| `OperatorControls` | one turn: the polled button, the engine status, the throttle that reads it | `ran`, `heldFor`, `rest` are what the time stamps stand for |
| `DriveProtocol` | *abstract*: starter, drives and pump, every change in one step and only in a state that permits it; no loop, buttons, time stamps or output values | implemented by `StartInterlock` under `settled <- settled = StartDeb, closed <- door = "closed"`, `cranking` and `pump` what the hardware drives |
| `EngineStatus` | engine status, start time, run time | used by `StartInterlock` and `OperatorControls` |
| `StartInterlock` | engine starter, cleaning chains, latch of the suction fan in loop order, one action per controller, clock ticks between any two | `fault` is last turn's diagnosis, `out` what is set, `prev` what the handler believes was written, `hw` what was; writes of the outputs in `Unreliable` may fail; of the suction fan only the latch |
| `AugerCart` | header, hitch position, auger, outputs in loop order | the parameter that gives pedals and joystick to header and hitch may change between any two of them |
| `CoolingFan` | one turn of the fan controller: safe state or demand, request, stage, ramp | `stage`, `prev` are `e_fanstate`, `e_prev_fanstate`; `cleaning` is the time since the cleanout began |
| `Ramp` | the ramp helper with limits and rate | |
| `SuctionFan` | speed control of the suction fan: request, ramp, PID, PWM output | the latch and the filtered speed take any value in any turn; milliseconds for the ramp, microseconds for the PID |
| `RampedDrives` | elevator, front sweeps and rotary trap around the shaft drive of the cleaning chains | any sequence of shaft states, faults, ranges and requests |
| `Attachments` | power assist, gear, stick box and stick remover in loop order | the gear may toggle in any turn; the mode of the stick box may change between turns |
| `Propulsion` | one turn of the propulsion controller, with (`DriveTurn`) or without (`StopTurn`) the interlocks | gear in `Attachments`; wheel speed left out; `coasting` is the time the ramp had since the drive was stopped |
| `ParameterStore` | four copies of the parameters, main loop steps interleaved with the openSYDE task, which starts at any time, before the parameters are loaded as well; power loss anywhere; the filter minder learns a parameter in the controllers' copy | a list is one value, as it is saved as a whole |
| `Diagnosis` | what the input and output handlers make of a driver's reading: status and failure modes | pure operators |
| `FaultMemory` | diagnosis of every turn, start-up search, counting, clearing, erasing of the trouble codes, power loss between any two writes | readings may fail or change in every turn; the bytes of the block are modelled |
| `*Proofs` | theorems about the module they are named after | section 5 |

Modelling decisions that hold throughout:

- An action is a whole handler; controllers of one turn that share nothing with
  the modelled ones are left out of the sequence of phases. `StartInterlock` and
  `AugerCart` let the clock advance between any two calls; in `OperatorControls`,
  `CoolingFan`, `RampedDrives`, `Attachments` and `Propulsion` the functions of
  one turn read the same time and a turn takes 0 to `MaxCycle` milliseconds:
  `main()` waits for nothing, so any number of turns may fall into the same
  millisecond. `SuctionFan` counts its turns in microseconds, at least one each.
- Inputs, requests and fault bits are chosen anew in every turn, so every
  sequence of them, a frozen CAN value included, is a behaviour of the model.
- Arithmetic on floats is scaled to whole numbers (`CoolingFan` explains its
  unit, `Propulsion` counts currents from the valve threshold, `SuctionFan` has
  the PID with its integral and derivative on whole numbers).
- A fault bit of an output is whatever the last diagnosis said; only
  `FaultMemory` derives it from readings. An output is not set while its
  controller's condition keeps the old value, as in the code. Writes succeed
  except in `StartInterlock`.
- A definition whose comment begins with "Faulty variant" is never used by the
  specifications. Each is a plausible bug of the definition below it, put in its
  place to make sure that the properties notice.
- Start-up is complete and successful in every model; `main.c` line 124 is a
  hazard with a note.

## 3. Runs

Every property of a passing run has a faulty variant that violates it under the
same configuration.

| run | question | bounds |
|---|---|---|
| `operator_controls` | does a polled button implement the debounced latch across wraps and time stamps of 0, and does a held one toggle within a turn of its debounce? does the throttle idle after every start, and in which milliseconds does a held switch step? | clock 7 ms, turn 0-2 ms, debounce, idle delay, hold and step time 2, request 0-2 steps |
| `start_interlock` | cranking against drives, settled engine, open door; the abstract protocol | clock 5 ms, start-up debounce 3, button debounce 1, writes of the starter relay and the shaft pump may fail |
| `auger_cart` | one control for one load, exclusive unloading, truthful latches | clock 4 ms, debounce 2 |
| `cooling_fan` | stages, reversal at standstill, no early cleanout; the reversal and the cleanout end, the latter in a bounded time | clock 6 ms, ramp 2, stop 1, purge 1, cycle 3, demand 0-1, turn 0-1 ms |
| `ramped_drives` | rest without the shaft drive; a disabled elevator never speeds up | clock 6 ms, turn 0-2 ms, valves 2 and 3, sweeps 0-3, trap 1-3, 2-3, 4-5 |
| `attachments` | power assist against the high gear, restarts after faults, relays of the stick box | clock 4 ms, debounce 2, turn 0-2 ms |
| `propulsion` | neutral, cruise control; a stopped drive settles in the time of its ramp | clock 4 ms, turn 0-1 ms, deflection 0-2, limit 1, threshold 1, rates 1 |
| `parameters` | survival, last word, learned values, complete resets, served requests under every interleaving and power loss | 4 lists, one of them learned, mask of 3 bits, 2 values: the default is not the zero the memory starts with |
| `fault_memory` | records apart, counts survive, faults told of and lasting ones counted | 3 codes, an input and an output; one input bit, three output bits of which one has no code; block of 10 bytes erased in chunks of 4, byte 0-7, counts 0-2 |
| `suction_fan` | *violated*: a fan that stays disabled, its output in order and its speed measured as 0, is switched off time and again | clock 4 ms of 2 µs each, turn 1-2 µs, speeds 0-2, PWM 0-4, gains and rates 1 |
| `valves_jump` | *violated*: the current of a valve rises along the ramp | as `propulsion` |
| `parameter_lost` | *violated*: every list is saved | as `parameters` |

Distinct states of the passing runs: `operator_controls` 293165,
`start_interlock` 787670, `auger_cart` 431064, `cooling_fan` 435253,
`ramped_drives` 373923, `attachments` 1955716, `propulsion` 83315, `parameters`
113849, `fault_memory` 1574917. The longest takes a minute and a half.

Why the bounds are enough: the clock wraps after a few turns and every timer is
shorter than the clock, so a run wraps while every timer is running, in every
phase and with every time stamp, 0 included. Each timer is at least one turn
long, and as turns of 0 ms are among those checked, every timer is also met by
several turns in one millisecond. Speeds and currents have a value
between the limits. Four lists over a mask of three bits are the smallest
instance with a list that is learned, two that are saved one after another, and
one that does not fit (9 lists, 8 bits in the code). An input with one code and
an output with two, in a block with room for just as many records, cover equal
and different headers, an erasure that leaves a gap and, since what it leaves
takes up room, a block that is full before every code has a record; the third
bit of the output stops its controller but belongs to no code. In
`CoolingFan.cfg` and `Propulsion.cfg` a turn takes no more than 1 ms to keep the
liveness checks small; the safety properties are proved for every bound.

History variables (`pressed`, `held`, `ran`, `heldFor`, `rest`, `settled`,
`stuck`, `movedBy`, `switched`, `since`, `atSpeed`, `resting`, `wanted`,
`undisturbed`, `cleaning`, `coasting`, `mirrored`, `told`, `known`, `total`, `torn`, `wiped`, `kept`, `started` of
`Attachments`, `together`) are written and never read by the actions of the
code; they carry the past a property speaks of.

The type invariants of the modules of the nine passing runs are theorems of
section 5, and for that not part of the runs.

### Fairness

`main()` loops until a reset, and the openSYDE task sleeps between its periods,
so the main loop keeps taking steps: weak fairness of the loop's step (`Loop`,
`MainStep`, `Program`, `UpdateSuctionFan`). Where a turn takes 0 or more
milliseconds, that would still let the clock stand for ever; the code of a turn
takes time, though, so `OperatorControls`, `CoolingFan` and `Propulsion` assume
weak fairness of the turns that move the clock (`ClockMoves`). No operator action, no tool request, no fault and no power loss is ever assumed to happen or to
stop; where a liveness property needs that, it says so as a premise
(`<>[]` or a disjunct of the conclusion). The clock does not have to advance for
`StartInterlock`'s properties. Deadlock is checked in every run.

Three liveness properties are theorems as well. As ENABLED is out of the
prover's reach they state the turning of the loop itself, as
`[]<><<Loop>>_vars`, `[]<><<Misc>>_vars` or `[]<><<DiagnoseOutputs>>_vars`: the
step named is taken again and again. The runs check the same properties from
weak fairness.

## 4. What the checks show

- **Buttons.** `HoldTruthful` is why the debounce is sound with a clock that
  wraps and with 0 as the mark of "no press": the stamp never claims more time
  than the polls saw. A press that falls on time 0 is restamped one turn later;
  with the polls between, that is all a held button can lose: it toggles before
  it was held for its debounce and one turn (`HeldTogglesInTime`).
- **Start interlock.** The starter reads latches written one turn earlier and
  its relay is switched at the end of the turn, yet cranking and drives exclude
  each other at every point: a drive enabled in the turn of the decision would
  need a run time its controller reads as 0. The door, a stall and a restart
  inside one turn are covered by `DrivesOnlyWhenSettled`.
- **Protocol.** Seen from outside, the loop makes no step that `DriveProtocol`
  does not allow: whatever happens inside a turn, the engine begins to run with
  both drives and the pump off, and the pump is driven by its own drive alone.
  A failed write is noted as done and never repeated, so a pump whose OFF was
  lost keeps turning with the door open until its value changes again
  (`output_handler_lib.c` line 221). The properties speak of outputs that do
  what they were told to (`Driven`), which exempts just that case.
- **Throttle.** A press during the idle hold after a start is lost. The hold
  steps in every turn that meets a multiple of 50 ms since the press
  (`throttle_control.c` lines 239 and 258). A held switch need never step if the
  turns miss those milliseconds, and steps once for each turn that falls into
  one of them, so the speed it reaches depends on the period of the loop; the
  comments in lines 238 and 257 promise "50rpm / 100 ms", which is neither.
  `HeldStepsApart` says what does hold, also across a wrap: steps begin only
  after the hold time, and two of them are in the same millisecond or a step
  time apart. The message is never sent in the first
  5 s (line 120 compares two equal times).
- **Suction fan.** A disabled fan may be driven for good (`suction_fan`). Its
  request is 0 and its ramp gets there, but the PID keeps the integral it had
  (`AgvHelper/pid_output.c` lines 110, 140, 160), and its output is written
  without a look at the latch (`suction_fan_control.c` lines 240-258; FR-5.7 in
  line 212). Only a measured speed wears the integral down. The speed input has
  no diagnosis, so a broken wire is enough; with a sound sensor the fan is driven
  until its own turning has used the integral up, or as long as the PWM that is
  left no longer moves it. A fault of the output keeps the last PWM (line 254);
  the premise of `DisabledFanStops` leaves that case out.
- **Header and hitch.** Pedals and joystick never move both, unless the parameter
  changes between the two controllers of one turn.
- **Auger.** With one unload output at fault both can be on: the faulty one
  keeps its value, the other one is enabled. `UnloadExclusive` excludes that
  case by its premise; `LatchTellsOutput` says exactly when it arises.
- **Cooling fan.** The stages are entered in order whatever faults interfere,
  but the direction is switched at standstill only if the fan was at its
  commanded speed when the ramp began: the slope is taken from the command, not
  from the output (`cooling_fan_control.c` line 371). A fault between leaves a
  stale `e_prev_fanstate`. The time for the automatic cleanout also runs while
  the engine is off (line 334). A cleanout is over after four ramps, two stops,
  the purge and 13 turns at the most (`CleanoutInTime`); the bound is tight up to 2 ms
  on the instance checked.
- **Ramped drives.** Trap and sweeps come to rest, but a clamp to new limits is
  not ramped: the trap starts at its range minimum in one turn. The sweeps' ramp goes on
  during a fault of the output.
- **Attachments.** A shift into the high gear finds power assist still on for one
  turn and never for two. The faults of the outputs reach the three latches in
  three ways (through the reset, through the reset and afterwards, behind the
  helper); none lets an attachment run again without its button. A press need
  not be a whole one, though: in stick box mode the helper is not called, so a
  time stamp from before a mode change shortens the next debounce, and a close
  button held through the change is a latch (`stick_box_control.c` lines
  155-174). The relays are kept or set as a pair, so no fault makes them mean
  another command; but a fault in the turn of a release leaves them on.
- **Propulsion.** Neutral closes both valves at once, but a reversal hands the
  ramp's current to the other valve without a ramp (`valves_jump`), and with
  interlocks open the valves keep their threshold current while the joystick is
  deflected, because the lower limit of the ramp is never reset (line 302): this
  is why `DisabledDriveSettles` says "threshold" and not "closed". A stopped drive
  is down to the threshold in the time its ramp takes (`SettlesInTime`). The drive
  drops out for `EDC_STARTUP_DELAY` at every wrap of the clock (line 511).
- **Parameters.** The 8 bit mask loses the ninth list (`parameter_lost`). For
  the others the copies agree whenever no save and no reset is under way. A tool
  write during a reset undoes part of it; `undisturbed` makes that explicit.
  What the filter minder learns goes into the controllers' copy only: it reaches
  the EEPROM with the next write of the tool, and is gone if the power fails
  before (`LearnedSavedWithNextWrite`).
- **Diagnosis.** The bit SHORT_UB_OL sets the status of an output, but the mode
  it would note is overwritten by the test of OPEN_LOAD: the controller stops, and
  no trouble code tells why (`SilentFaults`). A failed reading keeps what the
  last one said. Whatever fails, a fault an input or output told of in one turn
  has a count when the alarm handler is through (`ToldAreCounted`).
- **Trouble codes.** A power loss between header and count leaves a count of
  0xFF that is never incremented until the counts are cleared; an erasure of the
  block (offered by the library, not called at this commit) may leave gaps. With
  the 27 or so codes configured today the block, 111 records, does not fill up.

## 5. Proofs

All theorems hold for every value of the constants that satisfies the named
assumption of the module (`TimeModAssumption`, `PolledButtonAssumption`, ...):
clock widths, debounces, ramp rates, bounds on the time a turn takes, numbers of
lists.

| module | theorem | inductive invariant: why the property alone is not enough |
|---|---|---|
| `OperatorControlsProofs` | `HoldIsTruthful`, `HeldIsToggled`, `ToggleImplementsLatch`, `ControlsTyped`, `StartsAtIdle`, `HeldSwitchSteps` | `HoldTruthful` is inductive with the types; it is also what the refinement needs: a toggle after `Deb` of stamp time has `Deb` of polled time. `Prompt` is the other direction: what the stamp of an armed press leaves out is at most one turn. `RuntimeTruthful`, `CommandTruthful`: run time and press time never exceed what was seen; `StepBacked`: until a step time has passed since the last step, that step was at a multiple of the step time since the press, or the stamp has wrapped |
| `StartInterlockProofs` | `TypeCorrect`, `CrankingIsSafe`, `DrivesAreSettled`, `LoopFollowsProtocol`, `OpenDoorIsObeyed` (liveness) | `RuntimeTruthful` (the run time never exceeds what was seen), `DrivesBacked` (from a controller's call until the next inputs an enabled drive has what it needs), `CrankBacked` (an engaged starter means disarmed buttons, which need one more turn), `HardwareBacked` (the hardware does what the handler noted, but for a failed write) |
| `AugerCartProofs` | `TypeCorrect`, `ControlsAreExclusive`, `UnloadingIsExclusive`, `LatchesAreTruthful` | `ControlsBacked`: while the parameter has not changed, what moved the header is the control it gives the header; `HitchBacked`: the hitch outputs are the commands the auger reads later in the turn |
| `CoolingFanProofs` | `TypeCorrect`, `StagesInOrder`, `DirectionSafe`, `CleanoutNotEarly`, `CleanoutIsTimed` | `RampBacked`: what is left of the ramp down fits into what is left of its time; `ExactCommand`: commands are multiples of the ramp time, so the slope is exact; `SinceTruthful`: the time stamp of the forward run; `CleanoutBacked`: stage by stage, the time spent and the time left are within the bound |
| `RampedDrivesProofs` | `TypeCorrect`, `DrivesRestWithShaft`, `DisabledElevatorSlows` | `SweepsBacked`: what the sweeps have left fits into what is left of their time; `ElevatorBacked`: the ramp is never above what the valve was set to, which a fault of the valve could break |
| `AttachmentsProofs` | `AttachmentsType`, `ShiftEndsPowerAssist`, `FaultsRestartNothing`, `RelaysKeepTheirMeaning` | `ShiftBacked`: after a turn that wrote both the gear is high when power assist is decided; `LatchBacked`: a latch that is on was started, an output that was set is its latch |
| `AttachmentsProofs`, second part, about `Propulsion` | `DriveTyped`, `NeutralStops`, `CruiseNeverLetsGoUpwards`, `CruiseSpeedIsKept`, `DriveSettles` | `CruiseBacked`: a set speed held without its button is one the speed limit allows, so a limit that changes between the two halves of a turn cannot end cruise control from above; `CoastingBacked`: above the threshold, what is left of the current and what the time since the stop took off it are together no more than the largest command |
| `ParameterStoreProofs` | `CopiesTyped`, `ParametersSurvive`, `ToolWins`, `LearnedSaved`, `ResetCompletes`, `ResetsAreServed` (liveness) | for each step of the main loop and each list, which copies agree before and after the list has been passed (`PoolBacked`, `ControlBacked`, `ResetBacked`, `DashBacked`), and that nothing is wanted beyond them (`WantedBacked`); a write of the tool before the dashboard shows the parameters voids only the latter, until the next reset or start; `RequestBacked`: a request the dashboard shows is one the main loop still sees, or one it has just served |
| `FaultMemoryProofs` | `TypeCorrect`, `RecordsStayApart`, `CountsAreKept`, `SilentFaults`, `FaultsHaveCounts`, `LastingFaultsAreCounted` (liveness) | `RecordsDiffer`, `SearchRepeatable`: a search finds the same record again, so a new one is made only for a code without; `PhaseBacked`: nothing has been erased while codes are registered; `MemoryBacked`: what a search finds holds the occurrences, or it finds a free record and no other behind it; `FlagsTold`: active flags are what the drivers said; `EdgesBacked`: a told fault without a count is one the alarm handler has still to come to |

The proofs follow one pattern: lemmas about the clock and the helpers, one lemma
per action (`IInv /\ Action => IInv'`), then `Init`, `Next` and one temporal
step. The theorem about the refinement shows that initial states map to initial
states and steps to steps or stutters.

`AttachmentsProofs` extends `Propulsion` as well, as both modules model parts of
`propulsion_control.c`; their names are kept apart for that.

A liveness theorem needs no induction over data if one round of the loop is
enough: an invariant says that whatever is outstanding is gone when the loop has
come to a certain step, and nothing brings it back (`OpenDoorIsObeyed`,
`ResetsAreServed`, `LastingFaultsAreCounted`).

Only model-checked: the liveness properties whose argument counts down a timer
or a ramp over many turns, which is induction over data (`HeldButtonToggles`,
`ReverseEnds`, `CleanoutEnds`, `DisabledDriveSettles`), and the three violations.
What bounds them is proved as safety, for every value of the constants:
`HeldTogglesInTime`, `CleanoutInTime` (whose bound covers the reversal too) and
`SettlesInTime`. Every other property of the
passing runs is proved.

## 6. What is not modelled

- Code outside the loop's own logic: BIOS, IP stack, openSYDE server, generated
  data pools, boot and safety core, Ethernet start-up, the test harness.
- The values the input handler converts and the CAN maps: replaced by free
  choices. The diagnosis of inputs and outputs is in `Diagnosis`.
- Filters, temperature arithmetic, wheel speed: floating point; replaced by
  free choices where a controller uses them. The rounding of the PID, and what
  the fan's speed makes of its PWM: the measured speed is a free choice.
- Keypad lamps, display values and checkpoints, unless a property is about them.
- Lighting: its outputs are functions of a mode that one button's edges step;
  a property would repeat the assignments.
- Most of the miscellaneous functions: outputs that are functions of the inputs
  of their turn.
- Start-up: input values before the first reading, allocation of the outputs and
  failed initialisations.

The controllers, handlers and helpers of the application are 8000 lines of some
70000, and the models stand for some 3300 of them (the others are declarations, input
and output tables, messages and displays); the rest of the tree is the vendor's BIOS, IP stack and openSYDE server, generated
pools, headers and tables, in which no logic of the machine is found.

Further observations, without a property: `neutralSafe` is inverted in name
(`engine_starter_control.h` line 41, `.c` lines 148 and 163);
`set_rampRate` accepts any rate (`ramp_calc.c` line 188); the overtemperature
safe state is overwritten in the same turn (`cooling_fan_control.c` lines 230
and 357); the elevator is enabled after start-up without a press (FR-6.3). An unknown
range code throws a running trap into the limits of LOW, as `rotary_trap_control.c`
line 173 overwrites the target the default case kept (line 147), which line 128
calls "fallback = no change".
`x_in_get_voltage_raw`'s result is assigned to nothing (`input_handler_lib.c`
line 177). `set_logicFaultStatus` has no caller. A service tool
that writes one parameter within the time the output allocation takes beyond the
2 s the openSYDE task waits (`osy_srv.c` line 50, `output_handler_lib.c` line 77)
copies the dashboard's zeros over all others; `ToolHasLastWord` excepts it.
CAB_DOOR and most inputs have `u8_diagEnabled` FALSE, so interlocks on their faults never
act. The timers of the filter minder and of the low fuel warning keep running
while their input has a fault (`misc_control.c` lines 76, 96-105, 150, 168-179).

## 7. Plan

The order followed the weight of the behaviour: buttons and start interlock
first (everything else is built on them), then exclusion (`AugerCart`), stages
(`CoolingFan`), driving (`Propulsion`), persistent data (`ParameterStore`,
`FaultMemory`), ramps (`RampedDrives`), attachments (`Attachments`), then the
throttle (`OperatorControls`), header, learned parameters, failing drivers,
the abstract protocol, and the time bounds behind the liveness properties. What
is left:

1. Failing writes in `AugerCart` and `Attachments`, as in `StartInterlock`; the
   latch of the suction fan and its speed control in one turn.
2. Start-up: failed initialisations (`main.c` line 124).
3. Lighting, once a property beyond its assignments is found.
4. The press of the cruise button across an interlock (`propulsion_control.c`
   line 166), if the requirement is found to ask for more than the helper's.
