---------------------------- MODULE FaultMemory ----------------------------
(***************************************************************************)
(* Trouble codes, their occurrence counts and the EEPROM block that keeps  *)
(* them (alarm_handler_lib.c, nvm_handler_lib.c, fault_handler.c).  At     *)
(* every start each code searches the block for its record, or takes the   *)
(* first free one; in every turn of the main loop the faults are diagnosed *)
(* from what the drivers report (Diagnosis) and their rising edges are     *)
(* counted.  A driver may fail in any turn, the power may fail between any *)
(* two EEPROM writes.                                                      *)
(*                                                                         *)
(* A code d is the failure mode (FMI) ModeOf(d) of the fault (SPN)         *)
(* SpnOf(d); two modes share a fault, as most of hw_outputs.c and          *)
(* hw_inputs.c do.  A record has one byte each for SPN, FMI and count.     *)
(***************************************************************************)
EXTENDS Integers, FiniteSets, Diagnosis

CONSTANTS NumCodes,   \* u16_num_dtcs
          Inputs,     \* the faults diagnosed by the input handler
          InputBits,  \* what the driver of an input may report
          OutputBits, \* what the driver of an output may report
          Start,      \* NVM_FAULTS_START_ADDR
          BlockSize,  \* NVM_FAULTS_SIZE
          NvmSize,    \* x_nvm_get_size()
          Chunk,      \* size of eraseBuffer
          ByteMod,    \* 2^8, the values an uint8 takes
          MaxCount    \* the highest occurrence count, 126

ASSUME FaultMemoryAssumption ==
  /\ {NumCodes, BlockSize, Chunk, MaxCount} \subseteq Nat \ {0}
  /\ {Start, NvmSize, ByteMod} \subseteq Nat
  /\ Start > 2 /\ NvmSize >= Start + BlockSize
  /\ MaxCount < ByteMod - 1

VARIABLES
  mem,    \* the EEPROM
  record, \* u16_memAddress of every code, 0 before it is registered
  count,  \* its occurrence count in RAM
  fault,  \* t_fault of every input and output: status and active modes
  prev,   \* u8_prev_active of the mode of every code
  told,   \* history: codes that are there by what the drivers last said of
          \* their faults, since the last clear
  known,  \* history: the codes told when the alarm handler last looked
  phase,  \* what the program does next ...
  at,     \* ... and for which code or erased chunk
  total,  \* history: occurrences since the last clear, up to MaxCount
  torn,   \* history: codes whose record may be damaged by a power loss
          \* between its two writes, or by an erasure of the block
  wiped   \* history: has the block been erased since the last start?

vars == <<mem, record, count, fault, prev, told, known, phase, at, total, torn, wiped>>
flags == <<fault, prev, told, known>>

Codes == 1 .. NumCodes
SpnOf(d) == (d + 1) \div 2
Faults == {SpnOf(d) : d \in Codes}

\* The modes hw_inputs.c and hw_outputs.c give an FMI, in the order of their
\* registration.
ModeOf(d) == IF SpnOf(d) \in Inputs
             THEN IF d % 2 = 1 THEN "SHORT_TO_UB" ELSE "SHORT_TO_GND"
             ELSE IF d % 2 = 1 THEN "SHORT_GND" ELSE "OPEN_LOAD"
Erased == ByteMod - 1                \* 0xFF
RecordSize == 3
End == Start + BlockSize

\* The contents of a header, told apart from a count and from 0xFF.
Spn(d) == ByteMod + SpnOf(d)
Fmi(d) == ByteMod + d
Addresses == 0 .. End + Chunk
Contents == 0 .. ByteMod + NumCodes

Phases == {"register", "firstCount", "inputs", "misc", "clearCounts", "erase",
           "alarm", "outputs"}

NoFlags == [d \in Codes |-> FALSE]
NoFaults == [s \in Faults |-> Healthy]
Zero == [d \in Codes |-> 0]

Init ==
  /\ mem = [a \in Addresses |-> Erased]
  /\ record = Zero
  /\ count = Zero
  /\ fault = NoFaults
  /\ prev = NoFlags
  /\ told = {}
  /\ known = {}
  /\ phase = "register"
  /\ at = 1
  /\ total = Zero
  /\ torn = {}
  /\ wiped = FALSE

-----------------------------------------------------------------------------
\* add_J1939dtc and fault_nvm_init.

\* A record is tried only if it ends before the last byte of the block.
Slots == {s \in Start .. End : (s - Start) % RecordSize = 0 /\ s + RecordSize < End}

\* Faulty variant: the failure mode is not compared.
MatchesSpn(s, d) == mem[s] = Spn(d)

Matches(s, d) == mem[s] = Spn(d) /\ mem[s + 1] = Fmi(d)
Free(s) == mem[s] = Erased

\* The linear search ends at the first record that matches or is free.
SearchEnd(s, d) ==
  /\ s \in Slots
  /\ Matches(s, d) \/ Free(s)
  /\ \A r \in Slots : r < s => ~Matches(r, d) /\ ~Free(r)

\* Faulty variant: the loops end before the last code.
NextCodeButLast(loop, next) ==
  IF at < NumCodes - 1 THEN phase' = loop /\ at' = at + 1
                       ELSE phase' = next /\ at' = 1

\* The loops over all codes.
NextCode(loop, next) ==
  IF at < NumCodes THEN phase' = loop /\ at' = at + 1
                   ELSE phase' = next /\ at' = 1

FoundRecord == \E s \in Slots :
  /\ phase = "register"
  /\ SearchEnd(s, at) /\ Matches(s, at)
  /\ record' = [record EXCEPT ![at] = s]
  /\ count' = [count EXCEPT ![at] = mem[s + 2]]
  /\ NextCode("register", "inputs")
  /\ UNCHANGED <<mem, flags, total, torn, wiped>>

\* A new record is written in two steps: the header ...
NewRecord == \E s \in Slots :
  /\ phase = "register"
  /\ SearchEnd(s, at) /\ ~Matches(s, at)
  /\ record' = [record EXCEPT ![at] = s]
  /\ mem' = [mem EXCEPT ![s] = Spn(at), ![s + 1] = Fmi(at)]
  /\ phase' = "firstCount"
  /\ UNCHANGED <<count, flags, at, total, torn, wiped>>

\* ... and the count.
FirstCount ==
  /\ phase = "firstCount"
  /\ mem' = [mem EXCEPT ![record[at] + 2] = 0]
  /\ count' = [count EXCEPT ![at] = 0]
  /\ NextCode("register", "inputs")
  /\ UNCHANGED <<record, flags, total, torn, wiped>>

\* NVM_EEPROM_OVERFLOW, ignored by add_J1939dtc: the code works with address 0.
NoRecord ==
  /\ phase = "register"
  /\ ~\E s \in Slots : SearchEnd(s, at)
  /\ NextCode("register", "inputs")
  /\ UNCHANGED <<mem, record, count, flags, total, torn, wiped>>

-----------------------------------------------------------------------------
\* fault_nvm_write.
StoreCount(d, n) ==
  /\ count' = [count EXCEPT ![d] = n]
  /\ mem' = [mem EXCEPT ![record[d] + 2] = n]

\* A driver that fails and reports nothing says nothing of its fault.
Tell(faults, reading) ==
  LET telling == {s \in faults : reading[s].ok \/ reading[s].bits # {}}
  IN told' = {d \in Codes : IF SpnOf(d) \in telling
                            THEN ModeOf(d) \in reading[SpnOf(d)].bits
                            ELSE d \in told}

\* update_hwInputs: the inputs are diagnosed at the beginning of a turn ...
DiagnoseInputs ==
  /\ phase = "inputs"
  /\ phase' = "misc"
  /\ \E reading \in [Faults \cap Inputs -> Reading(InputBits)] :
       /\ fault' = [s \in Faults |-> IF s \in Inputs THEN CheckInput(fault[s], reading[s])
                                                      ELSE fault[s]]
       /\ Tell(Faults \cap Inputs, reading)
  /\ UNCHANGED <<mem, record, count, prev, known, at, total, torn, wiped>>

\* ... and the outputs at its end (update_hwOutputs).
DiagnoseOutputs ==
  /\ phase = "outputs"
  /\ phase' = "inputs"
  /\ \E reading \in [Faults \ Inputs -> Reading(OutputBits)] :
       /\ fault' = [s \in Faults |-> IF s \in Inputs THEN fault[s]
                                     ELSE CheckOutput(fault[s], reading[s])]
       /\ Tell(Faults \ Inputs, reading)
  /\ UNCHANGED <<mem, record, count, prev, known, at, total, torn, wiped>>

NoCommand ==
  /\ phase = "misc"
  /\ phase' = "alarm"
  /\ UNCHANGED <<mem, record, count, flags, at, total, torn, wiped>>

\* Faulty variant: the counts are cleared, the flags of the faults are not.
ClearFaultsFlagged ==
  /\ phase = "misc"
  /\ phase' = "clearCounts"
  /\ told' = {}
  /\ UNCHANGED <<mem, record, count, fault, prev, known, at, total, torn, wiped>>

\* clear_machineFaults: status and modes at once, then the counts one by one.
ClearFaults ==
  /\ phase = "misc"
  /\ phase' = "clearCounts"
  /\ fault' = NoFaults
  /\ told' = {}
  /\ UNCHANGED <<mem, record, count, prev, known, at, total, torn, wiped>>

ClearCount ==
  /\ phase = "clearCounts"
  /\ StoreCount(at, 0)
  /\ total' = [total EXCEPT ![at] = 0]
  /\ torn' = IF wiped \/ record[at] = 0 THEN torn ELSE torn \ {at}
  /\ NextCode("clearCounts", "alarm")
  /\ UNCHANGED <<record, flags, wiped>>

\* clear_fault_nvm, which the library offers and the application does not call
\* yet: erase the block in chunks.  The rest of the EEPROM is counted in an
\* uint8.
StartErase ==
  /\ phase = "misc"
  /\ phase' = "erase"
  /\ at' = Start
  /\ torn' = Codes
  /\ wiped' = TRUE
  /\ total' = Zero
  /\ UNCHANGED <<mem, record, count, flags>>

ChunkSize(addr) ==
  LET remaining == (NvmSize - addr) % ByteMod
  IN IF remaining < Chunk THEN remaining ELSE Chunk

Erase ==
  /\ phase = "erase"
  /\ mem' = [a \in Addresses |->
               IF a \in at .. at + ChunkSize(at) - 1 THEN Erased ELSE mem[a]]
  /\ IF at + Chunk < End THEN at' = at + Chunk /\ UNCHANGED phase
                         ELSE at' = 1 /\ phase' = "alarm"
  /\ UNCHANGED <<record, count, flags, total, torn, wiped>>

Active(d) == ModeOf(d) \in fault[SpnOf(d)].modes
Rising(d) == Active(d) /\ ~prev[d]

\* An edge is counted up to the limit; 0xFF is above it.
Counts(d) == Rising(d) /\ count[d] < MaxCount

Remember(d) == prev' = [prev EXCEPT ![d] = Active(d)]

\* update_alarmHandler, one code.
Alarm ==
  /\ phase = "alarm"
  /\ IF Counts(at) THEN StoreCount(at, count[at] + 1) ELSE UNCHANGED <<count, mem>>
  /\ total' = IF at \in told \ known /\ total[at] < MaxCount
              THEN [total EXCEPT ![at] = @ + 1] ELSE total
  /\ known' = IF at \in told THEN known \cup {at} ELSE known \ {at}
  /\ Remember(at)
  /\ NextCode("alarm", "outputs")
  /\ UNCHANGED <<record, fault, told, torn, wiped>>

\* The power fails; the program starts again with what the EEPROM holds.
PowerLoss ==
  /\ phase' = "register"
  /\ at' = 1
  /\ torn' = IF phase = "firstCount" THEN torn \cup {at} ELSE torn
  /\ wiped' = FALSE
  /\ record' = Zero
  /\ count' = Zero
  /\ fault' = NoFaults
  /\ prev' = NoFlags
  /\ told' = {}
  /\ known' = {}
  /\ UNCHANGED <<mem, total>>

Program ==
  \/ FoundRecord \/ NewRecord \/ FirstCount \/ NoRecord
  \/ DiagnoseInputs \/ NoCommand \/ ClearFaults \/ ClearCount
  \/ StartErase \/ Erase \/ Alarm \/ DiagnoseOutputs

Next == Program \/ PowerLoss

Spec == Init /\ [][Next]_vars

\* The main loop never stops turning while there is power.
FairSpec == Spec /\ WF_vars(Program)

-----------------------------------------------------------------------------
Registered(d) == phase \notin {"register", "firstCount"} \/ d < at

TypeOK ==
  /\ mem \in [Addresses -> Contents]
  /\ record \in [Codes -> Slots \cup {0}]
  /\ count \in [Codes -> 0 .. MaxCount \cup {Erased}]
  /\ fault \in [Faults -> Fault(InputModes \cup OutputModes)]
  /\ prev \in [Codes -> BOOLEAN]
  /\ told \subseteq Codes
  /\ known \subseteq Codes
  /\ phase \in Phases
  /\ at \in Codes \cup Addresses
  /\ total \in [Codes -> 0 .. MaxCount]
  /\ torn \subseteq Codes
  /\ wiped \in BOOLEAN

\* Whatever power losses and erasures have left in the block, two codes never
\* work on the same record, and each works on its own until the block is
\* erased under it (nvm_handler_lib.c lines 90-130).
RecordsApart ==
  \A c, d \in {e \in Codes : Registered(e) /\ record[e] # 0} :
    /\ c # d => record[c] # record[d]
    /\ ~wiped => Matches(record[d], d)

\* A count is the number of occurrences since it was last cleared, as the
\* drivers told them, over all starts and power losses and whenever a driver
\* failed, unless the record was torn or there is no room for one
\* (alarm_handler_lib.c lines 168-177, 281).
CountsSurvive ==
  \A d \in Codes \ torn : Registered(d) /\ record[d] # 0 => count[d] = total[d]

\* When the alarm handler is through with a turn, every fault that is there by
\* what the drivers last said has a count: no clear, no power loss and no turn
\* in which a driver failed leaves a code active and uncounted, although the
\* edge that counts it may have come and gone before the clear
\* (fault_handler.c lines 114-126, alarm_handler_lib.c lines 168-177).
ToldAreCounted == phase = "outputs" => \A d \in told : count[d] > 0

\* A fault the drivers keep telling of is counted, also after its flag and its
\* count have been cleared: the clearing falls between diagnosis and alarm
\* handler, so that the alarm handler sees a new edge (fault_handler.c lines
\* 114-126).
Running == phase \in {"inputs", "misc", "alarm", "outputs"}
FaultsCounted ==
  \A d \in Codes : <>[](d \in told /\ Running) => <>[](count[d] > 0)
=============================================================================
