-------------------------- MODULE FaultMemoryProofs --------------------------
(***************************************************************************)
(* The records of the trouble codes stay apart and their counts survive,   *)
(* for every number of codes, every layout of the block and every limit of *)
(* the counts; and an output without a failure mode may still be faulty.   *)
(***************************************************************************)
EXTENDS FaultMemory, TLAPS

USE FaultMemoryAssumption

Registering == phase \in {"register", "firstCount"}

\* The count bytes of the block are counts or erased, whatever their headers.
CountBytes == \A s \in Slots : mem[s + 2] \in 0 .. MaxCount \cup {Erased}

PhaseBacked ==
  /\ IF phase = "erase" THEN at \in Start .. End /\ wiped ELSE at \in Codes
  /\ Registering => ~wiped
  /\ wiped => torn = Codes

\* Only codes the registration has reached have a record; theirs differ.
RecordsDiffer ==
  /\ \A d \in Codes : record[d] # 0 =>
       Registered(d) \/ (phase = "firstCount" /\ d = at)
  /\ \A c, d \in Codes :
       c # d /\ record[c] # 0 /\ record[d] # 0 => record[c] # record[d]

\* Until the block is erased the search would end where it ended: at the
\* record of the code, or nowhere.
SearchRepeatable ==
  ~wiped =>
    /\ \A d \in Codes : record[d] # 0 => SearchEnd(record[d], d) /\ Matches(record[d], d)
    /\ \A d \in Codes : Registered(d) /\ record[d] = 0 => \A s \in Slots : ~SearchEnd(s, d)
    /\ phase = "firstCount" => record[at] # 0

\* The record the search finds holds the occurrences of the code; if it finds
\* a free one there were none and the code has no record behind it.
TotalStored(d, s) ==
  \/ /\ Matches(s, d)
     /\ total[d] = IF phase = "firstCount" /\ d = at THEN 0 ELSE mem[s + 2]
  \/ /\ Free(s) /\ total[d] = 0
     /\ \A r \in Slots : ~Matches(r, d)

MemoryBacked == \A d \in Codes \ torn : \A s \in Slots : SearchEnd(s, d) => TotalStored(d, s)

\* The flags are what the drivers told.
FlagsTold ==
  \A d \in Codes : /\ Active(d) <=> d \in told
                   /\ prev[d] <=> d \in known

IInv == /\ TypeOK /\ CountBytes /\ PhaseBacked /\ RecordsDiffer
        /\ SearchRepeatable /\ MemoryBacked /\ FlagsTold /\ CountsSurvive

-----------------------------------------------------------------------------
\* The bytes of two slots are different ones, inside the EEPROM, and none of
\* them is where a code without a record keeps its count.
LEMMA SlotBytes ==
  ASSUME NEW s \in Slots
  PROVE  /\ s \in Nat /\ s >= Start /\ s # 0
         /\ {s, s + 1, s + 2} \subseteq Addresses
  BY DEF Slots, Addresses, End, RecordSize

LEMMA SlotsApart ==
  ASSUME NEW r \in Slots, NEW s \in Slots, r < s
  PROVE  r + 2 < s
<1>1. /\ r \in Int /\ s \in Int /\ Start \in Int
      /\ (r - Start) % 3 = 0 /\ (s - Start) % 3 = 0
  BY DEF Slots, End, RecordSize
<1> QED
  BY <1>1

\* A header belongs to one code.
LEMMA HeadersDiffer ==
  ASSUME NEW s, NEW c \in Codes, Matches(s, c)
  PROVE  ~Free(s) /\ \A d \in Codes : Matches(s, d) => c = d
  BY DEF Matches, Free, Spn, Fmi, SpnOf, Erased, Codes

LEMMA EndUnique ==
  ASSUME NEW d \in Codes, NEW s, NEW t, SearchEnd(s, d), SearchEnd(t, d)
  PROVE  s = t
<1>1. s \in Nat /\ t \in Nat
  BY SlotBytes DEF SearchEnd
<1>2. ~(s < t) /\ ~(t < s)
  BY DEF SearchEnd
<1> QED
  BY <1>1, <1>2

\* The search looks at headers only.
LEMMA SearchReadsHeaders ==
  ASSUME \A s \in Slots : mem'[s] = mem[s] /\ mem'[s + 1] = mem[s + 1]
  PROVE  \A s \in Slots, d \in Codes : /\ Matches(s, d)' <=> Matches(s, d)
                                       /\ Free(s)' <=> Free(s)
                                       /\ SearchEnd(s, d)' <=> SearchEnd(s, d)
<1>1. \A s \in Slots, d \in Codes : /\ Matches(s, d)' <=> Matches(s, d)
                                    /\ Free(s)' <=> Free(s)
  BY DEF Matches, Free
<1> QED
  BY <1>1 DEF SearchEnd

\* Storing a count touches one count byte.
LEMMA StoredCount ==
  ASSUME TypeOK, CountBytes, NEW d \in Codes, NEW n \in 0 .. MaxCount, StoreCount(d, n)
  PROVE  /\ mem' \in [Addresses -> Contents]
         /\ count' \in [Codes -> 0 .. MaxCount \cup {Erased}]
         /\ count'[d] = n /\ \A c \in Codes : c # d => count'[c] = count[c]
         /\ \A s \in Slots : mem'[s] = mem[s] /\ mem'[s + 1] = mem[s + 1]
         /\ \A s \in Slots : s # record[d] => mem'[s + 2] = mem[s + 2]
         /\ record[d] # 0 => mem'[record[d] + 2] = n
         /\ \A s \in Slots : mem'[s + 2] \in 0 .. MaxCount \cup {Erased}
<1> DEFINE byte == record[d] + 2
<1>1. record[d] \in Slots \cup {0} /\ n \in Contents
  BY DEF TypeOK, Contents
<1>2. byte \in Addresses
  BY <1>1, SlotBytes DEF Addresses, End
<1>3. /\ mem' = [mem EXCEPT ![byte] = n] /\ count' = [count EXCEPT ![d] = n]
      /\ mem \in [Addresses -> Contents]
      /\ count \in [Codes -> 0 .. MaxCount \cup {Erased}]
  BY DEF StoreCount, TypeOK
<1>4. ASSUME NEW s \in Slots
      PROVE  s # byte /\ s + 1 # byte /\ (s # record[d] => s + 2 # byte)
  <2>1. CASE record[d] = 0
    BY <2>1, SlotBytes
  <2>2. CASE record[d] \in Slots
    <3>1. s < record[d] => s + 2 < record[d]
      BY <2>2, SlotsApart
    <3>2. record[d] < s => record[d] + 2 < s
      BY <2>2, SlotsApart
    <3>3. s \in Nat /\ record[d] \in Nat
      BY <2>2, SlotBytes
    <3> QED
      BY <3>1, <3>2, <3>3
  <2> QED
    BY <1>1, <2>1, <2>2
<1>5. \A s \in Slots : {s, s + 1, s + 2} \subseteq Addresses
  BY SlotBytes
<1>6. \A s \in Slots : mem'[s] = mem[s] /\ mem'[s + 1] = mem[s + 1]
  BY <1>3, <1>4, <1>5
<1>7. \A s \in Slots : s # record[d] => mem'[s + 2] = mem[s + 2]
  BY <1>3, <1>4, <1>5
<1>8. mem'[byte] = n
  BY <1>2, <1>3
<1>9. \A s \in Slots : mem'[s + 2] \in 0 .. MaxCount \cup {Erased}
  BY <1>7, <1>8 DEF CountBytes
<1> QED
  BY <1>1, <1>3, <1>6, <1>7, <1>8, <1>9

-----------------------------------------------------------------------------
LEMMA InitIInv == Init => IInv
<1> SUFFICES ASSUME Init PROVE IInv
  OBVIOUS
<1> USE DEF Init
<1>1. /\ Erased \in Contents /\ Erased \in 0 .. MaxCount \cup {Erased}
      /\ 0 \in 0 .. MaxCount /\ 1 \in Codes
  BY DEF Erased, Contents, Codes
<1>2. NoFaults \in [Faults -> Fault(InputModes \cup OutputModes)]
  BY DEF NoFaults, Healthy, Fault
<1>3. TypeOK
  BY <1>1, <1>2 DEF TypeOK, Zero, NoFlags, Phases
<1>4. CountBytes
  BY <1>1, SlotBytes DEF CountBytes
<1>5. PhaseBacked /\ RecordsDiffer /\ SearchRepeatable
  BY <1>1 DEF PhaseBacked, RecordsDiffer, SearchRepeatable, Registering, Registered, Zero, Codes
<1>6. MemoryBacked
  <2> SUFFICES ASSUME NEW d \in Codes, NEW s \in Slots PROVE TotalStored(d, s)
    BY DEF MemoryBacked
  <2>1. \A r \in Slots : Free(r)
    BY SlotBytes DEF Free
  <2>2. \A r \in Slots : ~Matches(r, d)
    BY <2>1, HeadersDiffer
  <2> QED
    BY <2>1, <2>2 DEF TotalStored, Zero
<1>7. FlagsTold
  <2>1. \A d \in Codes : SpnOf(d) \in Faults
    BY DEF Faults
  <2> QED
    BY <2>1 DEF FlagsTold, Active, NoFaults, Healthy, NoFlags
<1>8. CountsSurvive
  BY DEF CountsSurvive, Zero
<1> QED
  BY <1>3, <1>4, <1>5, <1>6, <1>7, <1>8 DEF IInv

\* After the registration nothing but the EEPROM and the counts is looked at.
LEMMA SteadyKeepsMemory ==
  ASSUME IInv, UNCHANGED <<mem, record, count, total, torn, wiped>>,
         ~Registering, ~Registering'
  PROVE  /\ CountBytes' /\ RecordsDiffer' /\ SearchRepeatable'
         /\ MemoryBacked' /\ CountsSurvive'
<1> USE DEF IInv
<1>1. \A s \in Slots, d \in Codes : /\ Matches(s, d)' <=> Matches(s, d)
                                    /\ Free(s)' <=> Free(s)
                                    /\ SearchEnd(s, d)' <=> SearchEnd(s, d)
  BY SearchReadsHeaders
<1>2. \A d \in Codes : Registered(d) /\ Registered(d)'
  BY DEF Registered, Registering
<1>3. CountBytes' /\ RecordsDiffer'
  BY <1>2 DEF CountBytes, RecordsDiffer
<1>4. SearchRepeatable'
  BY <1>1, <1>2 DEF SearchRepeatable, TypeOK, Registering
<1>5. MemoryBacked'
  BY <1>1 DEF MemoryBacked, TotalStored, Registering
<1>6. CountsSurvive'
  BY <1>2 DEF CountsSurvive
<1> QED
  BY <1>3, <1>4, <1>5, <1>6

\* A reading tells of the mode of a code what it makes the flag say.
LEMMA InputTold ==
  ASSUME NEW d \in Codes, SpnOf(d) \in Inputs, NEW f \in Fault(InputModes \cup OutputModes),
         NEW r \in Reading(InputBits)
  PROVE  /\ CheckInput(f, r) \in Fault(InputModes \cup OutputModes)
         /\ ModeOf(d) \in CheckInput(f, r).modes <=>
              IF r.ok \/ r.bits # {} THEN ModeOf(d) \in r.bits ELSE ModeOf(d) \in f.modes
<1>1. ModeOf(d) \in InputModes
  BY DEF ModeOf, InputModes
<1> QED
  BY <1>1 DEF CheckInput, Fault, Reading, Healthy

LEMMA OutputTold ==
  ASSUME NEW d \in Codes, SpnOf(d) \notin Inputs, NEW f \in Fault(InputModes \cup OutputModes),
         NEW r \in Reading(OutputBits)
  PROVE  /\ CheckOutput(f, r) \in Fault(InputModes \cup OutputModes)
         /\ ModeOf(d) \in CheckOutput(f, r).modes <=>
              IF r.ok \/ r.bits # {} THEN ModeOf(d) \in r.bits ELSE ModeOf(d) \in f.modes
<1>1. ModeOf(d) \in OutputModes
  BY DEF ModeOf, OutputModes
<1> QED
  BY <1>1 DEF CheckOutput, Fault, Reading, Healthy

LEMMA InputsKeepIInv == IInv /\ DiagnoseInputs => IInv'
<1> SUFFICES ASSUME IInv, DiagnoseInputs PROVE IInv'
  OBVIOUS
<1> USE DEF IInv
<1>1. PICK reading \in [Faults \cap Inputs -> Reading(InputBits)] :
        /\ fault' = [s \in Faults |-> IF s \in Inputs THEN CheckInput(fault[s], reading[s])
                                                       ELSE fault[s]]
        /\ Tell(Faults \cap Inputs, reading)
  BY DEF DiagnoseInputs
<1>2. /\ phase = "inputs" /\ phase' = "misc"
      /\ UNCHANGED <<mem, record, count, prev, known, at, total, torn, wiped>>
  BY DEF DiagnoseInputs
<1>3. \A d \in Codes : SpnOf(d) \in Faults
  BY DEF Faults
<1>4. ASSUME NEW d \in Codes PROVE Active(d)' <=> d \in told'
  <2>1. fault[SpnOf(d)] \in Fault(InputModes \cup OutputModes)
    BY <1>3 DEF TypeOK
  <2>2. CASE SpnOf(d) \in Inputs
    <3> DEFINE r == reading[SpnOf(d)]
               f == fault[SpnOf(d)]
    <3>1. r \in Reading(InputBits)
      BY <1>3, <2>2
    <3>2. Active(d)' <=> ModeOf(d) \in CheckInput(f, r).modes
      BY <1>1, <1>3, <2>2 DEF Active
    <3>3. d \in told' <=> IF r.ok \/ r.bits # {} THEN ModeOf(d) \in r.bits ELSE d \in told
      BY <1>1, <1>3, <2>2 DEF Tell
    <3>4. d \in told <=> ModeOf(d) \in f.modes
      BY DEF FlagsTold, Active
    <3> HIDE DEF r, f
    <3> QED
      BY <2>1, <2>2, <3>1, <3>2, <3>3, <3>4, InputTold DEF f
  <2>3. CASE SpnOf(d) \notin Inputs
    BY <1>1, <1>3, <2>3 DEF Active, Tell, FlagsTold
  <2> QED
    BY <2>2, <2>3
<1>5. fault' \in [Faults -> Fault(InputModes \cup OutputModes)]
  <2> SUFFICES ASSUME NEW s \in Faults, s \in Inputs
               PROVE  CheckInput(fault[s], reading[s]) \in Fault(InputModes \cup OutputModes)
    BY <1>1 DEF TypeOK
  <2>1. PICK d \in Codes : s = SpnOf(d)
    BY DEF Faults
  <2>2. reading[s] \in Reading(InputBits) /\ fault[s] \in Fault(InputModes \cup OutputModes)
    BY DEF TypeOK
  <2> QED
    BY <2>1, <2>2, InputTold
<1>6. TypeOK'
  BY <1>1, <1>2, <1>5 DEF TypeOK, Tell, Phases
<1>7. FlagsTold'
  BY <1>2, <1>4 DEF FlagsTold
<1>8. PhaseBacked'
  BY <1>2 DEF PhaseBacked, Registering
<1>9. ~Registering /\ ~Registering'
  BY <1>2 DEF Registering
<1> QED
  BY <1>2, <1>6, <1>7, <1>8, <1>9, SteadyKeepsMemory

LEMMA OutputsKeepIInv == IInv /\ DiagnoseOutputs => IInv'
<1> SUFFICES ASSUME IInv, DiagnoseOutputs PROVE IInv'
  OBVIOUS
<1> USE DEF IInv
<1>1. PICK reading \in [Faults \ Inputs -> Reading(OutputBits)] :
        /\ fault' = [s \in Faults |-> IF s \in Inputs THEN fault[s]
                                      ELSE CheckOutput(fault[s], reading[s])]
        /\ Tell(Faults \ Inputs, reading)
  BY DEF DiagnoseOutputs
<1>2. /\ phase = "outputs" /\ phase' = "inputs"
      /\ UNCHANGED <<mem, record, count, prev, known, at, total, torn, wiped>>
  BY DEF DiagnoseOutputs
<1>3. \A d \in Codes : SpnOf(d) \in Faults
  BY DEF Faults
<1>4. ASSUME NEW d \in Codes PROVE Active(d)' <=> d \in told'
  <2>1. fault[SpnOf(d)] \in Fault(InputModes \cup OutputModes)
    BY <1>3 DEF TypeOK
  <2>2. CASE SpnOf(d) \notin Inputs
    <3> DEFINE r == reading[SpnOf(d)]
               f == fault[SpnOf(d)]
    <3>1. r \in Reading(OutputBits)
      BY <1>3, <2>2
    <3>2. Active(d)' <=> ModeOf(d) \in CheckOutput(f, r).modes
      BY <1>1, <1>3, <2>2 DEF Active
    <3>3. d \in told' <=> IF r.ok \/ r.bits # {} THEN ModeOf(d) \in r.bits ELSE d \in told
      BY <1>1, <1>3, <2>2 DEF Tell
    <3>4. d \in told <=> ModeOf(d) \in f.modes
      BY DEF FlagsTold, Active
    <3> HIDE DEF r, f
    <3> QED
      BY <2>1, <2>2, <3>1, <3>2, <3>3, <3>4, OutputTold DEF f
  <2>3. CASE SpnOf(d) \in Inputs
    BY <1>1, <1>3, <2>3 DEF Active, Tell, FlagsTold
  <2> QED
    BY <2>2, <2>3
<1>5. fault' \in [Faults -> Fault(InputModes \cup OutputModes)]
  <2> SUFFICES ASSUME NEW s \in Faults, s \notin Inputs
               PROVE  CheckOutput(fault[s], reading[s]) \in Fault(InputModes \cup OutputModes)
    BY <1>1 DEF TypeOK
  <2>1. PICK d \in Codes : s = SpnOf(d)
    BY DEF Faults
  <2>2. reading[s] \in Reading(OutputBits) /\ fault[s] \in Fault(InputModes \cup OutputModes)
    BY DEF TypeOK
  <2> QED
    BY <2>1, <2>2, OutputTold
<1>6. TypeOK'
  BY <1>1, <1>2, <1>5 DEF TypeOK, Tell, Phases
<1>7. FlagsTold'
  BY <1>2, <1>4 DEF FlagsTold
<1>8. PhaseBacked'
  BY <1>2 DEF PhaseBacked, Registering
<1>9. ~Registering /\ ~Registering'
  BY <1>2 DEF Registering
<1> QED
  BY <1>2, <1>6, <1>7, <1>8, <1>9, SteadyKeepsMemory

LEMMA NoCommandKeepsIInv == IInv /\ NoCommand => IInv'
<1> SUFFICES ASSUME IInv, NoCommand PROVE IInv'
  OBVIOUS
<1> USE DEF IInv
<1>1. /\ phase = "misc" /\ phase' = "alarm"
      /\ UNCHANGED <<mem, record, count, flags, at, total, torn, wiped>>
  BY DEF NoCommand
<1>2. TypeOK' /\ PhaseBacked' /\ FlagsTold'
  BY <1>1 DEF TypeOK, Phases, PhaseBacked, Registering, FlagsTold, flags, Active
<1>3. ~Registering /\ ~Registering'
  BY <1>1 DEF Registering
<1> QED
  BY <1>1, <1>2, <1>3, SteadyKeepsMemory

LEMMA ClearFaultsKeepsIInv == IInv /\ ClearFaults => IInv'
<1> SUFFICES ASSUME IInv, ClearFaults PROVE IInv'
  OBVIOUS
<1> USE DEF IInv
<1>1. /\ phase = "misc" /\ phase' = "clearCounts" /\ fault' = NoFaults /\ told' = {}
      /\ UNCHANGED <<mem, record, count, prev, known, at, total, torn, wiped>>
  BY DEF ClearFaults
<1>2. TypeOK'
  BY <1>1 DEF TypeOK, Phases, NoFaults, Healthy, Fault
<1>3. FlagsTold'
  <2>1. \A d \in Codes : SpnOf(d) \in Faults
    BY DEF Faults
  <2> QED
    BY <1>1, <2>1 DEF FlagsTold, Active, NoFaults, Healthy
<1>4. PhaseBacked' /\ ~Registering /\ ~Registering'
  BY <1>1 DEF PhaseBacked, Registering
<1> QED
  BY <1>1, <1>2, <1>3, <1>4, SteadyKeepsMemory

\* An erased block says nothing of the counts; the records in RAM stay apart.
LEMMA ErasureKeepsIInv == IInv /\ (StartErase \/ Erase) => IInv'
<1> SUFFICES ASSUME IInv, StartErase \/ Erase PROVE IInv'
  OBVIOUS
<1> USE DEF IInv
<1>1. ~Registering /\ ~Registering' /\ wiped' /\ torn' = Codes
      /\ UNCHANGED <<record, count, flags>>
  BY DEF StartErase, Erase, Registering, PhaseBacked
<1>2. total' \in [Codes -> 0 .. MaxCount]
  BY DEF StartErase, Erase, TypeOK, Zero
<1>3. /\ phase' \in Phases /\ at' \in Codes \cup Addresses
      /\ IF phase' = "erase" THEN at' \in Start .. End ELSE at' \in Codes
  <2>1. Start \in Start .. End /\ Start \in Addresses /\ 1 \in Codes
    BY DEF End, Addresses, Codes
  <2>2. CASE StartErase
    BY <2>1, <2>2 DEF StartErase, Phases
  <2>3. CASE Erase
    <3>1. phase = "erase" /\ at \in Start .. End
      BY <2>3 DEF Erase, PhaseBacked
    <3>2. \/ at' = at + Chunk /\ at + Chunk < End /\ phase' = phase
          \/ at' = 1 /\ phase' = "alarm"
      BY <2>3 DEF Erase
    <3>3. Start \in Nat /\ End \in Nat /\ Chunk \in Nat
      BY DEF End
    <3> QED
      BY <2>1, <3>1, <3>2, <3>3 DEF Phases, Addresses
  <2> QED
    BY <2>2, <2>3
<1>4. mem' \in [Addresses -> Contents] /\ CountBytes'
  <2>1. Erased \in Contents
    BY DEF Erased, Contents
  <2>2. \A a \in Addresses : mem'[a] = mem[a] \/ mem'[a] = Erased
    BY DEF StartErase, Erase, TypeOK
  <2>3. mem' \in [Addresses -> Contents]
    BY <2>1 DEF StartErase, Erase, TypeOK
  <2> QED
    BY <2>2, <2>3, SlotBytes DEF CountBytes
<1>5. TypeOK'
  BY <1>1, <1>2, <1>3, <1>4 DEF TypeOK, flags
<1>6. PhaseBacked'
  BY <1>1, <1>3 DEF PhaseBacked
<1>7. RecordsDiffer'
  BY <1>1 DEF RecordsDiffer, Registered, Registering
<1>8. SearchRepeatable' /\ MemoryBacked' /\ CountsSurvive'
  BY <1>1 DEF SearchRepeatable, MemoryBacked, CountsSurvive
<1>9. FlagsTold'
  BY <1>1 DEF FlagsTold, Active, flags
<1> QED
  BY <1>4, <1>5, <1>6, <1>7, <1>8, <1>9

\* A power loss forgets everything but the EEPROM.
LEMMA PowerLossKeepsIInv == IInv /\ PowerLoss => IInv'
<1> SUFFICES ASSUME IInv, PowerLoss PROVE IInv'
  OBVIOUS
<1> USE DEF IInv
<1>1. /\ phase' = "register" /\ at' = 1 /\ wiped' = FALSE
      /\ torn' = IF phase = "firstCount" THEN torn \cup {at} ELSE torn
      /\ record' = Zero /\ count' = Zero /\ fault' = NoFaults /\ prev' = NoFlags
      /\ told' = {} /\ known' = {} /\ UNCHANGED <<mem, total>>
  BY DEF PowerLoss
<1>2. 1 \in Codes /\ 0 \in 0 .. MaxCount
  BY DEF Codes
<1>3. torn' \subseteq Codes
  BY <1>1 DEF TypeOK, PhaseBacked
<1>4. NoFaults \in [Faults -> Fault(InputModes \cup OutputModes)]
  BY DEF NoFaults, Healthy, Fault
<1>5. TypeOK'
  BY <1>1, <1>2, <1>3, <1>4 DEF TypeOK, Phases, Zero, NoFlags
<1>6. CountBytes' /\ PhaseBacked' /\ RecordsDiffer' /\ CountsSurvive'
  BY <1>1, <1>2 DEF CountBytes, PhaseBacked, Registering, RecordsDiffer, CountsSurvive, Zero
<1>7. SearchRepeatable'
  BY <1>1 DEF SearchRepeatable, Registered, Zero, Codes
<1>8. MemoryBacked'
  <2>1. \A s \in Slots, d \in Codes : /\ Matches(s, d)' <=> Matches(s, d)
                                      /\ Free(s)' <=> Free(s)
                                      /\ SearchEnd(s, d)' <=> SearchEnd(s, d)
    BY <1>1, SearchReadsHeaders
  <2>2. \A d \in Codes \ torn' : d \notin torn /\ ~(phase = "firstCount" /\ d = at)
    BY <1>1
  <2> QED
    BY <1>1, <2>1, <2>2 DEF MemoryBacked, TotalStored
<1>9. FlagsTold'
  <2>1. \A d \in Codes : SpnOf(d) \in Faults
    BY DEF Faults
  <2> QED
    BY <1>1, <2>1 DEF FlagsTold, Active, NoFaults, Healthy, NoFlags
<1> QED
  BY <1>5, <1>6, <1>7, <1>8, <1>9

-----------------------------------------------------------------------------
LEMMA NextCodeSteps ==
  ASSUME at \in Codes, NEW loop, NEW next, NextCode(loop, next)
  PROVE  /\ at' \in Codes
         /\ \/ phase' = loop /\ at' = at + 1
            \/ phase' = next /\ at = NumCodes
  BY DEF NextCode, Codes

\* A step after the registration that changes the count of one code, its
\* record and its total together.
LEMMA CountingKeepsMemory ==
  ASSUME IInv, ~Registering, ~Registering', at \in Codes, UNCHANGED <<record, wiped>>,
         \A s \in Slots : mem'[s] = mem[s] /\ mem'[s + 1] = mem[s + 1],
         \A s \in Slots : s # record[at] => mem'[s + 2] = mem[s + 2],
         \A s \in Slots : mem'[s + 2] \in 0 .. MaxCount \cup {Erased},
         \A c \in Codes \ {at} : count'[c] = count[c] /\ total'[c] = total[c],
         torn \ {at} \subseteq torn', wiped => torn' = Codes,
         record[at] # 0 /\ at \notin torn' =>
           count'[at] = total'[at] /\ mem'[record[at] + 2] = total'[at]
  PROVE  /\ CountBytes' /\ RecordsDiffer' /\ SearchRepeatable'
         /\ MemoryBacked' /\ CountsSurvive'
<1> USE DEF IInv
<1>1. \A s \in Slots, d \in Codes : /\ Matches(s, d)' <=> Matches(s, d)
                                    /\ Free(s)' <=> Free(s)
                                    /\ SearchEnd(s, d)' <=> SearchEnd(s, d)
  BY SearchReadsHeaders
<1>2. \A d \in Codes : Registered(d) /\ Registered(d)'
  BY DEF Registered, Registering
<1>3. CountBytes' /\ RecordsDiffer'
  BY <1>2 DEF CountBytes, RecordsDiffer
<1>4. SearchRepeatable'
  BY <1>1, <1>2 DEF SearchRepeatable, TypeOK, Registering
<1>5. CountsSurvive'
  BY <1>2 DEF CountsSurvive
<1>6. MemoryBacked'
  <2> SUFFICES ASSUME NEW d \in Codes \ torn', NEW s \in Slots, SearchEnd(s, d)'
               PROVE  TotalStored(d, s)'
    BY DEF MemoryBacked
  <2>1. ~wiped /\ SearchEnd(s, d)
    BY <1>1
  <2>2. CASE d = at
    <3>1. record[d] # 0
      BY <1>2, <2>1 DEF SearchRepeatable
    <3>2. SearchEnd(record[d], d) /\ Matches(record[d], d)
      BY <2>1, <3>1 DEF SearchRepeatable
    <3>3. s = record[d]
      BY <2>1, <3>2, EndUnique
    <3> QED
      BY <1>1, <2>2, <3>1, <3>2, <3>3 DEF TotalStored, Registering
  <2>3. CASE d # at
    <3>1. TotalStored(d, s)
      BY <2>1, <2>3 DEF MemoryBacked
    <3>2. CASE Matches(s, d)
      <4>1. s # record[at]
        <5>1. record[at] # 0 => Matches(record[at], at)
          BY <2>1 DEF SearchRepeatable
        <5>2. s # 0
          BY SlotBytes
        <5> QED
          BY <2>3, <3>2, <5>1, <5>2, HeadersDiffer
      <4>2. mem[s + 2] = total[d]
        BY <2>3, <3>1, <3>2, HeadersDiffer DEF TotalStored, Registering
      <4> QED
        BY <1>1, <2>3, <3>2, <4>1, <4>2 DEF TotalStored, Registering
    <3>3. CASE ~Matches(s, d)
      BY <1>1, <2>3, <3>1, <3>3 DEF TotalStored
    <3> QED
      BY <3>2, <3>3
  <2> QED
    BY <2>2, <2>3
<1> QED
  BY <1>3, <1>4, <1>5, <1>6

LEMMA ClearCountKeepsIInv == IInv /\ ClearCount => IInv'
<1> SUFFICES ASSUME IInv, ClearCount PROVE IInv'
  OBVIOUS
<1> USE DEF IInv
<1>1. /\ phase = "clearCounts" /\ StoreCount(at, 0)
      /\ total' = [total EXCEPT ![at] = 0]
      /\ torn' = IF wiped \/ record[at] = 0 THEN torn ELSE torn \ {at}
      /\ NextCode("clearCounts", "alarm")
      /\ UNCHANGED <<record, flags, wiped>>
  BY DEF ClearCount
<1>2. at \in Codes /\ 0 \in 0 .. MaxCount
  BY <1>1 DEF PhaseBacked
<1>3. at' \in Codes /\ phase' \in {"clearCounts", "alarm"}
  BY <1>1, <1>2, NextCodeSteps
<1>4. /\ mem' \in [Addresses -> Contents]
      /\ count' \in [Codes -> 0 .. MaxCount \cup {Erased}]
      /\ count'[at] = 0 /\ \A c \in Codes : c # at => count'[c] = count[c]
      /\ \A s \in Slots : mem'[s] = mem[s] /\ mem'[s + 1] = mem[s + 1]
      /\ \A s \in Slots : s # record[at] => mem'[s + 2] = mem[s + 2]
      /\ record[at] # 0 => mem'[record[at] + 2] = 0
      /\ \A s \in Slots : mem'[s + 2] \in 0 .. MaxCount \cup {Erased}
  BY <1>1, <1>2, StoredCount
<1>5. /\ total' \in [Codes -> 0 .. MaxCount] /\ total'[at] = 0
      /\ \A c \in Codes \ {at} : total'[c] = total[c]
  BY <1>1, <1>2 DEF TypeOK
<1>6. TypeOK'
  BY <1>1, <1>3, <1>4, <1>5 DEF TypeOK, Phases, flags
<1>7. PhaseBacked'
  BY <1>1, <1>3 DEF PhaseBacked, Registering
<1>8. FlagsTold'
  BY <1>1 DEF FlagsTold, Active, flags
<1>9. CountBytes' /\ RecordsDiffer' /\ SearchRepeatable' /\ MemoryBacked' /\ CountsSurvive'
  <2>1. ~Registering /\ ~Registering'
    BY <1>1, <1>3 DEF Registering
  <2>2. torn \ {at} \subseteq torn' /\ (wiped => torn' = Codes)
    BY <1>1 DEF PhaseBacked
  <2> QED
    BY <1>1, <1>2, <1>4, <1>5, <2>1, <2>2, CountingKeepsMemory
<1> QED
  BY <1>6, <1>7, <1>8, <1>9

\* The alarm handler counts what was told and not known.
LEMMA AlarmKeepsIInv == IInv /\ Alarm => IInv'
<1> SUFFICES ASSUME IInv, Alarm PROVE IInv'
  OBVIOUS
<1> USE DEF IInv
<1>1. /\ phase = "alarm"
      /\ IF Counts(at) THEN StoreCount(at, count[at] + 1) ELSE UNCHANGED <<count, mem>>
      /\ total' = IF at \in told \ known /\ total[at] < MaxCount
                  THEN [total EXCEPT ![at] = total[at] + 1] ELSE total
      /\ known' = IF at \in told THEN known \cup {at} ELSE known \ {at}
      /\ prev' = [prev EXCEPT ![at] = Active(at)]
      /\ NextCode("alarm", "outputs")
      /\ UNCHANGED <<record, fault, told, torn, wiped>>
  BY DEF Alarm, Remember
<1>2. at \in Codes
  BY <1>1 DEF PhaseBacked
<1>3. at' \in Codes /\ phase' \in {"alarm", "outputs"}
  BY <1>1, <1>2, NextCodeSteps
<1>4. Rising(at) <=> at \in told \ known
  BY <1>2 DEF Rising, FlagsTold
<1>5. /\ total' \in [Codes -> 0 .. MaxCount]
      /\ total'[at] = IF Rising(at) /\ total[at] < MaxCount THEN total[at] + 1 ELSE total[at]
      /\ \A c \in Codes \ {at} : total'[c] = total[c]
  BY <1>1, <1>2, <1>4 DEF TypeOK
<1>6. Counts(at) => count[at] + 1 \in 0 .. MaxCount
  BY <1>2 DEF Counts, TypeOK, Erased
<1>7. /\ mem' \in [Addresses -> Contents]
      /\ count' \in [Codes -> 0 .. MaxCount \cup {Erased}]
      /\ count'[at] = IF Counts(at) THEN count[at] + 1 ELSE count[at]
      /\ \A c \in Codes : c # at => count'[c] = count[c]
      /\ \A s \in Slots : mem'[s] = mem[s] /\ mem'[s + 1] = mem[s + 1]
      /\ \A s \in Slots : s # record[at] => mem'[s + 2] = mem[s + 2]
      /\ record[at] # 0 =>
           mem'[record[at] + 2] = IF Counts(at) THEN count[at] + 1 ELSE mem[record[at] + 2]
      /\ \A s \in Slots : mem'[s + 2] \in 0 .. MaxCount \cup {Erased}
  <2>1. CASE Counts(at)
    <3> DEFINE n == count[at] + 1
    <3>1. n \in 0 .. MaxCount /\ StoreCount(at, n)
      BY <1>1, <1>6, <2>1
    <3> HIDE DEF n
    <3>2. /\ mem' \in [Addresses -> Contents]
          /\ count' \in [Codes -> 0 .. MaxCount \cup {Erased}]
          /\ count'[at] = n /\ \A c \in Codes : c # at => count'[c] = count[c]
          /\ \A s \in Slots : mem'[s] = mem[s] /\ mem'[s + 1] = mem[s + 1]
          /\ \A s \in Slots : s # record[at] => mem'[s + 2] = mem[s + 2]
          /\ record[at] # 0 => mem'[record[at] + 2] = n
          /\ \A s \in Slots : mem'[s + 2] \in 0 .. MaxCount \cup {Erased}
      BY <1>2, <3>1, StoredCount
    <3> QED
      BY <2>1, <3>2 DEF n
  <2>2. CASE ~Counts(at)
    BY <1>1, <1>2, <2>2 DEF TypeOK, CountBytes
  <2> QED
    BY <2>1, <2>2
<1>8. record[at] # 0 /\ at \notin torn =>
        count'[at] = total'[at] /\ mem'[record[at] + 2] = total'[at]
  <2> SUFFICES ASSUME record[at] # 0, at \notin torn
               PROVE  count'[at] = total'[at] /\ mem'[record[at] + 2] = total'[at]
    OBVIOUS
  <2>1. ~wiped
    BY <1>2 DEF PhaseBacked
  <2>2. SearchEnd(record[at], at) /\ Matches(record[at], at)
    BY <1>2, <2>1 DEF SearchRepeatable
  <2>3. mem[record[at] + 2] = total[at]
    BY <1>1, <1>2, <2>2, HeadersDiffer DEF MemoryBacked, TotalStored, SearchEnd
  <2>4. count[at] = total[at]
    BY <1>1, <1>2 DEF CountsSurvive, Registered
  <2> QED
    BY <1>5, <1>7, <2>3, <2>4 DEF Counts
<1>9. TypeOK'
  <2>1. Active(at) \in BOOLEAN
    BY DEF Active
  <2>2. prev' \in [Codes -> BOOLEAN]
    BY <1>1, <2>1 DEF TypeOK
  <2>3. known' \subseteq Codes
    BY <1>1, <1>2 DEF TypeOK
  <2> QED
    BY <1>1, <1>3, <1>5, <1>7, <2>2, <2>3 DEF TypeOK, Phases
<1>10. PhaseBacked'
  BY <1>1, <1>3 DEF PhaseBacked, Registering
<1>11. FlagsTold'
  <2>1. \A d \in Codes : Active(d)' <=> Active(d)
    BY <1>1 DEF Active
  <2>2. Active(at) <=> at \in told
    BY <1>2 DEF FlagsTold
  <2>3. prev'[at] = Active(at) /\ \A d \in Codes : d # at => prev'[d] = prev[d]
    BY <1>1, <1>2 DEF TypeOK
  <2> QED
    BY <1>1, <1>2, <2>1, <2>2, <2>3 DEF FlagsTold
<1>12. CountBytes' /\ RecordsDiffer' /\ SearchRepeatable' /\ MemoryBacked' /\ CountsSurvive'
  <2>1. ~Registering /\ ~Registering'
    BY <1>1, <1>3 DEF Registering
  <2>2. torn \ {at} \subseteq torn' /\ (wiped => torn' = Codes)
    BY <1>1 DEF PhaseBacked
  <2> QED
    BY <1>1, <1>2, <1>5, <1>7, <1>8, <2>1, <2>2, CountingKeepsMemory
<1> QED
  BY <1>9, <1>10, <1>11, <1>12

-----------------------------------------------------------------------------
\* The registration reaches one code after the other.
LEMMA RegisteringFacts ==
  ASSUME IInv, Registering
  PROVE  /\ at \in Codes /\ ~wiped
         /\ \A d \in Codes : Registered(d) <=> d < at
         /\ phase = "register" => record[at] = 0
  BY DEF IInv, Registering, Registered, PhaseBacked, RecordsDiffer, Codes

\* Passing on to the next code registers this one.
LEMMA NextRegistered ==
  ASSUME at \in Codes, Registering, NextCode("register", "inputs")
  PROVE  /\ at' \in Codes /\ phase' \in {"register", "inputs"}
         /\ \A d \in Codes : Registered(d)' <=> d < at \/ d = at \/ phase' = "inputs"
         /\ phase' = "inputs" => \A d \in Codes : d < at \/ d = at
<1>1. /\ at' \in Codes
      /\ \/ phase' = "register" /\ at' = at + 1
         \/ phase' = "inputs" /\ at = NumCodes
  BY NextCodeSteps
<1> QED
  BY <1>1 DEF Registered, Codes

LEMMA FoundRecordKeepsIInv == IInv /\ FoundRecord => IInv'
<1> SUFFICES ASSUME IInv, FoundRecord PROVE IInv'
  OBVIOUS
<1> USE DEF IInv
<1>1. PICK s \in Slots :
        /\ phase = "register" /\ SearchEnd(s, at) /\ Matches(s, at)
        /\ record' = [record EXCEPT ![at] = s]
        /\ count' = [count EXCEPT ![at] = mem[s + 2]]
        /\ NextCode("register", "inputs")
        /\ UNCHANGED <<mem, flags, total, torn, wiped>>
  BY DEF FoundRecord
<1>2. /\ Registering /\ at \in Codes /\ ~wiped /\ record[at] = 0
      /\ \A d \in Codes : Registered(d) <=> d < at
  BY <1>1, RegisteringFacts DEF Registering
<1>3. /\ at' \in Codes /\ phase' \in {"register", "inputs"}
      /\ \A d \in Codes : Registered(d)' <=> d < at \/ d = at \/ phase' = "inputs"
      /\ phase' = "inputs" => \A d \in Codes : d < at \/ d = at
  BY <1>1, <1>2, NextRegistered
<1>4. /\ record' \in [Codes -> Slots \cup {0}]
      /\ record'[at] = s /\ \A d \in Codes : d # at => record'[d] = record[d]
      /\ count' \in [Codes -> 0 .. MaxCount \cup {Erased}]
      /\ count'[at] = mem[s + 2] /\ \A d \in Codes : d # at => count'[d] = count[d]
  BY <1>1, <1>2 DEF TypeOK, CountBytes
<1>5. TypeOK' /\ CountBytes' /\ PhaseBacked' /\ FlagsTold'
  BY <1>1, <1>2, <1>3, <1>4
     DEF TypeOK, Phases, CountBytes, PhaseBacked, Registering, FlagsTold, Active, flags
<1>6. \A r \in Slots, d \in Codes : /\ Matches(r, d)' <=> Matches(r, d)
                                    /\ Free(r)' <=> Free(r)
                                    /\ SearchEnd(r, d)' <=> SearchEnd(r, d)
  BY <1>1, SearchReadsHeaders
<1>7. RecordsDiffer'
  <2>1. \A d \in Codes : d # at /\ record[d] # 0 => record[d] # s
    BY <1>1, <1>2, HeadersDiffer DEF SearchRepeatable
  <2>2. \A d \in Codes : record'[d] # 0 => Registered(d)'
    BY <1>1, <1>2, <1>3, <1>4 DEF RecordsDiffer
  <2> QED
    BY <1>2, <1>4, <2>1, <2>2 DEF RecordsDiffer
<1>8. SearchRepeatable'
  <2>1. ASSUME NEW d \in Codes, record'[d] # 0
        PROVE  (SearchEnd(record[d], d) /\ Matches(record[d], d))'
    <3>1. PICK r \in Slots : r = record'[d]
      BY <1>4, <2>1
    <3>2. SearchEnd(r, d) /\ Matches(r, d)
      BY <1>1, <1>2, <1>4, <2>1, <3>1 DEF SearchRepeatable
    <3>3. SearchEnd(r, d)' /\ Matches(r, d)'
      BY <1>6, <3>2
    <3> QED
      BY <3>1, <3>3
  <2>2. \A d \in Codes : Registered(d)' /\ record'[d] = 0 => d # at /\ Registered(d) /\ record[d] = 0
    BY <1>2, <1>3, <1>4, SlotBytes
  <2>3. \A d \in Codes : Registered(d)' /\ record'[d] = 0 => \A r \in Slots : ~SearchEnd(r, d)'
    BY <1>2, <1>6, <2>2 DEF SearchRepeatable
  <2> QED
    BY <1>3, <2>1, <2>3 DEF SearchRepeatable
<1>9. MemoryBacked'
  BY <1>1, <1>3, <1>6 DEF MemoryBacked, TotalStored
<1>10. CountsSurvive'
  <2>1. at \notin torn => mem[s + 2] = total[at]
    BY <1>1, <1>2, HeadersDiffer DEF MemoryBacked, TotalStored
  <2>2. \A d \in Codes \ torn : d # at /\ Registered(d)' /\ record'[d] # 0 => count'[d] = total[d]
    BY <1>2, <1>3, <1>4 DEF CountsSurvive
  <2> QED
    BY <1>1, <1>2, <1>4, <2>1, <2>2 DEF CountsSurvive
<1> QED
  BY <1>5, <1>7, <1>8, <1>9, <1>10

\* The code works on without a record.
LEMMA NoRecordKeepsIInv == IInv /\ NoRecord => IInv'
<1> SUFFICES ASSUME IInv, NoRecord PROVE IInv'
  OBVIOUS
<1> USE DEF IInv
<1>1. /\ phase = "register" /\ ~\E s \in Slots : SearchEnd(s, at)
      /\ NextCode("register", "inputs")
      /\ UNCHANGED <<mem, record, count, flags, total, torn, wiped>>
  BY DEF NoRecord
<1>2. /\ Registering /\ at \in Codes /\ ~wiped /\ record[at] = 0
      /\ \A d \in Codes : Registered(d) <=> d < at
  BY <1>1, RegisteringFacts DEF Registering
<1>3. /\ at' \in Codes /\ phase' \in {"register", "inputs"}
      /\ \A d \in Codes : Registered(d)' <=> d < at \/ d = at \/ phase' = "inputs"
      /\ phase' = "inputs" => \A d \in Codes : d < at \/ d = at
  BY <1>1, <1>2, NextRegistered
<1>4. TypeOK' /\ CountBytes' /\ PhaseBacked' /\ FlagsTold'
  BY <1>1, <1>2, <1>3
     DEF TypeOK, Phases, CountBytes, PhaseBacked, Registering, FlagsTold, Active, flags
<1>5. \A r \in Slots, d \in Codes : /\ Matches(r, d)' <=> Matches(r, d)
                                    /\ Free(r)' <=> Free(r)
                                    /\ SearchEnd(r, d)' <=> SearchEnd(r, d)
  BY <1>1, SearchReadsHeaders
<1>6. RecordsDiffer'
  BY <1>1, <1>2, <1>3 DEF RecordsDiffer
<1>7. SearchRepeatable'
  <2>1. \A d \in Codes : Registered(d)' /\ record[d] = 0 => \A r \in Slots : ~SearchEnd(r, d)
    BY <1>1, <1>2, <1>3 DEF SearchRepeatable
  <2> QED
    BY <1>1, <1>2, <1>3, <1>5, <2>1 DEF SearchRepeatable, TypeOK
<1>8. MemoryBacked'
  BY <1>1, <1>3, <1>5 DEF MemoryBacked, TotalStored
<1>9. CountsSurvive'
  BY <1>1, <1>2, <1>3 DEF CountsSurvive
<1> QED
  BY <1>4, <1>6, <1>7, <1>8, <1>9

\* The header of a new record: the search of every other code ends where it
\* ended, or ended there and goes on.
LEMMA NewHeader ==
  ASSUME NEW c \in Codes, NEW s \in Slots, SearchEnd(s, c), Free(s),
         mem \in [Addresses -> Contents],
         mem' = [mem EXCEPT ![s] = Spn(c), ![s + 1] = Fmi(c)]
  PROVE  /\ mem' \in [Addresses -> Contents]
         /\ \A r \in Slots : mem'[r + 2] = mem[r + 2]
         /\ SearchEnd(s, c)' /\ Matches(s, c)'
         /\ \A r \in Slots \ {s}, d \in Codes : /\ Matches(r, d)' <=> Matches(r, d)
                                                /\ Free(r)' <=> Free(r)
         /\ \A d \in Codes \ {c} : ~Matches(s, d)'
         /\ ~Free(s)'
         /\ \A r \in Slots, d \in Codes \ {c} :
              /\ SearchEnd(r, d) /\ Matches(r, d) => SearchEnd(r, d)'
              /\ SearchEnd(r, d)' => r # s /\ (SearchEnd(r, d) \/ SearchEnd(s, d))
<1>1. s \in Nat /\ {s, s + 1, s + 2} \subseteq Addresses
  BY SlotBytes
<1>2. Spn(c) \in Contents /\ Fmi(c) \in Contents
  BY DEF Spn, Fmi, SpnOf, Contents, Codes
<1>3. mem' \in [Addresses -> Contents]
  BY <1>2
<1>4. mem'[s] = Spn(c) /\ mem'[s + 1] = Fmi(c)
  BY <1>1
<1>5. ASSUME NEW r \in Slots
      PROVE  /\ mem'[r + 2] = mem[r + 2]
             /\ r # s => mem'[r] = mem[r] /\ mem'[r + 1] = mem[r + 1]
  <2>1. r \in Nat /\ {r, r + 1, r + 2} \subseteq Addresses
    BY SlotBytes
  <2>2. (r < s => r + 2 < s) /\ (s < r => s + 2 < r)
    BY SlotsApart
  <2> QED
    BY <1>1, <2>1, <2>2
<1>6. \A r \in Slots \ {s}, d \in Codes : /\ Matches(r, d)' <=> Matches(r, d)
                                          /\ Free(r)' <=> Free(r)
  BY <1>5 DEF Matches, Free
<1>7. Matches(s, c)'
  BY <1>4 DEF Matches
<1>8. ~Free(s)'
  BY <1>4 DEF Free, Spn, SpnOf, Erased, Codes
<1>9. \A d \in Codes \ {c} : ~Matches(s, d)'
  BY <1>4 DEF Matches, Fmi, Codes
<1>10. SearchEnd(s, c)'
  <2>1. \A r \in Slots : r < s => r # s
    BY <1>1
  <2> QED
    BY <1>6, <1>7, <2>1 DEF SearchEnd
<1>11. ASSUME NEW r \in Slots, NEW d \in Codes \ {c}
       PROVE  /\ SearchEnd(r, d) /\ Matches(r, d) => SearchEnd(r, d)'
              /\ SearchEnd(r, d)' => r # s /\ (SearchEnd(r, d) \/ SearchEnd(s, d))
  <2>1. r \in Nat
    BY SlotBytes
  <2>2. ASSUME SearchEnd(r, d), Matches(r, d) PROVE SearchEnd(r, d)'
    <3>1. r < s
      <4>1. r # s
        BY <2>2, HeadersDiffer
      <4>2. ~(s < r)
        BY <2>2 DEF SearchEnd
      <4> QED
        BY <1>1, <2>1, <4>1, <4>2
    <3>2. \A q \in Slots : q < r => q # s
      BY <1>1, <2>1, <3>1
    <3> QED
      BY <1>1, <1>6, <2>1, <2>2, <3>1, <3>2 DEF SearchEnd
  <2>3. ASSUME SearchEnd(r, d)' PROVE r # s /\ (SearchEnd(r, d) \/ SearchEnd(s, d))
    <3>1. r # s
      BY <1>8, <1>9, <2>3 DEF SearchEnd
    <3>2. CASE r < s
      <4>1. \A q \in Slots : q < r => q # s
        BY <1>1, <2>1, <3>2
      <4> QED
        BY <1>6, <2>3, <3>1, <4>1 DEF SearchEnd
    <3>3. CASE s < r
      <4>1. ASSUME NEW q \in Slots, q < s PROVE q # s /\ q < r
        <5>1. q \in Nat
          BY SlotBytes
        <5> QED
          BY <1>1, <2>1, <3>3, <4>1, <5>1
      <4>2. \A q \in Slots : q < s => ~Matches(q, d) /\ ~Free(q)
        BY <1>6, <2>3, <4>1 DEF SearchEnd
      <4> QED
        BY <3>1, <4>2 DEF SearchEnd
    <3> QED
      BY <1>1, <2>1, <3>1, <3>2, <3>3
  <2> QED
    BY <2>2, <2>3
<1> QED
  BY <1>3, <1>5, <1>6, <1>7, <1>8, <1>9, <1>10, <1>11

LEMMA NewRecordKeepsIInv == IInv /\ NewRecord => IInv'
<1> SUFFICES ASSUME IInv, NewRecord PROVE IInv'
  OBVIOUS
<1> USE DEF IInv
<1>1. PICK s \in Slots :
        /\ phase = "register" /\ SearchEnd(s, at) /\ ~Matches(s, at)
        /\ record' = [record EXCEPT ![at] = s]
        /\ mem' = [mem EXCEPT ![s] = Spn(at), ![s + 1] = Fmi(at)]
        /\ phase' = "firstCount"
        /\ UNCHANGED <<count, flags, at, total, torn, wiped>>
  BY DEF NewRecord
<1>2. /\ Registering /\ at \in Codes /\ ~wiped /\ record[at] = 0
      /\ \A d \in Codes : Registered(d) <=> d < at
  BY <1>1, RegisteringFacts DEF Registering
<1>3. Free(s)
  BY <1>1 DEF SearchEnd
<1>4. PICK c \in Codes : c = at /\ c = at'
  BY <1>1, <1>2
<1>5. /\ mem' \in [Addresses -> Contents]
      /\ \A r \in Slots : mem'[r + 2] = mem[r + 2]
      /\ SearchEnd(s, c)' /\ Matches(s, c)'
      /\ \A r \in Slots \ {s}, d \in Codes : /\ Matches(r, d)' <=> Matches(r, d)
                                             /\ Free(r)' <=> Free(r)
      /\ \A d \in Codes \ {c} : ~Matches(s, d)'
      /\ ~Free(s)'
      /\ \A r \in Slots, d \in Codes \ {c} :
           /\ SearchEnd(r, d) /\ Matches(r, d) => SearchEnd(r, d)'
           /\ SearchEnd(r, d)' => r # s /\ (SearchEnd(r, d) \/ SearchEnd(s, d))
  <2>1. SearchEnd(s, c) /\ mem' = [mem EXCEPT ![s] = Spn(c), ![s + 1] = Fmi(c)]
    BY <1>1, <1>4
  <2>2. mem \in [Addresses -> Contents]
    BY DEF TypeOK
  <2> HIDE DEF IInv
  <2> QED
    BY <1>3, <2>1, <2>2, NewHeader
<1>6. /\ record' \in [Codes -> Slots \cup {0}]
      /\ record'[c] = s /\ \A d \in Codes : d # c => record'[d] = record[d]
  BY <1>1, <1>4 DEF TypeOK
<1>7. \A d \in Codes : Registered(d)' <=> Registered(d)
  BY <1>1 DEF Registered
<1>8. TypeOK' /\ CountBytes' /\ PhaseBacked' /\ FlagsTold'
  BY <1>1, <1>2, <1>5, <1>6
     DEF TypeOK, Phases, CountBytes, PhaseBacked, Registering, FlagsTold, Active, flags
<1>9. RecordsDiffer'
  <2>1. \A d \in Codes : d # c /\ record[d] # 0 => record[d] # s
    BY <1>2, <1>3, HeadersDiffer DEF SearchRepeatable
  <2> QED
    BY <1>1, <1>2, <1>6, <1>7, <1>4, <2>1 DEF RecordsDiffer
<1>10. SearchRepeatable'
  <2>1. ASSUME NEW d \in Codes, record'[d] # 0
        PROVE  (SearchEnd(record[d], d) /\ Matches(record[d], d))'
    <3>1. PICK r \in Slots : r = record'[d]
      BY <1>6, <2>1
    <3>2. SearchEnd(r, d)' /\ Matches(r, d)'
      <4>1. CASE d = c
        BY <1>5, <1>6, <3>1, <4>1
      <4>2. CASE d # c
        <5>1. SearchEnd(r, d) /\ Matches(r, d)
          BY <1>2, <1>6, <2>1, <3>1, <4>2 DEF SearchRepeatable
        <5>2. r # s
          BY <1>3, <5>1, HeadersDiffer
        <5> QED
          BY <1>5, <4>2, <5>1, <5>2
      <4> QED
        BY <4>1, <4>2
    <3> QED
      BY <3>1, <3>2
  <2>2. ASSUME NEW d \in Codes, Registered(d)', record'[d] = 0, NEW r \in Slots
        PROVE  ~SearchEnd(r, d)'
    <3>1. d # c
      BY <1>6, <2>2, SlotBytes
    <3>2. \A q \in Slots : ~SearchEnd(q, d)
      BY <1>2, <1>6, <1>7, <2>2, <3>1 DEF SearchRepeatable
    <3> QED
      BY <1>5, <3>1, <3>2
  <2>3. record'[at'] # 0
    BY <1>6, <1>4, SlotBytes
  <2> QED
    BY <2>1, <2>2, <2>3 DEF SearchRepeatable
<1>11. MemoryBacked'
  <2> SUFFICES ASSUME NEW d \in Codes \ torn, NEW r \in Slots, SearchEnd(r, d)'
               PROVE  TotalStored(d, r)'
    BY <1>1 DEF MemoryBacked
  <2>1. CASE d = c
    <3>1. r = s
      <4>1. r \in Nat /\ s \in Nat
        BY SlotBytes
      <4>2. ~(r < s) /\ ~(s < r)
        BY <1>5, <2>1 DEF SearchEnd
      <4> QED
        BY <4>1, <4>2
    <3>2. total[c] = 0
      BY <1>1, <1>3, <1>4, <2>1, HeadersDiffer DEF MemoryBacked, TotalStored
    <3> QED
      BY <1>1, <1>5, <1>4, <2>1, <3>1, <3>2 DEF TotalStored
  <2>2. CASE d # c
    <3>1. r # s /\ (SearchEnd(r, d) \/ SearchEnd(s, d))
      BY <1>5, <2>2
    <3>2. CASE SearchEnd(s, d)
      <4>1. total[d] = 0 /\ \A q \in Slots : ~Matches(q, d)
        BY <1>3, <3>2, HeadersDiffer DEF MemoryBacked, TotalStored
      <4>2. \A q \in Slots : ~Matches(q, d)'
        BY <1>5, <2>2, <4>1
      <4>3. Free(r)'
        BY <4>2 DEF SearchEnd
      <4> QED
        BY <1>1, <4>1, <4>2, <4>3 DEF TotalStored
    <3>3. CASE SearchEnd(r, d)
      <4>1. TotalStored(d, r)
        BY <3>3 DEF MemoryBacked
      <4>2. (Matches(r, d)' <=> Matches(r, d)) /\ (Free(r)' <=> Free(r)) /\ mem'[r + 2] = mem[r + 2]
        BY <1>5, <3>1
      <4>3. (\A q \in Slots : ~Matches(q, d)) => \A q \in Slots : ~Matches(q, d)'
        BY <1>5, <2>2
      <4> QED
        BY <1>1, <1>4, <2>2, <4>1, <4>2, <4>3 DEF TotalStored
    <3> QED
      BY <3>1, <3>2, <3>3
  <2> QED
    BY <2>1, <2>2
<1>12. CountsSurvive'
  BY <1>1, <1>2, <1>6, <1>7, <1>4 DEF CountsSurvive, Codes
<1> QED
  BY <1>8, <1>9, <1>10, <1>11, <1>12

LEMMA FirstCountKeepsIInv == IInv /\ FirstCount => IInv'
<1> SUFFICES ASSUME IInv, FirstCount PROVE IInv'
  OBVIOUS
<1> USE DEF IInv
<1>1. /\ phase = "firstCount" /\ StoreCount(at, 0)
      /\ NextCode("register", "inputs")
      /\ UNCHANGED <<record, flags, total, torn, wiped>>
  BY DEF FirstCount, StoreCount
<1>2. /\ Registering /\ at \in Codes /\ ~wiped
      /\ \A d \in Codes : Registered(d) <=> d < at
  BY <1>1, RegisteringFacts DEF Registering
<1>3. /\ at' \in Codes /\ phase' \in {"register", "inputs"}
      /\ \A d \in Codes : Registered(d)' <=> d < at \/ d = at \/ phase' = "inputs"
      /\ phase' = "inputs" => \A d \in Codes : d < at \/ d = at
  BY <1>1, <1>2, NextRegistered
<1>4. /\ mem' \in [Addresses -> Contents]
      /\ count' \in [Codes -> 0 .. MaxCount \cup {Erased}]
      /\ count'[at] = 0 /\ \A c \in Codes : c # at => count'[c] = count[c]
      /\ \A s \in Slots : mem'[s] = mem[s] /\ mem'[s + 1] = mem[s + 1]
      /\ \A s \in Slots : s # record[at] => mem'[s + 2] = mem[s + 2]
      /\ record[at] # 0 => mem'[record[at] + 2] = 0
      /\ \A s \in Slots : mem'[s + 2] \in 0 .. MaxCount \cup {Erased}
  <2>1. 0 \in 0 .. MaxCount
    OBVIOUS
  <2> QED
    BY <1>1, <1>2, <2>1, StoredCount
<1>5. record[at] # 0 /\ SearchEnd(record[at], at) /\ Matches(record[at], at)
  BY <1>1, <1>2 DEF SearchRepeatable
<1>6. \A r \in Slots, d \in Codes : /\ Matches(r, d)' <=> Matches(r, d)
                                    /\ Free(r)' <=> Free(r)
                                    /\ SearchEnd(r, d)' <=> SearchEnd(r, d)
  BY <1>4, SearchReadsHeaders
<1>7. TypeOK' /\ CountBytes' /\ PhaseBacked' /\ FlagsTold'
  BY <1>1, <1>2, <1>3, <1>4
     DEF TypeOK, Phases, CountBytes, PhaseBacked, Registering, FlagsTold, Active, flags
<1>8. RecordsDiffer'
  BY <1>1, <1>2, <1>3 DEF RecordsDiffer
<1>9. SearchRepeatable'
  <2>1. \A d \in Codes : Registered(d)' /\ record[d] = 0 => \A r \in Slots : ~SearchEnd(r, d)
    BY <1>1, <1>2, <1>3, <1>5 DEF SearchRepeatable
  <2> QED
    BY <1>1, <1>2, <1>3, <1>6, <2>1 DEF SearchRepeatable, TypeOK
<1>10. at \notin torn => total[at] = 0
  BY <1>1, <1>2, <1>5, HeadersDiffer DEF MemoryBacked, TotalStored, SearchEnd
<1>11. MemoryBacked'
  <2> SUFFICES ASSUME NEW d \in Codes \ torn, NEW s \in Slots, SearchEnd(s, d)
               PROVE  TotalStored(d, s)'
    BY <1>1, <1>6 DEF MemoryBacked
  <2>1. CASE d = at
    <3>1. s = record[at]
      BY <1>2, <1>5, <2>1, EndUnique
    <3> QED
      BY <1>1, <1>4, <1>5, <1>6, <1>10, <2>1, <3>1 DEF TotalStored
  <2>2. CASE d # at
    <3>1. TotalStored(d, s)
      BY DEF MemoryBacked
    <3>2. Matches(s, d) => s # record[at]
      BY <1>2, <1>5, <2>2, HeadersDiffer
    <3> QED
      BY <1>1, <1>3, <1>4, <1>6, <2>2, <3>1, <3>2 DEF TotalStored
  <2> QED
    BY <2>1, <2>2
<1>12. CountsSurvive'
  <2>1. \A d \in Codes \ torn : d # at /\ Registered(d)' /\ record[d] # 0 => count'[d] = total[d]
    BY <1>2, <1>3, <1>4 DEF CountsSurvive
  <2> QED
    BY <1>1, <1>2, <1>4, <1>10, <2>1 DEF CountsSurvive
<1> QED
  BY <1>7, <1>8, <1>9, <1>11, <1>12

-----------------------------------------------------------------------------
LEMMA NextKeepsIInv == IInv /\ [Next]_vars => IInv'
<1> SUFFICES ASSUME IInv, [Next]_vars PROVE IInv'
  OBVIOUS
<1>1. CASE FoundRecord
  BY <1>1, FoundRecordKeepsIInv
<1>2. CASE NewRecord
  BY <1>2, NewRecordKeepsIInv
<1>3. CASE FirstCount
  BY <1>3, FirstCountKeepsIInv
<1>4. CASE NoRecord
  BY <1>4, NoRecordKeepsIInv
<1>5. CASE DiagnoseInputs \/ DiagnoseOutputs
  BY <1>5, InputsKeepIInv, OutputsKeepIInv
<1>6. CASE NoCommand \/ ClearFaults
  BY <1>6, NoCommandKeepsIInv, ClearFaultsKeepsIInv
<1>7. CASE ClearCount
  BY <1>7, ClearCountKeepsIInv
<1>8. CASE StartErase \/ Erase
  BY <1>8, ErasureKeepsIInv
<1>9. CASE Alarm
  BY <1>9, AlarmKeepsIInv
<1>10. CASE PowerLoss
  BY <1>10, PowerLossKeepsIInv
<1>11. CASE UNCHANGED vars
  <2>1. /\ UNCHANGED <<mem, record, count, fault, prev, told, known, phase>>
        /\ UNCHANGED <<at, total, torn, wiped>>
    BY <1>11 DEF vars
  <2>2. TypeOK' /\ CountBytes' /\ PhaseBacked' /\ FlagsTold'
    BY <2>1 DEF IInv, TypeOK, CountBytes, PhaseBacked, Registering, FlagsTold, Active
  <2>3. RecordsDiffer' /\ CountsSurvive'
    BY <2>1 DEF IInv, RecordsDiffer, CountsSurvive, Registered
  <2>4. \A r \in Slots, d \in Codes : /\ Matches(r, d)' <=> Matches(r, d)
                                      /\ Free(r)' <=> Free(r)
                                      /\ SearchEnd(r, d)' <=> SearchEnd(r, d)
    BY <2>1, SearchReadsHeaders
  <2>5. SearchRepeatable'
    BY <2>1, <2>4 DEF IInv, SearchRepeatable, Registered, TypeOK
  <2>6. MemoryBacked'
    BY <2>1, <2>4 DEF IInv, MemoryBacked, TotalStored
  <2> QED
    BY <2>2, <2>3, <2>5, <2>6 DEF IInv
<1> QED
  BY <1>1, <1>2, <1>3, <1>4, <1>5, <1>6, <1>7, <1>8, <1>9, <1>10, <1>11 DEF Next, Program

LEMMA Inductive == Spec => []IInv
  BY InitIInv, NextKeepsIInv, PTL DEF Spec

\* The EEPROM, the records, the counts and the flags keep their types, for
\* every number of codes and every layout of the block (nvm_handler_lib.c,
\* alarm_handler_lib.c).
THEOREM TypeCorrect == Spec => []TypeOK
  BY Inductive, PTL DEF IInv

\* No two codes ever work on the same record, and each works on its own until
\* the block is erased under it (nvm_handler_lib.c lines 90-130).
THEOREM RecordsStayApart == Spec => []RecordsApart
<1>1. IInv => RecordsApart
  BY DEF IInv, RecordsDiffer, SearchRepeatable, RecordsApart
<1> QED
  BY <1>1, Inductive, PTL

\* A count tells the occurrences the drivers told of, over power losses,
\* clears and driver failures, unless its record was torn
\* (alarm_handler_lib.c lines 168-177).
THEOREM CountsAreKept == Spec => []CountsSurvive
  BY Inductive, PTL DEF IInv

\* An output can be faulty without any failure mode, so that its controller
\* stops it and no trouble code tells why: exactly when its driver reports
\* nothing but bits without a mode, SHORT_UB_OL among them, or says nothing
\* after such a report (output_handler_lib.c lines 256-301).
THEOREM SilentFaults ==
  ASSUME NEW f \in Fault(OutputModes), NEW r \in Reading(OutputBits)
  PROVE  LET g == CheckOutput(f, r) IN
         g.status /\ g.modes = {} <=>
           IF r.bits # {} THEN r.bits \cap OutputModes = {}
                          ELSE ~r.ok /\ f.status /\ f.modes = {}
  BY DEF CheckOutput, Fault, Reading, Healthy

-----------------------------------------------------------------------------
\* A code the alarm handler knows of has been counted, or its fault has been
\* cleared in this turn and the alarm handler is about to forget it; what was
\* told is known once the alarm handler has reached it.
EdgesBacked ==
  /\ phase \in {"inputs", "misc", "outputs"} => at = 1
  /\ Registering => known = {}
  /\ phase = "clearCounts" => told = {}
  /\ phase = "alarm" => \A d \in told : d < at => d \in known
  /\ phase = "outputs" => told \subseteq known
  /\ \A d \in known : \/ count[d] > 0
                      \/ told = {} /\ phase = "clearCounts"
                      \/ told = {} /\ phase = "alarm" /\ d >= at

LEMMA AlarmKeepsEdges == IInv /\ EdgesBacked /\ Alarm => EdgesBacked'
<1> SUFFICES ASSUME IInv, EdgesBacked, Alarm PROVE EdgesBacked'
  OBVIOUS
<1>1. /\ phase = "alarm" /\ UNCHANGED told
      /\ known' = IF at \in told THEN known \cup {at} ELSE known \ {at}
      /\ IF Counts(at) THEN StoreCount(at, count[at] + 1) ELSE UNCHANGED count
      /\ NextCode("alarm", "outputs")
  BY DEF Alarm
<1>2. at \in Codes /\ at \in Nat /\ known \subseteq Codes /\ told \subseteq Codes
  BY <1>1 DEF IInv, PhaseBacked, TypeOK, Codes
<1>3. /\ \/ phase' = "alarm" /\ at' = at + 1
         \/ phase' = "outputs" /\ at' = 1 /\ at = NumCodes
      /\ at' \in Codes
  BY <1>1, <1>2 DEF NextCode, Codes
<1>4. /\ \A d \in Codes : d # at => count'[d] = count[d]
      /\ count'[at] = IF Counts(at) THEN count[at] + 1 ELSE count[at]
  BY <1>1, <1>2 DEF StoreCount, IInv, TypeOK
<1>5. at \in told => count'[at] > 0
  <2> SUFFICES ASSUME at \in told PROVE count'[at] > 0
    OBVIOUS
  <2>1. count[at] \in 0 .. MaxCount \cup {Erased} /\ Erased > 0
    BY <1>2 DEF IInv, TypeOK, Erased
  <2>2. Active(at) /\ (prev[at] <=> at \in known)
    BY <1>2 DEF IInv, FlagsTold
  <2>3. CASE at \in known
    <3>1. count[at] > 0
      BY <2>3 DEF EdgesBacked
    <3> QED
      BY <1>4, <2>1, <3>1 DEF Erased
  <2>4. CASE at \notin known
    <3>1. Counts(at) <=> count[at] < MaxCount
      BY <2>2, <2>4 DEF Counts, Rising
    <3> QED
      BY <1>4, <2>1, <3>1 DEF Erased
  <2> QED
    BY <2>3, <2>4
<1>6. \A d \in told : d <= at => d \in known'
  BY <1>1, <1>2 DEF EdgesBacked, Codes
<1>7. \A d \in told : phase' = "outputs" => d <= at
  BY <1>2, <1>3 DEF Codes
<1>8. ASSUME NEW d \in known'
      PROVE  \/ count'[d] > 0
             \/ told = {} /\ phase' = "alarm" /\ d >= at'
  <2>1. CASE d = at
    BY <1>1, <1>5, <2>1
  <2>2. CASE d # at
    <3>1. d \in known /\ d \in Codes
      BY <1>1, <1>2, <2>2
    <3>2. \/ count[d] > 0
          \/ told = {} /\ d >= at
      BY <1>1, <3>1 DEF EdgesBacked
    <3>3. d >= at => phase' = "alarm" /\ d >= at'
      BY <1>2, <1>3, <2>2, <3>1 DEF Codes
    <3> QED
      BY <1>4, <2>2, <3>1, <3>2, <3>3
  <2> QED
    BY <2>1, <2>2
<1>9. phase' = "alarm" => \A d \in told' : d < at' => d \in known'
  BY <1>1, <1>2, <1>3, <1>6 DEF Codes
<1>10. phase' = "outputs" => told' \subseteq known'
  BY <1>1, <1>6, <1>7
<1>11. \A d \in known' : \/ count'[d] > 0
                         \/ told' = {} /\ phase' = "clearCounts"
                         \/ told' = {} /\ phase' = "alarm" /\ d >= at'
  BY <1>1, <1>8
<1> QED
  BY <1>3, <1>9, <1>10, <1>11 DEF EdgesBacked, Registering

LEMMA ClearCountKeepsEdges == IInv /\ EdgesBacked /\ ClearCount => EdgesBacked'
<1> SUFFICES ASSUME IInv, EdgesBacked, ClearCount PROVE EdgesBacked'
  OBVIOUS
<1>1. /\ phase = "clearCounts" /\ told = {} /\ UNCHANGED <<told, known>>
      /\ NextCode("clearCounts", "alarm") /\ at \in Codes
  BY DEF ClearCount, EdgesBacked, flags, IInv, PhaseBacked
<1>2. \/ phase' = "clearCounts"
      \/ phase' = "alarm" /\ at' = 1
  BY <1>1 DEF NextCode
<1>3. \A d \in known : d >= 1
  BY DEF IInv, TypeOK, Codes
<1> QED
  BY <1>1, <1>2, <1>3 DEF EdgesBacked, Registering

LEMMA NextKeepsEdges == IInv /\ EdgesBacked /\ [Next]_vars => EdgesBacked'
<1> SUFFICES ASSUME IInv, EdgesBacked, [Next]_vars PROVE EdgesBacked'
  OBVIOUS
<1>1. CASE FoundRecord \/ NoRecord \/ FirstCount
  <2>1. /\ Registering /\ at \in Codes /\ UNCHANGED flags
        /\ NextCode("register", "inputs")
    BY <1>1 DEF FoundRecord, NoRecord, FirstCount, Registering, IInv, PhaseBacked
  <2>2. \/ phase' = "register"
        \/ phase' = "inputs" /\ at' = 1
    BY <2>1 DEF NextCode
  <2> QED
    BY <2>1, <2>2 DEF EdgesBacked, flags, Registering
<1>2. CASE NewRecord
  BY <1>2 DEF NewRecord, EdgesBacked, Registering, flags
<1>3. CASE DiagnoseInputs \/ DiagnoseOutputs
  BY <1>3 DEF DiagnoseInputs, DiagnoseOutputs, EdgesBacked, Registering
<1>4. CASE NoCommand
  <2>1. told' \subseteq Codes /\ at' = 1 /\ phase' = "alarm" /\ phase = "misc"
    BY <1>4 DEF NoCommand, EdgesBacked, IInv, TypeOK, flags
  <2>2. \A d \in told' : ~(d < at')
    BY <2>1 DEF Codes
  <2> QED
    BY <1>4, <2>1, <2>2 DEF NoCommand, EdgesBacked, Registering, flags
<1>5. CASE ClearFaults
  BY <1>5 DEF ClearFaults, EdgesBacked, Registering
<1>6. CASE StartErase
  BY <1>6 DEF StartErase, EdgesBacked, Registering, flags
<1>7. CASE Erase
  <2>1. /\ phase = "erase" /\ UNCHANGED <<told, known, count>>
        /\ \/ phase' = "erase"
           \/ phase' = "alarm" /\ at' = 1
    BY <1>7 DEF Erase, flags
  <2>2. \A d \in told : ~(d < 1)
    BY DEF IInv, TypeOK, Codes
  <2> QED
    BY <2>1, <2>2 DEF EdgesBacked, Registering
<1>8. CASE PowerLoss
  BY <1>8 DEF PowerLoss, EdgesBacked
<1>9. CASE UNCHANGED vars
  BY <1>9 DEF vars, EdgesBacked, Registering
<1> QED
  BY <1>1, <1>2, <1>3, <1>4, <1>5, <1>6, <1>7, <1>8, <1>9,
     AlarmKeepsEdges, ClearCountKeepsEdges DEF Next, Program

\* For every number of codes and every limit of the counts a fault the drivers
\* told of has a count when the alarm handler is through.
THEOREM FaultsHaveCounts == Spec => []ToldAreCounted
<1>1. Init => EdgesBacked
  BY DEF Init, EdgesBacked
<1>2. EdgesBacked => ToldAreCounted
  BY DEF EdgesBacked, ToldAreCounted
<1> QED
  BY <1>1, <1>2, NextKeepsEdges, Inductive, PTL DEF Spec

\* While the loop turns without clearing anything, no count returns to 0.
LEMMA TurningKeepsCounts ==
  ASSUME IInv, NEW d \in Codes, Running, Running', count[d] > 0, [Next]_vars
  PROVE  count'[d] > 0
<1>1. CASE Alarm
  <2>1. at \in Codes /\ count \in [Codes -> 0 .. MaxCount \cup {Erased}]
    BY <1>1 DEF Alarm, IInv, PhaseBacked, TypeOK
  <2>2. count'[d] \in {count[d], count[d] + 1}
    BY <1>1, <2>1 DEF Alarm, StoreCount
  <2> QED
    BY <2>1, <2>2 DEF Erased
<1>2. CASE UNCHANGED count
  BY <1>2
<1>3. Alarm \/ UNCHANGED count
  BY DEF Running, Next, Program, vars, FoundRecord, NoRecord, FirstCount, NewRecord,
         DiagnoseInputs, NoCommand, ClearFaults, ClearCount, StartErase, Erase,
         DiagnoseOutputs, PowerLoss
<1> QED
  BY <1>1, <1>2, <1>3

\* A fault the drivers keep telling of is counted for good, also when its flag
\* and its count were cleared before: all that is asked of the program is that
\* its turns keep coming to their end.
THEOREM LastingFaultsAreCounted ==
  Spec /\ []<><<DiagnoseOutputs>>_vars => FaultsCounted
<1> SUFFICES ASSUME NEW d \in Codes
             PROVE  Spec /\ []<><<DiagnoseOutputs>>_vars =>
                      (<>[](d \in told /\ Running) => <>[](count[d] > 0))
  BY DEF FaultsCounted
<1>1. ToldAreCounted /\ d \in told /\ <<DiagnoseOutputs>>_vars => count[d] > 0
  BY DEF ToldAreCounted, DiagnoseOutputs
<1>2. /\ IInv /\ d \in told /\ Running /\ (d \in told /\ Running)'
      /\ count[d] > 0 /\ [Next]_vars
      => (count[d] > 0)'
  BY TurningKeepsCounts
<1> QED
  BY <1>1, <1>2, Inductive, FaultsHaveCounts, PTL DEF Spec
=============================================================================
