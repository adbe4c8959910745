------------------------- MODULE ParameterStoreProofs -------------------------
(***************************************************************************)
(* For every number of lists, every width of the mask and all contents:    *)
(* the copies of a parameter agree as the properties of ParameterStore     *)
(* say, however the main loop, the service tool and power losses           *)
(* interleave.                                                             *)
(***************************************************************************)
EXTENDS ParameterStore, TLAPS

Starting == main.step \in {"loadList", "assignList"}

\* The dashboard is mirrored in a complete turn only; the saving of lists and
\* the reset flags wait for the openSYDE task.
StartBacked ==
  /\ Starting => ~mirrored
  /\ ~started => dirty = {} /\ ~reset.control /\ ~reset.dash
                 /\ main.step \in {"loadList", "assignList", "minder", "misc", "mirrorList"}
  /\ reset.control => reset.dash
  /\ Resetting /\ ~Starting => reset.dash

\* A list that is not waiting to be saved has been saved (or loaded).
PoolBacked == \A l \in Saved \ dirty :
  main.step # "loadList" \/ l < main.list => datapool[l] = eeprom[l]

\* The control structures follow the data pool except in the middle of
\* start-up or reset; the minder runs ahead of it.
ControlBacked ==
  /\ main.step = "resetDone" => control = datapool
  /\ ~Resetting =>
       /\ \A l \in Lists \ Learned : control[l] = datapool[l]
       /\ \A l \in Learned : control[l] >= datapool[l]
  /\ main.step \in {"assignList", "reassignList"} =>
       \A l \in Lists : l < main.list => control[l] = datapool[l]

\* An undisturbed reset has given these lists their defaults.
ResetBacked == undisturbed =>
  /\ main.step \in {"resetList", "reloadList", "reassignList", "resetDone"} =>
       wanted = Dataset
  /\ main.step = "resetList" =>
       \A l \in Lists : l < main.list => eeprom[l] = Dataset[l] /\ datapool[l] = Dataset[l]
  /\ main.step \in {"reloadList", "reassignList", "resetDone"} =>
       \A l \in Lists : eeprom[l] = Dataset[l] /\ datapool[l] = Dataset[l]

\* What the controllers run with is what was wanted, from the start on,
\* unless the tool wrote too early.
WantedBacked ==
  /\ Starting /\ undisturbed => wanted = eeprom /\ dirty = {}
  /\ main.step = "loadList" /\ undisturbed =>
       \A l \in Lists : l < main.list => datapool[l] = eeprom[l]
  /\ main.step = "assignList" /\ undisturbed => datapool = eeprom
  /\ ~Resetting /\ ~reset.control /\ undisturbed =>
       \A l \in Lists \ Learned : control[l] = wanted[l]
  /\ ~Resetting /\ undisturbed => \A l \in Learned : datapool[l] = wanted[l]

\* The dashboard shows the control structures, unless it is being mirrored
\* for the first time or after a reset.
DashBacked ==
  /\ mirrored /\ ~reset.dash /\ ~Resetting =>
       \A l \in Lists \ Learned : dash[l] = control[l]
  /\ main.step = "mirrorList" =>
       \A l \in Lists \ Learned : l < main.list => dash[l] = control[l]

IInv == /\ TypeOK /\ StartBacked /\ PoolBacked /\ ControlBacked
        /\ ResetBacked /\ WantedBacked /\ DashBacked

USE ParameterStoreAssumption

\* The default dataset is one a list may hold.
LEMMA DatasetLemma == Dataset \in Contents
  BY ParameterStoreAssumption DEF ParameterStoreAssumption, Dataset, Contents

\* The next list of the same step, or the first one of the next step.
LEMMA AdvanceLemma ==
  ASSUME TypeOK, NEW next \in Steps, Advance(next)
  PROVE  /\ main' \in [step : Steps, list : Lists]
         /\ \/ main'.step = main.step /\ main'.list = main.list + 1
            \/ main'.step = next /\ main'.list = 0 /\ main.list = NumLists - 1
  BY DEF TypeOK, Advance, Lists

\* A step of the main loop starts with the first list.
LEMMA GoLemma ==
  ASSUME NEW next \in Steps, Go(next)
  PROVE  /\ main' \in [step : Steps, list : Lists]
         /\ main'.step = next /\ main'.list = 0
  BY DEF Go, Lists

\* The copies after a write event.
LEMMA WriteEventLemma ==
  ASSUME TypeOK, NEW dashboard \in Contents, WriteEvent(dashboard)
  PROVE  /\ control' \in Contents /\ datapool' = control'
         /\ \A l \in Lists : control'[l] = IF l \in Learned THEN control[l] ELSE dashboard[l]
         /\ dirty' \subseteq Saved
         /\ \A l \in Saved \ dirty' : datapool'[l] = datapool[l]
<1>1. /\ control' \in Contents
      /\ \A l \in Lists : control'[l] = IF l \in Learned THEN control[l] ELSE dashboard[l]
  BY DEF TypeOK, WriteEvent, Synced, Contents
<1>2. datapool' = control'
  BY <1>1 DEF TypeOK, WriteEvent, OutOfSync, Contents
<1>3. dirty' \subseteq Saved /\ \A l \in Saved \ dirty' : datapool'[l] = datapool[l]
  BY <1>1 DEF WriteEvent, OutOfSync, Saved
<1> QED
  BY <1>1, <1>2, <1>3

\* What is wanted after a write event.
LEMMA NotedLemma ==
  ASSUME TypeOK, NEW given \in Contents
  PROVE  /\ Noted(given) \in Contents
         /\ \A l \in Lists : Noted(given)[l] = IF l \in Learned THEN control[l] ELSE given[l]
  BY DEF TypeOK, Noted, Contents

\* What the minder learns can be compared.
LEMMA LearnedIsNat ==
  ASSUME NEW copy \in Contents, NEW l \in Learned
  PROVE  l \in Lists /\ copy[l] \in Nat
  BY DEF Contents, Lists

LEMMA LoadListKeepsIInv == IInv /\ LoadList => IInv'
<1> SUFFICES ASSUME IInv, LoadList PROVE IInv'
  OBVIOUS
<1> USE DEF IInv, LoadList
<1>1. /\ main' \in [step : Steps, list : Lists]
      /\ \/ main'.step = main.step /\ main'.list = main.list + 1
         \/ main'.step = (IF main.step = "loadList" THEN "assignList" ELSE "reassignList") /\ main'.list = 0 /\ main.list = NumLists - 1
  BY AdvanceLemma DEF Steps
<1>2. TypeOK'
  BY <1>1 DEF TypeOK, Contents
<1>3. StartBacked'
  BY <1>1 DEF StartBacked, Starting, Resetting
<1>4. PoolBacked'
  BY <1>1 DEF PoolBacked, TypeOK, Lists, Saved, Contents
<1>5. ControlBacked'
  BY <1>1 DEF ControlBacked, Resetting, Lists
<1>6. ResetBacked'
  BY <1>1 DEF ResetBacked
<1>7. WantedBacked'
  <2>1. Resetting' /\ (Starting' => Starting)
    BY <1>1 DEF Resetting, Starting
  <2>2. main.step = "loadList" /\ undisturbed =>
          \A l \in Lists : l < main.list + 1 => datapool'[l] = eeprom[l]
    BY DEF WantedBacked, TypeOK, Lists, Contents
  <2>3. main'.step = "assignList" /\ undisturbed => datapool' = eeprom
    <3>1. SUFFICES ASSUME main'.step = "assignList", undisturbed
                   PROVE  \A l \in Lists : datapool'[l] = eeprom[l]
      BY DEF TypeOK, Contents
    <3> QED
      BY <1>1, <2>2, <3>1 DEF Lists
  <2> QED
    BY <1>1, <2>1, <2>2, <2>3 DEF WantedBacked
<1>8. DashBacked'
  BY <1>1 DEF DashBacked, StartBacked
<1> QED
  BY <1>2, <1>3, <1>4, <1>5, <1>6, <1>7, <1>8

LEMMA AssignListKeepsIInv == IInv /\ AssignList => IInv'
<1> SUFFICES ASSUME IInv, AssignList PROVE IInv'
  OBVIOUS
<1> USE DEF IInv, AssignList
<1>1. /\ main' \in [step : Steps, list : Lists]
      /\ \/ main'.step = main.step /\ main'.list = main.list + 1
         \/ main'.step = (IF main.step = "assignList" THEN "minder" ELSE "resetDone") /\ main'.list = 0 /\ main.list = NumLists - 1
  BY AdvanceLemma DEF Steps
<1>2. TypeOK'
  BY <1>1 DEF TypeOK, Contents
<1>3. StartBacked'
  BY <1>1 DEF StartBacked, Starting, Resetting
<1>4. PoolBacked'
  BY DEF PoolBacked
<1>5. ControlBacked'
  <2>1. \A l \in Lists : l < main.list => control'[l] = datapool[l]
    BY DEF ControlBacked, TypeOK, Lists, Contents
  <2>2. control'[main.list] = datapool[main.list]
    BY DEF TypeOK, Contents
  <2>3. ASSUME main.list = NumLists - 1 PROVE control' = datapool
    BY <2>1, <2>2, <2>3 DEF TypeOK, Lists, Contents
  <2>4. \A l \in Learned : datapool[l] >= datapool[l]
    BY LearnedIsNat DEF TypeOK
  <2>5. \A l \in Lists : l < main.list + 1 => control'[l] = datapool[l]
    BY <2>1, <2>2 DEF TypeOK, Lists
  <2> QED
    BY <1>1, <2>3, <2>4, <2>5 DEF ControlBacked, Resetting
<1>6. ResetBacked'
  BY <1>1 DEF ResetBacked
<1>7. WantedBacked'
  <2>1. (Starting' => Starting) /\ (~Resetting' => main.step = "assignList")
    BY <1>1 DEF Resetting, Starting
  <2>2. main.step = "assignList" /\ undisturbed => datapool = wanted
    BY DEF WantedBacked, Starting
  <2>3. ~Resetting' => \A l \in Lists \ Learned : control'[l] = datapool[l]
    BY <1>5 DEF ControlBacked
  <2> QED
    BY <1>1, <2>1, <2>2, <2>3 DEF WantedBacked
<1>8. DashBacked'
  BY <1>1 DEF DashBacked, Resetting, StartBacked
<1> QED
  BY <1>2, <1>3, <1>4, <1>5, <1>6, <1>7, <1>8

LEMMA LearnFilterKeepsIInv == IInv /\ LearnFilter => IInv'
<1> SUFFICES ASSUME IInv, LearnFilter PROVE IInv'
  OBVIOUS
<1> USE DEF IInv, LearnFilter
<1>1. /\ main' \in [step : Steps, list : Lists]
      /\ main'.step = "misc" /\ main'.list = 0
  BY GoLemma DEF Steps
<1>2. /\ control' \in Contents
      /\ \A l \in Lists \ Learned : control'[l] = control[l]
      /\ \A l \in Learned : control'[l] >= control[l]
  <2>1. CASE UNCHANGED control
    BY <2>1, LearnedIsNat DEF TypeOK
  <2>2. CASE \E l \in Learned, v \in Values :
               v > control[l] /\ control' = [control EXCEPT ![l] = v]
    <3>1. PICK l \in Learned, v \in Values :
            v > control[l] /\ control' = [control EXCEPT ![l] = v]
      BY <2>2
    <3>2. control \in [Lists -> Values] /\ l \in Lists
      BY <3>1, LearnedIsNat DEF TypeOK, Contents
    <3>3. /\ control' \in Contents
          /\ \A k \in Lists : control'[k] = IF k = l THEN v ELSE control[k]
      BY <3>1, <3>2 DEF Contents
    <3>4. ASSUME NEW k \in Learned PROVE control'[k] >= control[k]
      <4>1. k \in Lists /\ control[k] \in Nat /\ v \in Nat
        BY <3>2, LearnedIsNat DEF Contents
      <4>2. control'[k] = IF k = l THEN v ELSE control[k]
        BY <3>3, <4>1
      <4> QED
        BY <3>1, <4>1, <4>2
    <3> QED
      BY <3>1, <3>3, <3>4
  <2> QED
    BY <2>1, <2>2
<1>3. TypeOK'
  BY <1>1, <1>2 DEF TypeOK
<1>4. StartBacked'
  BY <1>1 DEF StartBacked, Starting, Resetting
<1>5. PoolBacked'
  BY <1>1 DEF PoolBacked
<1>6. ControlBacked'
  <2>1. \A l \in Learned : control'[l] >= datapool[l]
    BY <1>2, LearnedIsNat DEF ControlBacked, TypeOK, Resetting
  <2> QED
    BY <1>1, <1>2, <2>1 DEF ControlBacked, Resetting
<1>7. ResetBacked'
  BY <1>1 DEF ResetBacked
<1>8. WantedBacked'
  BY <1>1, <1>2 DEF WantedBacked, Starting, Resetting
<1>9. DashBacked'
  BY <1>1, <1>2 DEF DashBacked, Resetting
<1> QED
  BY <1>3, <1>4, <1>5, <1>6, <1>7, <1>8, <1>9

LEMMA MiscKeepsIInv == IInv /\ Misc => IInv'
<1> SUFFICES ASSUME IInv, Misc PROVE IInv'
  OBVIOUS
<1> USE DEF IInv, Misc, copies
<1>1. /\ main' \in [step : Steps, list : Lists]
      /\ main'.step = (IF reset.control THEN "resetList" ELSE "mirrorList") /\ main'.list = 0
  BY GoLemma DEF Steps
<1>2. TypeOK'
  BY <1>1, DatasetLemma DEF TypeOK, Contents
<1>3. StartBacked'
  BY <1>1 DEF StartBacked, Starting, Resetting
<1>4. PoolBacked'
  BY DEF PoolBacked
<1>5. ControlBacked'
  BY <1>1 DEF ControlBacked, Resetting
<1>6. ResetBacked'
  BY <1>1 DEF ResetBacked, Lists
<1>7. WantedBacked'
  BY <1>1 DEF WantedBacked, Starting, Resetting
<1>8. DashBacked'
  BY <1>1 DEF DashBacked, Lists, StartBacked
<1> QED
  BY <1>2, <1>3, <1>4, <1>5, <1>6, <1>7, <1>8

LEMMA ResetListKeepsIInv == IInv /\ ResetList => IInv'
<1> SUFFICES ASSUME IInv, ResetList PROVE IInv'
  OBVIOUS
<1> USE DEF IInv, ResetList, ApplyDataset
<1>1. /\ main' \in [step : Steps, list : Lists]
      /\ \/ main'.step = main.step /\ main'.list = main.list + 1
         \/ main'.step = "reloadList" /\ main'.list = 0 /\ main.list = NumLists - 1
  BY AdvanceLemma DEF Steps
<1>2. TypeOK'
  <2>1. Dataset[main.list] \in Values
    BY DatasetLemma DEF TypeOK, Contents
  <2>2. datapool' \in Contents /\ eeprom' \in Contents
    BY <2>1 DEF TypeOK, Contents
  <2> QED
    BY <1>1, <2>2 DEF TypeOK
<1>3. StartBacked'
  BY <1>1 DEF StartBacked, Starting, Resetting
<1>4. PoolBacked'
  BY DEF PoolBacked, TypeOK, Contents
<1>5. ControlBacked'
  BY <1>1 DEF ControlBacked, Resetting
<1>6. ResetBacked'
  <2>1. undisturbed => \A l \in Lists : l < main.list + 1 =>
                         eeprom'[l] = Dataset[l] /\ datapool'[l] = Dataset[l]
    BY DEF ResetBacked, TypeOK, Lists, Contents
  <2> QED
    BY <1>1, <2>1 DEF ResetBacked, Lists
<1>7. WantedBacked'
  BY <1>1 DEF WantedBacked, Starting, Resetting
<1>8. DashBacked'
  BY <1>1 DEF DashBacked, StartBacked
<1> QED
  BY <1>2, <1>3, <1>4, <1>5, <1>6, <1>7, <1>8

LEMMA ResetDoneKeepsIInv == IInv /\ ResetDone => IInv'
<1> SUFFICES ASSUME IInv, ResetDone PROVE IInv'
  OBVIOUS
<1> USE DEF IInv, ResetDone, copies
<1>1. /\ main' \in [step : Steps, list : Lists]
      /\ main'.step = "mirrorList" /\ main'.list = 0
  BY GoLemma DEF Steps
<1>2. TypeOK'
  BY <1>1 DEF TypeOK
<1>3. StartBacked'
  BY <1>1 DEF StartBacked, Starting, Resetting
<1>4. PoolBacked'
  BY DEF PoolBacked
<1>5. ControlBacked'
  <2>1. \A l \in Learned : datapool'[l] >= datapool'[l]
    BY <1>2, LearnedIsNat DEF TypeOK
  <2> QED
    BY <1>1, <2>1 DEF ControlBacked, Resetting, Lists
<1>6. ResetBacked'
  BY DEF ResetBacked
<1>7. WantedBacked'
  BY <1>1 DEF WantedBacked, TypeOK, Starting, Saved, Contents, ControlBacked, ResetBacked
<1>8. DashBacked'
  BY <1>1 DEF DashBacked, Lists, StartBacked
<1> QED
  BY <1>2, <1>3, <1>4, <1>5, <1>6, <1>7, <1>8

LEMMA MirrorListKeepsIInv == IInv /\ MirrorList => IInv'
<1> SUFFICES ASSUME IInv, MirrorList PROVE IInv'
  OBVIOUS
<1> USE DEF IInv, MirrorList
<1>1. /\ main' \in [step : Steps, list : Lists]
      /\ \/ main'.step = main.step /\ main'.list = main.list + 1
         \/ main'.step = "minder" /\ main'.list = 0 /\ main.list = NumLists - 1
  BY AdvanceLemma DEF Steps
<1>2. TypeOK'
  <2>1. dash' \in Contents
    BY DEF TypeOK, Contents
  <2>2. reset' \in [control : BOOLEAN, dash : BOOLEAN]
    BY DEF TypeOK
  <2>3. mirrored' \in BOOLEAN
    BY DEF TypeOK
  <2> QED
    BY <1>1, <2>1, <2>2, <2>3 DEF TypeOK
<1>3. StartBacked'
  BY <1>1 DEF StartBacked, TypeOK, Starting, Resetting
<1>4. PoolBacked'
  BY DEF PoolBacked
<1>5. ControlBacked'
  BY <1>1 DEF ControlBacked, Resetting
<1>6. ResetBacked'
  BY <1>1 DEF ResetBacked
<1>7. WantedBacked'
  BY <1>1 DEF WantedBacked, TypeOK, Starting, Resetting
<1>8. DashBacked'
  <2>1. \A l \in Lists \ Learned : l < main.list + 1 => dash'[l] = control[l]
    BY DEF DashBacked, TypeOK, Lists, Contents
  <2>2. CASE main'.step = "mirrorList"
    <3>1. main'.list = main.list + 1 /\ main.list # NumLists - 1
      BY <1>1, <2>2 DEF Lists
    <3>2. ASSUME mirrored, ~reset.dash, NEW l \in Lists \ Learned
          PROVE  dash'[l] = control[l]
      BY <3>2 DEF DashBacked, Resetting, TypeOK, Contents
    <3> QED
      BY <2>1, <2>2, <3>1, <3>2 DEF DashBacked
  <2>3. CASE main'.step = "minder"
    BY <1>1, <2>1, <2>3 DEF DashBacked, Lists
  <2> QED
    BY <1>1, <2>2, <2>3
<1> QED
  BY <1>2, <1>3, <1>4, <1>5, <1>6, <1>7, <1>8

LEMMA StartTaskKeepsIInv == IInv /\ StartTask => IInv'
<1> SUFFICES ASSUME IInv, StartTask PROVE IInv'
  OBVIOUS
<1> USE DEF IInv, StartTask, copies
<1>1. TypeOK'
  BY DEF TypeOK
<1>2. StartBacked'
  BY DEF StartBacked, Starting, Resetting
<1>3. PoolBacked' /\ ControlBacked' /\ ResetBacked'
  BY DEF PoolBacked, ControlBacked, ResetBacked, Resetting
<1>4. WantedBacked' /\ DashBacked'
  BY DEF WantedBacked, DashBacked, Starting, Resetting
<1> QED
  BY <1>1, <1>2, <1>3, <1>4

LEMMA ToolWritesKeepsIInv == IInv /\ ToolWrites => IInv'
<1> SUFFICES ASSUME IInv, ToolWrites PROVE IInv'
  OBVIOUS
<1> USE DEF IInv, ToolWrites
<1>1. /\ started /\ dirty = {} /\ (main.step = "mirrorList" => main.list = 0)
  BY DEF ToolReady, Locked, TypeOK, Lists
<1>2. PICK k \in Lists \ Learned, v \in Values :
        /\ dash' = [dash EXCEPT ![k] = v]
        /\ WriteEvent(dash')
        /\ wanted' = Noted([wanted EXCEPT ![k] = v])
  OBVIOUS
<1>3. dash' \in Contents /\ [wanted EXCEPT ![k] = v] \in Contents
  BY <1>2 DEF TypeOK, Contents
<1>4. /\ control' \in Contents /\ datapool' = control'
      /\ \A l \in Lists : control'[l] = IF l \in Learned THEN control[l] ELSE dash'[l]
      /\ dirty' \subseteq Saved
      /\ \A l \in Saved \ dirty' : datapool'[l] = datapool[l]
  BY <1>2, <1>3, WriteEventLemma
<1>5. /\ wanted' \in Contents
      /\ \A l \in Lists : wanted'[l] = IF l \in Learned THEN control[l]
                                      ELSE IF l = k THEN v ELSE wanted[l]
  BY <1>2, <1>3, NotedLemma DEF TypeOK, Contents
<1>6. TypeOK'
  BY <1>3, <1>4, <1>5 DEF TypeOK
<1>7. StartBacked'
  BY <1>1 DEF StartBacked, Starting, Resetting
<1>8. PoolBacked'
  BY <1>1, <1>4 DEF PoolBacked
<1>9. ControlBacked'
  <2>1. \A l \in Learned : datapool'[l] >= datapool'[l]
    BY <1>6, LearnedIsNat DEF TypeOK
  <2> QED
    BY <1>4, <2>1 DEF ControlBacked, Resetting, Lists
<1>10. ResetBacked'
  BY DEF ResetBacked, Resetting
<1>11. WantedBacked'
  <2>1. Starting' => ~undisturbed'
    BY DEF Starting, Resetting
  <2>2. ASSUME ~Resetting', ~reset'.control, undisturbed', NEW l \in Lists \ Learned
        PROVE  control'[l] = wanted'[l]
    <3>1. ~reset.dash /\ ~reset.control /\ undisturbed /\ mirrored /\ ~Resetting
      BY <2>2 DEF TypeOK, StartBacked
    <3>2. dash[l] = control[l] /\ control[l] = wanted[l]
      BY <1>1, <3>1 DEF DashBacked, WantedBacked
    <3> QED
      BY <1>2, <1>4, <1>5, <3>2 DEF TypeOK, Contents
  <2>3. \A l \in Learned : datapool'[l] = wanted'[l]
    BY <1>4, <1>5 DEF Lists
  <2> QED
    BY <2>1, <2>2, <2>3 DEF WantedBacked, Starting
<1>12. DashBacked'
  BY <1>4 DEF DashBacked
<1> QED
  BY <1>6, <1>7, <1>8, <1>9, <1>10, <1>11, <1>12

LEMMA ToolResetsKeepsIInv == IInv /\ ToolResets => IInv'
<1> SUFFICES ASSUME IInv, ToolResets PROVE IInv'
  OBVIOUS
<1> USE DEF IInv, ToolResets
<1>1. /\ started /\ dirty = {} /\ (main.step = "mirrorList" => main.list = 0)
  BY DEF ToolReady, Locked, TypeOK, Lists
<1>2. dash' \in Contents
  BY DEF TypeOK
<1>3. /\ control' \in Contents /\ datapool' = control'
      /\ \A l \in Lists : control'[l] = IF l \in Learned THEN control[l] ELSE dash'[l]
      /\ \A l \in Lists : wanted'[l] = IF l \in Learned THEN control[l] ELSE wanted[l]
      /\ wanted' \in Contents
      /\ dirty' \subseteq Saved
      /\ \A l \in Saved \ dirty' : datapool'[l] = datapool[l]
  BY <1>2, WriteEventLemma, NotedLemma DEF TypeOK, Contents
<1>4. TypeOK'
  BY <1>3 DEF TypeOK
<1>5. StartBacked'
  BY <1>1 DEF StartBacked, Starting
<1>6. PoolBacked'
  BY <1>1, <1>3 DEF PoolBacked
<1>7. ControlBacked'
  <2>1. \A l \in Learned : datapool'[l] >= datapool'[l]
    BY <1>4, LearnedIsNat DEF TypeOK
  <2> QED
    BY <1>3, <2>1 DEF ControlBacked, Resetting, Lists
<1>8. ResetBacked'
  BY DEF ResetBacked, Resetting
<1>9. WantedBacked'
  <2>1. Starting' => ~undisturbed'
    BY DEF Starting, Resetting
  <2>2. \A l \in Learned : datapool'[l] = wanted'[l]
    BY <1>3 DEF Lists
  <2> QED
    BY <2>1, <2>2 DEF WantedBacked, Starting
<1>10. DashBacked'
  BY <1>3 DEF DashBacked
<1> QED
  BY <1>4, <1>5, <1>6, <1>7, <1>8, <1>9, <1>10

LEMMA SaveListKeepsIInv == IInv /\ SaveList => IInv'
<1> SUFFICES ASSUME IInv, SaveList PROVE IInv'
  OBVIOUS
<1> USE DEF IInv, SaveList
<1>1. TypeOK'
  BY DEF TypeOK, Saved, Contents
<1>2. StartBacked'
  BY DEF StartBacked, Starting, Resetting
<1>3. PoolBacked'
  BY DEF PoolBacked, TypeOK, Saved, Contents
<1>4. ControlBacked'
  BY DEF ControlBacked, Resetting
<1>5. ResetBacked'
  BY DEF ResetBacked
<1>6. WantedBacked'
  BY DEF WantedBacked, Starting, Resetting, StartBacked
<1>7. DashBacked'
  BY DEF DashBacked, StartBacked
<1> QED
  BY <1>1, <1>2, <1>3, <1>4, <1>5, <1>6, <1>7

LEMMA PowerLossKeepsIInv == IInv /\ PowerLoss => IInv'
<1> SUFFICES ASSUME IInv, PowerLoss PROVE IInv'
  OBVIOUS
<1> USE DEF IInv, PowerLoss
<1>1. /\ main' \in [step : Steps, list : Lists]
      /\ main'.step = "loadList" /\ main'.list = 0
  BY GoLemma DEF Steps
<1>2. TypeOK'
  <2>1. datapool' \in Contents
    BY DEF Contents
  <2>2. reset' \in [control : BOOLEAN, dash : BOOLEAN]
    OBVIOUS
  <2> QED
    BY <1>1, <2>1, <2>2 DEF TypeOK
<1>3. StartBacked'
  BY <1>1 DEF StartBacked, Starting
<1>4. PoolBacked'
  BY <1>1 DEF PoolBacked, Lists, Saved
<1>5. ControlBacked'
  BY <1>1 DEF ControlBacked, Resetting
<1>6. ResetBacked'
  BY <1>1 DEF ResetBacked
<1>7. WantedBacked'
  BY <1>1 DEF WantedBacked, Resetting, Lists
<1>8. DashBacked'
  BY DEF DashBacked
<1> QED
  BY <1>2, <1>3, <1>4, <1>5, <1>6, <1>7, <1>8

\* Start-up: whatever the EEPROM holds.
LEMMA InitIInv == Init => IInv
<1> SUFFICES ASSUME Init PROVE IInv
  OBVIOUS
<1>1. main = [step |-> "loadList", list |-> 0] /\ 0 \in Lists
  BY DEF Init, Lists
<1>2. TypeOK
  <2>1. datapool \in Contents
    <3>1. datapool = [l \in Lists |-> Blank]
      BY DEF Init
    <3> QED
      BY <3>1 DEF Contents
  <2>2. eeprom \in Contents /\ control = datapool /\ dash = datapool /\ wanted = eeprom
    BY DEF Init
  <2>3. main \in [step : Steps, list : Lists]
    BY <1>1 DEF Steps
  <2>4. reset \in [control : BOOLEAN, dash : BOOLEAN]
    BY DEF Init
  <2>5. dirty = {} /\ started = FALSE /\ mirrored = FALSE /\ undisturbed = TRUE
    BY DEF Init
  <2> QED
    BY <2>1, <2>2, <2>3, <2>4, <2>5 DEF TypeOK
<1>3. StartBacked /\ ControlBacked /\ ResetBacked
  BY <1>1 DEF Init, StartBacked, ControlBacked, ResetBacked, Starting, Resetting
<1>4. PoolBacked /\ WantedBacked /\ DashBacked
  BY <1>1 DEF Init, PoolBacked, WantedBacked, DashBacked, Starting, Resetting,
              Lists, Saved
<1> QED
  BY <1>2, <1>3, <1>4 DEF IInv

LEMMA StutterKeepsIInv == IInv /\ UNCHANGED vars => IInv'
  BY DEF vars, IInv, TypeOK, StartBacked, PoolBacked, ControlBacked, ResetBacked,
         WantedBacked, DashBacked, Starting, Resetting

LEMMA NextKeepsIInv == IInv /\ [Next]_vars => IInv'
  BY LoadListKeepsIInv, AssignListKeepsIInv, LearnFilterKeepsIInv, MiscKeepsIInv, ResetListKeepsIInv,
     ResetDoneKeepsIInv, MirrorListKeepsIInv, StartTaskKeepsIInv, ToolWritesKeepsIInv,
     ToolResetsKeepsIInv, SaveListKeepsIInv, PowerLossKeepsIInv, StutterKeepsIInv
  DEF Next, MainStep

\* Every reachable state satisfies the inductive invariant, with or without
\* fairness.
LEMMA Invariance == Spec => []IInv
  BY InitIInv, NextKeepsIInv, PTL DEF Spec

\* The copies of the parameters keep their types (nvm_handler.c).
THEOREM CopiesTyped == Spec => []TypeOK
<1>1. IInv => TypeOK
  BY DEF IInv
<1> QED
  BY <1>1, Invariance, PTL

\* Whatever the number of lists and the width of the mask: outside a reset
\* and with no save pending, the EEPROM holds every list the mask covers as
\* the controllers use it (nvm_handler.c lines 108-131).
THEOREM ParametersSurvive == Spec => []PowerLossKeepsParameters
<1>1. IInv => PowerLossKeepsParameters
  <2> SUFFICES ASSUME IInv, Settled, NEW l \in Saved \ Learned
               PROVE  eeprom[l] = control[l]
    BY DEF PowerLossKeepsParameters
  <2>1. control[l] = datapool[l]
    BY DEF IInv, Settled, ControlBacked, Saved
  <2>2. datapool[l] = eeprom[l]
    BY DEF IInv, Settled, PoolBacked, Resetting
  <2> QED
    BY <2>1, <2>2
<1> QED
  BY <1>1, Invariance, PTL

\* What the filter minder has learned is in the EEPROM after the next write of
\* the tool or the next reset, and only then (misc_control.c line 103).
THEOREM LearnedSaved == Spec => []LearnedSavedWithNextWrite
<1>1. IInv => LearnedSavedWithNextWrite
  <2> SUFFICES ASSUME IInv, Settled, undisturbed, NEW l \in Saved \cap Learned
               PROVE  eeprom[l] = wanted[l] /\ eeprom[l] <= control[l]
    BY DEF LearnedSavedWithNextWrite
  <2>1. datapool[l] = wanted[l] /\ datapool[l] <= control[l]
    BY DEF IInv, Settled, WantedBacked, ControlBacked, Saved
  <2>2. datapool[l] = eeprom[l]
    BY DEF IInv, Settled, PoolBacked, Resetting
  <2> QED
    BY <2>1, <2>2
<1> QED
  BY <1>1, Invariance, PTL

\* No mirroring of the main loop takes back what the service tool wrote or a
\* reset restored (dashboard_handler.c lines 86-128).
THEOREM ToolWins == Spec => []ToolHasLastWord
<1>1. IInv => ToolHasLastWord
  BY DEF IInv, WantedBacked, ToolHasLastWord
<1> QED
  BY <1>1, Invariance, PTL

\* A reset no tool write disturbs ends with every list at its default, in
\* the control structures and in the EEPROM (nvm_handler.c lines 142-154).
THEOREM ResetCompletes == Spec => ResetIsComplete
<1> DEFINE Complete == main.step = "resetDone" /\ main'.step = "mirrorList" /\ undisturbed
                       => \A l \in Lists : eeprom[l] = Dataset[l] /\ control[l] = Dataset[l]
<1>1. IInv => Complete
  BY DEF IInv, ResetBacked, ControlBacked
<1> QED
  BY <1>1, Invariance, PTL DEF ResetIsComplete, Complete

-----------------------------------------------------------------------------
\* Where a reset is under way, and what it leads to.
InReset == main.step \in {"resetList", "reloadList", "reassignList", "resetDone"}

Defaults(copy) == \A l \in Lists : copy[l] = Dataset[l]

Goal == (Defaults(eeprom) /\ Defaults(control)) \/ ~undisturbed \/ ~started

\* A request the dashboard shows is one the main loop will see, or it has just
\* been served and the dashboard is about to be told.
RequestBacked == reset.dash /\ ~reset.control =>
  /\ main.step = "mirrorList"
  /\ undisturbed => Defaults(eeprom) /\ Defaults(datapool) /\ Defaults(control)

LEMMA NextKeepsRequest == IInv /\ RequestBacked /\ [Next]_vars => RequestBacked'
<1> SUFFICES ASSUME IInv, RequestBacked, [Next]_vars, reset'.dash, ~reset'.control
             PROVE  /\ main'.step = "mirrorList"
                    /\ undisturbed' =>
                         (Defaults(eeprom) /\ Defaults(datapool) /\ Defaults(control))'
  BY DEF RequestBacked
<1>1. reset \in [control : BOOLEAN, dash : BOOLEAN]
  BY DEF IInv, TypeOK
<1>2. CASE LoadList \/ AssignList \/ LearnFilter \/ Misc \/ ResetList
  BY <1>2 DEF LoadList, AssignList, LearnFilter, Misc, ResetList, RequestBacked
<1>3. CASE ResetDone
  <2>1. main'.step = "mirrorList" /\ UNCHANGED <<copies, undisturbed>>
    BY <1>3 DEF ResetDone, Go
  <2>2. undisturbed => Defaults(eeprom) /\ Defaults(datapool) /\ Defaults(control)
    BY <1>3 DEF ResetDone, IInv, ResetBacked, ControlBacked, Defaults
  <2> QED
    BY <2>1, <2>2 DEF copies, Defaults
<1>4. CASE MirrorList
  <2>1. main.list # NumLists - 1 /\ UNCHANGED reset
    BY <1>1, <1>4 DEF MirrorList
  <2>2. main'.step = "mirrorList"
    <3>1. Advance("minder") /\ main.step = "mirrorList" /\ "minder" \in Steps
      BY <1>4 DEF MirrorList, Steps
    <3> QED
      BY <2>1, <3>1, AdvanceLemma DEF IInv
  <2> QED
    BY <1>4, <2>1, <2>2 DEF MirrorList, RequestBacked, Defaults
<1>5. CASE ToolWrites \/ ToolResets
  <2>1. reset' = [reset EXCEPT !.control = reset.dash]
        \/ reset' = [control |-> TRUE, dash |-> TRUE]
    BY <1>5 DEF ToolWrites, ToolResets
  <2> QED
    BY <1>1, <2>1
<1>6. CASE SaveList
  <2>1. PICK l \in dirty : eeprom' = [eeprom EXCEPT ![l] = datapool[l]]
    BY <1>6 DEF SaveList
  <2>2. eeprom \in Contents /\ dirty \subseteq Lists
    BY DEF IInv, TypeOK, Saved
  <2>3. UNCHANGED <<datapool, control, reset, main, undisturbed>>
    BY <1>6 DEF SaveList
  <2>4. Defaults(eeprom) /\ Defaults(datapool) => Defaults(eeprom)'
    BY <2>1, <2>2 DEF Contents, Defaults
  <2> QED
    BY <2>3, <2>4 DEF RequestBacked, Defaults
<1>7. CASE PowerLoss
  BY <1>7 DEF PowerLoss
<1>8. CASE StartTask \/ UNCHANGED vars
  BY <1>8 DEF StartTask, vars, copies, RequestBacked, Defaults
<1> QED
  BY <1>2, <1>3, <1>4, <1>5, <1>6, <1>7, <1>8 DEF Next, MainStep

\* No step but the end of a reset, or a power loss, drops a request or leaves
\* a reset.
LEMMA RequestStays ==
  ASSUME IInv, RequestBacked, [Next]_vars, ~Goal
  PROVE  /\ reset.control => reset'.control \/ Goal'
         /\ InReset => InReset' \/ Goal'
<1>1. reset \in [control : BOOLEAN, dash : BOOLEAN] /\ main \in [step : Steps, list : Lists]
  BY DEF IInv, TypeOK
<1>2. ~ResetDone
  <2> SUFFICES ASSUME ResetDone PROVE FALSE
    OBVIOUS
  <2>1. undisturbed => Defaults(eeprom) /\ Defaults(control)
    BY DEF ResetDone, IInv, ResetBacked, ControlBacked, Defaults
  <2> QED
    BY <2>1 DEF Goal
<1>3. CASE LoadList
  <2>1. LoadList /\ UNCHANGED reset /\ (InReset => Advance("reassignList"))
    BY <1>3 DEF LoadList, InReset
  <2> QED
    BY <2>1, AdvanceLemma DEF InReset, IInv, Steps
<1>4. CASE AssignList
  <2>1. AssignList /\ UNCHANGED reset /\ (InReset => Advance("resetDone"))
    BY <1>4 DEF AssignList, InReset
  <2> QED
    BY <2>1, AdvanceLemma DEF InReset, IInv, Steps
<1>5. CASE ResetList
  <2>1. ResetList /\ UNCHANGED reset /\ Advance("reloadList")
    BY <1>5 DEF ResetList
  <2> QED
    BY <2>1, AdvanceLemma DEF InReset, IInv, Steps
<1>6. CASE LearnFilter \/ Misc \/ MirrorList
  BY <1>1, <1>6 DEF LearnFilter, Misc, MirrorList, InReset
<1>7. CASE ToolWrites \/ ToolResets
  BY <1>1, <1>7 DEF ToolWrites, ToolResets, InReset, IInv, StartBacked
<1>8. CASE PowerLoss
  BY <1>8 DEF PowerLoss, Goal
<1>9. CASE StartTask \/ SaveList \/ UNCHANGED vars
  BY <1>9 DEF StartTask, SaveList, vars, InReset
<1> QED
  BY <1>2, <1>3, <1>4, <1>5, <1>6, <1>7, <1>8, <1>9 DEF Next, MainStep

\* A reset the tool asks for is served, whatever else it writes and however
\* the two tasks interleave, or the power fails or an early write disturbs it:
\* all that is asked of the main loop is that update_miscControl is called
\* again and again (misc_control.c lines 362-367).
THEOREM ResetsAreServed == Spec /\ []<><<Misc>>_vars => ResetServed
<1>1. Init => RequestBacked
  BY DEF Init, RequestBacked
<1>2. IInv /\ RequestBacked /\ reset.dash => reset.control \/ Goal
  BY DEF RequestBacked, Goal
<1>3. IInv /\ RequestBacked /\ ~Goal /\ [Next]_vars
        => /\ reset.control => (reset.control)' \/ Goal'
           /\ InReset => InReset' \/ Goal'
  BY RequestStays
<1>4. reset.control /\ <<Misc>>_vars => InReset'
  BY DEF Misc, Go, InReset
<1>5. <<Misc>>_vars => ~InReset
  BY DEF Misc, InReset
<1>6. Goal <=> \/ \A l \in Lists : eeprom[l] = Dataset[l] /\ control[l] = Dataset[l]
               \/ ~undisturbed
               \/ ~started
  BY DEF Goal, Defaults
<1>7. Spec /\ []<><<Misc>>_vars => (reset.dash ~> Goal)
  BY <1>1, <1>2, <1>3, <1>4, <1>5, Invariance, NextKeepsRequest, PTL DEF Spec
<1> QED
  BY <1>6, <1>7, PTL DEF ResetServed
=============================================================================
