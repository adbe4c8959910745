--------------------------- MODULE ParameterStore ---------------------------
(***************************************************************************)
(* The machine parameters and their four copies: EEPROM, configuration     *)
(* data pool, control structures and dashboard data pool (nvm_handler.c,   *)
(* dashboard_handler.c).  Two tasks work on them.  The main loop mirrors   *)
(* the control structures into the dashboard and resets the parameters on  *)
(* request; the openSYDE task, of higher priority (osy_srv.h line 15),     *)
(* serves a service tool: what the tool writes to the dashboard is copied  *)
(* to the control structures and saved (osy_app.c lines 28-32).            *)
(*                                                                         *)
(* A list of parameters is saved as a whole and is modelled by one value.  *)
(* One parameter, the highest filter restriction seen, is not on the       *)
(* dashboard: the filter minder of the main loop raises it directly in the *)
(* control structure (misc_control.c).  It is a list of its own here, its  *)
(* fields being compared and copied one by one anyway.                     *)
(* The main loop may be interrupted between any two of its steps; the      *)
(* openSYDE task only waits for the lock of the dashboard and for the      *)
(* EEPROM.  Its first activation is delayed by a fixed time                *)
(* (OSY_SRV_DPD_TASK_DELAY) and so is the start-up of the main loop by the *)
(* outputs (output_handler_lib.c line 77): the task may start before the   *)
(* parameters are loaded, and before the dashboard shows them.             *)
(***************************************************************************)
EXTENDS Naturals

CONSTANTS NumLists,  \* CONFIGURATION_NUMBER_OF_LISTS, 9
          MaskBits,  \* width of u32_syncStatus, an uint8: 8
          Learned,   \* what the filter minder learns: u8_filter_rstn_max
          Values,    \* what a list may hold
          Default,   \* its content in the default dataset, if not learned
          Blank      \* its content in RAM before it is loaded, all zeros

ASSUME ParameterStoreAssumption ==
  /\ NumLists \in Nat \ {0}
  /\ MaskBits \in Nat
  /\ Learned \subseteq 0 .. NumLists - 1
  /\ Values \subseteq Nat
  /\ {Default, Blank} \subseteq Values

VARIABLES
  eeprom,    \* what survives a power loss
  datapool,  \* gt_Configuration_DataPoolValues
  control,   \* the configuration structures the controllers read
  dash,      \* gt_Dashboard_DataPoolValues, parameters
  reset,     \* u8_reset_params: [control, dash]
  main,      \* what the main loop does next, and for which list
  dirty,     \* lists the openSYDE task still has to save
  started,   \* is the openSYDE task active?
  wanted,    \* history: what the tool or a reset last gave a list, or had
             \* been learned by then
  mirrored,  \* history: has the dashboard been mirrored since the start?
  undisturbed  \* history: no tool write since the start or the last reset
               \* came during a reset or before the dashboard was mirrored

vars == <<eeprom, datapool, control, dash, reset, main, dirty, started,
          wanted, mirrored, undisturbed>>
copies == <<eeprom, datapool, control, dash>>

Lists == 0 .. NumLists - 1
Saved == {l \in Lists : l < MaskBits}  \* NVM_LIST_BIT(l) fits into the mask
Contents == [Lists -> Values]

\* The default dataset; in it nothing has been learned.
Dataset == [l \in Lists |-> IF l \in Learned THEN Blank ELSE Default]

Steps == {"loadList", "assignList", "minder", "misc", "resetList", "reloadList",
          "reassignList", "resetDone", "mirrorList"}

\* The next list of the same step, or the first one of the next step.
Advance(next) == main' = IF main.list + 1 \in Lists
                         THEN [main EXCEPT !.list = @ + 1]
                         ELSE [step |-> next, list |-> 0]
Go(next) == main' = [step |-> next, list |-> 0]

Init ==
  /\ eeprom \in Contents
  /\ datapool \in {[l \in Lists |-> Blank]}
  /\ control = datapool
  /\ dash = datapool
  /\ reset = [control |-> FALSE, dash |-> FALSE]
  /\ main = [step |-> "loadList", list |-> 0]
  /\ dirty = {}
  /\ started = FALSE
  /\ wanted = eeprom
  /\ mirrored = FALSE
  /\ undisturbed = TRUE

-----------------------------------------------------------------------------
\* init_nvmParameters at start-up and at the end of a reset: read the lists,
\* then assign every field of the control structures.
LoadList ==
  /\ main.step \in {"loadList", "reloadList"}
  /\ datapool' = [datapool EXCEPT ![main.list] = eeprom[main.list]]
  /\ Advance(IF main.step = "loadList" THEN "assignList" ELSE "reassignList")
  /\ UNCHANGED <<eeprom, control, dash, reset, dirty, started, wanted, mirrored, undisturbed>>

AssignList ==
  /\ main.step \in {"assignList", "reassignList"}
  /\ control' = [control EXCEPT ![main.list] = datapool[main.list]]
  /\ Advance(IF main.step = "assignList" THEN "minder" ELSE "resetDone")
  /\ UNCHANGED <<eeprom, datapool, dash, reset, dirty, started, wanted, mirrored, undisturbed>>

\* update_filterMinder: a restriction above the highest one takes its place
\* in the control structure, and nowhere else.
LearnFilter ==
  /\ main.step = "minder"
  /\ \/ UNCHANGED control
     \/ \E l \in Learned, v \in Values :
          v > control[l] /\ control' = [control EXCEPT ![l] = v]
  /\ Go("misc")
  /\ UNCHANGED <<eeprom, datapool, dash, reset, dirty, started, wanted, mirrored, undisturbed>>

\* update_miscControl: is a reset requested?
Misc ==
  /\ main.step = "misc"
  /\ Go(IF reset.control THEN "resetList" ELSE "mirrorList")
  /\ undisturbed' = (undisturbed \/ reset.control)
  /\ wanted' = IF reset.control THEN Dataset ELSE wanted
  /\ UNCHANGED <<copies, reset, dirty, started, mirrored>>

\* Faulty variant: the dataset is applied in RAM only.
ApplyDatasetInRam(l) ==
  /\ datapool' = [datapool EXCEPT ![l] = Dataset[l]]
  /\ UNCHANGED eeprom

\* apply_osyNVMDataset: the default dataset goes to RAM and EEPROM.
ApplyDataset(l) ==
  /\ datapool' = [datapool EXCEPT ![l] = Dataset[l]]
  /\ eeprom' = [eeprom EXCEPT ![l] = Dataset[l]]

\* reset_nvmParameters, list by list.
ResetList ==
  /\ main.step = "resetList"
  /\ ApplyDataset(main.list)
  /\ Advance("reloadList")
  /\ UNCHANGED <<control, dash, reset, dirty, started, wanted, mirrored, undisturbed>>

ResetDone ==
  /\ main.step = "resetDone"
  /\ reset' = [reset EXCEPT !.control = FALSE]
  /\ Go("mirrorList")
  /\ UNCHANGED <<copies, dirty, started, wanted, mirrored, undisturbed>>

\* The main loop holds the lock of the dashboard while it mirrors.
Locked == main.step = "mirrorList" /\ main.list > 0

\* update_dashHandler; the request flag is the last field of the map.
MirrorList ==
  /\ main.step = "mirrorList"
  /\ dash' = IF main.list \in Learned THEN dash
             ELSE [dash EXCEPT ![main.list] = control[main.list]]
  /\ Advance("minder")
  /\ IF main.list = NumLists - 1
     THEN reset' = [reset EXCEPT !.dash = reset.control] /\ mirrored' = TRUE
     ELSE UNCHANGED <<reset, mirrored>>
  /\ UNCHANGED <<eeprom, datapool, control, dirty, started, wanted, undisturbed>>

-----------------------------------------------------------------------------
\* osy_srv_init: the delay of the openSYDE task ends, wherever the main loop
\* is by then.
StartTask ==
  /\ ~started
  /\ started' = TRUE
  /\ UNCHANGED <<copies, reset, main, dirty, wanted, mirrored, undisturbed>>

\* Faulty variant: only the list that was written is compared.
OutOfSyncFirst(ctl) == {l \in Lists : l = 0 /\ datapool[l] # ctl[l]}

\* Faulty variant: what the minder learned is not compared.
OutOfSyncDashboard(ctl) == {l \in Lists \ Learned : datapool[l] # ctl[l]}

OutOfSync(ctl) == {l \in Lists : datapool[l] # ctl[l]}

\* sync_dashHandler: the control structures take over the dashboard, except
\* for what it does not show.
Synced(dashboard) ==
  [l \in Lists |-> IF l \in Learned THEN control[l] ELSE dashboard[l]]

\* Faulty variant: the dashboard is not copied before saving.
WriteEventUnsynced(dashboard) ==
  /\ UNCHANGED <<control, datapool>>
  /\ dirty' = OutOfSync(control) \cap Saved

\* osy_app_write_event: sync_dashHandler copies the whole dashboard into the
\* control structures, write_nvmParameters the changed fields into the data
\* pool and notes their lists in an 8 bit mask.
WriteEvent(dashboard) ==
  /\ control' = Synced(dashboard)
  /\ LET changed == OutOfSync(control')
     IN  /\ datapool' = [l \in Lists |-> IF l \in changed THEN control'[l]
                                         ELSE datapool[l]]
         /\ dirty' = changed \cap Saved

\* The machine is meant to have what the tool wrote and what was learned.
Noted(given) == [l \in Lists |-> IF l \in Learned THEN control[l] ELSE given[l]]

\* Start-up counts as a reset: it, too, is about to load every list.
Resetting == main.step \notin {"minder", "misc", "mirrorList"}

ToolReady == started /\ dirty = {} /\ ~Locked

\* The service tool writes one parameter on the dashboard ...
ToolWrites == \E l \in Lists \ Learned, v \in Values :
  /\ ToolReady
  /\ dash' = [dash EXCEPT ![l] = v]
  /\ WriteEvent(dash')
  /\ reset' = [reset EXCEPT !.control = reset.dash]
  /\ wanted' = Noted([wanted EXCEPT ![l] = v])
  /\ undisturbed' = (undisturbed /\ mirrored /\ ~Resetting)
  /\ UNCHANGED <<eeprom, main, started, mirrored>>

\* Faulty variant: the request is not in the map of the dashboard, so that it
\* never reaches the main loop.
ToolResetsUnmapped ==
  /\ ToolReady
  /\ reset' = [reset EXCEPT !.dash = TRUE]
  /\ WriteEvent(dash)
  /\ wanted' = Noted(wanted)
  /\ undisturbed' = (undisturbed /\ mirrored /\ ~Resetting)
  /\ UNCHANGED <<eeprom, dash, main, started, mirrored>>

\* ... or asks for a reset.
ToolResets ==
  /\ ToolReady
  /\ reset' = [control |-> TRUE, dash |-> TRUE]
  /\ WriteEvent(dash)
  /\ wanted' = Noted(wanted)
  /\ undisturbed' = (undisturbed /\ mirrored /\ ~Resetting)
  /\ UNCHANGED <<eeprom, dash, main, started, mirrored>>

\* write_osyNVMDatapool: the list goes to the EEPROM as it is in RAM by then.
SaveList == \E l \in dirty :
  /\ \A k \in dirty : l <= k
  /\ eeprom' = [eeprom EXCEPT ![l] = datapool[l]]
  /\ dirty' = dirty \ {l}
  /\ UNCHANGED <<datapool, control, dash, reset, main, started, wanted, mirrored, undisturbed>>

\* The power fails; the next start finds the EEPROM and nothing else.
PowerLoss ==
  /\ datapool' = [l \in Lists |-> Blank]
  /\ control' = datapool'
  /\ dash' = datapool'
  /\ reset' = [control |-> FALSE, dash |-> FALSE]
  /\ Go("loadList")
  /\ dirty' = {}
  /\ started' = FALSE
  /\ wanted' = eeprom
  /\ mirrored' = FALSE
  /\ undisturbed' = TRUE
  /\ UNCHANGED eeprom

MainStep == LoadList \/ AssignList \/ LearnFilter \/ Misc \/ ResetList \/ ResetDone \/ MirrorList
Next == MainStep \/ StartTask \/ ToolWrites \/ ToolResets \/ SaveList \/ PowerLoss

Spec == Init /\ [][Next]_vars

\* The openSYDE task sleeps between its periods, so the main loop gets on;
\* nothing makes the tool write.
FairSpec == Spec /\ WF_vars(MainStep)

-----------------------------------------------------------------------------
TypeOK ==
  /\ {eeprom, datapool, control, dash} \subseteq Contents
  /\ reset \in [control : BOOLEAN, dash : BOOLEAN]
  /\ main \in [step : Steps, list : Lists]
  /\ dirty \subseteq Saved
  /\ started \in BOOLEAN
  /\ wanted \in Contents
  /\ mirrored \in BOOLEAN
  /\ undisturbed \in BOOLEAN

Settled == ~Resetting /\ dirty = {}

\* Whenever no start-up, no reset and no save is under way, a power loss would
\* keep what the machine runs with, for every list that fits into the mask and
\* is on the dashboard: however the two tasks interleave, and even if the tool
\* wrote before the parameters were loaded (nvm_handler.c lines 108-131).
PowerLossKeepsParameters ==
  Settled => \A l \in Saved \ Learned : eeprom[l] = control[l]

\* What the tool gave a list, or a reset after it, is what the controllers
\* run with: no mirroring by the main loop ever takes it back.  A tool that
\* writes before the dashboard was mirrored has no such promise: it copies
\* zeros over every other list (osy_srv.c line 50).
ToolHasLastWord ==
  ~Resetting /\ ~reset.control /\ undisturbed =>
    \A l \in Lists \ Learned : control[l] = wanted[l]

\* What the filter minder has learned goes to the EEPROM with the next write
\* of the tool, whatever that writes, and not before: until then a power loss
\* costs it (misc_control.c line 103, nvm_handler.c lines 108-131).  The
\* machine never runs with less than was saved.
LearnedSavedWithNextWrite ==
  Settled /\ undisturbed => \A l \in Saved \cap Learned :
    eeprom[l] = wanted[l] /\ eeprom[l] <= control[l]

\* A reset no tool write disturbs restores every list, in EEPROM as well.
ResetIsComplete ==
  [][main.step = "resetDone" /\ main'.step = "mirrorList" /\ undisturbed
       => \A l \in Lists : eeprom[l] = Dataset[l] /\ control[l] = Dataset[l]]_vars

\* A reset the tool asks for is served, unless another write disturbs it, the
\* dashboard was not yet mirrored or the power fails (misc_control.c lines 362-367).
ResetServed ==
  reset.dash ~> \/ \A l \in Lists : eeprom[l] = Dataset[l] /\ control[l] = Dataset[l]
                \/ ~undisturbed
                \/ ~started

\* nvm_handler.c lines 103-104: "If the RAM/Control copy is different than the
\* OSY, write the corresponding OSY List to NVM."  The mask has 8 bits for 9
\* lists.
EveryListIsSaved == Settled => \A l \in Lists \ Learned : eeprom[l] = control[l]
=============================================================================
