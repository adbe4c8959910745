---------------------------- MODULE DriveProtocol ----------------------------
(***************************************************************************)
(* What operator and service personnel may rely on about the machine's     *)
(* starter and its two drives, without turns of a loop, buttons, time      *)
(* stamps or outputs: every change happens in one step and only in a state *)
(* that permits it.  In particular the engine never begins to run under a  *)
(* drive that is still enabled from before, and a pump is never switched   *)
(* on by anything but the drive it belongs to.                             *)
(***************************************************************************)

VARIABLES running,   \* the controllers take the engine for running
          settled,   \* it has been seen running for the start-up debounce
          closed,    \* the door is closed, as last sampled
          cranking,  \* the starter relay is on
          chains,    \* the shaft drive is enabled
          fan,       \* the suction fan is enabled
          pump       \* the pump of the shaft drive is driven

vars == <<running, settled, closed, cranking, chains, fan, pump>>
drives == <<chains, fan, pump>>

Init ==
  /\ ~running /\ ~settled /\ ~closed /\ ~cranking
  /\ ~chains /\ ~fan /\ ~pump

Ready == running /\ settled /\ closed /\ ~cranking

\* The engine starts: with every drive off, and it has to settle anew.
EngineStarts ==
  /\ ~running /\ ~chains /\ ~fan /\ ~pump
  /\ running' = TRUE
  /\ settled' = FALSE
  /\ UNCHANGED <<closed, cranking, drives>>

EngineSettles ==
  /\ running
  /\ settled' = TRUE
  /\ UNCHANGED <<running, closed, cranking, drives>>

\* The engine stops; its drives may take a moment to follow.
EngineStops ==
  /\ running' = FALSE
  /\ settled' = FALSE
  /\ UNCHANGED <<closed, cranking, drives>>

Door ==
  /\ closed' \in BOOLEAN
  /\ UNCHANGED <<running, settled, cranking, drives>>

\* The starter turns an engine that stands still, with everything else off.
Crank ==
  /\ ~running /\ ~chains /\ ~fan /\ ~pump
  /\ cranking' = TRUE
  /\ UNCHANGED <<running, settled, closed, drives>>

\* A drive is enabled, one in a step, with its pump still to follow.
EnableChains ==
  /\ Ready
  /\ chains' = TRUE
  /\ UNCHANGED <<running, settled, closed, cranking, fan, pump>>

EnableFan ==
  /\ Ready
  /\ fan' = TRUE
  /\ UNCHANGED <<running, settled, closed, cranking, chains, pump>>

DrivePump ==
  /\ Ready /\ chains
  /\ pump' = TRUE
  /\ UNCHANGED <<running, settled, closed, cranking, chains, fan>>

\* Anything may be switched off at any time.
SwitchOff ==
  /\ cranking' \in {cranking, FALSE}
  /\ chains' \in {chains, FALSE}
  /\ fan' \in {fan, FALSE}
  /\ pump' \in {pump, FALSE}
  /\ UNCHANGED <<running, settled, closed>>

Next == \/ EngineStarts
        \/ EngineSettles
        \/ EngineStops
        \/ Door
        \/ Crank
        \/ EnableChains
        \/ EnableFan
        \/ DrivePump
        \/ SwitchOff

Spec == Init /\ [][Next]_vars
=============================================================================
