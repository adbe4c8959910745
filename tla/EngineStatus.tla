---------------------------- MODULE EngineStatus ----------------------------
(***************************************************************************)
(* Engine supervision of engine_starter_control.c: the status every        *)
(* interlock of the machine is built on, derived each turn of the loop     *)
(* from the engine speed the ECU broadcasts, and the run time derived from *)
(* the time stamp of the last OFF -> RUNNING edge.                         *)
(***************************************************************************)
EXTENDS SystemTime

\* u8_engine_status = ENGINE_RUNNING and u32_engine_start_time.  Between two
\* calls u8_prev_engine_status always equals u8_engine_status (line 182), so
\* the status before the call plays its part.
EngineState == [running : BOOLEAN, startTime : Time]

engineInit == [running |-> FALSE, startTime |-> 0]

\* Faulty variant: the start time is taken once, not at every start.
FirstStartOnly(e, now, turning) ==
  [running   |-> turning,
   startTime |-> IF turning /\ e.startTime = 0 THEN now ELSE e.startTime]

\* turning: the broadcast speed is at least 450 rpm.
check_engineStatus(e, now, turning) ==
  [running   |-> turning,
   startTime |-> IF turning /\ ~e.running THEN now ELSE e.startTime]

get_engineRuntime(e, now) ==
  IF e.running THEN Elapsed(now, e.startTime) ELSE 0
=============================================================================
