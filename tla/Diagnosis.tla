----------------------------- MODULE Diagnosis -----------------------------
(***************************************************************************)
(* What the handlers make of the faults the drivers report                 *)
(* (input_handler_lib.c, output_handler_lib.c).  A reading of a driver is  *)
(* its return value and a mask of fault bits.  A fault structure has a     *)
(* status, which the controllers act on, and failure modes, which trouble  *)
(* codes are made of; a mode is named for the bit that sets it.            *)
(***************************************************************************)

InputModes == {"SHORT_TO_UB", "SHORT_TO_GND", "OPEN_LOAD",
               "FREQUENCY_UPPER_LIMIT", "FREQUENCY_LOWER_LIMIT",
               "DUTY_CYCLE_LOWER_LIMIT", "DUTY_CYCLE_UPPER_LIMIT"}

\* The bits that make an input faulty; the other modes are noted only.
InputStatusModes == {"SHORT_TO_UB", "SHORT_TO_GND", "OPEN_LOAD",
                     "FREQUENCY_UPPER_LIMIT"}

\* The mode of SHORT_UB_OL is overwritten with the one of OPEN_LOAD.
OutputModes == {"SHORT_GND", "OPEN_LOAD", "OVERCURRENT", "DUTY_CYCLE_OOOB"}

Reading(Bits) == [ok : BOOLEAN, bits : SUBSET Bits]
Fault(Modes) == [status : BOOLEAN, modes : SUBSET Modes]
Healthy == [status |-> FALSE, modes |-> {}]

\* check_inputFaultStatus: bits that are no status mode leave the status alone.
CheckInput(f, r) ==
  IF r.bits # {}
  THEN [status |-> f.status \/ r.bits \cap InputStatusModes # {},
        modes |-> r.bits \cap InputModes]
  ELSE IF r.ok THEN Healthy ELSE f

\* Faulty variant: a failed read without bits leaves the status alone only.
CheckOutputForgetting(f, r) ==
  IF r.bits # {} THEN [status |-> TRUE, modes |-> r.bits \cap OutputModes]
                 ELSE [status |-> ~r.ok /\ f.status, modes |-> {}]

\* check_outputFaultStatus: any bit is a fault, with or without a mode.
CheckOutput(f, r) ==
  IF r.bits # {} THEN [status |-> TRUE, modes |-> r.bits \cap OutputModes]
                 ELSE IF r.ok THEN Healthy ELSE f
=============================================================================
