\* A clock of 4 ms, turns of 0 to 2 ms, a debounce of 2 ms.
SPECIFICATION Spec
CONSTANTS
  TimeMod = 4
  MaxCycle = 2
  ButtonDeb = 2
INVARIANTS ShiftEndsAssist NothingRestartsItself OnNeverAlone
