SPECIFICATION Spec
CONSTANTS
  TimeMod = 4
  ButtonDeb = 2
INVARIANTS OneControlOneLoad UnloadExclusive LatchTellsOutput
