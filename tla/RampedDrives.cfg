\* A clock of 6 ms, turns of 0 to 2 ms, rates of 1 per ms.
SPECIFICATION Spec
CONSTANTS
  TimeMod = 6
  MaxCycle = 2
  ButtonDeb = 1
  MinCurrent = 1
  VL3514Max = 2
  VL3512Max = 3
  ElevatorRate = 1
  SweepsMax = 3
  SweepsRate = 1
  LowMin = 1
  LowMax = 3
  MedMin = 2
  MedMax = 3
  MaxMin = 4
  MaxMax = 5
  TrapRate = 1
INVARIANT StopsWithShaft
PROPERTIES OffNeverSpeedsUp
