\* A clock of 6 ms, ramps of 2 ms in turns of 0 or 1 ms, demands 0 and 1.
SPECIFICATION FairSpec
CONSTANTS
  TimeMod = 6
  RampTime = 2
  StopTime = 1
  PurgeTime = 1
  AutoCycle = 3
  MaxDemand = 1
  SafeDemand = 1
  RunSlope = 1
  MaxCycle = 1
INVARIANTS StagesEntered CleanoutInTime
PROPERTIES ReversesAtStandstill NoEarlyCleanout ReverseEnds CleanoutEnds
