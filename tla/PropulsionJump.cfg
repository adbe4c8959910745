\* A clock of 4 ms, the drive enabled from 1 ms on, deflections 0 to 2.
SPECIFICATION DriveFairSpec
CONSTANTS
  TimeMod = 4
  MaxCmd = 2
  LimitCmd = 1
  MinCurr = 1
  RawGain = 2
  DriveDeb = 1
  StartupDelay = 1
  AccelRate = 1
  DecelRate = 1
  MaxTurn = 1
PROPERTIES ValvesRampUp
