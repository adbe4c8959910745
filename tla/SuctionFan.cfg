\* A clock of 4 ms of 2 microseconds, turns of 1 or 2 microseconds.
SPECIFICATION FairSpec
CONSTANTS
  TimeMod = 4
  MaxSpeed = 2
  IncRate = 1
  DecRate = 1
  Kp = 1
  Ki = 1
  Kd = 1
  MaxOutput = 4
  Ticks = 2
  MaxTurn = 2
PROPERTIES DisabledFanStops
