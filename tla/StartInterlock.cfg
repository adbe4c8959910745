\* A clock of 5 ms, a 3 ms start-up debounce, 1 ms button debounces;
\* writing the starter relay or the shaft pump may fail.
SPECIFICATION FairSpec
CONSTANTS
  TimeMod = 5
  StartDeb = 3
  ButtonDeb = 1
  Unreliable = {"starter", "shaft"}
INVARIANTS CrankingExcludesDrives DrivesOnlyWhenSettled
PROPERTIES FollowsProtocol OpenDoorStops
