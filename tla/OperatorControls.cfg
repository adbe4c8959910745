\* A clock of 7 ms, turns of 0 to 2 ms, a 2 ms debounce; a 2 ms hold time and
\* start delay, steps at multiples of 2 ms, three speeds.
SPECIFICATION ControlsFairSpec
CONSTANTS
  TimeMod = 7
  Deb = 2
  MaxCycle = 2
  Safe = FALSE
  IdleDelay = 2
  HoldTime = 2
  StepTime = 2
  MaxSteps = 2
INVARIANTS HoldTruthful HeldTogglesInTime IdleAfterStart
PROPERTIES Refinement HeldButtonToggles HeldStepsApart
