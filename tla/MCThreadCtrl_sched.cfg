CONSTANTS
  N = 3
  DelayPeriod = 3
  MaxMiss = 2
  Commands <- MCCommands
SPECIFICATION Spec
INVARIANTS TypeOK RunningIsValid BoundedStarvation
