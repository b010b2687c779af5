CONSTANTS
  N = 3
  DelayPeriod = 2
  MaxMiss = 0
  Commands <- AllCommands
SPECIFICATION RunningSpec
PROPERTY NewThreadIsFresh
