CONSTANTS
  N = 2
  DelayPeriod = 2
  MaxMiss = 2
  Commands <- AllCommands
  K = 4
  Programs <- KillPrograms
SPECIFICATION PipeSpec
INVARIANT StrictOrder
