CONSTANTS
  N = 1
  DelayPeriod = 2
  MaxMiss = 2
  Commands <- AllCommands
  K = 2
  Programs <- JumpPrograms
SPECIFICATION PipeSpec
INVARIANT StrictOrder
