CONSTANTS
  N = 3
  DelayPeriod = 2
  MaxMiss = 2
  Commands <- AllCommands
  K = 9
  Programs <- MCPrograms
SPECIFICATION PipeSpec
INVARIANTS PipeTypeOK ProgramOrder PreciseResume AtomicPair
PROPERTY NoStarvation
