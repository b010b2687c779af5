CONSTANTS
  Buffers = {b1, b2, b3}
  Null = Null
  GB = 3
  UnsignedValues = 16
  ArgLists <- MCArgLists
  Atoi <- MCAtoi
  DefaultSize = 4
  RecoverySize = 1
  MinBits = 1
  MaxBits = 3
  Bits = {0, 3, 4}
  Spans <- MCSpans
  Widths = {2}
  ByteValues = 2
  Asked = {3}
  Timeouts = {0, 2}
  CVs = {0, 1}
  MaxScript = 2
  MaxSigint = 1
SPECIFICATION Spec
INVARIANTS LoaderTypeOK RegistersLive Covered SameView NoLeak DeviceSafe HostSafe VerdictSound PromptMode
PROPERTIES MemoryOpEnds WaitEnds ExitEnds
CHECK_DEADLOCK FALSE
