CONSTANTS
  W = 2
  ILines = 2
  DLines = 1
  Page = 6
  FifoDepth = 1
  Fetched <- MCFetched
  Accessed <- MCAccessed
SPECIFICATION Spec
INVARIANTS MmuTypeOK RightLine 
PROPERTY RequestEnds
