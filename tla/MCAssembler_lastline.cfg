CONSTANTS
  ArgLists <- MCArgLists
  Atoi <- MCAtoi
  UnsignedValues = 16
  Lines <- MCLines
  NoLabel = NoLabel
  RegNumber <- MCRegNumber
  StrayDigits = {7}
  ShortTokens = {"$", "8", "a"}
  DollarTokens = {"$x"}
  Number <- MCNumber
  Parenthesised <- MCParenthesised
  Clip <- MCClip
  ImmSize = 4
  TargetSize = 2
  AddressSpace = 64
  MaxProgram = 8
  MaxLines = 3
SPECIFICATION Spec
INVARIANT LastLineKept
CHECK_DEADLOCK FALSE
