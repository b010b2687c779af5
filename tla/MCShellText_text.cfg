CONSTANTS
  Alphabet <- MCAlphabet
  Fields <- MCFields
  Values = 64
  MaxInt = 7
  MaxLen = 5
SPECIFICATION Spec
INVARIANTS TokensRight NumbersRight LineWhole RangeExact
CHECK_DEADLOCK FALSE
