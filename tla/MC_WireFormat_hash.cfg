SPECIFICATION Spec
CONSTANTS
  U32 = 16384
  U64 = 2097152
  Numbers <- SmallNumbers
  Texts <- SmallTexts
  Strays <- SmallStrays
INVARIANTS
  EveryFieldReturns
CHECK_DEADLOCK FALSE
