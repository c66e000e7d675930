SPECIFICATION Spec
CONSTANTS
  U32 = 16384
  U64 = 2097152
  Numbers <- SmallNumbers
  Texts <- SmallTexts
  Strays <- SmallStrays
INVARIANTS
  WrittenIsStandard
  RoundTrip
  ServerIsRead
PROPERTIES
  ParseAdvances
\* A message that has been read is done with.
CHECK_DEADLOCK FALSE
