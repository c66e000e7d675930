SPECIFICATION ReadingSpec
CONSTANTS
  Closers = {c1}
  MaxFrames = 1
PROPERTIES
  CloseReturns
CHECK_DEADLOCK FALSE
