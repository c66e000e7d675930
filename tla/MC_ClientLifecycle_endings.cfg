SPECIFICATION TalkingSpec
CONSTANTS
  Closers = {c1, c2}
  MaxFrames = 2
INVARIANTS
  WgCountsLoops
  NoUseAfterClose
  ToldInOrder
  CloseTold
PROPERTIES
  CloseIsFinal
  LossEndsAll
  CloseReturns
\* A client that is idle, or has stopped, stops.
CHECK_DEADLOCK FALSE
