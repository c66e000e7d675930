SPECIFICATION Spec
CONSTANTS
  Gaps = {20, 60, 6000}
  MaxFrames = 3
  MaxElapsed = 80
  NoKeys = NoKeys
  MaxInbox = 1
  Callers = {"a", "b"}
  MaxSetups = 2
  Budgets <- Scenes
INVARIANTS
  SpokenOnce
  SealedAsAgreed
  QuietAfterClose
PROPERTIES
  NumbersGrow
  UdpCloseReturns
CHECK_DEADLOCK FALSE
