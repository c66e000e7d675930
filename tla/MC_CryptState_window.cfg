\* A byte of 8 values; from 61 on the second byte is 7, from 64 it is 0 again.
\* The sealing end may have nothing more to say, and all it said may be lost.
CHECK_DEADLOCK FALSE
CONSTANTS
  B = 8
  Half = 4
  LateWindow = 3
  Nonces = {4, 60}
  MaxSealed = 10
SPECIFICATION Spec
INVARIANTS NewestOpened LossCounted FreshOpened
PROPERTY OpenedOnce
