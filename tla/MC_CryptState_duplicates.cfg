\* As in the window run; violated by a packet that was never opened.
\* The sealing end may have nothing more to say, and all it said may be lost.
CHECK_DEADLOCK FALSE
CONSTANTS
  B = 8
  Half = 4
  LateWindow = 3
  Nonces = {4, 60}
  MaxSealed = 10
SPECIFICATION Spec
INVARIANT OnlyDuplicatesRefused
