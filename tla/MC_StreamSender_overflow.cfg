SPECIFICATION Spec
CONSTANTS
  Depth = 1
  Period = 2
  Slack = 1
  Reconnect = TRUE
  MaxAttempts = 2
  ReconnectBufferSize = 3
  InitialDelay = 2
  MaxDelay = 4
  MaxPending = 1
  Stoppers = {c1}
  SkipSilentFrames = TRUE
  MaxTicks = 5
  MaxCalls = 0
INVARIANTS
  BufferBounded
CHECK_DEADLOCK FALSE
