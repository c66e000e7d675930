\* StopReturns is promised only while the peer reads.
SPECIFICATION ReadingSpec
CONSTANTS
  Depth = 1
  Period = 2
  Slack = 1
  Reconnect = TRUE
  MaxAttempts = 2
  ReconnectBufferSize = 2
  InitialDelay = 2
  MaxDelay = 4
  MaxPending = 1
  Stoppers = {c1, c2}
  SkipSilentFrames = TRUE
  MaxTicks = 3
  MaxCalls = 1
INVARIANTS
  AudioOnTime
  SentOnce
  FlushedInOrder
  TimerObeys
  DisconnectOnce
  PauseSettles
PROPERTIES
  StopIsFinal
  FramesHandled
  StopReturns
\* A sender that was stopped stops, and the clock does.
CHECK_DEADLOCK FALSE
