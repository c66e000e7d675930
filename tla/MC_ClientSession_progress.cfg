SPECIFICATION Spec
CONSTANTS
  Session = {1, 2}
  ChannelId = {0, 1}
  Names = {n1}
  None = None
  Me = 1
  EarlyRemoval = TRUE
  MaxEdits = 5
  MaxCommands = 2
INVARIANTS
  RequestsHonoured
PROPERTIES
  EventuallySynced
\* The server may have nothing more to say.
CHECK_DEADLOCK FALSE
