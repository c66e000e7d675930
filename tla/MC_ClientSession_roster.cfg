SPECIFICATION Spec
CONSTANTS
  Session = {1, 2}
  ChannelId = {0, 1}
  Names = {n1, n2}
  None = None
  Me = 1
  EarlyRemoval = FALSE
  MaxEdits = 6
  MaxCommands = 1
SYMMETRY NameSymmetry
INVARIANTS
  TypeOK
  RosterSynced
  ChannelsSynced
  SelfIsMe
  MirrorSynced
  SelfMirrorsUsers
CHECK_DEADLOCK FALSE
