SPECIFICATION Spec
CONSTANT MaxStops = 4
INVARIANTS
  FilesMatch
PROPERTIES
  IdentityKept
  Recovers
