SPECIFICATION Spec
CONSTANTS
  Backups = {b1, b2, b3}
  MinVersion = 6
  Version = 9
  OldVersions = {8}
  MaxWrites = 3
  None = None
SYMMETRY Symmetry
CHECK_DEADLOCK FALSE
INVARIANT NothingAcknowledgedIsLost
INVARIANT DatabaseIsWhole
PROPERTY AllOrNothing
