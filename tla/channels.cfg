SPECIFICATION Spec
CONSTANTS
  x = x
  y = y
  z = z
  Channels = {x, y, z}
  Endpoints = {e1, e2}
  Watched = x
  Sessions <- MCSessions
  MaxChannels = 2
  Procs = {p1, p2}
  None = None
  MaxGen = 2
  MaxEpoch = 2
  MaxSeq = 2
SYMMETRY Symmetry
INVARIANT ChannelLimitHolds
INVARIANT EvidenceIsCurrent
PROPERTY BindingsAdvance
PROPERTY EveryFireIsAClaim
CONSTRAINT DeletionsAndTakeovers
