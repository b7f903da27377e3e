SPECIFICATION Spec
CONSTANTS
  Procs = {p1, p2}
  d1 = d1
  d2 = d2
  d3 = d3
  k1 = k1
  Keys = {d1, d2, d3}
  Idems = {k1}
  NoIdem = NoIdem
  Fresh = {e1, e2}
  Claims = {c1, c2}
  NoClaim = NoClaim
  Batches = {b1}
  Requests <- MCRequests
  Contents = {"later", "suppress"}
  MaxVersion = 1
  MaxBatchClaims = 2
SYMMETRY Symmetry
INVARIANT SameKeySameEvent
INVARIANT EventIsOwned
INVARIANT EventsFollowClaim
INVARIANT ScheduleNeverCorrupt
INVARIANT KeptBatchKeepsClaims
INVARIANT DeletedChannelIsQuiet
INVARIANT ClaimHasOneSemantics
PROPERTY InstalledIsImmutable
