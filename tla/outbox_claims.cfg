SPECIFICATION Spec
CONSTANTS
  Claims = {c1, c2}
  Batches = {b1}
  Workers = {x1}
  DaemonWorkers = {}
  NoBatch = NoBatch
  MaxBatchClaims = 2
  MaxAttempt = 2
  MaxGeneration = 1
SYMMETRY Symmetry
INVARIANT NoLostClaim
INVARIANT QueuedBatchCarriesClaims
PROPERTY ImplementsLease
CONSTRAINT ClaimsAndAttempts
