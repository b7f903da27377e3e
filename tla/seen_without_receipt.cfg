SPECIFICATION Spec
CONSTANTS
  Claims = {c1}
  Batches = {b1}
  Workers = {d1, x1}
  DaemonWorkers = {d1}
  NoBatch = NoBatch
  MaxBatchClaims = 1
  MaxAttempt = 2
  MaxGeneration = 1
INVARIANT SeenHasReceipt
