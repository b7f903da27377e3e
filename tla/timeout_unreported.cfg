SPECIFICATION Spec
CONSTANTS
  Claims = {c1}
  Batches = {b1}
  Workers = {d1}
  DaemonWorkers = {d1}
  NoBatch = NoBatch
  MaxBatchClaims = 1
  MaxAttempt = 1
  MaxGeneration = 1
INVARIANT ClosedTimeoutWasReported
