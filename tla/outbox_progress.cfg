SPECIFICATION FairSpec
CONSTANTS
  Claims = {c1}
  Batches = {b1}
  Workers = {d1, x1}
  DaemonWorkers = {d1}
  NoBatch = NoBatch
  MaxBatchClaims = 1
  MaxAttempt = 1
  MaxGeneration = 1
PROPERTY LeaseEnds
PROPERTY AcceptanceIsAnswered
PROPERTY SettledWorkIsRetired
