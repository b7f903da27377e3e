SPECIFICATION Spec
CONSTANTS
  a = a
  b = b
  Idents = {a, b}
  NoCheckpoint = NoCheckpoint
  DaemonCycles = {t1, t2}
  CliCycles = {u1}
  NoCycle = NoCycle
  Limit = 1
  MaxPages = 2
  ConfigEnabled = TRUE
  Backlog <- MCBacklog
  MaxLog <- MCMaxLog
  MaxRev = 3
INVARIANT NothingSkipped
INVARIANT OneCyclePerSlot
INVARIANT DisabledIsQuiet
PROPERTY ImplementsFeed
PROPERTY PolledAgain
