SPECIFICATION Spec
CONSTANTS
  a = a
  b = b
  id = id
  n1 = n1
  n2 = n2
  Launches = {a, b}
  SessionsOf <- MCSessionsOf
  Interactive = {a}
  Attempts = {n1, n2}
  Copies <- MCCopies
  MaxCache = 1
  MaxGen = 3
  None = None
CHECK_DEADLOCK FALSE
INVARIANT LeaseHeldIsLive
INVARIANT DeliveredOnce
INVARIANT EvidenceIsEarned
PROPERTY NeverReclaims
CONSTRAINT AttemptsAndRegistrations
