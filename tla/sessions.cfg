SPECIFICATION Spec
CONSTANTS
  a = a
  b = b
  x = x
  y = y
  s1 = s1
  s2 = s2
  Channels = {x, y}
  Endpoints = {s1, s2}
  Hosts = {a, b}
  SessionOf <- MCSessionOf
  Serves <- MCServes
  Wild = {a}
  Scope <- MCScope
  None = None
  MaxToken <- MCMaxToken
  MaxGen = 2
  MaxRequests = 1
INVARIANT RotatedTogether
INVARIANT PresenceEndsWithSession
PROPERTY OnlyItsOwnLease
