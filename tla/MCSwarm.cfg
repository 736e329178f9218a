CONSTANTS
  a = a
  b = b
  c = c
  x = x
  Endpoints = {a, b, c, x}
  Bogus = {x}
  QueueMax = 2
  Home <- MCHome
  MaxPeers = 2
  InFlight = 1
  BlockMax = 1
  MaxSupplies = 1
SPECIFICATION SwarmSpec
INVARIANTS
  SwarmTypeOK
  EachEndpointOnce
  QueuedIsMember
PROPERTIES
  LadderClimbs
  DialEnds
CHECK_DEADLOCK FALSE
