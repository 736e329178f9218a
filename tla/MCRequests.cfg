SPECIFICATION ReqSpec
CONSTANTS
  NumPieces = 1
  BlockCount <- Counts
  Class <- Classes
  Order <- NoOrder
  Lookahead = 1
  QMax = 1
  ReqMax = 3
  Conns = {1, 2}
  UtpConns = {2}
  Bootstrap = 1
  MinPipe = 1
  MaxPipe = 2
  MaxHedged = 2
  RecentDropped = 1
  MaxUnsolicited = 2
  DropStrikes = 2
  MaxFaults = 2
INVARIANTS
  ReqTypeOK
  NoOrphanRequest
  LateAnswersForgiven
PROPERTY
  BlocksArrive
CHECK_DEADLOCK FALSE
