CONSTANTS
  NumPieces = 3
  QMax = 2
  PoolMax = 1
  Bufs = {b1, b2, b3}
  StartupVerify = FALSE
  NULL = NULL
  Junk = Junk
SPECIFICATION FairSpec
PROPERTIES
  CallsReturn
