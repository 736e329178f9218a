CONSTANTS
  NumPieces = 2
  BlockCount <- DataCounts
  Class <- DataClasses
  Order <- DataOrder
  Lookahead = 1
  QMax = 2
  ReqMax = 2
SPECIFICATION Spec
INVARIANTS
  TypeOK
  NoStaleByte
  NeverStuck
PROPERTIES
  DoneOnlyIfStored
CHECK_DEADLOCK FALSE
