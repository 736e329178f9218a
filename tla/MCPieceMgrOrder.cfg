CONSTANTS
  NumPieces = 3
  BlockCount <- OrderCounts
  Class <- OrderClasses
  Order <- OrderOrder
  Lookahead = 2
  QMax = 1
  ReqMax = 1
SPECIFICATION Spec
INVARIANTS
  Accounting
  FrontierSound
  PickMatchesPolicy
CHECK_DEADLOCK FALSE
