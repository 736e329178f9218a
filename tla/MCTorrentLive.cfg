CONSTANTS
  NumPieces = 2
  BlockCount <- OneBlock
  Class <- Classes
  Order <- NoOrder
  Lookahead = 1
  QMax = 2
  ReqMax = 1
  WebDuringScan = TRUE
  MaxFaults = 1
  MaxSessions = 0
SPECIFICATION FairTorrentSpec
PROPERTY EventuallyComplete
