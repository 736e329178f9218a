CONSTANTS
  NumPieces = 3
  BlockCount <- OneBlock
  Class <- Classes
  Order <- NoOrder
  Lookahead = 1
  QMax = 2
  ReqMax = 1
  WebDuringScan = FALSE
  MaxFaults = 3
  MaxSessions = 1
SPECIFICATION TorrentSpec
INVARIANTS
  TorrentTypeOK
  CompleteMeansChecked
  SavedIsOnDisk
PROPERTIES
  SnapshotIsComplete
