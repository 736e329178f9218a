SPECIFICATION PartsSpec
CONSTANTS
  Torrents = {"t1", "t2"}
  Port <- MCPort
  Mailbox = 1
  MaxLives = 2
  UdpRetries = 3
  MaxStray = 1
  MaxFound = 1
  SendCap = 5
  CryptChunk = 1
  MaxUnits = 4
  Script <- MCScript
  MaxPad = 2
  Layouts <- MCLayouts
  Ready = 1
  Generations = {1, 2}
  MaxDepth = 5
  MaxPieceLength = 2
  MaxTotalLength = 3
  CounterRange = 4
  MaxFiles = 3
  MaxName = 4
  MaxTrackers = 1
  MaxWebSeeds = 1
  Documents <- MCDocuments
  FilePairs <- MCFilePairs
  NoFile <- MCNoFile
  TextOrder <- MCTextOrder
  Found <- MCFound
  Queries = {"", "matrix", "h1"}
  Numeral <- MCNumeral
  Btih <- MCBtih
  NewEntries <- MCNewEntries
  FirstCapacity = 1
  MaxAllocs = 6
  MaxOps = 4
  SeqRange = 20
  ReorderMax = 4
  OutMax = 4
  AckWindow = 1
  DupAcks = 1
  EackBits = 2
  MaxResends = 1
  MaxSynResends = 1
  PacketSize = 1
  Windows = {2}
  FirstSeqs <- MCFirstSeqs
  Writes <- MCWrites
  MaxNet = 2
  MaxFaults = 2
INVARIANTS
  NothingOutlived
  UdpFailureExplained
  StreamIntact
  FlatImage
  LayoutTight
  
  UtpInOrder
PROPERTIES
  DestroyEnds
  PortReturns
CHECK_DEADLOCK FALSE
