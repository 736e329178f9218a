CONSTANTS
  NumPieces = 2
  QMax = 2
  PoolMax = 1
  Bufs = {b1, b2, b3, b4}
  StartupVerify = TRUE
  NULL = NULL
  Junk = Junk
SPECIFICATION Spec
INVARIANTS
  TypeOK
  RingConsistent
  WorkerKeepsEntry
  PutHasRoom
  BufferOwnedOnce
  HashingIsInFlight
  DoneIsOnDisk
  DestroyAppliesAll
PROPERTIES
  ImplementsFifo
SYMMETRY BufSymmetry
