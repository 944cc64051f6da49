SPECIFICATION FairSpec
CONSTANTS
  Tracks = {1, 2}
  Buffers = {b1, b2}
  NoBuffer = NoBuffer
  Size <- Numbered
  Limit = 2
  Modulus = 16
  MaxWorkers = 2
  MaxHolds = 1
  MaxLocks = 1
  Preemptible = FALSE
INVARIANTS MemoryAccounted
PROPERTIES EvictionEnough ImplementsApi DecodeResolves StaleReclaimed
CHECK_DEADLOCK FALSE
