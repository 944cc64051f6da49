SPECIFICATION PartsSpec
CONSTANTS
  Tracks = {1}
  Buffers = {b1, b2, b3}
  NoBuffer = NoBuffer
  Size <- Numbered
  Limit = 0
  Modulus = 8
  MaxWorkers = 2
  MaxHolds = 2
  MaxLocks = 3
  Preemptible = TRUE
  Channels = {1, 2}
  Followed = {1}
  LastTrack = 3
  Undecodable = {3}
SYMMETRY BufferSymmetry
INVARIANTS IInv DestroyedQuiet 
PROPERTIES HeldBufferStays 
CHECK_DEADLOCK FALSE
