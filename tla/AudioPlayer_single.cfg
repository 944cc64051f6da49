SPECIFICATION FairSpec
CONSTANTS
  Tracks = {1, 2}
  Players = {p1}
  None = 0
  NextTrack <- Numbered
  Missing = {}
  Modes = {"autoplay", "repeat", "stop"}
  MaxLocks = 2
  Rerouted = FALSE
  Overlaps = {}
INVARIANTS PlaysItsTrack
PROPERTIES NeverStarves
CHECK_DEADLOCK FALSE
