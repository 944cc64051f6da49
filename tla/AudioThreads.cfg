SPECIFICATION AudioSpec
CONSTANTS
    Tracks = {1, 2}
    Players = {p1, p2}
    None = 0
    NextTrack <- Numbered
    Missing = {}
    Modes = {"autoplay"}
    MaxLocks = 2
    Rerouted = TRUE
    Overlaps = {}
    Empty = Empty
    Torn = Torn
    Writers = {rt}
    Size = 4
    Word = 16
    Max = 3
    Overlap = FALSE
    MaxEvents = 9
    Retries = 4
    Reordered = FALSE
    MaxWrites = 4
CHECK_DEADLOCK FALSE
SYMMETRY PlayerSymmetry
  
PROPERTIES SkipsOnlyOverwritten
