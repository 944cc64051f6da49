SPECIFICATION IndexerSpec
CONSTANTS
    a1 = a1
    a2 = a2
    Albums = {a1, a2}
    MaxVersion = 3
    Files <- MCFiles
    Broken = {3}
    Threads = 2
    BatchSize = 2
    MaxScans = 2
    MaxEvents = 3
    Libs = {a, b}
    MaxConcurrent = 1
    Resolve = TRUE
    Cancels = {b}
    Closes = TRUE
    MaxChanges = 1
    MaxIdle = 4
    MaxStarts = 2
INVARIANTS ScanSound BatchesSound
PROPERTIES OnlyAbsentPruned EndsOrShort BatchesEnd
CHECK_DEADLOCK FALSE
