SPECIFICATION FairThreads
CONSTANTS
    home = home
    away = away
    Libs = {home}
    First <- OnlyHome
    Threads = {t1, t2}
    None = None
    OpenFails = TRUE
    MaxVersion = 2
    MaxOps = 2
    Spellings <- MCNames
    Fold <- MCFold
    Normal <- MCNormal
    Mbids = {"m1", "m2"}
    TrackIds = {"track"}
    AlbumIds = {"album"}
    MaxArtists = 3
    MaxCredits = 1
    MaxRounds = 2
    MaxLoads = 2
INVARIANTS ReadySound
PROPERTIES RefreshesEnd
CHECK_DEADLOCK FALSE
