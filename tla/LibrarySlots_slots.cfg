SPECIFICATION AllSpec
CONSTANTS
    home = home
    away = away
    Libs = {home, away}
    First <- Both
    Threads = {t1, t2}
    None = None
    OpenFails = FALSE
    MaxVersion = 1
    MaxOps = 1
    Spellings <- MCNames
    Fold <- MCFold
    Normal <- MCNormal
    Mbids = {"m1", "m2"}
    TrackIds = {"track"}
    AlbumIds = {"album"}
    MaxArtists = 3
    MaxCredits = 1
    MaxRounds = 2
    MaxLoads = 2
INVARIANTS SlotsSound DatabaseSound 
SYMMETRY Symmetry
CHECK_DEADLOCK FALSE
