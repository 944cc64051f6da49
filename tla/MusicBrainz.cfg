SPECIFICATION AllSpec
CONSTANTS
    album1 = album1
    album2 = album2
    album3 = album3
    release1 = release1
    other = other
    release2 = release2
    g1 = g1
    g2 = g2
    Albums = {album1, album2, album3}
    ReleaseOf <- MCReleaseOf
    Tagged = {album1, album2}
    Trackless = {album1}
    Workers = {w}
    BatchSize = 1
    Breaker = 2
    MaxRuns = 2
    Releases = {release1, other, release2}
    None = None
    MaxAnswer = 2
    Groups = {g1, g2}
    GroupOf <- MCGroupOf
    MaxTracks = 4
    MaxRecordings = 2
    Alike <- MCAlike
    Candidates <- MCCandidates
    MaxResults = 2
    Titles = {"song", "song live"}
    Lengths = {180, 200}
    Positions <- MCPositions
    MaxLookups = 3
    MaxDrops = 2
    Threads = {t1, t2, t3}
    Interval = 3
    MaxTime = 8
INVARIANTS AlbumsAccounted WrittenAsFetched MatchesSound
PROPERTIES  RunEnds
CHECK_DEADLOCK FALSE
