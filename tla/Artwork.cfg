SPECIFICATION PartsSpec
CONSTANTS
    blue = blue
    red = red
    ella = ella
    p1 = p1
    p2 = p2
    bad = bad
    None = None
    Albums = {blue, red}
    Artists = {ella}
    Libraries = {l1, l2}
    LibraryOf <- MCLibraryOf
    Detailed = {blue}
    Widgets = {1, 2}
    Workers = {1, 2}
    MaxEntries = 1
    ScanMin = 1
    MaxCount = 2
    MaxRequests = 2
    MaxChanges = 1
    Folders <- MCFolders
    Photos = {p1, p2, bad}
    Unreadable = {bad}
    MaxScans = 2
    MaxAtlasEvents = 1
    Portrayed = {ella, nina}
    ArtistsOf <- MCArtistsOf
    MaxRetries = 1
    ErrorLimit = 2
    MaxPhases = 2
    MaxArtEvents = 1
    Described = {ella, nina, otis}
    BioWorkers = {1, 2}
    Attempts = 2
    BatchSize = 2
    MaxRuns = 2
    MaxBioEvents = 2
INVARIANTS EnrichmentSound ManagerSound
PROPERTIES NothingIsLost PhasesEnd
CHECK_DEADLOCK FALSE
