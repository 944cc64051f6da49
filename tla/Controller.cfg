SPECIFICATION BothSpec
CONSTANTS
    None = None
    Chans = {A}
    MaxGen = 2
    Fds = {f, g}
    Modes = {idle, on_air}
    Idle = idle
    Faults = {"gone", "lost"}
    InitialDelay = 1
    MaxDelay = 3
    MaxQueue = 3
    Own = Own
    Other = Other
    H = H
    h = h
    L = L
    l = l
    Sp = Sp
    Nl = Nl
    Junk = Junk
    X = X
    Pins = 3
    MaxLine = 6
    MaxChunk = 3
    Lines <- MCLines
    MaxLines = 2
INVARIANTS SessionsSound ConsoleAgrees
PROPERTIES SessionsEnd
