SPECIFICATION FairSpec
CONSTANTS
  NoDevice = NoDevice
  None = None
  Devices = {d, e}
  Quanta = {64, 128}
  InitQuantum = 64
  Workers = {v, w}
  Refusing = {e}
  MaxInputs = 4
INVARIANTS FlagsAgree StreamFollowsSettings StopSticks
PROPERTIES ErrorResolved
CHECK_DEADLOCK FALSE
