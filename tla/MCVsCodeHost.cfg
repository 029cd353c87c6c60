SPECIFICATION Spec
CONSTANTS
  a = a  b = b
  Assets = {a, b}
  Watched = {a}
  Commands <- AllCommands
  None = None
  MaxActs = 2
  MaxFaults = 1
INVARIANTS HostTypeOK RemovalsAccounted
PROPERTIES SessionsKeepTrash ScanCatchesUp ControlsReleased
CHECK_DEADLOCK FALSE
