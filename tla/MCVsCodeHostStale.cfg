SPECIFICATION Spec
CONSTANTS
  a = a  b = b
  Assets = {a, b}
  Watched = {a, b}
  Commands <- OnlyResolve
  None = None
  MaxActs = 2
  MaxFaults = 0
PROPERTY ChosenCopyIsKept
CHECK_DEADLOCK FALSE
