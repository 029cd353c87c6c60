SPECIFICATION Spec
CONSTANTS
  r1 = r1  r2 = r2  a1 = a1  a2 = a2  b1 = b1  x = x  y = y
  Roots = {r1, r2}
  FirstRoot = r1
  Assets = {a1, a2, b1}
  RootOf <- PlanRootOf
  ContentOf <- PlanContentOf
  Selections <- MCSelections
  Methods <- PlanMethods
  NoPath = NoPath  None = None
  MaxRequests = 4  MaxPipe = 2  MaxEdits = 1  MaxStarts = 1
INVARIANTS DaemonTypeOK NeverReplayed
PROPERTIES CleanupAsShown
CHECK_DEADLOCK FALSE
