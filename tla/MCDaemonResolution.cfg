SPECIFICATION Spec
CONSTANTS
  r1 = r1  r2 = r2  a1 = a1  a2 = a2  b1 = b1  x = x  y = y
  Roots = {r1}
  FirstRoot = r1
  Assets = {a1, a2}
  RootOf <- OneRootOf
  ContentOf <- OneContentOf
  Selections <- NoSelection
  Methods <- ResolutionMethods
  NoPath = NoPath  None = None
  MaxRequests = 5  MaxPipe = 2  MaxEdits = 0  MaxStarts = 1
PROPERTIES ResolutionAsShown
CHECK_DEADLOCK FALSE
