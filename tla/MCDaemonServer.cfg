SPECIFICATION LiveSpec
CONSTANTS
  r1 = r1  r2 = r2  a1 = a1  a2 = a2  b1 = b1  x = x  y = y
  Roots = {r1, r2}
  FirstRoot = r1
  Assets = {a1, b1}
  RootOf <- TwoRootOf
  ContentOf <- TwoContentOf
  Selections <- NoSelection
  Methods <- LoopMethods
  NoPath = NoPath  None = None
  MaxRequests = 3  MaxPipe = 2  MaxEdits = 1  MaxStarts = 2
INVARIANTS OneAnswer EventsInOrder ReadyIsCurrent
PROPERTIES Confined Answered
CHECK_DEADLOCK FALSE
