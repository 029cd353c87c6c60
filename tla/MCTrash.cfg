SPECIFICATION Spec
CONSTANTS
    d1 = d1
    d2 = d2
    p1 = p1
    p2 = p2
    n1 = n1
    f1 = f1
    f2 = f2
    f3 = f3
    NoFile = NoFile
    Proc = {d1, d2}
    Path = {p1, p2}
    Name = {n1}
    File = {f1, f2, f3}
    NameOf <- MCNameOf
    HomeOf <- MCHomeOf
    HasSide <- MCHasSide
    MaxClock = 4
    MaxCopy = 1
    MaxBatch = 2
    MaxFaults = 1
INVARIANTS
    TypeOK
    Conserved
    Recorded
    SidecarsTravel
PROPERTIES
    NoClobber
    ForgottenWhenEmpty
    Reversible
SYMMETRY ProcSymmetry
CHECK_DEADLOCK FALSE
