SPECIFICATION Spec
CONSTANTS
    w1 = w1
    w2 = w2
    e1 = e1
    e2 = e2
    i1 = i1
    i2 = i2
    i3 = i3
    i4 = i4
    Writer = {w1, w2}
    Entry = {e1, e2}
    Inode = {i1, i2, i3, i4}
    NoInode = NoInode
    MaxUpdates = 5
    MaxFaults = 1
SYMMETRY Symmetry
CHECK_DEADLOCK FALSE
PROPERTY UnreadableKept
