SPECIFICATION Spec
CONSTANTS
    i1 = i1
    i2 = i2
    i3 = i3
    i4 = i4
    i5 = i5
    Item <- FiveItems
    Limit = 2
    PerSecond = 2
    MaxTime = 5
INVARIANTS ShownOnce
SYMMETRY Symmetry
CHECK_DEADLOCK FALSE
