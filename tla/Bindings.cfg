SPECIFICATION Spec
CONSTANTS
    Int32Max = 1
    SafeMax = 3
    Int64Max = 7
    DoubleMax = 12
    Name = {x, y}
    Thread = {t1, t2}
    Value <- MCValue
    Missing = Missing
SYMMETRY Symmetry
INVARIANTS
    Mirrored
CHECK_DEADLOCK FALSE
