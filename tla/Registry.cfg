SPECIFICATION Spec
CONSTANTS
    Callback = {c1, c2}
    NoCallback = NoCallback
    Id = {i1, i2}
    Fn = {f1, f2}
    Thread = {t1, t2}
    NoThread = NoThread
    MaxUse = 2
SYMMETRY Symmetry
INVARIANTS
    SoleCallbackRegistered
    NoStaleEntry
    DestroyEmptiesMap
CHECK_DEADLOCK FALSE
