SPECIFICATION Spec
CONSTANTS
    a = a
    b = b
    c = c
    Name = {a, b, c}
    Sources <- MCSources
    Def = {d1, d2, d3}
    NoDef = NoDef
    MaxCalls = 1
INVARIANTS
    RequirementsLoaded
CHECK_DEADLOCK FALSE
