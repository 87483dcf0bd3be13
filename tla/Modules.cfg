SPECIFICATION Spec
CONSTANTS
    a = a
    b = b
    c = c
    Name = {a, b, c}
    Sources <- MCSources
    Def = {d1, d2, d3}
    NoDef = NoDef
    MaxCalls = 2
INVARIANTS
    TypeOK
    BodyOnce
    MarksMatchStack
    LinkedBeforeRun
PROPERTIES
    SuccessMeansEvaluated
    CallsEnd
CHECK_DEADLOCK FALSE
