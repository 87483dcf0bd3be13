SPECIFICATION Spec
CONSTANTS
    Ptr = {ctx, g, p1, p2}
    Ctx = ctx
    Global = g
    NoPtr = NoPtr
    Name = {a}
    Intrinsic = intrinsic
    MaxDepth = 0
    Handle = {h1, h2}
    Invocation = {i1}
    MaxLost = 0
SYMMETRY Symmetry
INVARIANTS
    RefBalance
    HeldHandleValid
    DestroyFreesAll
PROPERTIES
    NeverFreesReachable
CHECK_DEADLOCK FALSE
