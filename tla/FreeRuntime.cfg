SPECIFICATION Spec
CONSTANTS
    Ptr = {ctx, g, p1, p2}
    Ctx = ctx
    Global = g
    NoPtr = NoPtr
    Name = {a}
    Intrinsic = intrinsic
    MaxDepth = 0
    Handle = {h1}
    Invocation = {}
    MaxLost = 1
SYMMETRY Symmetry
INVARIANTS
    FreeRuntimeAssert
CHECK_DEADLOCK FALSE
