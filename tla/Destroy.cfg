SPECIFICATION FairSpec
CONSTANTS
    Ptr = {ctx, g, p1, p2}
    Ctx = ctx
    Global = g
    NoPtr = {ctx, g, p1, p2}
    Name = {a}
    Intrinsic = intrinsic
    MaxDepth = 1
    Handle = {h1}
    Invocation = {}
    MaxLost = 1
INVARIANTS
    TypeOK
    RefBalance
    HeldHandleValid
PROPERTIES
    NativeReturns
CHECK_DEADLOCK FALSE
