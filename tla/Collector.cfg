SPECIFICATION Spec
CONSTANTS
    Ptr = {ctx, g, p, v}
    Ctx = ctx
    Global = g
    Other = {ctx, v}
    NoPtr = NoPtr
    Name = {a}
    Intrinsic = intrinsic
    MaxHeld = 1
INVARIANTS
    TypeOK
    CodeAsserts
    NextElementStays
    NoDanglingSlot
    NothingForgotten
PROPERTIES
    ImplementsRunGC
    CollectionEnds
