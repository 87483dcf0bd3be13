SPECIFICATION Spec
CONSTANTS
    Promise = {p1, p2, p3}
    Plain = {v}
    TypeErr = typeErr
    Array = array
    Thenable = thenable
    Own = {p2}
    NoValue = NoValue
    Combinator = {"all", "allSettled", "any", "race"}
    MaxThens = 2
    MaxAsync = 1
    MaxGen = 1
    MaxDepth = 2
INVARIANTS
    OneResolver
    ReactionsInOrder
    ResumedOnce
    CombinatorComplete
PROPERTIES
    Adoption
CHECK_DEADLOCK FALSE
