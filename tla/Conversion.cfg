SPECIFICATION CrossingSpec
CONSTANTS
    Int32Max = 3
    SafeMax = 7
    Int64Max = 31
    DoubleMax = 70
INVARIANTS
    NumberSurvives
    ClassByNumber
    TypeofKept
