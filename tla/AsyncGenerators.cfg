SPECIFICATION Spec
CONSTANTS
    MaxRequests = 5
INVARIANTS
    OneCarrier
    AnswersInOrder
    FrameFreedOnce
PROPERTIES
    HeadAnswered
CHECK_DEADLOCK FALSE
