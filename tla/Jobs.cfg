SPECIFICATION Spec
CONSTANTS
    MaxJobs = 3
    MaxErrors = 2
    MaxDepth = 5
INVARIANTS
    JobsInOrder
PROPERTIES
    ResultMeansDrained
    CallbackExceptionKept
