SPECIFICATION Spec
CONSTANTS
    Sends = 2
    MaxWrites = 2
    MaxReads = 2
    MaxReplies = 1
    MaxFaults = 2
INVARIANTS
    FailsOnlyWhenLost
    AckedIsKept
PROPERTIES
    Promise
CHECK_DEADLOCK FALSE
