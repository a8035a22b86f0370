SPECIFICATION FairSpec
CONSTANTS
    MAX_SESSIONS = 2
    MaxKeys = 3
    MaxOffers = 5
    MaxCalls = 4
    MaxFaults = 2
INVARIANTS
    CleanCallsSucceed
    Accounted
PROPERTIES
    VerifiedKey
    EveryCallEnds
CHECK_DEADLOCK FALSE
