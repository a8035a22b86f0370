SPECIFICATION ScreenSpec
CONSTANTS
    MaxUid = 3
    MaxGid = 2
    MaxOps = 2
    MaxPulls = 1
    MaxFailures = 1
INVARIANTS
    Agree
    LastSetHolds
    OwnSlot
CHECK_DEADLOCK FALSE
