CONSTANTS
    Locks = {l1}
    Openings <- MCPerson
    DeviceEvents = {}
    Credentials = {60}
    Rechecks = 1
    Polls = {p1}
    Slots = {s1}
    Commands = {"UNLOCK", "LOCK"}
    MaxCommands = 1
    MaxMoves = 1
    MaxFaults = 1
    Faults = {"fail", "crash"}
SPECIFICATION FairSpec
INVARIANTS LabelKept CacheIsRetained
PROPERTIES LockedAnnouncedOnce  WhoFollows
