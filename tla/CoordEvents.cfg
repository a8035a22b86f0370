CONSTANTS
    Locks = {l1}
    Refreshes = {r1}
    Polls = {p1, p2}
    PageSize = 2
    CloudCodes <- MCCloudCodes
    Outcomes = {"locked"}
    MaxLog = 3
    MaxCommands = 0
    MaxFaults = 2
    Faults <- MCEventFaults
SPECIFICATION FairSpec
INVARIANTS FiredOnceInOrder NoHistory
PROPERTIES IsFeed NewEntryFires SensorConverges
