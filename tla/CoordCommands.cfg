CONSTANTS
    Locks = {l1}
    Refreshes = {r1, r2}
    Polls = {p1}
    PageSize = 2
    CloudCodes <- MCCloudCodes
    Outcomes = {"locked", "open"}
    MaxLog = 1
    MaxCommands = 1
    MaxFaults = 1
    Faults <- MCCommandFaults
SPECIFICATION FairSpec
PROPERTIES LockConverges
