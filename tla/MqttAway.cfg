CONSTANTS
    Locks = {l1}
    Openings = {}
    DeviceEvents = {40}
    Credentials = {}
    Rechecks = 1
    Polls = {p1}
    Slots = {s1}
    Commands = {"ON", "OFF", "LOCK"}
    MaxCommands = 2
    MaxMoves = 1
    MaxFaults = 1
    Faults = {"half", "drop", "fail", "crash", "offline"}
SPECIFICATION FairSpec
PROPERTIES ShownConverges
