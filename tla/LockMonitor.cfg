CONSTANTS
    Clients = {c1, c2}
    Slots = {s1, s2}
    MaxConnects = 3
    MaxMoves = 1
    MaxFaults = 1
SPECIFICATION FairSpec
INVARIANTS PollsForPages
PROPERTIES Served 
CHECK_DEADLOCK FALSE
