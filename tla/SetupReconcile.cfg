CONSTANTS
    l1 = l1
    l2 = l2
    h1 = h1
    h2 = h2
    home = home
    Locks = {l1}
    Hubs = {h1, h2}
    Homes = {home}
    HomeOf <- OneHome
    ParentOf <- OneHub
    NoHub = NoHub
    Loop = loop
    Webs = {web}
    Marks = {0, 1, 2, 3, 4, 5}
    NameOf <- OwnName
    Static <- OnlyOpens
    Creds = {101, 102}
    LabelOf <- OwnLabel
    Silent = {}
    First = 60
    Last = 61
    Old <- Sequential
    MaxEvents = 2
    Faults <- AllFaults
SPECIFICATION FairSpec
INVARIANTS NeverTwice KeepsWho
PROPERTIES ReconcilesExactly DecodesWho
