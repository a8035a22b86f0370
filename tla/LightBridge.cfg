CONSTANTS
    Locks = {l1}
    Loop = loop
    Webs = {web}
    Nodes = {n1, n2, n3}
    None = None
    MaxEvents = 3
    Faults = {"create", "gen", "commission", "signup", "bind", "save", "login", "list"}
SPECIFICATION FairSpec
INVARIANTS OwnId
PROPERTIES NotAgain EventuallyBound ColdStart FirstSetupStarts
