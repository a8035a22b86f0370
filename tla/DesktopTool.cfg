CONSTANTS
    Runs = {r1, r2}
    NoRun = NoRun
    MAX = 1
    MaxDoorKeys = 2
    MaxPublished = 3
    MaxStarts = 3
    MaxMishaps = 1
    Faults = {"scan", "discover", "exchange", "cloud", "disk", "command", "drop", "kill"}
SPECIFICATION ToolSpec
INVARIANTS ToolTypeOK FallbackSucceeds NextIsOffline
CHECK_DEADLOCK FALSE
