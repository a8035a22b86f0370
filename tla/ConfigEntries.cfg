CONSTANTS
    Accounts = {a1, a2}
    Tokens = {t1, t2, t3, t4, t5, t6, t7}
    None = None
    MaxEvents = 2
    Faults = {"fail", "refuse", "lost", "expire", "end", "stuck"}
    Busy = {a1}
SPECIFICATION FairSpec
INVARIANTS NewestKept ServicesServe
PROPERTIES ComesBack
