CONSTANTS
    Tabs = {t1}
    Users = {u1}
    Captures = {l1}
    Files = {}
    NoUser = NoUser
    MaxEntries = 1
    MaxClaims = 1
    MaxTaken = 1
SPECIFICATION Spec
INVARIANTS CapturesStayUntilSaved
CHECK_DEADLOCK FALSE
