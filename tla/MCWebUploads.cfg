CONSTANTS
    Tabs = {t1, t2}
    Users = {u1, u2}
    Captures = {f1, l1}
    Files = {f1}
    NoUser = NoUser
    MaxEntries = 1
    MaxClaims = 2
    MaxTaken = 1
SPECIFICATION Spec
INVARIANTS FilesStayUntilSaved LandsInOneAccount
PROPERTIES LiveClaimIsFenced ImplementsOutbox
SYMMETRY Symmetry
CHECK_DEADLOCK FALSE
