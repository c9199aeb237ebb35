SPECIFICATION AllSpec
CONSTANTS
    Users = {u1}
    Tabs = {t1, t2}
    Browsers = {b1, b2}
    Pairings = {p1}
    None = None
    MaxBrowserSessions = 2
    MaxDevices = 1
    MaxTokens = 1
    MaxMinted = 3
    MaxEpoch = 2
    MaxInvitations = 2
SYMMETRY Symmetry
CHECK_DEADLOCK FALSE
INVARIANTS
    AuthorityIsCurrent
    GrantsUsedOnce
    ForgottenIsRevoked
