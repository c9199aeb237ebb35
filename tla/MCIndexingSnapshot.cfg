SPECIFICATION Spec
CONSTANTS
    MaxAssets = 1
    Executors = {e1}
    None = None
    Versions = {1}
    MaxAttempts = 3
    MaxStops = 2
    MaxRetries = 0
    MaxRestores = 1
INVARIANTS
    WaitingIsClaimable
