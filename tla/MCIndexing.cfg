SPECIFICATION FairSpec
CONSTANTS
    MaxAssets = 1
    Executors = {e1, e2}
    None = None
    Versions = {1, 2}
    MaxAttempts = 3
    MaxStops = 3
    MaxRetries = 1
    MaxRestores = 1
INVARIANTS
    BoundedWork
    NoMixedVectors
PROPERTIES
    ResultsAreFinal
    LeaseHonoured
    EveryAssetSettles
