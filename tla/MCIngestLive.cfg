SPECIFICATION FairSpec
CONSTANTS
    Savers = {s1, s2}
    Purgers = {p1}
    Readers = {r1}
    Boot = Boot
    Owners = {o1}
    Keys = {}
    Contents = {c1}
    None = None
    MaxAssets = 2
    Limit = 1
    MaxCrashes = 1
    FlockExcludes = TRUE
    IOFaults = FALSE
INVARIANTS
    ReadersKeepTheirMedia
    RetainedWithinLimit
    LeftoversExplained
PROPERTIES
    RequestsSettle
    InterruptedPurgeResumes
