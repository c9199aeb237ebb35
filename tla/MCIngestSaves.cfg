SPECIFICATION Spec
CONSTANTS
    Savers = {s1, s2}
    Purgers = {p1}
    Readers = {}
    Boot = Boot
    Owners = {o1}
    Keys = {k1}
    Contents = {c1}
    None = None
    MaxAssets = 2
    Limit = 0
    MaxCrashes = 1
    FlockExcludes = FALSE
    IOFaults = TRUE
SYMMETRY Symmetry
INVARIANTS
    SavedWhole
    AcknowledgedNeverLost
    ReceiptsResolve
    PurgedNeverAnswered
    CompletedPurgeReclaimed
PROPERTIES
    ReceiptIsFinal
    ImplementsLibrary
