SPECIFICATION Spec
CONSTANTS
    Jobs = {j1, j2}
    Instances = {i1, i2}
    Users = {u1, u2}
    None = None
    Unknown = Unknown
    First = First
    Second = Second
    Late = Late
    Exclusive = Exclusive
    MaxWaiting = 1
    Scopes <- SeveralScopes
SYMMETRY Symmetry
INVARIANTS
    CapturesKept
    NoResurrection
    LandsWhereCaptured
    AttemptsBounded
    AlarmArmed
PROPERTY ImplementsOutbox
