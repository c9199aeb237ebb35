SPECIFICATION Spec
CONSTANTS
    Jobs = {j1, j2}
    Instances = {i1}
    Users = {u1}
    None = None
    Unknown = Unknown
    First = First
    Second = Second
    Late = Late
    Exclusive = Exclusive
    MaxWaiting = 1
    Scopes <- OverlapsOnly
INVARIANT CapturesKept
