CONSTANTS
    Assets = {a1, a2, a3}
    Commands = {c1, c2}
    Directories = {d1}
    Targets = {t1, t2}
SPECIFICATION Spec
INVARIANTS RestoredIsWhole FrozenMediaKept
PROPERTY FrozenAndNeverOverwritten
SYMMETRY Symmetry
CHECK_DEADLOCK FALSE
