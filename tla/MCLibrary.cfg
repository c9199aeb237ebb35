SPECIFICATION MCSpec
CONSTANTS
    Assets = {1, 2, 3}
    Keys = {1, 2}
    Tags = {t1, t2, t3, t4}
    Names = {n1, n2, n3, n4}
    None = None
    PageLimit = 1
    MaxTagsPerUser = 3
    MaxTagsPerAsset = 2
    MaxSlugs = 2
    MaxClock = 2
    EditAssets = 2
    MaxNames = 2
CHECK_DEADLOCK FALSE
INVARIANTS
    PagesFaithful
    EndedSharesStayEnded
    TagsConsistent
