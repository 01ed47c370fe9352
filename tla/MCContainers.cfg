SPECIFICATION MCSpec
CONSTANTS
    ArrCells = 5
    ObjCells = 7
    Keys = {k1, k2}
    k1 = k1
    k2 = k2
    Raw = Raw
    Start = 2
    Careful = TRUE
    Items = {1, 2, 3, 4, 5}
    Key <- MCKey
    Hash <- MCHash
    Rank <- MCRank
    InitBuckets = 2
    Thresh = 3
    MaxBuckets = 4
SYMMETRY Alike
VIEW SeenAll
INVARIANTS RingShape IterAhead Reads Fsck FindsNewest
PROPERTIES Contract IterOrder
CHECK_DEADLOCK FALSE
