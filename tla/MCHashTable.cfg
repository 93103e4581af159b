SPECIFICATION FairUsedSpec
CONSTANTS
    t1 = t1
    t2 = t2
    t3 = t3
    k0 = k0
    k1 = k1
    k2 = k2
    k3 = k3
    Threads = {t1, t2, t3}
    Keys = {k0, k1, k2, k3}
    Home <- MCHome
    Writers <- OwnKeys
    Values = {v}
    Empty = Empty
    Move = Move
    Size = 4
    FreeBuckets = 3
    kNeighbourhood = 2
    kMaxJumpsAllowed = 1
    Migrating = TRUE
    MaxOps = 3
CHECK_DEADLOCK FALSE
INVARIANTS OneCellPerKey BucketsAccounted ChainsReleased StoredFound NothingLeftBehind
PROPERTIES OwnerFinds OpsReturn
