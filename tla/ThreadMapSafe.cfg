SPECIFICATION FairSpec
CONSTANTS
    Threads = {t1, t2}
    Unmasked = {t1}
    InfoResults = {TRUE, FALSE}
    Buckets = {b1, b2}
    NoBucket = NoBucket
    NoThread = NoThread
    QueueSize = 1
    MaxTables = 2
    MaxEpoch = 2
    MaxTotal = 3
    MaxRefs = 2
INVARIANTS TablesAlive BucketsAlive
PROPERTIES EpochWaits HandlerReturns
CHECK_DEADLOCK FALSE
