SPECIFICATION FairCodeSpec
CONSTANTS
    Threads = {t1, t2}
    Unmasked = {t1}
    InfoResults = {TRUE}
    Buckets = {b1, b2}
    NoBucket = NoBucket
    NoThread = NoThread
    QueueSize = 1
    MaxTables = 2
    MaxEpoch = 1
    MaxTotal = 2
    MaxRefs = 2
PROPERTIES HandlerReturns
CHECK_DEADLOCK FALSE
