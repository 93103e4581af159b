SPECIFICATION MCSpec
CONSTANTS
    Threads = {t1}
    Workers = {w1, w2}
    Ptrs = {a1, a2}
    Files = {f}
    Generated = Generated
    NULL = NULL
    FrameInputs = {2, 3}
    IntervalInputs <- TwoIntervals
    MAX_FRAMES_TO_CAPTURE = 3
    DEFAULT_MAX_FRAMES_TO_CAPTURE = 1
    DEFAULT_SAMPLING_INTERVAL = 1
    SpawnResults = {TRUE, FALSE}
    QueueSize = 1
    PopLimit = 0
    Methods = {m1, m2}
    Starts = {1, 2, 4}
    MaxEntries = 4
    Bcis <- MCBcis
    NumFrames <- MCNumFrames
    MaxRecords = 3
    Word = 85
    BUFF_SZ = 24
    MIN_FREE_BUFF = 8
    MaxVarint = 2
    ByteSizes = {0, 3, 20}
    MaxMessages = 4
CHECK_DEADLOCK FALSE
SYMMETRY Symmetry
INVARIANTS OneConsumer WorkerObjectsAlive NeverKilled StringsOwned HandlerSafe
           LinesRight MethodsAnnounced WithinBuffer ReadBack
PROPERTIES KeepsPromise
