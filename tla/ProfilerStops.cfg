SPECIFICATION FairSpec
CONSTANTS
    Threads = {t1}
    Workers = {w1}
    Ptrs = {a1}
    Files = {}
    Generated = Generated
    NULL = NULL
    FrameInputs = {2}
    IntervalInputs <- OneInterval
    MAX_FRAMES_TO_CAPTURE = 3
    DEFAULT_MAX_FRAMES_TO_CAPTURE = 1
    DEFAULT_SAMPLING_INTERVAL = 1
    SpawnResults = {TRUE, FALSE}
    QueueSize = 1
    PopLimit = 0
CHECK_DEADLOCK FALSE
PROPERTIES StopReturns
