SPECIFICATION CodeSpec
CONSTANTS
    Threads = {t1}
    Workers = {w1, w2}
    Ptrs = {a1}
    Files = {}
    Generated = Generated
    NULL = NULL
    FrameInputs = {1, 2}
    IntervalInputs <- OneInterval
    MAX_FRAMES_TO_CAPTURE = 3
    DEFAULT_MAX_FRAMES_TO_CAPTURE = 1
    DEFAULT_SAMPLING_INTERVAL = 1
    SpawnResults = {TRUE}
    QueueSize = 1
    PopLimit = 0
CHECK_DEADLOCK FALSE
INVARIANTS PushesToLive
