SPECIFICATION FairSpec
CONSTANTS
    Apis = {a1, a2}
    OptionStrings <- MCOptionStrings
    Requests <- MCRequests
    Commands <- MCCommands
    NONE = NONE
    NULL = NULL
    Files = {"f"}
    Generated = "log"
    MAX_FRAMES_TO_CAPTURE = 3
    DEFAULT_MAX_FRAMES_TO_CAPTURE = 1
    DEFAULT_SAMPLING_INTERVAL = 1
    MaxCalls = 2
CHECK_DEADLOCK FALSE
INVARIANTS DeathStops
PROPERTIES SetKeepsOther OptionsTakenOver CommandsServed
