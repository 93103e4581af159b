SPECIFICATION FairSpec
CONSTANTS
    Producers = {p1, p2}
    Size = 2
    maxFrames = 2
    f = f
    g = g
    Frames <- MCFrames
    Samples <- MCSamples
    b = b
    e = e
    Envs = {nullptr, e}
    NoFrame = NoFrame
    nullptr = nullptr
    Infos = {nullptr, b}
    NoSample = NoSample
INVARIANTS TypeOK SlotExclusive CantReadMeansEmpty FreeSlotsClean
PROPERTIES UnreadKept FifoExactlyOnce ClaimedIsRecorded
