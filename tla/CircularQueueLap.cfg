SPECIFICATION CodeSpec
CONSTANTS
    Producers = {p1, p2}
    Size = 2
    maxFrames = 1
    f = f
    g = g
    Frames <- MCFrames
    Samples <- MCOneSample
    b = b
    e = e
    Envs = {nullptr, e}
    NoFrame = NoFrame
    nullptr = nullptr
    Infos = {nullptr, b}
    NoSample = NoSample
INVARIANTS CantReadMeansEmpty
