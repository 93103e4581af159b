SPECIFICATION CodeSpec
CONSTANTS
    Threads = {t1, t2}
    FirstSize = 2
    Sizes = {1}
    MaxJobs = 1
SYMMETRY Symmetry
INVARIANTS FinishedOnce
