SPECIFICATION FairSpec
CONSTANTS
    Threads = {t1, t2}
    FirstSize = 1
    Sizes = {2}
    MaxJobs = 3
INVARIANTS TypeOK FinishedOnce SourcesPresent PublishedComplete DeletedOnce NothingLeaks
PROPERTIES OpsReturn
