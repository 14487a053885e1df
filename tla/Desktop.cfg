SPECIFICATION FairSpec
CONSTANTS
    Jobs = {j1, j2}
    Checks = {1, 2}
    MaxModal = 2
INVARIANTS
    ClosesWithoutJobs
    ProcessingTrue
    StuckOnlyIfLaunched
PROPERTIES
    ClosesAsAsked
CHECK_DEADLOCK FALSE
