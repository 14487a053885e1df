SPECIFICATION FairSpec
CONSTANTS
    Jobs = {j1, j2, j3}
    EmptyJob = EmptyJob
INVARIANTS InOrderOnce SleepsOnlyIfLost
PROPERTIES NothingPassesAfterCancel PushedIsStarted CloseEnds
CHECK_DEADLOCK FALSE
