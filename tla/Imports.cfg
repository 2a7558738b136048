SPECIFICATION FairSpec
CONSTANTS
    Import = {1, 2, 3}
    Job = {1, 2, 3}
    MaxPerUser = 2
    MaxFaults = 1
INVARIANTS
    OneAtATime
    NoneLostOrDoubled
    Woken
    StartedHasJob
PROPERTIES
    WaitingStarts
CHECK_DEADLOCK FALSE
