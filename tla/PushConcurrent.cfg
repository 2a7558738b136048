SPECIFICATION FairSpec
CONSTANTS
    Entry = {e1}
    Process = {q1, q2}
    MaxRetries = 3
    MaxBackfill = 5
    Admin = {}
    MaxApprovals = 2
    MaxAdmin = 0
    MaxFaults = 1
INVARIANTS
    NothingForgotten

    
CHECK_DEADLOCK FALSE
