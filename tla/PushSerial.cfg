SPECIFICATION Spec
CONSTANTS
    Entry = {e1}
    Process = {q1}
    MaxRetries = 3
    MaxBackfill = 5
    Admin = {"retry", "force", "list"}
    MaxApprovals = 2
    MaxAdmin = 2
    MaxFaults = 3
INVARIANTS
    TypeOK
    NoUnexplainedPosts
    RetriesBounded
    PushResolves
CHECK_DEADLOCK FALSE
