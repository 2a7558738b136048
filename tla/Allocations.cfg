SPECIFICATION Spec
CONSTANTS
    Row = {r1, r2}
    Project = {p1, p2}
    Person = {u1, u2}
    Handler = {h1, h2}
    Hours = {1, 2}
    Capacity = 1
    Modes = {"warn", "approve"}
    MaxRetries = 2
    Batch = 2
    MaxFailures = 2
    MaxCalls = 3
    Nobody = Nobody
SYMMETRY Symmetry
INVARIANTS
    TypeOK
    OnTeamOnce
    OverbookingHasReason
    NotTheirOwn
    FollowedUp
    HeldOnce
    SyncedIsClosed
CHECK_DEADLOCK FALSE
