SPECIFICATION FairSpec
CONSTANTS
    Caller = {c1, c2, c3}
    Cap = 2
    Window = 2
    MaxRetries = 1
    MaxSettings = 2
INVARIANTS
    WindowBound
    SleptHasRoom
    NoOldToken
PROPERTY
    EveryCallSettles
CHECK_DEADLOCK FALSE
