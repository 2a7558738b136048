SPECIFICATION Spec
CONSTANTS
    Phase = {p1, p2}
    Task = {t1, t2, t3}
    Milestone = {m1, m2}
    Handler = {h1, h2}
    Total = 1
    Weight = {0, 1}
    MaxCalls = 3
    None = None
    Keep = Keep
SYMMETRY Symmetry
INVARIANTS
    OneGatePerPhase
    GateIsOfAPhase
    WeightsWithinTotal
PROPERTIES
    CompletedIsSignedOff
    RemovesOnlyTwin
CHECK_DEADLOCK FALSE
