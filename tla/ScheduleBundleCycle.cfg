SPECIFICATION Spec
CONSTANTS
    Task = {t1, t2, t3}
    Handler = {h1}
    Link <- MCStartLinks
    Span <- MCOneDay
    AnyLinks = TRUE
    BundleSize = 1
    MaxRequests = 2
    MaxFaults = 0
INVARIANTS
    Acyclic
CHECK_DEADLOCK FALSE
