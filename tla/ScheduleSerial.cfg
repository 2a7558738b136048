SPECIFICATION Spec
CONSTANTS
    Task = {t1, t2, t3}
    Handler = {h1}
    Link <- MCLinks
    Span <- MCSpans
    AnyLinks = FALSE
    BundleSize = 1
    MaxRequests = 3
    MaxFaults = 1
INVARIANTS
    TypeOK
    Acyclic
    LinksRespected
    FlagsAreCurrent
SYMMETRY Symmetry
CHECK_DEADLOCK FALSE
