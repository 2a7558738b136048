SPECIFICATION Spec
CONSTANTS
    Person = {eng, pm}
    Update = {u1, u2, u3}
    Handler = {h1}
    Full = 3
INVARIANTS
    TypeOK
    PendingAgrees
PROPERTIES
    ImplementsLedger
SYMMETRY Symmetry
