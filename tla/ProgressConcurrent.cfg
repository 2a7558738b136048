SPECIFICATION Spec
CONSTANTS
    Person = {eng, pm}
    Update = {u1, u2}
    Handler = {h1, h2}
    Full = 2
INVARIANTS
    TotalsAreReal
SYMMETRY Symmetry
