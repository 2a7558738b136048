SPECIFICATION Spec
CONSTANTS
    eng = eng
    pm = pm
    t1 = t1
    t2 = t2
    p1 = p1
    d1 = d1
    w1 = w1
    User = {eng, pm}
    Task = {t1, t2}
    Project = {p1}
    Day = {d1}
    Week = {w1}
    ProjectOf <- MCProjectOf
    WeekOf <- MCWeekOf
    Scope <- MCScope
    Entry = {e1, e2}
    Handler = {h1, h2}
    Hours = {1}
    DailyMax = 2
    MaxDecisions = 1
INVARIANTS
    DecidedByAnother
    DecisionsKeepTheirRow
    NoticesAreTrue
SYMMETRY HandlerSymmetry
CHECK_DEADLOCK FALSE
