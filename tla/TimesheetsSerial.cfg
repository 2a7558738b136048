SPECIFICATION Spec
CONSTANTS
    eng = eng
    pm = pm
    t1 = t1
    t2 = t2
    p1 = p1
    d1 = d1
    w1 = w1
    User = {eng, pm}
    Task = {t1, t2}
    Project = {p1}
    Day = {d1}
    Week = {w1}
    ProjectOf <- MCProjectOf
    WeekOf <- MCWeekOf
    Scope <- MCScope
    Entry = {e1, e2}
    Handler = {h1}
    Hours = {1, 2}
    DailyMax = 3
    MaxDecisions = 2
INVARIANTS
    DailyCap
PROPERTIES
    ImplementsLifecycle
SYMMETRY Symmetry
CHECK_DEADLOCK FALSE
