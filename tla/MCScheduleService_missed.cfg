CONSTANTS
    t1 = t1
    t2 = t2
    w = w
    c1 = c1
    c2 = c2
    Task = {t1, t2}
    Workspace = {w}
    Stored <- OneTask
    Call = {c1, c2}
    Boot = Boot
    None = None
    Faulty = FALSE
SPECIFICATION Spec
INVARIANTS
    StartSurvives
CHECK_DEADLOCK FALSE
