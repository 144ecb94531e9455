CONSTANTS
    s1 = s1
    s2 = s2
    d1 = d1
    d2 = d2
    q1 = q1
    Session = {s1, s2}
    Document = {d1, d2}
    Prompt = {q1}
    None = None
SPECIFICATION FairSpec
INVARIANTS
    TypeOK
    FlowIntegrity
PROPERTY FlowsEnd
CHECK_DEADLOCK FALSE
