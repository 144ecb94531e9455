CONSTANTS
    e1 = e1
    e2 = e2
    s1 = s1
    s2 = s2
    first = first
    Edits = {e1, e2}
    Saves = {s1, s2}
    First = first
    None = None
    Unseen = Unseen
    Faults <- AllFaults
    MaxTroubles = 2
SPECIFICATION Spec
INVARIANTS
    TypeOK
    NothingLost
    DocumentStands
    DocumentReturns
CHECK_DEADLOCK FALSE
