CONSTANTS
    p1 = p1
    p2 = p2
    k1 = k1
    k2 = k2
    k3 = k3
    Runs = {p1, p2, k1, k2, k3}
    Top = {p1, p2}
    Children <- TwoParents
    Deployments = {"hosted", "local"}
    Limits <- Capacity
    Plans <- LocalAndHosted
SPECIFICATION FairSpec
INVARIANTS
    TypeOK
    AccountsAgree
PROPERTIES
    NoLateStart
    EveryRunSettles
CHECK_DEADLOCK FALSE
