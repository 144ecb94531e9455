CONSTANTS
    e1 = e1
    e2 = e2
    k1 = k1
    q1 = q1
    q2 = q2
    Endpoint = {e1, e2, k1}
    Keyless = {k1}
    Home = e1
    Request = {q1, q2}
    Old = Old
    None = None
    Corrupt = Corrupt
    MaxTroubles = 1
    MaxPasses = 2
SPECIFICATION Spec
INVARIANT TornCommitsStand
