CONSTANTS
    r1 = r1
    r2 = r2
    r3 = r3
    c1 = c1
    c2 = c2
    Run = {r1, r2}
    Batches <- OneBatch
    Call = {c1}
    Outcome = {"completed"}
    Slots = 1
    MaxRuns = 2
    MaxRevision <- TelemetryBound
    MaxFaults = 1
    MaxCrashes = 1
SPECIFICATION FairSpec
INVARIANTS
    TypeOK
    NoChildBeforeRecord
    EndedIsSettled
    OutcomesStand
PROPERTIES
    TerminalIsFinal
    CallsEnd
CHECK_DEADLOCK FALSE
