CONSTANTS
    r1 = r1
    r2 = r2
    r3 = r3
    c1 = c1
    c2 = c2
    Run = {r1}
    Batches <- OneRun
    Call = {c1}
    Outcome = {"completed"}
    Slots = 1
    MaxRuns = 2
    MaxRevision <- TelemetryBound
    MaxFaults = 0
    MaxCrashes = 0
SPECIFICATION Spec
INVARIANT StopImmuneToTelemetry
CHECK_DEADLOCK FALSE
