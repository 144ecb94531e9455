CONSTANTS
    r1 = r1
    r2 = r2
    r3 = r3
    e1 = e1
    e2 = e2
    e3 = e3
    c1 = c1
    Runs = {r1, r2, r3}
    Effects = {e1, e2, e3}
    Chats = {c1}
    RunOf <- LanesRunOf
    ChatOf <- OneChatOf
    Foreground = {r1, r3}
    ReplaySafe = {e3}
    MaxOperations = 2
    MaxEffects = 2
SPECIFICATION Spec
SYMMETRY Calls
INVARIANTS
    TypeOK
    NothingForgotten
    NoBlindTurn
    FinishedMeansSettled
    LiveEvidenceKept
PROPERTY RecoveredIsFinal
