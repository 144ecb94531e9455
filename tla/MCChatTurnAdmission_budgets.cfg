CONSTANTS
    c1 = c1
    c2 = c2
    t1 = t1
    t2 = t2
    t3 = t3
    o1 = o1
    o2 = o2
    Chats = {c1, c2}
    Changes = {"computer-use"}
    Turns = {t1, t2, t3}
    Owners = {o1}
    TurnChat <- DocumentTurnChat
    TurnOwner <- DocumentTurnOwner
    Scheduled = {}
    WriteOnly = {}
    Skill = {t1, t3}
    Payload <- Payloads
    Prompt <- Prompts
    SkillReservation = 2
    MaxPreparedTurns = 2
    MaxPreparedBytes = 3
    MaxAppendTurns = 1
    MaxAppendBytes = 3
SPECIFICATION Spec
INVARIANTS
    TypeOK
    AccountsBalance
    OneWriter
    ClosedChatIsQuiet
    AnsweredMeansSaved
CHECK_DEADLOCK FALSE
