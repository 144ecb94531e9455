CONSTANTS
    c1 = c1
    c2 = c2
    t1 = t1
    t2 = t2
    t3 = t3
    o1 = o1
    o2 = o2
    Chats = {c1}
    Changes = {"copy", "move", "computer-use"}
    Turns = {t1, t2, t3}
    Owners = {o1, o2}
    TurnChat <- SharedTurnChat
    TurnOwner <- SharedTurnOwner
    Scheduled = {t2, t3}
    WriteOnly = {t3}
    Skill = {t1}
    Payload <- Payloads
    Prompt <- Prompts
    SkillReservation = 2
    MaxPreparedTurns = 1
    MaxPreparedBytes = 2
    MaxAppendTurns = 1
    MaxAppendBytes = 2
SPECIFICATION FairSpec
PROPERTIES
    TurnsEnd
    OneHolder
CHECK_DEADLOCK FALSE
