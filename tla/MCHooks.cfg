SPECIFICATION Spec
CONSTANTS
    h1 = h1
    h2 = h2
    m1 = m1
    m2 = m2
    Proc = {h1, h2}
    Msg = {m1, m2}
    Event = {"PreToolUse", "Notification", "Stop"}
    Status = {"question", "task_complete"}
    LockTTL = 1
    ContentTTL = 1
    CooldownAny = 2
    CooldownTask = 1
    MaxAge = 1
    Window = 1
    Crashes = TRUE
    RaceUntil = 2
    MaxTime = 5
SYMMETRY Symmetry
CHECK_DEADLOCK FALSE
INVARIANTS TypeOK DuplicateWasSent 
PROPERTIES NoRepeatUnlessInterfered QuestionKeepsDistance
