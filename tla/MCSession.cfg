SPECIFICATION SessionSpec
CONSTANTS
    w1 = w1 w2 = w2 w3 = w3 None = None Nothing = Nothing Every = Every
    Message <- MCMessage
    Window = 2
    LimitWindow = 1
    TextWindow = 2
    LongText = 1
    NotifyOnText = TRUE
    MaxMessages = 4
    Rules <- MCRules
    Folder = "here"
    Muted = {"review_complete"}
    Win = {w1, w2, w3}
    Own = w1
    Scenes <- MCScenes
INVARIANTS SessionTypeOK StatusOfThisTurn TextOfThisTurn ReportsTruth NotMissed OwnRaised
PROPERTIES SessionEnds
CHECK_DEADLOCK FALSE
