SPECIFICATION Spec
CONSTANTS
    Prompts = {p1, p2, p3}
    Replies = {r1, r2, r3}
    Texts = {blank, hi}
    Blank = blank
    None = none
    a = a
    b = b
    Tabs <- MCTabs
    Ops <- BothSend
    MaxRevision = 5
SYMMETRY Symmetry
PROPERTIES
    UnsentStaysOnScreen
    RunningReplyStays
    ResentTurnEndsTheBranch
CHECK_DEADLOCK FALSE
