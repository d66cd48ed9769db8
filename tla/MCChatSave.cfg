SPECIFICATION Spec
CONSTANTS
    Prompts = {p1, p2}
    Replies = {r1, r2}
    Texts = {blank, hi}
    Blank = blank
    None = none
    Clients = {c1, c2}
    MaxRevision = 4
SYMMETRY Symmetry
PROPERTIES
    FinalSaveCreatesNoMessage
CHECK_DEADLOCK FALSE
