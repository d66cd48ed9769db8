SPECIFICATION Spec
CONSTANTS
    Prompts = {p1, p2}
    Replies = {r1, r2}
    Texts = {blank, hi}
    Blank = blank
    None = none
    a = a
    b = b
    Tabs <- MCTabs
    Ops <- OneDeletes
    MaxRevision = 5
SYMMETRY Symmetry
PROPERTIES
    DeletesRemoveWhatWasShown
CHECK_DEADLOCK FALSE
