SPECIFICATION Spec
CONSTANTS
    Prompts = {p1, p2}
    Replies = {r1, r2}
    Texts = {blank, hi}
    Blank = blank
    None = none
    a = a
    b = b
    Tabs <- MCTabs
    Ops <- OneChanges
    MaxRevision = 4
SYMMETRY Symmetry
INVARIANTS
    TypeOK
PROPERTIES
    NoRewind
CHECK_DEADLOCK FALSE
