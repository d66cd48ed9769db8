SPECIFICATION Spec
CONSTANTS
    c1 = c1
    c2 = c2
    None = none
    SkillCalls = {c1, c2}
    Timeout <- BothShort
    MaxClaims = 2
    MaxMoves = 1
CONSTRAINT Explored
SYMMETRY Symmetry
INVARIANTS
    TypeOK
    RememberedIsReady
    WatchedOnce
    WaitsForTheStart
PROPERTIES
    DeletedForCause
    LostWithItsPod
CHECK_DEADLOCK FALSE
