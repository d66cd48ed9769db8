SPECIFICATION Spec
CONSTANTS
    c1 = c1
    c2 = c2
    None = none
    SkillCalls = {c1, c2}
    Timeout <- OneLong
    MaxClaims = 2
    MaxMoves = 1
INVARIANTS
    HeldForTimeout
CHECK_DEADLOCK FALSE
