SPECIFICATION Spec
CONSTANTS
    MaxParts = 2
    MaxSaves = 1
    Attempts = 1
INVARIANT
    LatestStatusStored
CHECK_DEADLOCK FALSE
