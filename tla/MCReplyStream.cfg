SPECIFICATION FairSpec
CONSTANTS
    MaxParts = 3
    MaxSaves = 2
    Attempts = 2
INVARIANTS
    TypeOK
    OneHand
    EachPartInOnePlace
PROPERTIES
    LogSpec
    PartsSettle
CHECK_DEADLOCK FALSE
