SPECIFICATION FairSpec
CONSTANT
    MaxRuns = 2
INVARIANTS
    TypeOK
    RunningIsExecuted
    PictureOfAResult
    CancelledIsNoResult
PROPERTIES
    ReportsOfExecutedRuns
    EndedStaysEnded
    EveryRunEnds
