SPECIFICATION FairSpec
CONSTANTS
    Batches <- MCBatches
    Readers <- MCReaders
    MaxRetries = 2
INVARIANTS
    TypeOK
    ModelSeesAllResults
    EndIsWhole
    DependenciesFirst
    ReadersAfterWriters
    NoLineLeft
PROPERTIES
    ResultStays
    QuietAfterTheEnd
    JobEnds
\* The job ends.
CHECK_DEADLOCK FALSE
