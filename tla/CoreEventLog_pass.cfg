SPECIFICATION FairSpec
CONSTANTS
    MaxSeq = 4
    MaxBatch = 2
    MaxFaults = 2
    GapReadMayFail = FALSE
    FoldMayThrow = FALSE
INVARIANTS
    TypeOK
    CountExact
    EarlyReturnIsCurrent
    OwnNeverRefolded
PROPERTIES
    Convergence
