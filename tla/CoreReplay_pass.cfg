SPECIFICATION ReplaySpec
CONSTANTS
    MaxSeq = 4
    MaxBatch = 3
    MaxFaults = 1
    GapReadMayFail = FALSE
    FoldMayThrow = TRUE
    Actions <- MCActions
    Declared <- MCDeclared
    Target <- MCTarget
    Gated <- MCGated
    InitialNode = "draft"
    MaxConfirmations = 2
    Delegations = {d1}
    DelegationSteps = 1
    Plans <- MCPlans
    MaxDeliveries = 2
INVARIANTS
    ReplayTypeOK
    LogReplays
    SnapshotIsReplay
    VerdictsAreCurrent
PROPERTIES
    ForeignInOrder
    SnapshotGrows
    ImplementsStore
