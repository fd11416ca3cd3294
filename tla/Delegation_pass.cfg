SPECIFICATION Spec
CONSTANTS
    MaxSteps = 2
    MaxAttempts = 2
    MaxRunning = 2
    PlanLength = 2
INVARIANTS
    TypeOK
    FoldsUnlessOverlapped
    AppliedIsRecorded
    CountedHappened
    ViewFollowsWorkflow
