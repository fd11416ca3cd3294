CONSTANTS
    MaxRuns = 2
    MaxExecute = 2
    MaxFinalize = 5
    MaxFaults = 1
SPECIFICATION Spec
INVARIANTS TypeOK LogFolds SourceAgreesWithRun
PROPERTY AnsweredUnlessDown
CHECK_DEADLOCK FALSE
