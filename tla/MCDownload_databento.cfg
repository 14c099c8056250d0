\* A finished range read from Databento day by day, committed after every batch.
SPECIFICATION FairSpec
CONSTANTS
    Market <- SparsePrints
    PrintTime <- SparsePrints
    NextMidnight <- ThreeDays
    Sub = 2
    Horizon = 8
    Start = 2
    End = 15
    Provider = "databento"
    Window = 8
    CommitInterval = 0
    FirstNow = 15
    LastNow = 16
    MaxRuns = 2
INVARIANTS
    CompleteOnSuccess
    NothingAtRiskWhileWaiting
PROPERTIES
    Promise
    Terminates
CHECK_DEADLOCK FALSE
