\* A finished range read from IBKR without a start, committed only at the end.
SPECIFICATION FairSpec
CONSTANTS
    Market <- PastStamps
    PrintTime <- PastPrints
    NextMidnight <- ThreeDays
    Sub = 2
    Horizon = 8
    Start <- NoTime
    End = 13
    Provider = "ibkr"
    Window = 4
    CommitInterval <- CommitAtEnd
    FirstNow = 14
    LastNow = 14
    MaxRuns = 2
INVARIANTS
    TypeOK
    CompleteOnSuccess
PROPERTIES
    Promise
    Terminates
CHECK_DEADLOCK FALSE
