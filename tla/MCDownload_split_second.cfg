\* A request is answered inside a second the market is still printing.
SPECIFICATION Spec
CONSTANTS
    Market <- SplitStamps
    PrintTime <- SplitPrints
    NextMidnight <- OneDay
    Sub = 2
    Horizon = 9
    Start <- NoTime
    End <- NoTime
    Provider = "ibkr"
    Window = 8
    CommitInterval <- CommitAtEnd
    FirstNow = 3
    LastNow = 7
    MaxRuns = 1
INVARIANTS
    GapFree
CHECK_DEADLOCK FALSE
