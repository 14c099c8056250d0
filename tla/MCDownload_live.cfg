\* The market prints while the download follows "now", committing every second.
SPECIFICATION Spec
CONSTANTS
    Market <- LiveStamps
    PrintTime <- LivePrints
    NextMidnight <- TwoDays
    Sub = 2
    Horizon = 9
    Start = 2
    End <- NoTime
    Provider = "ibkr"
    Window = 8
    CommitInterval = 1
    FirstNow = 3
    LastNow = 13
    MaxRuns = 1
INVARIANTS
    InOrder
PROPERTIES
    NeverPassesPrintedTrade
CHECK_DEADLOCK FALSE
