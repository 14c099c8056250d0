\* An intraday extended store and a daily regular one beside a growing source,
\* in two archives.
SPECIFICATION ArchiveSpec
CONSTANTS
    Day = 8
    Hours <- MCEvenHours
    Stores <- MCStores
    Requests <- MCRequests
    Candidates <- MCWidths
    Ends <- MCEnds
    Times <- MCTimes
    MaxTicks = 4
    Symbol = "SYM"
    Symbols <- MCSymbols
    Archives <- MCArchives
INVARIANTS
    TypeOK
    OnlyTheLastBarIsOpen
    RefreshIsRebuild
    ServedIsResampled
    AnswersAreTheMarket
    ToolsAnswerInFull
CHECK_DEADLOCK FALSE
