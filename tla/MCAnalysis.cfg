SPECIFICATION Spec
CONSTANTS
    Day = 8
    Hours <- MCHours
    Queries <- MCQueries
    Symbol = "SYM"
    Instants <- MCInstants
    Prices <- MCPrices
    Sizes <- MCSizes
    MaxTicks = 5
    Sample = 2
    ProbeDays = 2
    ProbeFrames = 1
    PreviewCount = 1
    Width = 168
    Height = 110
    LabelChars = 3
    MaxLabels = 2
    Ladder <- MCLadder
    Calendar <- MCCalendar
    Reading <- SpecReading
    PaintedTicks = 2
    PaintedWidth = 44
    PaintedHeight = 16
INVARIANTS
    TypeOK
    RowsAreTheMarket
    StreamedIsMaterialized
    ColumnIsBatch
    AnswersAreOfTheRows
    StatAgrees
    InspectTellsTheFile
    PanesHoldTheirSeries
    TimeAxisReads
    SixelShowsTheChart
CHECK_DEADLOCK FALSE
