\* Trades go on after the regular close.
SPECIFICATION Spec
CONSTANTS
    Day = 8
    Hours <- EvenHours
    Stores <- RegularStore
    Requests <- RegularRequests
    Candidates <- Widths
    Ends <- Unbounded
    Times <- LateTimes
    MaxTicks = 2
INVARIANTS
    RefusedIsBehind
CHECK_DEADLOCK FALSE
