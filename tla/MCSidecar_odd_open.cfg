\* The regular open falls inside a bucket of the extended store.
SPECIFICATION Spec
CONSTANTS
    Day = 8
    Hours <- OddHours
    Stores <- IntradayStore
    Requests <- RegularRequests
    Candidates <- Widths
    Ends <- Unbounded
    Times <- OpenTimes
    MaxTicks = 2
INVARIANTS
    ServedIsResampled
CHECK_DEADLOCK FALSE
