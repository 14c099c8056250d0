\* Two workers share the client through every kind of fault, and give up when the
\* budget for retries is used up and TWS has not come back.
SPECIFICATION AnsweringSpec
CONSTANTS
    w1 = w1
    w2 = w2
    Workers = {w1, w2}
    Nobody = nobody
    NeedsHead = {w1}
    StallPolls = 1
    Budget = 1
    Faults <- FaultKinds
    MaxFaults = 2
INVARIANTS
    TypeOK
    NoSelfCollision
    OneLiveClient
    OrphanShows
PROPERTIES
    EveryRequestEnds
CHECK_DEADLOCK FALSE
