\* Stall detection off, a retry budget, and an outside that may never recover.
SPECIFICATION FairSpec
CONSTANTS
    w1 = w1
    w2 = w2
    Workers = {w1, w2}
    Nobody = nobody
    NeedsHead = {}
    StallPolls = 0
    Budget = 1
    Faults <- FaultKinds
    MaxFaults = 1
PROPERTIES
    CancelStops
