\* Unlimited retries, and everything that fails comes back.
SPECIFICATION RecoveringSpec
CONSTANTS
    w1 = w1
    w2 = w2
    Workers = {w1, w2}
    Nobody = nobody
    NeedsHead = {}
    StallPolls = 2
    Budget <- Unlimited
    Faults <- Recoverable
    MaxFaults = 2
INVARIANTS
    NeverAbandoned
PROPERTIES
    EveryRequestEnds
