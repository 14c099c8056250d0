\* Two processes over one directory; one has two workers and they share one symbol.
SPECIFICATION FairSpec
CONSTANTS
    Processes = {"p", "q"}
    Parallelism = 2
    Nobody = nobody
    Jobs <- SharedJobs
    Ibkr = {"p"}
    Budget = 1
    RequestInterval = 1
    RetryInterval = 0
    MaxCrashes = 1
INVARIANTS
    TypeOK
    OneWriterPerFile
    EveryJobHasItsTurn
    ErrorsReachTheExit
PROPERTIES
    Spaced
    EveryProcessEnds
