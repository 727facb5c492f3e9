SPECIFICATION FairSpec
CONSTANTS
    own = own
    main = main
    c1 = c1
    c2 = c2
    Nobody = nobody
    Caller = {c1, c2}
    Provider = {own, main}
    Keyed = {own, main}
    Jobs <- MCJobs
    Global <- MCGlobal
    Second = second
    NoModel = none
    Attempts = 2
    MaxMultiplier = 2
    MaxWait = 1
    AuthPark = 1
    RetryAfters = {}
    Filters = {"schema"}
    MaxStrikes = 2
INVARIANTS
    NoLost429
    TrafficStops
    PinIsKept
PROPERTIES
    EachCallEnds
