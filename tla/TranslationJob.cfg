SPECIFICATION Spec
CONSTANTS
    r1 = r1
    r2 = r2
    r3 = r3
    Page <- MCPage
    Conversations <- MCConversations
    MaxBatch = 2
    Concurrency = 2
INVARIANTS
    AskedOncePerPass
    EveryRegionAccounted
    SilenceIsRetried
PROPERTIES
    AcceptedStays
CHECK_DEADLOCK FALSE
