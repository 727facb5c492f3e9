SPECIFICATION Spec
CONSTANTS
    r1 = r1
    r2 = r2
    r3 = r3
    Page <- MCPage
    Conversations <- MCConversations
    MaxBatch = 2
    Concurrency = 2
CHECK_DEADLOCK FALSE
INVARIANTS
    RejectedIsNotRetried
