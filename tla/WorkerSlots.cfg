SPECIFICATION FairSpec
CONSTANTS
    Thread = {t1, t2, t3}
    Queue <- MCQueue
    RawSettings <- MCRawSettings
    MaxLost = 1
INVARIANTS
    CountersMatchThreads
PROPERTIES
    HeavySlotRecurs
    ImplementsPool
