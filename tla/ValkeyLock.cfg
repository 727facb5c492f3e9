SPECIFICATION FairSpec
CONSTANTS
    n1 = n1
    n2 = n2
    t1 = t1
    t2 = t2
    t3 = t3
    Node = {n1, n2}
    Thread = {t1, t2, t3}
    NodeOf <- MCNodeOf
    Uses <- MCUses
    Token = {1, 2, 3, 4, 5}
    NoToken = 0
    Expire = 2
    Timeout = 1
INVARIANTS
    ExclusiveUntilLapse
    BlockedByTheLiving
PROPERTIES
    KeyIsFreedAgain
