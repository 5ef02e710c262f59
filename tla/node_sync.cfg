SPECIFICATION MCFairSpec
CONSTANTS
    Gateway = {g1, g2}
    Followed = {g2}
    Node = {n1}
    MaxStatusSeq = 3
    MaxConn = 2
    MaxPending = 1
    PoolThreads = 2
INVARIANTS
    TypeOK
    NoSilentStaleness
    NoOrphanSession
PROPERTY Converges
CHECK_DEADLOCK FALSE
