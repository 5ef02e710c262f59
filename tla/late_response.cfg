SPECIFICATION MCSpec
CONSTANTS
    Gateway = {g1, g2}
    Followed = {g2}
    Node = {n1}
    MaxStatusSeq = 2
    MaxConn = 1
    MaxPending = 1
    PoolThreads = 2
INVARIANT ForgetsGonePeers
CHECK_DEADLOCK FALSE
