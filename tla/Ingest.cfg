SPECIFICATION FairSpec
CONSTANTS
    w1 = w1
    w2 = w2
    MaxDatagrams = 4
    Empty = {1}
    Workers = {w1, w2}
    QueueMax = 1
    SpoolMax = 2
    MaxFaults = 2
INVARIANTS AcceptedIsKept ReplayInOrder EveryDatagramCounted
PROPERTY SpooledIsReplayed
CHECK_DEADLOCK FALSE
