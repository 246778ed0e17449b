SPECIFICATION Spec
CONSTANTS
    g1 = g1
    t1 = t1
    t2 = t2
    Groups = {g1}
    Threads = {t1, t2}
    GroupOf <- SharedGroup
    MaxMsgs = 3
    PelCap = 1
    MaxRedeliveries = 1
INVARIANT OverCapIsOneBatch
PROPERTY TopicKeepsContract
SYMMETRY ThreadSymmetry
CHECK_DEADLOCK FALSE
