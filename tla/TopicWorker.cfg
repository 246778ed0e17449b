SPECIFICATION Spec
CONSTANTS
    g1 = g1
    g2 = g2
    w1 = w1
    w2 = w2
    Groups = {g1, g2}
    InitialGroups = {g1, g2}
    Workers = {w1, w2}
    GroupOf <- FanOut
    MaxMsgs = 2
    ReadCount = 1
    MaxRedeliveries = 1
    MaxFaults = 1
    Corrupt = {2}
INVARIANTS SafeInv NothingLost
PROPERTIES TrimRemovesOnlyFinished KeepsContract
