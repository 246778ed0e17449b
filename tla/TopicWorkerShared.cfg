SPECIFICATION FairSpec
CONSTANTS
    g1 = g1
    g2 = g2
    w1 = w1
    w2 = w2
    Groups = {g1}
    InitialGroups = {}
    Workers = {w1, w2}
    GroupOf <- SharedGroup
    MaxMsgs = 1
    ReadCount = 1
    MaxRedeliveries = 2
    MaxFaults = 2
    Corrupt = {}
INVARIANT RunsCapped
PROPERTIES EverythingSettles FinishedIsTrimmed
