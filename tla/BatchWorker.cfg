SPECIFICATION Spec
CONSTANTS
    g1 = g1
    w1 = w1
    Groups = {g1}
    InitialGroups = {g1}
    Workers = {w1}
    GroupOf <- OneGroup
    MaxMsgs = 3
    ReadCount = 2
    MaxRedeliveries = 1
    MaxFaults = 2
    Corrupt = {3}
    BatchMax = 2
PROPERTY KeepsContract
