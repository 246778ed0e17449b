SPECIFICATION Spec
CONSTANTS
    d1 = d1
    d2 = d2
    Docs = {d1, d2}
    CreateMsgs = {1, 2}
    UpsertMsgs = {3, 4, 5, 6}
    Unroutable = {6}
    DocOf <- TwoEvents
    BatchMax = 3
    Retries = 2
    MaxFaults = 4
INVARIANT AckedIsStored
PROPERTIES ScoreNeverStripped LastOfBatchWins
CHECK_DEADLOCK FALSE
