SPECIFICATION FairSpec
CONSTANTS
    w1 = w1
    w2 = w2
    a1 = a1
    Indexers = {w1, w2}
    Analysts = {a1}
    MaxEmits = 2
    Days = {1, 2}
    DayOf <- Midnight
    CasRetries = 2
    BulkRetries = 1
    MaxFaults = 1
INVARIANT AckedAlertStored
PROPERTIES OnlyCreateErases EveryEmissionAcked
CHECK_DEADLOCK FALSE
