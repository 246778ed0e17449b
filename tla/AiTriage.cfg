SPECIFICATION FairSpec
CONSTANTS
    t1 = t1
    t2 = t2
    p1 = p1
    r1 = r1
    r2 = r2
    r3 = r3
    r4 = r4
    e1 = e1
    e2 = e2
    NoId = NoId
    Requests = {r1, r2, r3, r4}
    EventOf <- FourRequests
    Light = {r4}
    Threads = {t1, t2}
    Pool = {p1}
    QueueCap = 0
    SeenCap = 1
    MaxFaults = 1
INVARIANTS OneVerdict PermitsExact
PROPERTY EveryRequestAnswered
CHECK_DEADLOCK FALSE
