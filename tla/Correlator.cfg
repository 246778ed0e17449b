SPECIFICATION Spec
CONSTANTS
    a1 = a1
    a2 = a2
    a3 = a3
    k1 = k1
    k2 = k2
    Workers = {w1, w2}
    Alerts = {a1, a2, a3}
    Tracks = {k1, k2}
    LegsOf <- TwoEntities
    TacticOf <- TwoTactics
    TimeOf <- OutOfOrder
    Horizon = 2
    MemberCap = 2
    MaxStall = 1
    MaxClock = 4
    MaxFaults = 1
SYMMETRY Alike
INVARIANTS TwoTacticsPromote OneIdPerTrack FreshEntryKept LatestIsComplete
CHECK_DEADLOCK FALSE
