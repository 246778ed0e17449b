CONSTANTS
    ka = ka
    kd = kd
    m1 = m1
    m2 = m2
    Keys = {ka, kd}
    DistinctKeys = {kd}
    Members = {m1, m2}
    Windows = {1, 2}
    MaxTime = 4
    MaxHits = 4
    MaxReloads = 1
    SweepEvery = 2
    CompactSlack = 0
SYMMETRY MemberSymmetry
SPECIFICATION Spec
INVARIANTS
    CountsAgree
    MirrorExact
PROPERTIES
    SweepKeepsLive
    SweepLeavesNoIdleKey
CHECK_DEADLOCK FALSE
