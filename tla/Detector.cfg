CONSTANTS
    p1 = p1
    p2 = p2
    e1 = e1
    e2 = e2
    e3 = e3
    sib = sib
    comp = comp
    port = port
    once = once
    gA = gA
    gB = gB
    gU = gU
    v1 = v1
    v2 = v2
    NoRule = NoRule
    NoGroup = NoGroup
    NoEvent = NoEvent
    Workers = {p1, p2}
    Deployments <- MCDeployments
    Events = {e1, e2, e3}
    Rules = {sib, comp, port, once}
    Groups = {gA, gB, gU}
    Values = {v1, v2}
    EventTime <- MCEventTime
    ReceiptTime <- MCReceiptTime
    Matching <- MCMatching
    GroupOf <- MCGroupOf
    ValueOf <- MCValueOf
    CompanionOf <- MCCompanionOf
    DistinctRules = {port}
    Window <- MCWindow
    Threshold <- MCThreshold
    Weight <- MCWeight
    Floor <- MCFloor
    LlmGate = {sib, comp}
    LlmMin = 60
    ClassifierMin = 20
    Skew = 3
    MaxClockSkew = 1
    Cooldown = 2
    FunnelBudget = 2
    MaxClock = 6
    MaxFaults = 1
    MaxRedeliveries = 1
SPECIFICATION Spec
INVARIANTS
    AckedIsTriaged
    NeverFabricated
    BurstIsCounted
    BurstIsOneIncident
    SuppressionHasAlert
CHECK_DEADLOCK FALSE
