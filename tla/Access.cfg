SPECIFICATION Spec
CONSTANTS
    t1 = t1
    t2 = t2
    u1 = u1
    u2 = u2
    Users = {u1, u2}
    FirstAdmin = u1
    Threads = {t1, t2}
    MaxAttempts = 2
    Window = 1
    MaxClock = 3
    MaxRequests = 5
SYMMETRY ThreadSymmetry
INVARIANTS AdminRemains NoStaleAuthority StepAcceptedOnce GuessesBounded
CHECK_DEADLOCK FALSE
