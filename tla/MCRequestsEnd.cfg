CONSTANTS
    p1 = p1
    p2 = p2
    c1 = c1
    c2 = c2
    Procs = {p1}
    Callers = {c1}
    Home <- Alone
    Nobody = Nobody
    ClaimTtl = 2
    AdmissionWait = 0
    RefreshTimeout = 1
    RereadTime = 0
    PersistTime = 0
    CasAttempts = 1
    FinalAttempts = 2
    MaxPolls = 1
    MaxToken = 3
    MaxNonce = 2
    MaxRefreshes = 1
    MaxUpsets = 2
    r1 = r1
    r2 = r2
    a1 = a1
    k1 = k1
    k2 = k2
    warmup = warmup
    none = none
SPECIFICATION MCSpec
PROPERTIES NoClobber RefreshEnds RequestEnds  ReservationEnds
CHECK_DEADLOCK FALSE
