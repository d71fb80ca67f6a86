CONSTANTS
    p1 = p1
    p2 = p2
    c1 = c1
    c2 = c2
    Procs = {p1, p2}
    Callers = {c1, c2}
    Home <- Apart
    Nobody = Nobody
    ClaimTtl = 2
    AdmissionWait = 0
    RefreshTimeout = 1
    RereadTime = 0
    PersistTime = 0
    CasAttempts = 1
    FinalAttempts = 1
    MaxPolls = 1
    MaxToken = 2
    MaxNonce = 2
    MaxRefreshes = 2
    MaxUpsets = 1
SPECIFICATION Spec
PROPERTY ReauthUntilRelogin
CHECK_DEADLOCK FALSE
