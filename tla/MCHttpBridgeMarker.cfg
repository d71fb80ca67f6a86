CONSTANTS
    r1 = r1
    r2 = r2
    r3 = r3
    k1 = k1
    k2 = k2
    Requests = {r1, r2, r3}
    Keys = {k1, k2}
    NoKey = None
    None = None
    InitialKey <- KeyOf
    PreviousOf <- Follows
    ForkKey <- NoLane
    Rebinders = {}
    HardKeys = {k1}
    MaxSessions = 2
    Leavers = {}
    Fickle = {}
    MayShutdown = FALSE
SPECIFICATION Spec
INVARIANT MarkerHasCreator
CHECK_DEADLOCK FALSE
