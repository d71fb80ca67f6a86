CONSTANTS
    Instances = {i1, i2}
    NoInstance = none
    NoSession = none
    Sessions = {s1, s2}
    Home <- SessionHome
    AccountIds = {a1}
    NoAccount = none
    Aliases = {t1}
    Ttl = 1
    IdleTtl = 1
    ClosedAge = 1
    AbandonedAge = 1
    Drainers = {i1}
    Mortal = {i1}
    MaxEpoch = 2
    MaxRows = 1
    Requests <- TwoRequests
    Accounts <- TwoAccounts
    Authorized = {2}
    None = none
    Shapes <- Continuity
    Kinds <- RelayErrors
    MaxSockets = 2
    MaxTries = 1
    i1 = i1
    i2 = i2
    s1 = s1
    s2 = s2
    r1 = r1
    r2 = r2
    r3 = r3
    k1 = k1
    k2 = k2
    none = none
SPECIFICATION MCSpec
INVARIANTS TypesOK EpochOfOneReplica CapacityKept SlotFollowsSocket
PROPERTIES  NoReplayOnceSequenced PinnedGoesHome
CHECK_DEADLOCK FALSE
