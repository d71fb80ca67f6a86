CONSTANTS
    Attempts = {p1, p2, p3}
    Replicas = {i1, i2}
    HomeOf <- AttemptHome
    Ids = {id}
    IdOf <- AttemptId
    Credits = {1, 2}
    Wanted <- AttemptCredit
    None = None
    Lease = 5
    RenewEvery = 1
    Lag = 1
    MaxMisses = 1
    MaxCrashes = 1
    MaxExpiries = 1
    Nodes = {i1, i2}
    Kinds <- CacheKinds
    Nothing = None
    MaxWrites = 1
    MaxFaults = 1
    MaxLosses = 1
    PrimeMayFail = FALSE
    p1 = p1
    p2 = p2
    p3 = p3
    id = id
    i1 = i1
    i2 = i2
    r1 = r1
    r2 = r2
    l1 = l1
    l2 = l2
SPECIFICATION MCSpec
INVARIANTS TypesOK SectionExclusive AcknowledgedIsReflected 
PROPERTIES RedeemsAsPromised NeverOverAdmits
CHECK_DEADLOCK FALSE
