CONSTANTS
    Calls = {c1, c2, c3}
    FailureThreshold = 2
    SuccessThreshold = 2
    RecoveryTimeout = 2
    MaxFailures = 4
    c1 = c1
    c2 = c2
    c3 = c3
    r1 = r1
    r2 = r2
    a1 = a1
    p1 = p1
    p2 = p2
    s1 = s1
    none = none
SPECIFICATION MCSpec
INVARIANTS ProbeExclusive OpenIffThreshold
PROPERTIES RecoversWhenUpstreamHealthy SelectionsEnd LeadershipMovesOn
CHECK_DEADLOCK FALSE
