CONSTANTS
    Requests = {r1, r2}
    Accounts = {a1, a2}
    NoAccount = NoAccount
    Fragile = {r1}
    Removable = {a1}
    Workload <- Routing
    Shares <- TwoShares
    RecoveryReserve = 1
    LeaseTtl = 1
    StreamBudget = 2
    StreamGrace = 0
    MaxSelectionAttempts = 2
    Pool = {1, 2}
    Authorized = {2}
    None = None
    MaxAttempts = 3
    MaxTries = 2
    MaxWaits = 1
    q1 = q1
    q2 = q2
    w1 = w1
    w2 = w2
    warmup = warmup
SPECIFICATION MCSpec
INVARIANTS TypesOK LeasesAccounted LimitsKept SlotsAccounted RightAccount
PROPERTIES NoReplayOnceVisible NoResendAfterOutput
CHECK_DEADLOCK FALSE
