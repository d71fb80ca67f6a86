CONSTANTS
    Processes = {p1, p2}
    NoProcess = NoProcess
    Schedulers = {s1, s2}
    Ttl = 4
    MaxTransit = 0
    CancelGrace = 1
    DrainGrace = 1
    MaxErrors = 2
    Faulty = {p1}
    Mortal = {p2}
SPECIFICATION Spec
SYMMETRY LeaderSymmetry
INVARIANTS OverlapBounded
PROPERTIES TimelyLeaseKept
CHECK_DEADLOCK FALSE
