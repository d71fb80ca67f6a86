CONSTANTS
    Accounts = {1, 2}
    Workers = {i1, i2}
    Threshold = 1
    Budget = 2
    Slack = 1
    LeadersOverlap = FALSE
    MaxHangs = 1
    MaxCrashes = 1
    MaxFlips = 0
    i1 = i1
    i2 = i2
    s1 = s1
    s2 = s2
    a1 = a1
    none = none
SPECIFICATION MCSpec
PROPERTIES CycleEnds   SharesSettle
CHECK_DEADLOCK FALSE
