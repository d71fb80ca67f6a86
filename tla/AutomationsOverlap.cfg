SPECIFICATION Spec
CONSTANTS
  Accounts = {1, 2}
  Workers = {w1, w2}
  Threshold = 1
  Budget = 2
  Slack = 1
  LeadersOverlap = TRUE
  MaxHangs = 2
  MaxCrashes = 0
  MaxFlips = 0
INVARIANTS OneExecutor
CHECK_DEADLOCK FALSE
