SPECIFICATION Spec
CONSTANTS
  Requests = {r1, r2}
  Warmup = warm
  None = None
  Anchored = {}
  Warmers = {}
  Leavers = {r1}
  QueueLimit = 2
  MaxLosses = 0
  MaxAuth = 0
  MaxNaps = 0
  ErrorKinds = {}
INVARIANT OwnResponse
CHECK_DEADLOCK FALSE
