SPECIFICATION AsyncSpec
CONSTANTS
  Callers = {c1}
  Keys = {k1}
  None = None
  Async = {c1}
  MaxRetries = 0
  RetryBackoff = 1
  CacheTtl = None
  LeaseTimeout = None
  MaxConcurrent = None
  SlotWait = 0
  ExecTimeout = None
  FollowTimeout = 1
  ApprovalTimeout = 1
  Gated = {}
  Secret = FALSE
  Limited = FALSE
  Crashes = FALSE
  StoreFaults = FALSE
  LastCall = 3
  MaxTime = 3
PROPERTY FailureIsStored
CHECK_DEADLOCK FALSE
