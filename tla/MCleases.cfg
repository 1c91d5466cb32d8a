SPECIFICATION AsyncSpec
CONSTANTS
  Callers = {c1, c2}
  Keys = {k1}
  None = None
  Async = {c1, c2}
  MaxRetries = 1
  RetryBackoff = 1
  CacheTtl = 1
  LeaseTimeout = 1
  MaxConcurrent = None
  SlotWait = 0
  ExecTimeout = None
  FollowTimeout = 1
  ApprovalTimeout = 1
  Gated = {}
  Secret = FALSE
  Limited = TRUE
  Crashes = TRUE
  StoreFaults = TRUE
  LastCall = 3
  MaxTime = 4
SYMMETRY Symmetry
INVARIANTS OneReclaimPerLease
PROPERTIES CacheHitIsFresh FollowedIsNew
CHECK_DEADLOCK FALSE
