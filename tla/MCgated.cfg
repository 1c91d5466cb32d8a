SPECIFICATION AsyncFairSpec
CONSTANTS
  Callers = {c1, c2}
  Keys = {k1}
  None = None
  Async = {c2}
  MaxRetries = 1
  RetryBackoff = 1
  CacheTtl = None
  LeaseTimeout = None
  MaxConcurrent = None
  SlotWait = 0
  ExecTimeout = 1
  FollowTimeout = 1
  ApprovalTimeout = 1
  Gated = {k1}
  Secret = TRUE
  Limited = FALSE
  Crashes = TRUE
  StoreFaults = TRUE
  LastCall = 2
  MaxTime = 3
INVARIANTS LateWriteIsOwners ApprovedBeforeRun
PROPERTIES SingleFlightPromise CallsReturn
CHECK_DEADLOCK FALSE
