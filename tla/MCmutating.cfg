SPECIFICATION AsyncSpec
CONSTANTS
  Callers = {c1, c2, c3}
  Keys = {k1, k2, k3}
  None = None
  Async = {}
  MaxRetries = 1
  RetryBackoff = 1
  CacheTtl = None
  LeaseTimeout = None
  MaxConcurrent = 2
  SlotWait = 0
  ExecTimeout = None
  FollowTimeout = 1
  ApprovalTimeout = 1
  Gated = {}
  Secret = FALSE
  Limited = FALSE
  Crashes = TRUE
  StoreFaults = FALSE
  LastCall = 1
  MaxTime = 2
SYMMETRY Symmetry
INVARIANTS OneOwner OneValue AttemptsBounded CapHolds CapOnFunctions
PROPERTY SuccessIsFinal
CHECK_DEADLOCK FALSE
