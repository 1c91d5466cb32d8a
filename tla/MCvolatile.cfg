SPECIFICATION FairSpec
CONSTANTS
  Callers = {c1, c2}
  MaxRetries = 2
  MaxConcurrent = 1
  Gated = {c1}
  Async = {c1, c2}
  Untimed = {c2}
  Limited = TRUE
  StoreFaults = TRUE
  Crashes = TRUE
INVARIANTS NoSlotLeft SuccessEndsTheLoop CapHolds SpansTellOutcomes
PROPERTIES CallsReturn
CHECK_DEADLOCK FALSE
