SPECIFICATION Spec
CONSTANTS
  c1 = c1
  c2 = c2
  c3 = c3
  Callers = {c1, c2, c3}
  Keys = {k1, k2}
  None = None
  Loads <- BothLoads
  MaxRetries = 1
  RetryBackoff = 0
  Crashes = TRUE
SYMMETRY Symmetry
INVARIANTS OneOwner CapHolds RunningSetExact RetriesAlmostBounded
PROPERTIES SingleFlightPromise OnlyStaleIsReclaimed
CHECK_DEADLOCK FALSE
