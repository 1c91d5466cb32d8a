SPECIFICATION Spec
CONSTANTS
  c1 = c1
  c2 = c2
  c3 = c3
  Callers = {c1, c2, c3}
  Keys = {k1, k2}
  None = None
  Loads <- RedisCap
  MaxRetries = 1
  RetryBackoff = 0
  Crashes = FALSE
SYMMETRY Symmetry
INVARIANTS CapHoldsEverywhere
CHECK_DEADLOCK FALSE
