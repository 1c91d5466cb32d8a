SPECIFICATION Spec
CONSTANTS
  k1 = k1
  k2 = k2
  k3 = k3
  Keys = {k1, k2, k3}
  None = None
  Amount <- Amounts
  MaxRetries = 1
  RateMax = 2
  BudgetMax = 3
  Window = 1
  MaxTime = 2
INVARIANTS RateHolds BudgetHolds
CHECK_DEADLOCK FALSE
