SPECIFICATION OpSpec
CONSTANTS
  Callers = {c1, c2}
  t1 = t1
  t2 = t2
  a1 = a1
  Tools = {t1, t2}
  None = None
  All = All
  Settings <- AllSettings
  ArgsOf <- SameArgs
  MaxIds = 2
SYMMETRY Symmetry
INVARIANTS PausedIsStoppedUnlessNarrowed OnlyPausedIsStopped ApprovedBeforeRun NoStaleRejection
  ReasonIsOfThisRejection OutcomeIsOwners ClearLeavesNoWreck
PROPERTIES DecisionStands
