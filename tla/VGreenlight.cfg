SPECIFICATION OpSpec
CONSTANTS
  Callers = {c1, c2}
  t1 = t1
  t2 = t2
  a1 = a1
  Tools = {t1, t2}
  None = None
  All = All
  Settings <- OnePlain
  ArgsOf <- OwnArgs
  MaxIds = 2
INVARIANTS WhatIsShownRuns
