----------------------- MODULE ExecutionsSingleFlight -----------------------
(* Executions implements SingleFlight, seen through this mapping.          *)
EXTENDS Executions

StateOf(row) ==
  IF row.status \in Live THEN "claimed"
  ELSE IF row.status = "SUCCEEDED" THEN "settled" ELSE "open"

ClaimOf(row) ==
  [state |-> StateOf(row), claims |-> row.epoch,
   value |-> IF row.status = "SUCCEEDED" THEN row.result ELSE 0]

HandedOf(a) == IF a.kind = "value" THEN [key |-> a.key, value |-> a.epoch] ELSE None

claim == [k \in Keys |-> ClaimOf(executions[k])]
handed == [c \in Callers |-> HandedOf(answer[c])]

SF == INSTANCE SingleFlight WITH NoValue <- None

\* Without TTL and lease, every behaviour of the table, its owners, followers,
\* approvals, crashes and timeouts is one of the abstract promise.
SingleFlightPromise == SF!Spec
=============================================================================
