------------------------ MODULE CasStoreSingleFlight ------------------------
(* CasStore implements SingleFlight too, but for the number of attempts.   *)
EXTENDS CasStore

StateOf(row) ==
  CASE row.status = "RUNNING" -> "claimed"
    [] row.status = "SUCCEEDED" -> "settled"
    [] OTHER -> "open"

\* A load with a TTL or a lease is promised nothing.
Promised == CacheTtl = None /\ LeaseTimeout = None

claim == [k \in Keys |-> IF Promised
            THEN [state |-> StateOf(executions[k]), claims |-> executions[k].epoch,
                  value |-> executions[k].result]
            ELSE [state |-> "open", claims |-> 0, value |-> 0]]

handed == [c \in Callers |-> IF Promised /\ answer[c].kind = "value"
                               THEN [key |-> answer[c].key, value |-> answer[c].epoch] ELSE None]

SF == INSTANCE SingleFlight WITH
        NoValue <- None, MaxRetries <- MaxRetries + Cardinality(Callers) - 1

\* Without TTL and lease, whatever is decided on old copies, every key is settled
\* once, by one claimant at a time, and everybody is handed that value; only the
\* claims may be as many as the processes allow.
SingleFlightPromise == SF!Spec
=============================================================================
