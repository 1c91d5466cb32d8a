------------------------------ MODULE Listings ------------------------------
(***************************************************************************)
(* What people see of the store: the audit log, the calls that wait for    *)
(* them, and the dashboard's page over several stores.  A row was first    *)
(* acquired when it was born; a retry renews its created_at.  Redis keeps  *)
(* an index of its rows by birth, which may name rows that clear() has     *)
(* deleted already: they have no status.                                   *)
(***************************************************************************)
EXTENDS Integers, Sequences, SequencesExt

Matches(row, status, None) == row.status # None /\ (status = None \/ row.status = status)

\* A row that none of the others is later than.
Latest(rows, time) == CHOOSE row \in rows : \A other \in rows : row[time] >= other[time]

\* ORDER BY time DESC LIMIT limit
LatestFirst(rows, time, limit) ==
  LET list[n \in 0..limit] ==
        IF n = 0 THEN <<>>
        ELSE LET rest == rows \ ToSet(list[n - 1])
             IN  IF rest = {} THEN list[n - 1] ELSE Append(list[n - 1], Latest(rest, time))
  IN  list[limit]

\* WHERE status=? ORDER BY created_at DESC LIMIT limit
SelectExecutions(rows, status, limit, None) ==
  LatestFirst({row \in rows : Matches(row, status, None)}, "created", limit)

\* The log by birth, of which no more than scan + 1 entries are looked at.
ScanLog(rows, status, limit, scan, None) ==
  LET seen == ToSet(LatestFirst(rows, "born", scan + 1))
  IN  LatestFirst({row \in seen : Matches(row, status, None)}, "born", limit)

ListExecutions(store, status, limit, scan, None) ==
  IF store.backend = "redis" THEN ScanLog(store.rows, status, limit, scan, None)
  ELSE SelectExecutions(store.rows, status, limit, None)

\* tbay pending
Pending(store, limit, scan, None) ==
  LET list == ListExecutions(store, "WAITING_APPROVAL", limit, scan, None)
  IN  Reverse(LatestFirst(ToSet(list), "created", Len(list)))

\* The rows of the dashboard's page; a store that is down is left out.
Merged(stores, status, limit, scan, None) ==
  UNION {ToSet(ListExecutions(stores[s], status, limit, scan, None)) :
           s \in {s \in DOMAIN stores : stores[s].up}}

\* (A mutant: truncated before it is sorted.)
FetchUnsorted(stores, status, limit, scan, None) ==
  LET page == SetToSeq(Merged(stores, status, limit, scan, None))
  IN  LatestFirst({page[i] : i \in {i \in DOMAIN page : i <= limit}}, "created", limit)

FetchExecutions(stores, status, limit, scan, None) ==
  LatestFirst(Merged(stores, status, limit, scan, None), "created", limit)
=============================================================================
