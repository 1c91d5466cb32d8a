------------------------------ MODULE CasStore ------------------------------
(***************************************************************************)
(* acquire_or_get where it is not one transaction: the Postgres and the    *)
(* Redis backend.  Both claim an absent key atomically; for a key somebody *)
(* holds they read the record, decide on that copy, and then compare and   *)
(* swap.  Between the read and the swap the record moves on.               *)
(*                                                                         *)
(* They differ in max_concurrent.  Postgres counts RUNNING rows under an   *)
(* advisory lock it keeps until the transaction ends, before it looks at   *)
(* the key.  Redis compares the size of a set of running ids, in the       *)
(* script that claims an absent key and nowhere else.                      *)
(*                                                                         *)
(* The calls are those of an idempotent policy without approvals.  The     *)
(* condition a caller evaluates on its copy (expired, out of backoff,      *)
(* stale) never turns false as time passes, so the decision and the swap   *)
(* are one action, taken at the time of the swap.                          *)
(***************************************************************************)
EXTENDS Integers, FiniteSets

CONSTANTS Callers, Keys, None,
  Loads,            \* the settings a run is about, see Load
  MaxRetries, RetryBackoff,  \* of the policy
  Crashes           \* may processes die?

ASSUME NoneAssumption == None \notin Nat /\ None \notin Callers /\ None \notin Keys
ASSUME FiniteAssumption == IsFiniteSet(Callers) /\ IsFiniteSet(Keys)
\* A backend, the rest of the policy, and the processes and keys that meet there.
Load == [backend : {"postgres", "redis"},
         cache_ttl : (Nat \ {0}) \cup {None}, lease_timeout : (Nat \ {0}) \cup {None},
         max_concurrent : (Nat \ {0}) \cup {None},
         callers : (SUBSET Callers) \ {{}}, keys : SUBSET Keys,
         until : Nat]  \* bound: the clock stops here

ASSUME PolicyAssumption ==
  /\ Loads \subseteq Load /\ Crashes \in BOOLEAN
  /\ MaxRetries \in Nat /\ RetryBackoff \in Nat

VARIABLES
  load,        \* the setting: it never changes
  clock,
  executions,  \* the record of each key
  running,     \* Redis: the set tbay:running, as keys
  lock,        \* Postgres: who holds the advisory lock of the tool
  caller,      \* where each process is, and the copy of the record it read
  answer       \* what the last call of each process returned

vars == <<load, clock, executions, running, lock, caller, answer>>
-----------------------------------------------------------------------------
(* "epoch" counts the acquisitions of a record, as in Executions, and a    *)
(* result is the epoch of the run that produced it.                        *)

Row == [status : {"ABSENT", "RUNNING", "SUCCEEDED", "FAILED"}, created : Nat,
        finished : Nat, expires : Nat \cup {None}, retries : Nat, epoch : Nat, result : Nat]

NoRow == [status |-> "ABSENT", created |-> 0, finished |-> 0, expires |-> None,
          retries |-> 0, epoch |-> 0, result |-> 0]

Local == [at : {"idle", "acquire", "insert", "read", "decide", "function", "follow"},
          key : Keys \cup {None}, copy : Row, epoch : Nat]

Idle == [at |-> "idle", key |-> None, copy |-> NoRow, epoch |-> 0]

NoAnswer == [kind |-> "none", key |-> None, epoch |-> 0]

TypeOK ==
  /\ load \in Loads
  /\ clock \in Nat
  /\ executions \in [Keys -> Row]
  /\ running \subseteq Keys
  /\ lock \in Callers \cup {None}
  /\ caller \in [Callers -> Local]
  /\ answer \in [Callers -> [kind : {"none", "value", "error", "slotTimeout", "followTimeout"},
                             key : Keys \cup {None}, epoch : Nat]]

Init ==
  /\ load \in Loads
  /\ clock = 0
  /\ executions = [k \in Keys |-> NoRow]
  /\ running = {}
  /\ lock = None
  /\ caller = [c \in Callers |-> Idle]
  /\ answer = [c \in Callers |-> NoAnswer]

Redis == load.backend = "redis"
CacheTtl == load.cache_ttl
LeaseTimeout == load.lease_timeout
MaxConcurrent == load.max_concurrent

At(c, place) == caller[c].at = place
KeyOf(c) == caller[c].key
RowOf(c) == executions[caller[c].key]
Copy(c) == caller[c].copy

GoTo(c, place) == caller' = [caller EXCEPT ![c].at = place]

Leave(c, kind, epoch) ==
  /\ caller' = [caller EXCEPT ![c] = Idle]
  /\ answer' = [answer EXCEPT ![c] = [kind |-> kind, key |-> KeyOf(c), epoch |-> epoch]]

\* commit or rollback, which releases the lock.
EndTransaction(c) == lock' = IF lock = c THEN None ELSE lock

RunningRows == {k \in Keys : executions[k].status = "RUNNING"}

\* What the cap is compared with.
Counted == IF Redis THEN running ELSE RunningRows

SlotFree == MaxConcurrent # None => Cardinality(Counted) < MaxConcurrent

\* (A mutant: the reclaim script forgets its SADD.)
AddRunningInserted(k) ==
  running' = IF Redis /\ executions[k].status = "ABSENT" THEN running \cup {k} ELSE running

AddRunning(k) == running' = IF Redis THEN running \cup {k} ELSE running

\* The caller wins the record, which starts a new attempt.  (Postgres keeps
\* cache_expires_at on a retry; nobody reads it before complete() rewrites it.)
Own(c, retries) ==
  LET epoch == RowOf(c).epoch + 1 IN
  /\ executions' = [executions EXCEPT ![KeyOf(c)] =
       [status |-> "RUNNING", created |-> clock, finished |-> 0, expires |-> None,
        retries |-> retries, epoch |-> epoch, result |-> 0]]
  /\ AddRunning(KeyOf(c))
  /\ EndTransaction(c)
  /\ caller' = [caller EXCEPT ![c] = [at |-> "function", key |-> KeyOf(c), copy |-> NoRow,
                                      epoch |-> epoch]]
  /\ UNCHANGED <<load, clock, answer>>
-----------------------------------------------------------------------------
(* The claim.                                                              *)

Run(c, k) ==
  /\ At(c, "idle") /\ c \in load.callers /\ k \in load.keys
  /\ caller' = [caller EXCEPT ![c] = [Idle EXCEPT !.at = "acquire", !.key = k]]
  /\ answer' = [answer EXCEPT ![c] = NoAnswer]
  /\ UNCHANGED <<load, clock, executions, running, lock>>

\* (A mutant: the lock is not taken.)
PostgresCountsUnlocked(c) ==
  /\ ~Redis
  /\ At(c, "acquire") /\ SlotFree
  /\ lock' = lock
  /\ GoTo(c, "insert")
  /\ UNCHANGED <<load, clock, executions, running, answer>>

\* pg_advisory_xact_lock and COUNT(*), or neither when there is no cap.
PostgresCounts(c) ==
  /\ ~Redis
  /\ At(c, "acquire") /\ SlotFree
  /\ MaxConcurrent # None => lock = None
  /\ lock' = IF MaxConcurrent = None THEN lock ELSE c
  /\ GoTo(c, "insert")
  /\ UNCHANGED <<load, clock, executions, running, answer>>

PostgresClaims(c) ==
  /\ At(c, "insert")
  /\ RowOf(c).status = "ABSENT"
  /\ Own(c, 0)

RedisClaims(c) ==
  /\ Redis
  /\ At(c, "acquire") /\ SlotFree
  /\ RowOf(c).status = "ABSENT"
  /\ Own(c, 0)

\* INSERT ... ON CONFLICT DO NOTHING, or the script's GET, finds the key held.
FindsKeyHeld(c) ==
  /\ At(c, IF Redis THEN "acquire" ELSE "insert")
  /\ RowOf(c).status # "ABSENT"
  /\ GoTo(c, "read")
  /\ UNCHANGED <<load, clock, executions, running, lock, answer>>

\* The cap is full for as long as the caller cares to wait.
GivesUpSlot(c) ==
  /\ At(c, "acquire") /\ ~SlotFree
  /\ Redis => RowOf(c).status = "ABSENT"
  /\ ~Redis => lock = None
  /\ Leave(c, "slotTimeout", 0)
  /\ UNCHANGED <<load, clock, executions, running, lock>>
-----------------------------------------------------------------------------
(* The copy and what is decided on it.                                     *)

Reads(c) ==
  /\ At(c, "read")
  /\ caller' = [caller EXCEPT ![c].at = "decide", ![c].copy = RowOf(c)]
  /\ UNCHANGED <<load, clock, executions, running, lock, answer>>

Expired(row) == row.expires # None /\ row.expires <= clock

\* (A mutant: one retry too many.)
MayRetryOffByOne(row) == row.retries <= MaxRetries /\ clock >= row.finished + RetryBackoff

MayRetry(row) == row.retries < MaxRetries /\ clock >= row.finished + RetryBackoff

Stale(row) == LeaseTimeout # None /\ row.created + LeaseTimeout <= clock

Decides(c, status) == At(c, "decide") /\ Copy(c).status = status

UsesCached(c) ==
  /\ Decides(c, "SUCCEEDED") /\ ~Expired(Copy(c))
  /\ EndTransaction(c)
  /\ Leave(c, "value", Copy(c).result)
  /\ UNCHANGED <<load, clock, executions, running>>

ReplaysError(c) ==
  /\ Decides(c, "FAILED") /\ ~MayRetry(Copy(c))
  /\ EndTransaction(c)
  /\ Leave(c, "error", 0)
  /\ UNCHANGED <<load, clock, executions, running>>

FollowsRunning(c) ==
  /\ Decides(c, "RUNNING") /\ ~Stale(Copy(c))
  /\ EndTransaction(c)
  /\ GoTo(c, "follow")
  /\ UNCHANGED <<load, clock, executions, running, answer>>

\* UPDATE ... WHERE status = the copy's status, or _RECLAIM_LUA: the status is
\* all that is compared.
ReclaimsExpired(c) ==
  /\ Decides(c, "SUCCEEDED") /\ Expired(Copy(c))
  /\ RowOf(c).status = "SUCCEEDED"
  /\ Own(c, RowOf(c).retries)

\* (A mutant: the swap looks at the id only.)
RetriesBlindly(c) ==
  /\ Decides(c, "FAILED") /\ MayRetry(Copy(c))
  /\ Own(c, RowOf(c).retries + 1)

Retries(c) ==
  /\ Decides(c, "FAILED") /\ MayRetry(Copy(c))
  /\ RowOf(c).status = "FAILED"
  /\ Own(c, RowOf(c).retries + 1)

\* (A mutant: created_at is not compared.)
ReclaimsStaleByStatus(c) ==
  /\ Decides(c, "RUNNING") /\ Stale(Copy(c))
  /\ RowOf(c).status = "RUNNING"
  /\ Own(c, RowOf(c).retries)

\* The stale reclaim compares created_at as well.
ReclaimsStale(c) ==
  /\ Decides(c, "RUNNING") /\ Stale(Copy(c))
  /\ RowOf(c).status = "RUNNING" /\ RowOf(c).created = Copy(c).created
  /\ Own(c, RowOf(c).retries)

\* The swap fails: somebody else was faster.
LosesSwap(c) ==
  /\ \/ Decides(c, "SUCCEEDED") /\ Expired(Copy(c)) /\ RowOf(c).status # "SUCCEEDED"
     \/ Decides(c, "FAILED") /\ MayRetry(Copy(c)) /\ RowOf(c).status # "FAILED"
     \/ /\ Decides(c, "RUNNING") /\ Stale(Copy(c))
        /\ RowOf(c).status = "RUNNING" => RowOf(c).created # Copy(c).created
  /\ EndTransaction(c)
  /\ GoTo(c, "follow")
  /\ UNCHANGED <<load, clock, executions, running, answer>>
-----------------------------------------------------------------------------
(* Owners and followers.                                                   *)

\* Redis: _finish also takes the id out of the running set.
DropRunning(k) == running' = running \ {k}

Complete(c) ==
  /\ At(c, "function")
  /\ executions' = [executions EXCEPT ![KeyOf(c)].status = "SUCCEEDED",
       ![KeyOf(c)].result = caller[c].epoch, ![KeyOf(c)].finished = clock,
       ![KeyOf(c)].expires = IF CacheTtl = None THEN None ELSE clock + CacheTtl]
  /\ DropRunning(KeyOf(c))
  /\ Leave(c, "value", caller[c].epoch)
  /\ UNCHANGED <<load, clock, lock>>

Fail(c) ==
  /\ At(c, "function")
  /\ executions' = [executions EXCEPT ![KeyOf(c)].status = "FAILED",
                                      ![KeyOf(c)].finished = clock]
  /\ DropRunning(KeyOf(c))
  /\ Leave(c, "error", 0)
  /\ UNCHANGED <<load, clock, lock>>

FollowerSeesResult(c) ==
  /\ At(c, "follow")
  /\ RowOf(c).status \in {"SUCCEEDED", "FAILED"}
  /\ IF RowOf(c).status = "SUCCEEDED" THEN Leave(c, "value", RowOf(c).result)
                                      ELSE Leave(c, "error", 0)
  /\ UNCHANGED <<load, clock, executions, running, lock>>

\* The hour of wait_for_result is over.
FollowerGivesUp(c) ==
  /\ At(c, "follow")
  /\ RowOf(c).status = "RUNNING"
  /\ Leave(c, "followTimeout", 0)
  /\ UNCHANGED <<load, clock, executions, running, lock>>

\* The connection of a dead process is rolled back by the server.
Die(c) ==
  /\ Crashes
  /\ ~At(c, "idle")
  /\ caller' = [caller EXCEPT ![c] = Idle]
  /\ EndTransaction(c)
  /\ UNCHANGED <<load, clock, executions, running, answer>>

Tick ==
  /\ clock < load.until
  /\ clock' = clock + 1
  /\ UNCHANGED <<load, executions, running, lock, caller, answer>>

AcquireStep(c) ==
  \/ PostgresCounts(c)
  \/ PostgresClaims(c)
  \/ RedisClaims(c)
  \/ FindsKeyHeld(c)
  \/ GivesUpSlot(c)
  \/ Reads(c)

DecideStep(c) ==
  \/ UsesCached(c)
  \/ ReplaysError(c)
  \/ FollowsRunning(c)
  \/ ReclaimsExpired(c)
  \/ Retries(c)
  \/ ReclaimsStale(c)
  \/ LosesSwap(c)

OwnerStep(c) == Complete(c) \/ Fail(c)
FollowStep(c) == FollowerSeesResult(c) \/ FollowerGivesUp(c)

Next ==
  \/ \E c \in Callers, k \in Keys : Run(c, k)
  \/ \E c \in Callers : AcquireStep(c)
  \/ \E c \in Callers : DecideStep(c)
  \/ \E c \in Callers : OwnerStep(c)
  \/ \E c \in Callers : FollowStep(c)
  \/ \E c \in Callers : Die(c)
  \/ Tick

Spec == Init /\ [][Next]_vars
-----------------------------------------------------------------------------
(* What survives the gap between the read and the swap.                    *)

Owners(k) == {c \in Callers : At(c, "function") /\ KeyOf(c) = k}

\* Without a lease a key has at most one owner, and its record is RUNNING for as
\* long as it has one, although several callers decide on copies of the record
\* at once.
OneOwner ==
  LeaseTimeout = None =>
    \A k \in Keys :
      /\ \A c, d \in Owners(k) : c = d
      /\ Owners(k) # {} => executions[k].status = "RUNNING"

\* A caller that is too late to see the last permitted retry makes one more.
\* But every such caller does it once: max_retries is passed by less than the
\* number of processes.
RetriesAlmostBounded ==
  \A k \in Keys : executions[k].retries < MaxRetries + Cardinality(load.callers)

\* Postgres: the RUNNING rows never exceed max_concurrent, since the lock spans
\* the count and the insert or swap.
CapHolds ==
  MaxConcurrent # None /\ ~Redis => Cardinality(RunningRows) <= MaxConcurrent

\* Redis: the set that the cap is compared with is exactly the set of RUNNING
\* records, with retries, reclaims, and late owners whose record was reclaimed.
RunningSetExact == Redis => running = RunningRows

\* A RUNNING record changes hands only after its own lease has run out, even if
\* the reclaimer looked at it an attempt earlier.
OnlyStaleIsReclaimed ==
  [][\A k \in Keys : /\ executions[k].status = "RUNNING"
                     /\ executions'[k].epoch # executions[k].epoch
                     => Stale(executions[k])]_vars
-----------------------------------------------------------------------------
(* What the documents of the code say and the code does not do.            *)

\* docs/policies.md: at most max_concurrent calls to the tool running at once, atomic
\* on every backend.
CapHoldsEverywhere ==
  MaxConcurrent # None => Cardinality(RunningRows) <= MaxConcurrent
=============================================================================
