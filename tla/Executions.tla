----------------------------- MODULE Executions -----------------------------
(***************************************************************************)
(* Guarded calls of one tool and one tenant over the SQLite backend.       *)
(*                                                                         *)
(* Every process that calls the tool runs TbayClient.run: it acquires the  *)
(* row of its idempotency key in one BEGIN IMMEDIATE transaction, and the  *)
(* answer of that transaction makes it the owner (it must run the function *)
(* and record the outcome), a follower (it polls the row until somebody    *)
(* else records one), or lets it return at once.  An owner whose arguments *)
(* need approval first parks the row as WAITING_APPROVAL and polls the     *)
(* approvals table, which humans write through the CLI.                    *)
(*                                                                         *)
(* What the code does in one transaction is one action here; everything    *)
(* between two transactions (the function, the polling, a crash) is        *)
(* interleaved with the other processes.  Time is a discrete clock.        *)
(***************************************************************************)
EXTENDS Integers, FiniteSets

CONSTANTS
  Callers,          \* processes that call the tool, each one call at a time
  Keys,             \* idempotency keys
  None,             \* Python's None
  MaxRetries,       \* Policy.max_retries
  RetryBackoff,     \* Policy.retry_backoff
  CacheTtl,         \* Policy.cache_ttl, or None
  LeaseTimeout,     \* Policy.lease_timeout, or None
  MaxConcurrent,    \* Policy.max_concurrent, or None
  SlotWait,         \* Policy.concurrency_wait_timeout
  ExecTimeout,      \* Policy.execution_timeout, or None
  FollowTimeout,    \* the 3600 s of wait_for_result
  ApprovalTimeout,  \* Policy.approval_timeout
  Gated,            \* the keys whose arguments need approval
  Secret,           \* is an approval secret configured on both sides?
  Limited,          \* may the rate limit or the budget refuse an owner?
  Crashes,          \* may processes die?
  StoreFaults,      \* may a write of an outcome raise?
  LastCall,         \* bound: calls start no later than this
  MaxTime           \* bound: the clock stops here

ASSUME NoneAssumption == None \notin Nat
ASSUME CallersAssumption == None \notin Callers /\ None \notin Keys
ASSUME KeysAssumption == IsFiniteSet(Keys) /\ Gated \subseteq Keys
ASSUME PolicyAssumption ==
  /\ MaxRetries \in Nat /\ RetryBackoff \in Nat
  /\ CacheTtl \in (Nat \ {0}) \cup {None}
  /\ LeaseTimeout \in (Nat \ {0}) \cup {None}
  /\ MaxConcurrent \in (Nat \ {0}) \cup {None}
  /\ ExecTimeout \in (Nat \ {0}) \cup {None}
  /\ SlotWait \in Nat /\ FollowTimeout \in Nat /\ ApprovalTimeout \in Nat
ASSUME SwitchAssumption ==
  Secret \in BOOLEAN /\ Limited \in BOOLEAN /\ Crashes \in BOOLEAN /\ StoreFaults \in BOOLEAN
ASSUME BoundAssumption == LastCall \in Nat /\ MaxTime \in Nat \ {0}

VARIABLES
  clock,       \* time.time()
  executions,  \* the executions table, one row per key
  approvals,   \* the approvals table, one row per key
  caller,      \* where each process is in TbayClient.run
  answer,      \* what the last call of each process returned or raised
  hung         \* functions still running after their caller gave up on them

vars == <<clock, executions, approvals, caller, answer, hung>>
-----------------------------------------------------------------------------
(* The two tables.  "epoch" is a history field the table does not have: it *)
(* counts how often the row was acquired, and so names the attempt that is *)
(* running; "result" is the epoch of the run whose value is stored, 0 for  *)
(* NULL.  An approval's "sanctions" is the epoch a human approved last.    *)

Live == {"RUNNING", "WAITING_APPROVAL"}
Finished == {"SUCCEEDED", "FAILED"}

Row == [status : {"ABSENT"} \cup Live \cup Finished, created : Nat, finished : Nat,
        expires : Nat \cup {None}, retries : Nat, epoch : Nat, result : Nat]

Approval == [status : {"ABSENT", "pending", "approved", "rejected"},
             signed : BOOLEAN, sanctions : Nat]

NoRow == [status |-> "ABSENT", created |-> 0, finished |-> 0, expires |-> None,
          retries |-> 0, epoch |-> 0, result |-> 0]

NoApproval == [status |-> "ABSENT", signed |-> FALSE, sanctions |-> 0]

(* The local state of a process: its place in the code, the key of its     *)
(* call, the epoch it owns, and the deadline of the wait it is in.         *)

Places == {"idle", "acquire", "owner", "approval", "verify", "refused",
           "function", "complete", "fail", "follow", "followApproval"}
OwnerPlaces == {"owner", "approval", "verify", "refused", "function", "complete", "fail"}

Local == [at : Places, key : Keys \cup {None}, epoch : Nat, deadline : Nat]
Idle == [at |-> "idle", key |-> None, epoch |-> 0, deadline |-> 0]

Outcomes == {"none", "value", "storedError", "error", "rejected", "limited",
             "slotTimeout", "approvalTimeout", "followTimeout"}
Answer == [kind : Outcomes, key : Keys \cup {None}, epoch : Nat]
NoAnswer == [kind |-> "none", key |-> None, epoch |-> 0]

TypeOK ==
  /\ clock \in Nat
  /\ executions \in [Keys -> Row]
  /\ approvals \in [Keys -> Approval]
  /\ caller \in [Callers -> Local]
  /\ answer \in [Callers -> Answer]
  /\ hung \subseteq (Keys \X Nat)

Init ==
  /\ clock = 0
  /\ executions = [k \in Keys |-> NoRow]
  /\ approvals = [k \in Keys |-> NoApproval]
  /\ caller = [c \in Callers |-> Idle]
  /\ answer = [c \in Callers |-> NoAnswer]
  /\ hung = {}
-----------------------------------------------------------------------------
(* Steps of a process that several actions share.                          *)

KeyOf(c) == caller[c].key
RowOf(c) == executions[caller[c].key]

At(c, place) == caller[c].at = place

GoTo(c, place, deadline) ==
  caller' = [caller EXCEPT ![c] = [@ EXCEPT !.at = place, !.deadline = deadline]]

\* run() returns or raises.
Leave(c, kind, epoch) ==
  /\ caller' = [caller EXCEPT ![c] = Idle]
  /\ answer' = [answer EXCEPT ![c] = [kind |-> kind, key |-> KeyOf(c), epoch |-> epoch]]

\* time.time() + wait.  MaxTime stands for every later time too, so a deadline
\* beyond it is over when the clock gets there.
Deadline(wait) == IF clock + wait < MaxTime THEN clock + wait ELSE MaxTime - 1

Write(k, row) == executions' = [executions EXCEPT ![k] = row]

\* The caller becomes the owner of its key's row, rewritten as "row".
Own(c, row) ==
  /\ Write(KeyOf(c), row)
  /\ caller' = [caller EXCEPT ![c] = [at |-> "owner", key |-> KeyOf(c), epoch |-> row.epoch,
                                      deadline |-> 0]]
  /\ UNCHANGED <<clock, approvals, answer, hung>>
-----------------------------------------------------------------------------
(* acquire_or_get: one transaction, one action per way out of it.          *)

Run(c, k) ==
  /\ At(c, "idle")
  /\ clock <= LastCall
  /\ caller' = [caller EXCEPT ![c] = [at |-> "acquire", key |-> k, epoch |-> 0,
                                      deadline |-> IF MaxConcurrent = None THEN 0
                                                   ELSE Deadline(SlotWait)]]
  /\ answer' = [answer EXCEPT ![c] = NoAnswer]
  /\ UNCHANGED <<clock, executions, approvals, hung>>

Running == {k \in Keys : executions[k].status = "RUNNING"}

\* (A mutant: one call too many.)
SlotFreeOffByOne == MaxConcurrent # None => Cardinality(Running) <= MaxConcurrent

SlotFree == MaxConcurrent # None => Cardinality(Running) < MaxConcurrent

\* The cap is full and the caller has waited long enough: it gives up.  Until
\* then it sleeps and asks again, which changes nothing.
AcquireGivesUp(c) ==
  /\ At(c, "acquire") /\ ~SlotFree
  /\ clock > caller[c].deadline
  /\ Leave(c, "slotTimeout", 0)
  /\ UNCHANGED <<clock, executions, approvals, hung>>

\* A row that is inserted or acquired again starts a new attempt.
Restarted(row, retries, expires) ==
  [status |-> "RUNNING", created |-> clock, finished |-> 0, expires |-> expires,
   retries |-> retries, epoch |-> row.epoch + 1, result |-> 0]

\* Nobody has the key yet: INSERT ... ON CONFLICT DO NOTHING inserts.
AcquireInserts(c) ==
  /\ At(c, "acquire") /\ SlotFree
  /\ RowOf(c).status = "ABSENT"
  /\ Own(c, Restarted(RowOf(c), 0, None))

\* (A mutant: no TTL taken for a TTL of zero.)
ExpiredWhenNone(row) == row.expires = None

\* (A mutant: a result lives one tick too long.)
ExpiredLate(row) == row.expires # None /\ row.expires < clock

Expired(row) == row.expires # None /\ row.expires <= clock

AcquireUsesCached(c) ==
  /\ At(c, "acquire") /\ SlotFree
  /\ RowOf(c).status = "SUCCEEDED" /\ ~Expired(RowOf(c))
  /\ Leave(c, "value", RowOf(c).result)
  /\ UNCHANGED <<clock, executions, approvals, hung>>

AcquireReclaimsExpired(c) ==
  /\ At(c, "acquire") /\ SlotFree
  /\ RowOf(c).status = "SUCCEEDED" /\ Expired(RowOf(c))
  /\ Own(c, Restarted(RowOf(c), RowOf(c).retries, None))

\* (A mutant: one retry too many.)
MayRetryOffByOne(row) == row.retries <= MaxRetries /\ clock >= row.finished + RetryBackoff

MayRetry(row) == row.retries < MaxRetries /\ clock >= row.finished + RetryBackoff

\* (A mutant: a retry needs no slot.)
AcquireRetriesUncapped(c) ==
  /\ At(c, "acquire")
  /\ RowOf(c).status = "FAILED" /\ MayRetry(RowOf(c))
  /\ Own(c, Restarted(RowOf(c), RowOf(c).retries + 1, RowOf(c).expires))

AcquireRetries(c) ==
  /\ At(c, "acquire") /\ SlotFree
  /\ RowOf(c).status = "FAILED" /\ MayRetry(RowOf(c))
  /\ Own(c, Restarted(RowOf(c), RowOf(c).retries + 1, RowOf(c).expires))

AcquireReplaysError(c) ==
  /\ At(c, "acquire") /\ SlotFree
  /\ RowOf(c).status = "FAILED" /\ ~MayRetry(RowOf(c))
  /\ Leave(c, "storedError", 0)
  /\ UNCHANGED <<clock, executions, approvals, hung>>

AcquireFollowsApproval(c) ==
  /\ At(c, "acquire") /\ SlotFree
  /\ RowOf(c).status = "WAITING_APPROVAL"
  /\ GoTo(c, "followApproval", Deadline(ApprovalTimeout))
  /\ UNCHANGED <<clock, executions, approvals, answer, hung>>

Stale(row) == LeaseTimeout # None /\ row.created + LeaseTimeout <= clock

\* (A mutant: the reclaimer does not renew created_at.)
AcquireReclaimsStaleOnly(c) ==
  /\ At(c, "acquire") /\ SlotFree
  /\ RowOf(c).status = "RUNNING" /\ Stale(RowOf(c))
  /\ Own(c, [Restarted(RowOf(c), RowOf(c).retries, RowOf(c).expires)
           EXCEPT !.created = RowOf(c).created])

AcquireReclaimsStale(c) ==
  /\ At(c, "acquire") /\ SlotFree
  /\ RowOf(c).status = "RUNNING" /\ Stale(RowOf(c))
  /\ Own(c, Restarted(RowOf(c), RowOf(c).retries, RowOf(c).expires))

\* (A mutant: no lease taken for a lease that is always over.)
AcquireTakesRunning(c) ==
  /\ At(c, "acquire") /\ SlotFree
  /\ RowOf(c).status = "RUNNING"
  /\ Own(c, Restarted(RowOf(c), RowOf(c).retries, RowOf(c).expires))

AcquireFollowsRunning(c) ==
  /\ At(c, "acquire") /\ SlotFree
  /\ RowOf(c).status = "RUNNING" /\ ~Stale(RowOf(c))
  /\ GoTo(c, "follow", Deadline(FollowTimeout))
  /\ UNCHANGED <<clock, executions, approvals, answer, hung>>
-----------------------------------------------------------------------------
(* complete, fail and mark_waiting_approval: UPDATE ... WHERE id = ?, with *)
(* no look at the status the row has by then.                              *)

ExpiresAt == IF CacheTtl = None THEN None ELSE clock + CacheTtl

Completed(row, epoch) ==
  [row EXCEPT !.status = "SUCCEEDED", !.result = epoch, !.finished = clock,
              !.expires = ExpiresAt]

Failed(row) == [row EXCEPT !.status = "FAILED", !.finished = clock]

\* (A mutant: ON CONFLICT DO NOTHING.)
PendedOnce(approval) ==
  IF approval.status = "ABSENT" THEN [approval EXCEPT !.status = "pending"] ELSE approval

\* The approvals row of an earlier attempt goes back to pending; its signature
\* stays.
Pended(approval) == [approval EXCEPT !.status = "pending"]
-----------------------------------------------------------------------------
(* The owner: limits, the approval gate, the function, the outcome.        *)

\* _guard_limits: a refused owner marks its own row FAILED and raises.
LimitsRefuse(c) ==
  /\ Limited
  /\ At(c, "owner")
  /\ Write(KeyOf(c), Failed(RowOf(c)))
  /\ Leave(c, "limited", 0)
  /\ UNCHANGED <<clock, approvals, hung>>

NeedsApproval(c) == KeyOf(c) \in Gated

MarkWaiting(c) ==
  /\ At(c, "owner") /\ NeedsApproval(c)
  /\ Write(KeyOf(c), [RowOf(c) EXCEPT !.status = "WAITING_APPROVAL"])
  /\ approvals' = [approvals EXCEPT ![KeyOf(c)] = Pended(@)]
  /\ GoTo(c, "approval", Deadline(ApprovalTimeout))
  /\ UNCHANGED <<clock, answer, hung>>

OwnerSeesApproved(c) ==
  /\ At(c, "approval")
  /\ approvals[KeyOf(c)].status = "approved"
  /\ GoTo(c, "verify", 0)
  /\ UNCHANGED <<clock, executions, approvals, answer, hung>>

OwnerSeesRejected(c) ==
  /\ At(c, "approval")
  /\ approvals[KeyOf(c)].status = "rejected"
  /\ GoTo(c, "refused", 0)
  /\ UNCHANGED <<clock, executions, approvals, answer, hung>>

\* Nobody decided in time: ApprovalTimeout leaves the row as it is.
OwnerGivesUpApproval(c) ==
  /\ At(c, "approval")
  /\ approvals[KeyOf(c)].status = "pending"
  /\ clock > caller[c].deadline
  /\ Leave(c, "approvalTimeout", 0)
  /\ UNCHANGED <<clock, executions, approvals, hung>>

\* _verify_approval_signature reads the approvals row once more.
VerifySignature(c) ==
  /\ At(c, "verify")
  /\ IF ~Secret \/ approvals[KeyOf(c)].signed
       THEN GoTo(c, "function", IF ExecTimeout = None THEN 0 ELSE Deadline(ExecTimeout))
       ELSE GoTo(c, "refused", 0)
  /\ UNCHANGED <<clock, executions, approvals, answer, hung>>

RecordRefusal(c) ==
  /\ At(c, "refused")
  /\ Write(KeyOf(c), Failed(RowOf(c)))
  /\ Leave(c, "rejected", 0)
  /\ UNCHANGED <<clock, approvals, hung>>

StartFunction(c) ==
  /\ At(c, "owner") /\ ~NeedsApproval(c)
  /\ GoTo(c, "function", IF ExecTimeout = None THEN 0 ELSE Deadline(ExecTimeout))
  /\ UNCHANGED <<clock, executions, approvals, answer, hung>>

FunctionReturns(c) ==
  /\ At(c, "function")
  /\ GoTo(c, "complete", 0)
  /\ UNCHANGED <<clock, executions, approvals, answer, hung>>

FunctionRaises(c) ==
  /\ At(c, "function")
  /\ GoTo(c, "fail", 0)
  /\ UNCHANGED <<clock, executions, approvals, answer, hung>>

\* execution_timeout: the caller gives up, the thread of the function goes on.
FunctionTimesOut(c) ==
  /\ ExecTimeout # None
  /\ At(c, "function") /\ clock >= caller[c].deadline
  /\ GoTo(c, "fail", 0)
  /\ hung' = hung \cup {<<KeyOf(c), caller[c].epoch>>}
  /\ UNCHANGED <<clock, executions, approvals, answer>>

Complete(c) ==
  /\ At(c, "complete")
  /\ Write(KeyOf(c), Completed(RowOf(c), caller[c].epoch))
  /\ Leave(c, "value", caller[c].epoch)
  /\ UNCHANGED <<clock, approvals, hung>>

\* complete() is inside the try block: when it raises, the call that returned
\* a value is recorded as failed.
CompleteRaises(c) ==
  /\ StoreFaults
  /\ At(c, "complete")
  /\ GoTo(c, "fail", 0)
  /\ UNCHANGED <<clock, executions, approvals, answer, hung>>

Fail(c) ==
  /\ At(c, "fail")
  /\ Write(KeyOf(c), Failed(RowOf(c)))
  /\ Leave(c, "error", 0)
  /\ UNCHANGED <<clock, approvals, hung>>
-----------------------------------------------------------------------------
(* Followers poll the row, or first the approvals row and then the row.    *)

FollowerSeesApproved(c) ==
  /\ At(c, "followApproval")
  /\ approvals[KeyOf(c)].status = "approved"
  /\ GoTo(c, "follow", Deadline(ApprovalTimeout))
  /\ UNCHANGED <<clock, executions, approvals, answer, hung>>

FollowerSeesRejected(c) ==
  /\ At(c, "followApproval")
  /\ approvals[KeyOf(c)].status = "rejected"
  /\ Leave(c, "rejected", 0)
  /\ UNCHANGED <<clock, executions, approvals, hung>>

FollowerGivesUpApproval(c) ==
  /\ At(c, "followApproval")
  /\ approvals[KeyOf(c)].status = "pending"
  /\ clock > caller[c].deadline
  /\ Leave(c, "approvalTimeout", 0)
  /\ UNCHANGED <<clock, executions, approvals, hung>>

\* (A mutant: the poll returns the row whatever its status.)
FollowerSeesRow(c) ==
  /\ At(c, "follow")
  /\ IF RowOf(c).status # "FAILED"
       THEN Leave(c, "value", RowOf(c).result)
       ELSE Leave(c, "storedError", 0)
  /\ UNCHANGED <<clock, executions, approvals, hung>>

FollowerSeesResult(c) ==
  /\ At(c, "follow")
  /\ RowOf(c).status \in Finished
  /\ IF RowOf(c).status = "SUCCEEDED"
       THEN Leave(c, "value", RowOf(c).result)
       ELSE Leave(c, "storedError", 0)
  /\ UNCHANGED <<clock, executions, approvals, hung>>

\* (A mutant: every poll computes the deadline anew.)
FollowerStartsOver(c) ==
  /\ At(c, "follow")
  /\ RowOf(c).status \notin Finished
  /\ clock > caller[c].deadline
  /\ GoTo(c, "follow", Deadline(FollowTimeout))
  /\ UNCHANGED <<clock, executions, approvals, answer, hung>>

FollowerGivesUp(c) ==
  /\ At(c, "follow")
  /\ RowOf(c).status \notin Finished
  /\ clock > caller[c].deadline
  /\ Leave(c, "followTimeout", 0)
  /\ UNCHANGED <<clock, executions, approvals, hung>>
-----------------------------------------------------------------------------
(* The environment: humans, failures, time.                                *)

\* tbay approve / tbay reject: an unconditional UPDATE of the approvals row, at
\* any time and as often as they like.  The shell of the human may or may not
\* have the secret.
Resolve(k, approve, sign) ==
  /\ approvals[k].status # "ABSENT"
  /\ sign => Secret
  /\ approvals' = [approvals EXCEPT ![k] =
                     [status |-> IF approve THEN "approved" ELSE "rejected",
                      signed |-> approve /\ sign,
                      sanctions |-> IF approve THEN executions[k].epoch ELSE @.sanctions]]
  /\ UNCHANGED <<clock, executions, caller, answer, hung>>

HungFunctionEnds(run) ==
  /\ hung' = hung \ {run}
  /\ UNCHANGED <<clock, executions, approvals, caller, answer>>

\* The process is killed, or an exception other than Exception (or one out of a
\* store call outside the try block) leaves run(): nothing is recorded.
Die(c) ==
  /\ Crashes
  /\ ~At(c, "idle")
  /\ caller' = [caller EXCEPT ![c] = Idle]
  /\ UNCHANGED <<clock, executions, approvals, answer, hung>>

Tick ==
  /\ clock < MaxTime
  /\ clock' = clock + 1
  /\ UNCHANGED <<executions, approvals, caller, answer, hung>>

AcquireStep(c) ==
  \/ AcquireGivesUp(c)
  \/ AcquireInserts(c)
  \/ AcquireUsesCached(c)
  \/ AcquireReclaimsExpired(c)
  \/ AcquireRetries(c)
  \/ AcquireReplaysError(c)
  \/ AcquireFollowsApproval(c)
  \/ AcquireReclaimsStale(c)
  \/ AcquireFollowsRunning(c)

ApprovalStep(c) ==
  \/ MarkWaiting(c)
  \/ OwnerSeesApproved(c)
  \/ OwnerSeesRejected(c)
  \/ OwnerGivesUpApproval(c)
  \/ VerifySignature(c)
  \/ RecordRefusal(c)

RecordStep(c) ==
  \/ StartFunction(c)
  \/ FunctionTimesOut(c)
  \/ Complete(c)
  \/ Fail(c)

FollowStep(c) ==
  \/ FollowerSeesApproved(c)
  \/ FollowerSeesRejected(c)
  \/ FollowerGivesUpApproval(c)
  \/ FollowerSeesResult(c)
  \/ FollowerGivesUp(c)

\* What a process that is scheduled does sooner or later.
Progress(c) == AcquireStep(c) \/ ApprovalStep(c) \/ RecordStep(c) \/ FollowStep(c)

\* What nothing forces: the function, failures.
Chance(c) ==
  \/ LimitsRefuse(c)
  \/ FunctionReturns(c)
  \/ FunctionRaises(c)
  \/ CompleteRaises(c)
  \/ Die(c)

Next ==
  \/ \E c \in Callers, k \in Keys : Run(c, k)
  \/ \E c \in Callers : Progress(c)
  \/ \E c \in Callers : Chance(c)
  \/ \E k \in Keys, approve, sign \in BOOLEAN : Resolve(k, approve, sign)
  \/ \E run \in hung : HungFunctionEnds(run)
  \/ Tick

Spec == Init /\ [][Next]_vars

Fairness == WF_vars(Tick) /\ \A c \in Callers : WF_vars(Progress(c))
FairSpec == Spec /\ Fairness
-----------------------------------------------------------------------------
(* What the calls of one key may count on.                                 *)

Owners(k) == {c \in Callers : caller[c].at \in OwnerPlaces /\ KeyOf(c) = k}
Inside(k) == {c \in Callers : At(c, "function") /\ KeyOf(c) = k}

\* Without a lease, a key has at most one owner between acquire_or_get and the
\* write of the outcome, whatever mix of crashes, refusals, approvals and
\* retries came before, and its row says so to everybody else.
OneOwner ==
  LeaseTimeout = None =>
    \A k \in Keys :
      /\ \A c, d \in Owners(k) : c = d
      /\ Owners(k) # {} => executions[k].status \in Live

\* With a lease an owner may be presumed dead and be alive.  However many
\* contenders find its row stale, one of them reclaims it: apart from retries, a
\* key whose TTL is no shorter than its lease is acquired no more often than lease
\* periods have passed since the start, and late owners change nothing about that.
OneReclaimPerLease ==
  LeaseTimeout # None /\ (CacheTtl # None => CacheTtl >= LeaseTimeout) =>
    \A k \in Keys :
      (executions[k].epoch - 1 - executions[k].retries) * LeaseTimeout <= clock

\* Once a result is stored for a key that has no TTL and no lease, nothing ever
\* touches the row again: not a follower, not a late owner, not a retry.
SuccessIsFinal ==
  [][\A k \in Keys : /\ LeaseTimeout = None /\ CacheTtl = None
                     /\ executions[k].status = "SUCCEEDED"
                     => executions'[k] = executions[k]]_vars

\* Everybody who is handed a value for a key is handed the same one, that of
\* the one run whose result is stored, whether they ran it, followed it or came
\* later.
OneValue ==
  LeaseTimeout = None /\ CacheTtl = None =>
    \A c \in Callers : answer[c].kind = "value" =>
      /\ executions[answer[c].key].status = "SUCCEEDED"
      /\ executions[answer[c].key].result = answer[c].epoch

\* Without TTL and lease the function is started for a key at most
\* max_retries + 1 times in the life of its row, over all processes.
AttemptsBounded ==
  LeaseTimeout = None /\ CacheTtl = None =>
    \A k \in Keys : executions[k].epoch <= MaxRetries + 1

\* The RUNNING rows never exceed max_concurrent, stale leases being reclaimed
\* and zombies writing outcomes over rows they no longer own included.
CapHolds == MaxConcurrent # None => Cardinality(Running) <= MaxConcurrent

\* max_concurrent as policy.py states it: at most this many calls to the tool
\* are inside the function at once, those included whose caller has given up on
\* them.  (It is the rows that are counted: an execution_timeout frees the slot of
\* a function that its thread goes on running, and this no longer holds.)
CapOnFunctions ==
  MaxConcurrent # None =>
    Cardinality({c \in Callers : At(c, "function")}) + Cardinality(hung) <= MaxConcurrent

\* Every gated run was approved by a decision made after this very attempt
\* acquired the row; the approval of an earlier attempt does not carry over.
ApprovedBeforeRun ==
  LeaseTimeout = None =>
    \A k \in Gated : \A c \in Inside(k) : approvals[k].sanctions = caller[c].epoch

\* acquire_or_get never answers with a stored value once cache_ttl has passed since
\* the run that produced it was recorded.
CacheHitIsFresh ==
  [][\A c \in Callers :
       /\ CacheTtl # None /\ At(c, "acquire") /\ At(c, "idle")' /\ answer'[c].kind = "value"
       => clock < RowOf(c).finished + CacheTtl]_vars

\* Followers look at no TTL.  But the value one is handed was recorded after it began
\* to follow, which fixed its deadline: reclaims, retries and late writes in between
\* never show it an older one.  (Of a key that needs approval a follower first awaits
\* the decision, and its deadline then tells only when it heard of that.)
FollowedIsNew ==
  [][\A c \in Callers :
       /\ KeyOf(c) \notin Gated
       /\ At(c, "follow") /\ At(c, "idle")' /\ answer'[c].kind = "value"
       => caller[c].deadline <= RowOf(c).finished + FollowTimeout]_vars

\* Every call comes back: followers and owners (and where there is a cap, waiters for
\* a slot) all have a deadline or somebody who ends their wait, with hung functions,
\* dead owners, humans who never decide and writes that raise.
CallsReturn == \A c \in Callers : ~At(c, "idle") ~> At(c, "idle")
-----------------------------------------------------------------------------
(* What the documents of the code say and the code does not do.            *)

\* exceptions.py: after ApprovalTimeout, call the tool again if you still want it
\* to happen.  So a call that follows an execution a human approved follows
\* somebody who will run it (nobody having died).
ApprovedHasOwner ==
  \A c \in Callers :
    /\ At(c, "follow")
    /\ RowOf(c).status = "WAITING_APPROVAL"
    /\ approvals[KeyOf(c)].status = "approved"
    => Owners(KeyOf(c)) # {}
=============================================================================
