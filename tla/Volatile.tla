------------------------------ MODULE Volatile ------------------------------
(***************************************************************************)
(* TbayClient._run_volatile and _run_volatile_async: calls under an        *)
(* idempotent: false policy.  Every attempt of a call has a row and, if it *)
(* needs one, an approval of its own; a loop around acquire, limits and    *)
(* execute retries at once what raised inside its try block.  Nothing is   *)
(* shared between calls but the max_concurrent slots.                      *)
(*                                                                         *)
(* Each caller makes one call.  Timeouts happen when their condition       *)
(* holds, without a clock.  The module also has the spans that otel.py     *)
(* makes of the events of these calls: every attempt has an execution id   *)
(* of its own, and so a span of its own.                                   *)
(***************************************************************************)
EXTENDS Naturals, FiniteSets, Sequences

CONSTANTS
  Callers,
  MaxRetries, MaxConcurrent,  \* the policy
  Gated,         \* the callers whose arguments need approval
  Async,         \* the callers that are tasks of an event loop
  Untimed,       \* the callers whose policy has no execution_timeout
  Limited,       \* may the rate limit or the budget refuse an owner?
  StoreFaults,   \* may a call of the store raise?  It has then written nothing
  Crashes        \* may processes die?

ASSUME VolatileAssumption ==
  /\ MaxRetries \in Nat /\ MaxConcurrent \in Nat \ {0} /\ IsFiniteSet(Callers)
  /\ Gated \subseteq Callers /\ Async \subseteq Callers /\ Untimed \subseteq Callers
  /\ {Limited, StoreFaults, Crashes} \subseteq BOOLEAN

VARIABLES
  rows,      \* the rows of each call, one per attempt, with their approvals and spans
  at,        \* where each caller is
  late,      \* what a thread of a cancelled task is still to do in the store
  ran        \* history: how often did the function of the call start?

vars == <<rows, at, late, ran>>

Statuses == {"RUNNING", "WAITING_APPROVAL", "SUCCEEDED", "FAILED"}
Row == [status : Statuses, approval : {"none", "pending", "approved", "rejected"},
        span : {"none", "open", "ok", "error"},
        lost : BOOLEAN]  \* history: did the store raise on a write about this attempt?
StoreCalls == {"acquire_or_get", "mark_waiting_approval", "complete", "fail"}
Places == {"idle", "acquire", "owner", "asks", "approval", "refused", "function", "complete",
           "fail", "caught", "value", "raised", "dead", "cancelled"}

TypeOK ==
  /\ rows \in [Callers -> Seq(Row)]
  /\ at \in [Callers -> Places]
  /\ late \in [Callers -> StoreCalls \cup {"none"}]
  /\ ran \in [Callers -> Nat]

Init ==
  /\ rows = [c \in Callers |-> <<>>]
  /\ at = [c \in Callers |-> "idle"]
  /\ late = [c \in Callers |-> "none"]
  /\ ran = [c \in Callers |-> 0]

Last(c) == rows[c][Len(rows[c])]
GoTo(c, place) == at' = [at EXCEPT ![c] = place]
Write(c, row) == rows' = [rows EXCEPT ![c][Len(rows[c])] = row]
Lose(c) == Write(c, [Last(c) EXCEPT !.lost = TRUE])

RunningRows == {r \in Callers \X (1..MaxRetries + 2) :
                  r[2] \in DOMAIN rows[r[1]] /\ rows[r[1]][r[2]].status = "RUNNING"}

\* (A mutant: one call too many.)
SlotFreeOffByOne == Cardinality(RunningRows) <= MaxConcurrent

SlotFree == Cardinality(RunningRows) < MaxConcurrent
-----------------------------------------------------------------------------
Run(c) ==
  /\ at[c] = "idle"
  /\ GoTo(c, "acquire")
  /\ UNCHANGED <<rows, late, ran>>

NewRow == [status |-> "RUNNING", approval |-> "none", span |-> "none", lost |-> FALSE]

\* A fresh idempotency key: the insert never conflicts.
Acquire(c) ==
  /\ at[c] = "acquire" /\ SlotFree
  /\ rows' = [rows EXCEPT ![c] = Append(@, NewRow)]
  /\ GoTo(c, "owner")
  /\ UNCHANGED <<late, ran>>

\* ConcurrencyLimitExceeded or what the store raises, outside the try block.
AcquireGivesUp(c) ==
  /\ at[c] = "acquire" /\ (~SlotFree \/ StoreFaults)
  /\ GoTo(c, "raised")
  /\ UNCHANGED <<rows, late, ran>>

\* (A mutant: the refused row is not marked.)
LimitsRefuseSilently(c) ==
  /\ Limited
  /\ at[c] = "owner"
  /\ GoTo(c, "raised")
  /\ UNCHANGED <<rows, late, ran>>

\* _guard_limits fails the row and raises, outside the try block too.
LimitsRefuse(c) ==
  /\ Limited
  /\ at[c] = "owner"
  /\ Write(c, [Last(c) EXCEPT !.status = "FAILED"])
  /\ GoTo(c, "raised")
  /\ UNCHANGED <<late, ran>>

\* The except block of _guard_limits fails the row before it raises again, and the
\* store may raise there.
LimitsRaise(c) ==
  /\ Limited /\ StoreFaults
  /\ at[c] = "owner"
  /\ Lose(c)
  /\ GoTo(c, "raised")
  /\ UNCHANGED <<late, ran>>

\* call.started opens the span of the row.
StartFunction(c) ==
  /\ at[c] = "owner" /\ c \notin Gated
  /\ Write(c, [Last(c) EXCEPT !.span = "open"])
  /\ GoTo(c, "function")
  /\ ran' = [ran EXCEPT ![c] = @ + 1]
  /\ UNCHANGED late

StartGated(c) ==
  /\ at[c] = "owner" /\ c \in Gated
  /\ Write(c, [Last(c) EXCEPT !.span = "open"])
  /\ GoTo(c, "asks")
  /\ UNCHANGED <<late, ran>>

Waiting(row) == [row EXCEPT !.status = "WAITING_APPROVAL", !.approval = "pending"]

MarkWaiting(c) ==
  /\ at[c] = "asks"
  /\ Write(c, Waiting(Last(c)))
  /\ GoTo(c, "approval")
  /\ UNCHANGED <<late, ran>>

OwnerSeesApproved(c) ==
  /\ at[c] = "approval" /\ Last(c).approval = "approved"
  /\ GoTo(c, "function")
  /\ ran' = [ran EXCEPT ![c] = @ + 1]
  /\ UNCHANGED <<rows, late>>

OwnerSeesRejected(c) ==
  /\ at[c] = "approval" /\ Last(c).approval = "rejected"
  /\ GoTo(c, "refused")
  /\ UNCHANGED <<rows, late, ran>>

\* (A mutant: the poll has no deadline.)
OwnerPollsForever(c) ==
  /\ at[c] = "approval" /\ Last(c).approval = "pending"
  /\ UNCHANGED vars

\* ApprovalTimeout, or a poll that raises, leaves the row waiting, and its span
\* open: no event tells.
OwnerGivesUpApproval(c) ==
  /\ at[c] = "approval" /\ (Last(c).approval = "pending" \/ StoreFaults)
  /\ GoTo(c, "caught")
  /\ UNCHANGED <<rows, late, ran>>

\* The function raises, or execution_timeout is over.
FunctionRaises(c) ==
  /\ at[c] = "function"
  /\ GoTo(c, "fail")
  /\ UNCHANGED <<rows, late, ran>>

\* (A mutant: call.succeeded is emitted before complete().)
FunctionReturnsEmits(c) ==
  /\ at[c] = "function"
  /\ Write(c, [Last(c) EXCEPT !.span = "ok"])
  /\ GoTo(c, "complete")
  /\ UNCHANGED <<late, ran>>

FunctionReturns(c) ==
  /\ at[c] = "function"
  /\ GoTo(c, "complete")
  /\ UNCHANGED <<rows, late, ran>>

\* The function of a task raises TimeoutError by itself under a policy without
\* execution_timeout: formatting the message raises TypeError, so fail() is not
\* called, and the loop goes on.
AsyncFunctionRaisesTimeout(c) ==
  /\ c \in Async \cap Untimed
  /\ at[c] = "function"
  /\ GoTo(c, "caught")
  /\ UNCHANGED <<rows, late, ran>>

\* (A mutant: an event handler that raises after complete().)
CompleteEmitsUnguarded(c) ==
  /\ at[c] = "complete"
  /\ Write(c, [Last(c) EXCEPT !.status = "SUCCEEDED", !.span = "ok"])
  /\ GoTo(c, "fail")
  /\ UNCHANGED <<late, ran>>

Complete(c) ==
  /\ at[c] = "complete"
  /\ Write(c, [Last(c) EXCEPT !.status = "SUCCEEDED", !.span = "ok"])
  /\ GoTo(c, "value")
  /\ UNCHANGED <<late, ran>>

CompleteRaises(c) ==
  /\ StoreFaults
  /\ at[c] = "complete"
  /\ GoTo(c, "fail")
  /\ UNCHANGED <<rows, late, ran>>

Failed(row) ==
  [row EXCEPT !.status = "FAILED", !.span = IF row.span = "open" THEN "error" ELSE row.span]

\* fail() after a refusal, or in the except block, and the event that ends the span.
Fail(c) ==
  /\ at[c] \in {"fail", "refused"}
  /\ Write(c, Failed(Last(c)))
  /\ GoTo(c, "caught")
  /\ UNCHANGED <<late, ran>>

\* mark_waiting_approval() and fail() are called inside the try block of the loop: it
\* catches what they raise like any other failure, and goes on with the next attempt.
WriteRaises(c) ==
  /\ StoreFaults
  /\ at[c] \in {"asks", "refused", "fail"}
  /\ Lose(c)
  /\ GoTo(c, "caught")
  /\ UNCHANGED <<late, ran>>

\* except Exception: if attempt >= pol.max_retries: raise
Retry(c) ==
  /\ at[c] = "caught"
  /\ GoTo(c, IF Len(rows[c]) - 1 >= MaxRetries THEN "raised" ELSE "acquire")
  /\ UNCHANGED <<rows, late, ran>>

Resolve(c, decision) ==
  /\ \E i \in DOMAIN rows[c] :
       /\ rows[c][i].approval # "none"
       /\ rows' = [rows EXCEPT ![c][i].approval = decision]
  /\ UNCHANGED <<at, late, ran>>

Die(c) ==
  /\ Crashes
  /\ at[c] \notin {"idle", "value", "raised", "dead", "cancelled"}
  /\ GoTo(c, "dead")
  /\ UNCHANGED <<rows, late, ran>>

\* task.cancel().  Nothing is recorded, and the loop catches no CancelledError; a
\* thread may be left with a call of the store to finish.
Cancel(c) ==
  /\ c \in Async
  /\ at[c] \notin {"idle", "value", "raised", "dead", "cancelled"}
  /\ GoTo(c, "cancelled")
  /\ \E call \in StoreCalls \cup {"none"} :
       /\ call = "acquire_or_get" => at[c] = "acquire"
       /\ call = "mark_waiting_approval" => at[c] = "asks"
       /\ call = "complete" => at[c] = "complete"
       /\ call = "fail" => at[c] \in {"refused", "fail"} \/ (at[c] = "owner" /\ Limited)
       /\ late' = [late EXCEPT ![c] = call]
  /\ UNCHANGED <<rows, ran>>

LateAcquire(c) ==
  /\ late[c] = "acquire_or_get"
  /\ rows' = IF SlotFree THEN [rows EXCEPT ![c] = Append(@, NewRow)] ELSE rows

LateMark(c) == late[c] = "mark_waiting_approval" /\ Write(c, Waiting(Last(c)))
LateComplete(c) == late[c] = "complete" /\ Write(c, [Last(c) EXCEPT !.status = "SUCCEEDED"])
LateFail(c) == late[c] = "fail" /\ Write(c, [Last(c) EXCEPT !.status = "FAILED"])

\* The thread gets to it, and nobody emits an event.
LateCall(c) ==
  /\ LateAcquire(c) \/ LateMark(c) \/ LateComplete(c) \/ LateFail(c)
  /\ late' = [late EXCEPT ![c] = "none"]
  /\ UNCHANGED <<at, ran>>

\* What a scheduled process does sooner or later.
Progress(c) ==
  \/ Acquire(c) \/ AcquireGivesUp(c)
  \/ StartFunction(c) \/ StartGated(c) \/ MarkWaiting(c)
  \/ OwnerSeesApproved(c) \/ OwnerSeesRejected(c) \/ OwnerGivesUpApproval(c)
  \/ Complete(c) \/ Fail(c) \/ Retry(c)

Next ==
  \/ \E c \in Callers : Run(c) \/ Progress(c)
  \/ \E c \in Callers : LimitsRefuse(c) \/ FunctionReturns(c) \/ FunctionRaises(c)
  \/ \E c \in Callers : LimitsRaise(c) \/ WriteRaises(c) \/ CompleteRaises(c)
  \/ \E c \in Callers : AsyncFunctionRaisesTimeout(c)
  \/ \E c \in Callers : Die(c) \/ Cancel(c) \/ LateCall(c)
  \/ \E c \in Callers, decision \in {"approved", "rejected"} : Resolve(c, decision)

Spec == Init /\ [][Next]_vars

\* Processes are scheduled, and under an execution_timeout the function comes back
\* one way or the other.
Fairness ==
  /\ \A c \in Callers : WF_vars(Progress(c))
  /\ \A c \in Callers \ Untimed : WF_vars(FunctionReturns(c) \/ FunctionRaises(c))
FairSpec == Spec /\ Fairness
-----------------------------------------------------------------------------
\* A call never has more than max_retries + 1 attempts, nor more starts than
\* attempts, whatever raised: the function, an approval, the store.
AttemptsBounded ==
  \A c \in Callers : ran[c] <= Len(rows[c]) /\ Len(rows[c]) <= MaxRetries + 1

\* The loop never goes on after a success, and a value is that of the last
\* attempt.
SuccessEndsTheLoop ==
  \A c \in Callers :
    /\ \A i \in 1..Len(rows[c]) - 1 : rows[c][i].status # "SUCCEEDED"
    /\ at[c] = "value" => Last(c).status = "SUCCEEDED"
    /\ rows[c] # <<>> /\ Last(c).status = "SUCCEEDED" => at[c] \in {"value", "cancelled"}

\* A call holds one slot at a time, and none once it has returned: the rows of
\* its earlier attempts are finished, or waiting for a decision nobody awaits.  Two
\* kinds of rows keep their slot: one of which the store itself refused the write
\* that would have given it back (WriteRaises, LimitsRaise), and one of an attempt
\* that ended in AsyncFunctionRaisesTimeout.
NoSlotLeft ==
  \A c \in Callers \ (Async \cap Untimed) : \A i \in DOMAIN rows[c] :
    rows[c][i].status = "RUNNING" /\ ~rows[c][i].lost =>
      /\ i = Len(rows[c])
      /\ at[c] \in {"owner", "asks", "function", "complete", "fail", "dead", "cancelled"}

\* The attempts of all calls together respect max_concurrent, those that an
\* abandoned thread starts for nobody included.
CapHolds == Cardinality(RunningRows) <= MaxConcurrent

\* A span that has ended has the outcome of its row, whatever raised between the
\* event and the write, and one that is open when a call returns belongs to a row
\* that waits for approval, or to one that the store refused to end.
SpansTellOutcomes ==
  \A c \in Callers : \A i \in DOMAIN rows[c] :
    /\ rows[c][i].span = "ok" => rows[c][i].status = "SUCCEEDED"
    /\ rows[c][i].span = "error" => rows[c][i].status = "FAILED"
    /\ at[c] \in {"value", "raised"} /\ c \notin Async \cap Untimed /\ rows[c][i].span = "open"
         => rows[c][i].status = "WAITING_APPROVAL" \/ rows[c][i].lost

\* Every call whose function has a timeout returns, or its caller is no more.
CallsReturn ==
  \A c \in Callers \ Untimed :
    at[c] = "acquire" ~> at[c] \in {"value", "raised", "dead", "cancelled"}
=============================================================================
