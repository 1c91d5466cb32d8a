--------------------------- MODULE AsyncExecutions ---------------------------
(***************************************************************************)
(* Executions when some of the callers are tasks of an event loop, which   *)
(* call TbayClient.run_async.  It takes the same steps as run(), but every *)
(* call of the store is an asyncio.to_thread, and the function is awaited. *)
(*                                                                         *)
(* A task may be cancelled at any await.  CancelledError is no Exception,  *)
(* so nothing is recorded; but a thread that has begun its call of the     *)
(* store finishes it, whenever it gets to it, for nobody.  Such calls are  *)
(* in "detached" here, while the task that made them is gone and may have  *)
(* started another call.                                                   *)
(***************************************************************************)
EXTENDS ExecutionsSingleFlight

CONSTANT Async  \* the callers that are tasks

ASSUME AsyncAssumption == Async \subseteq Callers

VARIABLE detached  \* the store calls of cancelled tasks that are still to happen

asyncVars == <<vars, detached>>

StoreCalls == {"acquire_or_get", "mark_waiting_approval", "complete", "fail"}

AsyncTypeOK ==
  /\ TypeOK
  /\ detached \subseteq [call : StoreCalls, key : Keys, epoch : Nat]

AsyncInit == Init /\ detached = {}
-----------------------------------------------------------------------------
(* What a task does that a thread does not.                                *)

\* asyncio.wait_for cancels the coroutine it gives up on: nothing goes on running.
AsyncFunctionTimesOut(c) ==
  /\ c \in Async
  /\ ExecTimeout # None
  /\ At(c, "function") /\ clock >= caller[c].deadline
  /\ GoTo(c, "fail", 0)
  /\ UNCHANGED <<clock, executions, approvals, answer, hung, detached>>

\* The function raises TimeoutError by itself and the policy has no
\* execution_timeout: the handler formats None as a number, and the TypeError leaves
\* run_async before fail() is called.
AsyncFunctionRaisesTimeout(c) ==
  /\ c \in Async
  /\ ExecTimeout = None
  /\ At(c, "function")
  /\ Leave(c, "error", 0)
  /\ UNCHANGED <<clock, executions, approvals, hung, detached>>

\* The call of the store that a task at this place may have given to a thread.
Threads(c) ==
  {call \in StoreCalls :
     \/ call = "acquire_or_get" /\ At(c, "acquire")
     \/ call = "mark_waiting_approval" /\ At(c, "owner") /\ NeedsApproval(c)
     \/ call = "complete" /\ At(c, "complete")
     \/ call = "fail" /\ (At(c, "fail") \/ At(c, "refused") \/ (At(c, "owner") /\ Limited))}

\* (A mutant: the cancelled task marks its row as failed, and the thread goes on.)
CancelRecords(c) ==
  /\ c \in Async /\ ~At(c, "idle")
  /\ caller' = [caller EXCEPT ![c] = Idle]
  /\ detached' = detached \cup
       {[call |-> call, key |-> KeyOf(c), epoch |-> caller[c].epoch] : call \in Threads(c)}
  /\ executions' = IF At(c, "acquire") THEN executions
                     ELSE [executions EXCEPT ![KeyOf(c)] = Failed(@)]
  /\ UNCHANGED <<clock, approvals, answer, hung>>

\* task.cancel(), with or without a thread under way.
Cancel(c) ==
  /\ c \in Async /\ ~At(c, "idle")
  /\ caller' = [caller EXCEPT ![c] = Idle]
  /\ \/ detached' = detached
     \/ \E call \in Threads(c) :
          detached' = detached \cup {[call |-> call, key |-> KeyOf(c), epoch |-> caller[c].epoch]}
  /\ UNCHANGED <<clock, executions, approvals, answer, hung>>
-----------------------------------------------------------------------------
(* The store calls of cancelled tasks.                                     *)

Acquirable(row) ==
  \/ row.status = "ABSENT"
  \/ row.status = "SUCCEEDED" /\ Expired(row)
  \/ row.status = "FAILED" /\ MayRetry(row)
  \/ row.status = "RUNNING" /\ Stale(row)

\* The row as acquire_or_get would hand it to an owner.
Acquired(row) ==
  Restarted(row, IF row.status = "FAILED" THEN row.retries + 1 ELSE row.retries,
            IF row.status = "SUCCEEDED" THEN None ELSE row.expires)

\* The key is won by a task that is gone, or nothing is written.
DetachedAcquires(d) ==
  /\ d.call = "acquire_or_get"
  /\ executions' = IF SlotFree /\ Acquirable(executions[d.key])
                     THEN [executions EXCEPT ![d.key] = Acquired(@)] ELSE executions
  /\ UNCHANGED approvals

DetachedMarksWaiting(d) ==
  /\ d.call = "mark_waiting_approval"
  /\ executions' = [executions EXCEPT ![d.key].status = "WAITING_APPROVAL"]
  /\ approvals' = [approvals EXCEPT ![d.key] = Pended(@)]

DetachedCompletes(d) ==
  /\ d.call = "complete"
  /\ Write(d.key, Completed(executions[d.key], d.epoch))
  /\ UNCHANGED approvals

DetachedFails(d) ==
  /\ d.call = "fail"
  /\ Write(d.key, Failed(executions[d.key]))
  /\ UNCHANGED approvals

DetachedStep(d) ==
  /\ \/ DetachedAcquires(d)
     \/ DetachedMarksWaiting(d)
     \/ DetachedCompletes(d)
     \/ DetachedFails(d)
  /\ detached' = detached \ {d}
  /\ UNCHANGED <<clock, caller, answer, hung>>
-----------------------------------------------------------------------------
\* The functions that go on running are those of threads.
ThreadsHang == hung' \subseteq hung \/ \A c \in Async : caller'[c] = caller[c]

AsyncNext ==
  \/ Next /\ ThreadsHang /\ UNCHANGED detached
  \/ \E c \in Callers : AsyncFunctionTimesOut(c) \/ AsyncFunctionRaisesTimeout(c)
  \/ \E c \in Callers : Cancel(c)
  \/ \E d \in detached : DetachedStep(d)

AsyncSpec == AsyncInit /\ [][AsyncNext]_asyncVars

\* The event loop schedules its tasks, and the executor its threads.
AsyncProgress(c) == (Progress(c) /\ ThreadsHang /\ UNCHANGED detached) \/ AsyncFunctionTimesOut(c)

AsyncFairSpec ==
  /\ AsyncSpec
  /\ WF_asyncVars(Tick /\ UNCHANGED detached)
  /\ \A c \in Callers : WF_asyncVars(AsyncProgress(c))
-----------------------------------------------------------------------------
\* The outcome an abandoned thread is about to write is the outcome of the attempt
\* the row is in: without a lease nobody else acquires the key before it is
\* written, so it never lands on the attempt of somebody else.
Writers(k) == {d \in detached : d.key = k /\ d.call # "acquire_or_get"}

LateWriteIsOwners ==
  LeaseTimeout = None =>
    \A k \in Keys :
      /\ Cardinality(Owners(k)) + Cardinality(Writers(k)) <= 1
      /\ \A d \in Writers(k) : executions[k].status \in Live /\ executions[k].epoch = d.epoch
-----------------------------------------------------------------------------
(* What the documents of the code say and the code does not do.            *)

\* docs/caching.md: a failed execution stores its error.  So a call that raises what
\* its function raised leaves the row FAILED.
FailureIsStored ==
  [][\A c \in Callers :
       /\ caller[c].at \in {"function", "fail"} /\ At(c, "idle")'
       /\ answer'[c].kind = "error"
       => executions'[KeyOf(c)].status = "FAILED"]_asyncVars
=============================================================================
