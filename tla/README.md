# tbay in TLA+

tbay wraps the functions an agent may call. Before the function runs, the wrapper decides
from shared state (a database that any number of processes and hosts use) whether it may run,
must wait, must ask a human, or need not run because its result is there already. This
directory models that state and the protocol over it, checks the models with TLC and proves
the central safety properties with TLAPS. Source paths are relative to the repository
(`src/tbay/...`).

## The system

| component | state it keeps | operations | what makes it correct |
|---|---|---|---|
| client, synchronous (`client.py`, `backends/base.py`) | where a call is: acquiring, owner, follower, waiting for a human | `run`, `_execute_as_owner`, `wait_for_result`, `wait_for_approval` | one owner per key; one value for everybody; bounded attempts; every call returns |
| client, asynchronous | the same in tasks, and the threads of the store calls they await | `run_async` and its helpers, `asyncio.wait_for`, cancellation | what an abandoned thread writes is still its own attempt's |
| SQLite backend | `executions`, `approvals`, `controls` | `acquire_or_get` in one `BEGIN IMMEDIATE`, `complete`, `fail`, `mark_waiting_approval`, `resolve_approval`, counts, listings, `clear` | the table says who owns what; the cap on RUNNING rows |
| Postgres backend | the same tables | an insert, a read and a compare-and-swap; an advisory lock when there is a cap | the same, between the statements |
| Redis backend | hashes, an index, a running set, sorted sets | three Lua scripts and the gaps between them; other operations in several round trips | the running set and the hashes agree |
| approvals (`cli.py`, the dashboard, `security.py`) | the `approvals` rows | approve and reject, at any time, repeatedly | nothing gated runs that was not approved for this attempt |
| volatile calls (`_run_volatile`) | one row per attempt | a retry loop with no shared key | bounded attempts; no slot is left behind |
| rate limit and budget | `created_at` and `budget_value` of the rows | `_enforce_rate_limit`, `_enforce_budget` after the insert | no window admits more than it may |
| kill switch | `controls` | `pause`, `resume`, `_check_kill_switch` | what is paused does not start |
| policies (`policy.py`) | a loaded `Policy` | `parse_ttl`, `_build_policy`, `load_policies` | what is written is in force, or the file does not load |
| keys, redaction, semantic lookup | none | pure functions of a call and of the stored rows | same call, same key; hidden if and only if named; the nearest result is served |
| OpenTelemetry | open spans | `instrument` | a span ends as its execution does |
| listings (`tbay log`, `tbay pending`, the dashboard) | none | `list_executions`, `fetch_executions` | what is left out is not newer than what is shown |
| decorator, context, signatures' HMAC, output | none that a decision depends on | bind, annotate, format | see *Not modelled* |

Calls do not talk to each other. They meet in the store: an owner writes its outcome there, a
follower polls it, a human writes a decision that owner and followers poll, an operator writes
a control that the next call reads. The hard behaviours follow from that. Processes interleave
between any two transactions; a process may die in any of these gaps, and a task be cancelled
while its thread goes on; a lease may presume an owner dead while it lives; a function may be
abandoned by its timeout and go on running; a decision may come late, twice, or be taken back;
somebody may clear the store under calls that are under way; `complete()` may raise after the
function returned; on Postgres and Redis a caller decides on a copy of a record that has moved
on. `PROJECT.json` lists each of these hazards at its line.

## The modules

**`Executions`** is the core: calls of one tool and one tenant over SQLite. `executions[k]` and
`approvals[k]` are the rows of key `k`; `caller[c].at` is the place of process `c` in
`TbayClient.run`. One database transaction is one action, as `BEGIN IMMEDIATE` makes it:
`acquire_or_get` has nine ways out and nine actions (`AcquireInserts`, `AcquireUsesCached`,
`AcquireReclaimsExpired`, `AcquireRetries`, `AcquireReplaysError`, `AcquireFollowsApproval`,
`AcquireReclaimsStale`, `AcquireFollowsRunning`, and `AcquireGivesUp` for the loop in
`_acquire_gated` around it). Owners go through `LimitsRefuse`, `MarkWaiting`, the two
`OwnerSees...`, `VerifySignature`, `RecordRefusal`, `StartFunction`, `FunctionReturns` /
`Raises` / `TimesOut`, `Complete`, `CompleteRaises` and `Fail`; followers through `Follower...`;
`Resolve` is a human, `Die` a crash, `Tick` the clock. Writes of an outcome are `UPDATE ... WHERE
id = ?` in the code and look at no status here either. Three fields are history and not in the
tables: `epoch` counts the acquisitions of a row and so names an attempt, `result` is the epoch
of the run whose value is stored (the value itself does not matter, only whose it is), and
`sanctions` is the attempt that a human approved last.

**`AsyncExecutions`** adds callers that are tasks of an event loop. Their steps are those of
`Executions`; what is added is `Cancel` at any await. Every store call of a task is an
`asyncio.to_thread`, and a thread that has begun finishes for nobody: such calls are in
`detached`, and happen at any later time, while the caller may have started anew. A task that
gives up on its function cancels it (`AsyncFunctionTimesOut`), where a thread leaves it running.

**`SingleFlight`** is what an idempotent policy promises, without tables or clocks: a key is
claimed by one process at a time and a bounded number of times, a result is forever, and
whoever is handed a value is handed that one. A claim may also be made, or settled, with nobody
left to hear of it. **`ExecutionsSingleFlight`** and **`CasStoreSingleFlight`** map the stores
onto it; the runs of `AsyncExecutions` check the first under cancellation too.

**`CasStore`** is `acquire_or_get` of Postgres and Redis, where it is not one transaction: a
claim of an absent key, a read of a key that is held, a decision on the copy, a swap. Each
behaviour has a load: a backend, a policy, and who calls what for how long. A condition on a copy
(expired, out of backoff, stale) stays true as time passes, so decision and swap are one action
at the time of the swap; the read is another. `Complete` and `Fail` are the outcome of the
function and its write together.

**`Operators`** is what people do to calls under way, on each of the three backends: `tbay
approve` and `reject` (`Decide`), the dashboard's buttons, which check in one step and write in
another (`DeskChecks`, `DeskWrites`), `pause` and `resume`, and `tbay clear`. It extends
**`KillSwitch`**, so a call passes the two reads of `_check_kill_switch` before it acquires.
`mark_waiting_approval` is one action on the SQL backends and three on Redis; `clear` is one
transaction on the former and on the latter a scan that deletes key by key while everything else
goes on. Here an execution is named by its tool and a number, for the fresh UUID that it has: a
key may lead to a new execution while the owner of a cleared one is still to write. Acquiring is
one step and there is no clock; whoever polls may give up.

**`Volatile`** is the retry loop of non-idempotent calls, synchronous and not, each attempt with
its own row, its own approval, and the span that `otel.py` makes of its events. Any call of the store may
raise (`StoreFaults`), having written nothing: `_acquire_gated` and `_guard_limits` outside the
`try` of the loop (`AcquireGivesUp`, `LimitsRaise`), a poll, `mark_waiting_approval`, `complete` and
`fail` inside it (`OwnerGivesUpApproval`, `CompleteRaises`, `WriteRaises`). The history field `lost`
marks the rows of which the store refused such a write.

**`Limits`** is what owners do between the insert and the function: count the rows of the
window, then add up their amounts, in two reads, while others insert. It follows the SQL
backends. As in the code, a `max_calls` of 0 is no limit (`RateLimited`).

**`Inputs`** puts algorithms without concurrency to the test one input at a time. **`Policies`**
goes from a YAML entry through `_build_policy` to what the first call under it is let do.
**`Arguments`** binds the arguments of a call, makes its key, and redacts the copy that people
read. **`SemanticCache`** lists candidates as each backend does and picks the best by cosine,
kept exact as the square of a fraction. **`Listings`** is `list_executions` of each backend, `tbay
pending`, and the dashboard's merge of several stores. Each result is compared with a
declarative statement of what the documents say it is. Loops and walks are recursive functions, a
structure of arguments is a function from addresses to what is there, and `LIMIT` picks the latest
row again and again: the same as the code's loops and sorts, in a form that can be proved about.

**`MCExecutions`**, **`MCAsyncExecutions`**, **`MCCasStore`**, **`MCLimits`**, **`MCOperators`** and
**`MCInputs`** hold symmetry sets and the values a configuration cannot write down.
**`ExecutionsProofs`**, **`AsyncExecutionsProofs`**, **`CasStoreProofs`**, **`LimitsProofs`**,
**`KillSwitchProofs`**, **`OperatorsProofs`**, **`InputsProofs`** and **`VolatileProofs`** hold
the proofs. Operators marked *A mutant* are plausible mistakes in the definition that follows
them; a property is kept only if one of them violates it.

## The runs

| run | asks | shows |
|---|---|---|
| `mutating` | three processes, three keys, two slots, one retry, deaths | `OneOwner`, `OneValue`, `AttemptsBounded`, `SuccessIsFinal`; `CapHolds` on rows and `CapOnFunctions` on functions |
| `gated` | a thread and a task, one key that needs a signed approval, cancellation, hung functions, faults, deaths | `ApprovedBeforeRun`; `LateWriteIsOwners`; the single-flight promise is implemented; owners and followers return though nobody may ever decide |
| `leases` | two tasks, a lease, a TTL, dead owners and owners that only seem dead, abandoned writes | `OneReclaimPerLease`, `CacheHitIsFresh`, `FollowedIsNew` |
| `cas` | three processes on one key of Postgres or Redis; two on one or two keys with a slot, a lease and a TTL | `OneOwner`; the single-flight promise with a larger bound on claims; the lock keeps the cap of Postgres (`CapHolds`); on Redis the running set is exact (`RunningSetExact`); `RetriesAlmostBounded`; `OnlyStaleIsReclaimed` |
| `limits` | three rows, two calls and an amount of 3 per window | `RateHolds`, `BudgetHolds` |
| `volatile` | two tasks, a gated one with a timeout and one with neither, one slot, refusals, stores that raise, cancellations, deaths | `SuccessEndsTheLoop`, `NoSlotLeft`, `CapHolds`, `SpansTellOutcomes`, every call returns or its caller is gone |
| `operators` | two calls and people who decide, clear or pause, in eight settings over the backends | `ApprovedBeforeRun`, `NoStaleRejection`, `DecisionStands`, `ReasonIsOfThisRejection`, `OutcomeIsOwners`, `ClearLeavesNoWreck`, `PausedIsStoppedUnlessNarrowed`, `OnlyPausedIsStopped` |
| `inputs` | all policy entries over {0, 1, 2} and absent, null and unreadable values; spellings of calls; nested arguments; histories; pairs of stores | `WrittenIsInForce`, `RunsOnlyIfMeasured`, `SameCallSameKey`, `HiddenIffNamed`, `NearestIsServed`, `ListsShowNewest` |
| `approved_nobody`, `redis_cap`, `async_timeout`, `greenlight` | a sentence of the documentation each | the code does not do what it says, see below |

Some of the properties say less than their subject might suggest, since the code does.
`CapOnFunctions` is about the functions that run, those abandoned by an `execution_timeout` included; it
is checked where there is none, and no approvals, because with either it does not hold (*Known
disagreements*). `CacheHitIsFresh` is about what `acquire_or_get` hands out; followers are handed
what they find and look at no TTL (`client.py:605`, `:610`), and `FollowedIsNew` says what they may count
on instead: the value was recorded after they began to follow, unless the key needs approval, where
a follower waits twice. `OneReclaimPerLease` counts from the start of the clock: n lease periods
allow n reclaims, whenever they were. `NoSlotLeft` and `SpansTellOutcomes` except the rows that
the store refused to write, and `RateHolds` takes a row that is acquired again once, as
`BudgetHolds` does.

### Bounds

Every bound is a named constant. Three processes are an owner, the one who takes over, and one who
arrives with an old view; two keys are what a cap needs to be shared, and a third what a cap of two
needs to be reached: with a cap of one a caller could never follow the very row that fills it,
since the slots are counted before the row is looked at. `gated` and `leases` have two callers,
because a cancelled one leaves its thread behind and starts again, and so is an actor more. So
has `volatile`, where one call holds the slot that the other wants; both are tasks, since one that is
not cancelled takes the steps of a thread.
`MaxRetries = 1` has a retry and the refusal of the next. The clock has as many ticks as the
longest chain of waits in the run (`leases` has four: acquire, lease, TTL, and one more);
`LastCall` stops new calls so that the last ones can be seen to their end, and the loads of `cas`
have their own `until`. `MaxTime` stands for every later time: a deadline that would fall after it
falls just before it, so that no wait is endless only because the clock stopped.

In `operators`, `MaxIds = 2` is an execution and the one that takes its key after a `clear`; there
is one `clear` per behaviour; and who decides on the command line alone decides once per request
(with the dashboard, both may decide, in any order and again). The settings keep people apart whose
actions do not meet: deciding with retries, clearing with decisions, clearing with pauses. Two
callers are an owner and a follower, or the owners of two executions of one key.

`inputs` takes structures three deep with two names, histories of four rows around a limit of two
and a scan of three, and stores of four and two rows of which any may have been retried, around a
limit of two. That is every relation of a row to the limit, the scan, the threshold and the
expiry.

The runs that have liveness use no symmetry. `CHECK_DEADLOCK FALSE` is set where the bounds end: no
call starts after `LastCall`, so a finished run has nothing to do. `operators`, whose calls may
always be paused, decided on or called again, is checked for deadlock.

### Fairness

`FairSpec` of `Executions` assumes that the clock goes on and that a scheduled process takes its
next step if it has one (`Progress`: transactions, polls, recording). It assumes nothing of
humans, of `Die`, of limits, nor of the function, which may hang for good: `FunctionTimesOut` is
what brings its caller back, so the run sets `execution_timeout`. It has no cap: of waiters for a slot
no run asks whether they return. `AsyncFairSpec` is the same for
tasks, which an event loop schedules; it assumes nothing of cancellations nor of abandoned threads,
which may write at any time or never. `Volatile`, which has no clock, assumes instead that the
function of a caller with an `execution_timeout` ends one way or the other, and nothing of those in
`Untimed`.

## The proofs

All theorems are about every value of the constants that the named assumptions allow: any
number of processes, any finite set of keys, any policy. The assumptions are types only, and that
`None` (in `Policies` also `Missing` and `Bad`) is none of the values it is compared with. Of its
inputs `Inputs` assumes what Python and the stores see to: no two parameters have one name and only
parameters have defaults (`SignatureAssumption`), a part of a structure is in one and structures are
not infinitely deep (`StructuresAssumption`), vectors are of integers and at least one row may be
listed (`HistoriesAssumption`), tables are finite and no two stores hold the same row
(`StoresAssumption`). Some
properties are conditional by themselves, `LeaseTimeout = None => ...`, and some theorems have such
a hypothesis: these are settings of a policy, and each has a run.

Every inductive invariant below was an invariant of a TLC run before it was proved.

`ExecutionsProofs` rests on two reductions. `TInv` is type correctness, strengthened by the fact
that a process away from `idle` has a key. Then `StepKinds` shows that every step is one of five
kinds, whatever action it is: a process `Acquires` a row, an owner parks it (`MarkWaiting`), an
owner `Records` an outcome and leaves, a process `Moves` and the table stays, or everybody
`Rests`. Each invariant is then proved over five kinds and not thirty actions. What an
invariant needs of the table alone is coarser still: in `TableSteps` a row stays, starts anew or
settles, whoever did it; `GateSteps` says the same of the gate.

- `TypeCorrect`: `TypeOK`.
- `OneOwnerAlways`. `OneOwner` is inductive as it stands, given types, because it says both
  halves: two owners are equal, and while there is one the row is live. The second half is what
  keeps the next caller from acquiring.
- `SuccessIsFinalAlways` adds `NoExpiry` (without TTL no row expires), so that nobody acquires a
  row that succeeded; that no owner writes it follows from `OneOwner`.
- `OneValueAlways` adds that an answer names a key (`Answered`), and uses that a final row keeps
  its result.
- `AttemptsBoundedAlways` rests on `CountedAttempts`: without TTL and lease an epoch is a retry
  or the first.
- `OneReclaimPerLeaseAlways` rests on `PacedAttempts`: apart from retries, every acquisition took
  a lease, counted in `created_at`, and a stored result lives no shorter than that. It needs a
  TTL that is not shorter than the lease, and holds whatever late owners write.
- `CapHoldsAlways`: nothing but an acquisition makes a row RUNNING, and an acquisition compares
  the count in the same transaction.

- `CacheHitIsFreshAlways` rests on `ResultsExpire`: with a TTL a row that succeeded expires a TTL
  after it was recorded. What `acquire_or_get` answers from the table it answers before that.
- `FollowedIsNewAlways` rests on `Followed`: a follower's deadline is no later than `FollowTimeout`
  after now, and after the result of its row if there is one. A row is RUNNING when somebody
  begins to follow it (`Joins`), so every result it shows afterwards was recorded later; that no
  other row is followed without approvals is `Unparked`.
- `CapOnFunctionsAlways`, for policies without approval, lease and `execution_timeout`: a process
  whose function runs owns a RUNNING row (`UngatedRuns`), two of them own two (`OneOwner`), and
  nothing else leaves a function behind (`HungStep`). For tasks, which are cancelled at their
  timeout, `AsyncCapOnFunctions` needs the last condition of threads only.

`PromiseKept`, with `LeaseTimeout = None` and `CacheTtl = None`: Executions implements
`SingleFlight`. The invariant adds to the above that an owner's epoch is its row's
(`OwnerIsCurrent`), which is why the value an owner returns is the one the row gets. Each kind of
step is a step of `SingleFlight` or a stutter.

`KillSwitchProofs` proves both properties of the kill switch. `FollowsControls` says that the
history variables mean what they should; `KnowsItsTool`, that between its two reads a call whose
tool was never free can still find the tool's own row, unless operators lifted just that under a
global pause (`narrowed`). Operators may do anything; `PausedIsStoppedUnlessNarrowedAlways` says
that this is the one way past the two reads.

`OperatorsProofs` proves that `OpSpec` implements the specification of `KillSwitch`
(`OperatorsKillSwitch`): whatever calls, approvers, the dashboard and `clear` do, on whichever
backend, to the kill switch each step is one of its own or a stutter. The step that could fail is
`ClearDeletes`: that `clear` passes over the controls is what makes it a stutter. Both theorems of
`KillSwitchProofs` then hold of the composition, and are stated for it.

`VolatileProofs` proves the five safety properties of volatile calls. Nothing but the acquisition
looks at another call, so the invariant `VInv` is about one call: how many attempts and starts
there may still be (`Counted`), where a row may be RUNNING (`Slotted`) or SUCCEEDED (`Succeeded`),
and which spans are open where (`Traced`). Each part speaks of `late` too, the write that a thread
still owes for a cancelled task: such a write has a row to go to, of which the span is still open
or was never opened, and an acquisition that is still owed counts as an attempt. `GoodAppends`,
`GoodWrites`, `GoodWritesLate`, `GoodMoves` and `GoodDecided` say which changes of a call keep it,
and each action is one of them. For the cap, `AddsOneOrNone` shows that a step either adds one row
after the comparison or makes no row RUNNING.

`ApprovedBeforeRunAlways` of `ExecutionsProofs`: that a function which is gated runs
approved is the gate's own check; what could break is that the approval is of an earlier attempt
at the row. `Sanctioned` says of a process past the gate that its approval is there and is still
current, and `SanctionsAreCurrent` that what a human approved is the attempt the row is in. The
latter needs `OwnerIsCurrent`: nobody else acquires the row of a process that waits at the gate.

`CasStoreProofs` is laid out like `ExecutionsProofs`: every step of either backend is one in which
a caller `Wins` a record, an owner `Writes` its outcome, a caller `Moves` or all `Rests`. In
`Wins` the caller may decide on an old copy; `MayWin` says what the compare-and-swap still
guarantees then. Postgres and Redis are one specification with two ways through it, so each
theorem is about both.

- `OneOwnerAlways`, `OnlyStaleIsReclaimedAlways`, `RunningSetExactAlways`: from the four kinds and
  types alone.
- `CapHoldsAlways` rests on `LockKept`: who is between the count and the write has the advisory
  lock, and the count it made is still right. This is where a lock that is released too early, or
  is not taken on one of the paths, would break the proof.
- `RetriesAlmostBoundedAlways` rests on `Slack`. A straggler has a copy that still lets it retry.
  As long as a record has retries left anybody may become one; after that the number of
  stragglers only falls, and the process that made the last retry is none of them.

Its `PromiseKept` says that `CasStore` too implements `SingleFlight` without TTL and
lease. A caller answers from a copy it read earlier, which is right because what was a success
then is one now, with the same result (`CopiesLast`); that the number of claims stays below the
bound of the abstract specification is `Slack` again.

`AsyncExecutionsProofs` proves for tasks what `ExecutionsProofs` does for threads. The properties are
the same; what is new is that anything may be written late, by a thread whose task is gone. `Late`
says what such a thread can do to the store: start a row, settle the row it acquired, or nothing,
and no task moves. `LateWriteIsOwnersAlways` is what makes the rest go through. Its invariant
`Apart` puts tasks and threads on a par: of all that own the row of a key, tasks (`OneOwner`) and
threads that still owe a write (`LateInv`), there is one, and its epoch is the row's. `Apart` is
not inductive without `OwnerIsCurrent`: a task that is cancelled while it records hands its epoch
to its thread, so the epoch must have been right before. Then each invariant of `ExecutionsProofs`
is kept by `Kinds` as it was there, and by `Late` because `LateApart` says the row is nobody
else's. The theorems that start with `Async` are the properties that the runs `mutating`, `gated`
and `leases` check, and `AsyncPromiseKept` the refinement of `SingleFlight`.

`OperatorsProofs` also proves the six properties of the composition that are about approvals and
`clear` (`ApprovedBeforeRunAlways` to `DecisionStandsAlways`). One invariant, `OpInv`, serves all of
them (`WorkFitsRows`). It says where each call is, how that fits the row it works on (`Fits`), what
each row is by itself (`Sound`), that no two owners have one execution (`Alone`), that an execution
not born yet was never asked about (`Fresh`), and that keys lead to live executions (`Keyed`). The
history `asked` counts requests and ties the approval to the attempt: where a gated call has not
put its request yet, `asked + 1` is its attempt, afterwards `asked` is, and what is decided is of
the last request. On Redis the request is put in three round trips, so `Fits` is weaker there
(`marked`, `asked`); that is where the properties that hold on the SQL backends only part from
those that hold on all. Each action is of one of a few kinds (`Writes`, `Looks`, `Wins`, `Decides`, `Waits`,
`Wipes`), and each kind keeps the invariant by a lemma of its own.
`ClearLeavesNoWreckAlways` is why `whole` is in `Fits`: an owner whose execution was cleared writes
to nothing on SQL, and to a hash without an identity on Redis.

`LimitsProofs` proves `RateHoldsAlways`. Take any window, and in it the rows that passed the check
(`Passed`). The one that was counted last counted all of them, because a row is inserted before it
counts, stays in the store, and has its `created_at` renewed only forwards (`Renewed`). So their
number never exceeds the limit, for any window length and any clock.

`BudgetHoldsAlways` is the same argument for sums: what had started in the window before is among
what the last row sums (`SpentIsMetered`). `Total` is a sum over a set, defined by recursion on the
set. That the recursive function exists (`SumsExist`) and is the only one (`SumsAgree`), that the
order of the rows does not matter (`TotalWithout`) and that more rows do not meter less
(`TotalMonotone`) would be inductions; they are proved by a smallest counterexample instead
(`Minimal`, from the well-foundedness of the natural numbers in `WellFoundedInduction`).

`InputsProofs` proves all six properties of `Inputs`. Its invariant, `ComputedInv`, only says that an
output is what is computed of the input; what there is to prove is that each algorithm does what its
property says, for inputs of any size. These are inductions, which the provers cannot take from the
library. Two lemmas do instead: `Climb` (a set that holds 0 and with each number the next holds them
all, from the well-foundedness of the naturals), and `Recursion` (a function that is defined step by
step exists), after which what a loop has done after n steps is an invariant of n.

- `WrittenIsInForceAlways`, `RunsOnlyIfMeasuredAlways`: `LoadedInv` says that a policy in force is
  what the file says, and that a verdict is about one call under it. The first then needs that a
  product of positive numbers is not zero, since zero and null are the same to what follows; that is
  where `_build_policy` and the limits could disagree.
- `SameCallSameKeyAlways`: what `_bind_args` makes of a call that binds is a function on all
  parameters, and gives each what the call gives it (`BoundArguments`).
- `HiddenIffNamedAlways`: at depth n, `walk` has come to the parts of that depth which no key on the
  way to them hides, and has for each the keys of its address as its path (`WalkFacts`).
  `MaskedIsNamed` then says that what `should_mask` compares, name, path and pattern apart, is what
  the docstring promises.
- `NearestIsServedAlways`: the candidates are the first servable rows (`CandidatesListed`), and the
  best of them so far is one that none before it is above (`BestIsNearest`). Scores are fractions,
  and to compare them is transitive since no denominator is zero or negative (`AboveTransitive`,
  `DotFacts`).
- `ListsShowNewestAlways`: `LatestFirstFacts` is what `ORDER BY ... LIMIT` promises. A row that
  Redis leaves out has enough others born no earlier, by counting (`ListExecutionsFacts`). The
  dashboard truncates the merge of lists that were truncated before: a row that its store's full
  list left out is not newer than any on the page, as either all of that list is on the page, and
  then is the page, or one row of it is not, and the page is full of rows no older
  (`PageShowsNewest`).

Only model-checked: liveness (`CallsReturn`), since fairness and ENABLED are out of reach of TLAPS
here, and nothing else: each safety property that a run checks and does not expect to be violated
is a theorem. Conversely `AttemptsBounded` of `Volatile` is proved and no run checks it: it is about
the loop of one call by itself.

## Known disagreements

Four runs check a sentence of the documentation and find it violated:

- `approved_nobody`: `ApprovalTimeout` says "call it again if you still want it to happen"
  (`exceptions.py`). The timed-out row stays WAITING_APPROVAL without an owner; the next call
  follows it, a human approves, and nobody runs the function.
- `redis_cap`: the cap is "atomic on every backend" (`docs/policies.md`). On Redis the reclaim
  scripts take a slot without a look at the size of the running set, so a retry passes the cap.
- `async_timeout`: "A failed execution stores its error" (`docs/caching.md`). When the function of
  an asynchronous call raises `TimeoutError` by itself under a policy without
  `execution_timeout`, the handler formats `None` as a number and the row stays RUNNING
  (`client.py:822`). `NoSlotLeft` excepts these calls.
- `greenlight`: the log is "to see exactly what you're about to greenlight" (`cli.py`). A retry
  keeps the arguments of the key's first caller; under a `key_fn` that leaves arguments out, it
  runs with others than the ones that were shown (`sqlite_backend.py:254`).

The following were met while modelling. They show in the models too; no run is kept for them, and
the properties above are stated so as not to claim the opposite.

- `pause` is to "stop every guarded call (or just `tool_name`) ... until resume() is called"
  (`client.py:197`), and "while paused, guarded calls raise `ToolPaused` immediately"
  (`docs/controls.md`). The kill switch reads the global row first. An operator who pauses
  everything and then lifts a tool's own pause lets a call slip through between whose two reads
  that happens, and whose tool was paused all along (`client.py:229`). TLC finds that in seven
  states when `narrowed` is dropped from `PausedIsStoppedUnlessNarrowed`, which says that nothing else
  lets one through.
- "Rejected: the function never runs" (`docs/approvals.md`), but the retry loop of volatile calls
  catches `ApprovalRejected` and asks again under a new execution, which a human may approve
  (`client.py:700`).
- In the same loop `mark_waiting_approval` and `fail` are called inside the `try`
  (`client.py:626`, `:637`, `:642`, `:664`; `:781`, `:793`, `:798`, `:823`, `:828`). If the store raises there,
  the row stays RUNNING for good and keeps its slot (a volatile row is never acquired again, so no
  lease is looked at), its span stays open, and the loop starts the next attempt (`client.py:700`,
  `:858`). `NoSlotLeft` and `SpansTellOutcomes` except such rows (`lost`).
- An `execution_timeout` fails the row of a function that its thread goes on running
  (`client.py:530`). That is documented (`docs/policies.md`, `execution_timeout`), but its slot is free
  and its key may be retried meanwhile, so `max_concurrent` is not then "at most this many calls to the
  tool running at once".
- The cap is compared before the row is looked at. A dead owner's stale row that fills it turns
  away the very call that would reclaim it, although `docs/controls.md` says the lease bounds
  that damage; and a call whose result is stored may time out waiting for a slot
  (`sqlite_backend.py:185`).
- An approved function runs while its row says WAITING_APPROVAL, which `docs/design.md` takes as
  proof that it has not run, and which no cap counts (`client.py:658`).
- An owner presumed dead writes over the row of the attempt that replaced it, and a third caller
  may then retry within the lease of the second (`sqlite_backend.py:308-329`). With a lease the
  late write of a cancelled task does the same, hence the condition of `LateWriteIsOwners`.
- A decision may be changed after it was acted on: a follower that polls late is told that the
  call was rejected while the owner runs it (`sqlite_backend.py:347`).
- On Redis `mark_waiting_approval` writes the status first: a follower that polls before the
  approval is written is told the decision on the attempt before; the second round trip undoes a
  decision taken since the first, the third forgets who took one since the second; and the note of
  an earlier rejection stays until another is given (`redis_backend.py:335-341`). The runs check
  that a function nevertheless never starts on an earlier decision, and the rest on SQL alone.
- `clear` on Redis is not atomic. The outcome of a call under way makes a hash of its own, with no
  `id`, which nobody can read again; and a key whose execution is gone makes every later call of
  that key fail until the next `clear` (`redis_backend.py:264`, `:442`). `AcquireFindsWreck` is the
  call that meets one.
- Postgres and Redis swap on the status alone. A caller with an old copy makes one retry too many
  (hence `RetriesAlmostBounded`), or re-runs a result that was stored since its read
  (`postgres_backend.py:218`, `:233`).
- A retried call leaves the budget window its first run was metered in; Redis meters its retry in
  none; and refused calls stay in the sums that refuse the next (`sqlite_backend.py:256`, `:404`,
  `redis_backend.py:89`), while `base.py:166-171` says "never under-count spend". `BudgetHolds`
  therefore takes each call once, and so does `RateHolds`, while `docs/policies.md` says "max calls".
- `tbay pending` shows "every execution waiting ... oldest first" (`cli.py:78`) of the newest 200:
  it is the longest waiting that it leaves out. The log of Redis is "newest first" by the first
  acquisition, so a call that was retried lately may not be on the first page
  (`redis_backend.py:385`). `ListsShowNewest` says exactly that.
- `per: 0` loads and makes every call raise; `max_calls: 0` loads as no limit (`policy.py:216`,
  `client.py:385`).
  `WrittenIsInForce` takes positive numbers only.
- The span of an attempt whose approval times out, or which is cancelled, is never ended
  (`otel.py:76`). `SpansTellOutcomes` says of an open span that it is one of these, or that the
  store raised.

## Not modelled

- Schema creation and migration, connection failures and SQLite's busy timeout.
- The sorted sets behind the rate limit and the budget on Redis.
- The HMAC: a signature is valid or not (`Secret`), and none is replayed for another row.
- `HashingEmbedder`: vectors are inputs. The pattern of built-in secret names: a set.
- Decorators bind a policy and call the client. Context variables annotate rows; no control
  depends on them. Event sinks and subscriptions have no effect on a call but that their
  exceptions are swallowed. The printed lines, the HTML and the HTTP plumbing hold no state.
- `Policy.singleflight` is loaded and read by nothing.
- Amounts are natural numbers: neither negative amounts nor the NaN that `float()` accepts.
