------------------------------- MODULE Limits -------------------------------
(***************************************************************************)
(* rate_limit and budget of one tool and one tenant.  An owner's row is in *)
(* the store, with its created_at and the amount it meters, before         *)
(* _guard_limits looks: first it counts the rows of the last window, then  *)
(* it adds up their amounts, in two reads.  Owners of different rows do so *)
(* concurrently, and a failed row may be acquired again.                   *)
(*                                                                         *)
(* One row has one owner at a time (module Executions), so a row and its   *)
(* owner are one actor here.                                               *)
(***************************************************************************)
EXTENDS Integers, FiniteSets, FiniteSetsExt

CONSTANTS
  Keys,          \* rows
  None,
  Amount,        \* the metered argument of each row's call
  MaxRetries,
  RateMax,       \* Policy.rate_limit_max_calls, or None
  BudgetMax,     \* Policy.budget_max, or None
  Window,        \* rate_limit_window and budget_window
  MaxTime        \* bound: the clock stops here

ASSUME LimitsAssumption ==
  /\ None \notin Nat /\ IsFiniteSet(Keys)
  /\ Amount \in [Keys -> Nat] /\ MaxRetries \in Nat
  /\ RateMax \in Nat \cup {None} /\ BudgetMax \in Nat \cup {None}
  /\ Window \in Nat /\ MaxTime \in Nat

VARIABLES
  clock,
  call,     \* each row and where its owner is
  starts    \* history: every time a function started

vars == <<clock, call, starts>>

Call == [at : {"absent", "insert", "rate", "budget", "function", "failed", "refused",
               "done"},
         created : Nat,   \* created_at
         rated : Nat,     \* when its rate limit was checked, until its budget is
         retries : Nat]

\* A start of the function: the row, the acquisition it belongs to, and when its
\* limits were checked.
Start == [key : Keys, retries : Nat, created : Nat, rated : Nat, budgeted : Nat]

TypeOK ==
  /\ clock \in Nat
  /\ call \in [Keys -> Call]
  /\ starts \subseteq Start

Init ==
  /\ clock = 0
  /\ call = [k \in Keys |-> [at |-> "absent", created |-> 0, rated |-> 0,
                             retries |-> 0]]
  /\ starts = {}

At(k, place) == call[k].at = place
GoTo(k, place) == call' = [call EXCEPT ![k].at = place]

\* time.time() is read before the row is there.
Stamp(k) ==
  /\ At(k, "absent")
  /\ call' = [call EXCEPT ![k] = [at |-> "insert", created |-> clock,
                                  rated |-> 0, retries |-> 0]]
  /\ UNCHANGED <<clock, starts>>

Insert(k) ==
  /\ At(k, "insert")
  /\ GoTo(k, "rate")
  /\ UNCHANGED <<clock, starts>>

MayReacquire(k) == (At(k, "failed") \/ At(k, "refused")) /\ call[k].retries < MaxRetries

\* acquire_or_get takes a failed row again: created_at is renewed, and with it the
\* time the row and its amount are counted at.
Reacquire(k) ==
  /\ MayReacquire(k)
  /\ call' = [call EXCEPT ![k].at = "rate", ![k].created = clock,
                          ![k].retries = @ + 1]
  /\ UNCHANGED <<clock, starts>>
-----------------------------------------------------------------------------
Inserted == {k \in Keys : ~At(k, "absent") /\ ~At(k, "insert")}

\* (A mutant: the window is open at its start.)
CountedStrictly == {k \in Inserted : call[k].created > clock - Window}

\* count_since: whatever became of the row.
Counted == {k \in Inserted : call[k].created >= clock - Window}

\* (A mutant: a call that failed has spent nothing.)
MeteredUnfailed == {k \in Inserted : call[k].created >= clock - Window /\ ~At(k, "failed")}

\* sum_budget_since: whatever became of the row.
Metered == {k \in Inserted : call[k].created >= clock - Window}

Total(keys) == MapThenSumSet(LAMBDA k : Amount[k], keys)

\* A maximum of 0 is none: the code asks whether there is one by its truth.
RateLimited == RateMax # None /\ RateMax # 0

RatePasses(k) ==
  /\ At(k, "rate")
  /\ RateLimited => Cardinality(Counted) <= RateMax
  /\ call' = [call EXCEPT ![k].at = "budget", ![k].rated = clock]
  /\ UNCHANGED <<clock, starts>>

RateRefuses(k) ==
  /\ At(k, "rate")
  /\ RateLimited /\ Cardinality(Counted) > RateMax
  /\ GoTo(k, "refused")
  /\ UNCHANGED <<clock, starts>>

BudgetPasses(k) ==
  /\ At(k, "budget")
  /\ BudgetMax # None => Total(Metered) <= BudgetMax
  /\ call' = [call EXCEPT ![k].at = "function", ![k].rated = 0]
  /\ starts' = starts \cup {[key |-> k, retries |-> call[k].retries,
                             created |-> call[k].created, rated |-> call[k].rated,
                             budgeted |-> clock]}
  /\ UNCHANGED clock

BudgetRefuses(k) ==
  /\ At(k, "budget")
  /\ BudgetMax # None /\ Total(Metered) > BudgetMax
  /\ call' = [call EXCEPT ![k].at = "refused", ![k].rated = 0]
  /\ UNCHANGED <<clock, starts>>

Succeed(k) == At(k, "function") /\ GoTo(k, "done") /\ UNCHANGED <<clock, starts>>
Fail(k) == At(k, "function") /\ GoTo(k, "failed") /\ UNCHANGED <<clock, starts>>

Tick == clock < MaxTime /\ clock' = clock + 1 /\ UNCHANGED <<call, starts>>

Next ==
  \/ \E k \in Keys : Stamp(k) \/ Insert(k) \/ Reacquire(k)
  \/ \E k \in Keys : RatePasses(k) \/ RateRefuses(k)
  \/ \E k \in Keys : BudgetPasses(k) \/ BudgetRefuses(k)
  \/ \E k \in Keys : Succeed(k) \/ Fail(k)
  \/ Tick

Spec == Init /\ [][Next]_vars
-----------------------------------------------------------------------------
(* Within any window, from the created_at of the first call to the check   *)
(* of the last one:                                                        *)

Rated(t) == {s.key : s \in {x \in starts : x.created >= t /\ x.rated <= t + Window}}
Budgeted(t) == {s \in starts : s.created >= t /\ s.budgeted <= t + Window}

\* However the inserts and the checks of concurrent owners interleave, no more
\* than rate_limit_max_calls different calls get past the check.
RateHolds == RateLimited => \A t \in 0..MaxTime : Cardinality(Rated(t)) <= RateMax

\* However they interleave, the calls that run do not meter more than budget_max,
\* each call taken once.
BudgetHolds ==
  BudgetMax # None => \A t \in 0..MaxTime : Total({s.key : s \in Budgeted(t)}) <= BudgetMax
=============================================================================
