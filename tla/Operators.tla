----------------------------- MODULE Operators ------------------------------
(***************************************************************************)
(* What people do to calls under way: tbay approve and reject, the buttons *)
(* of the dashboard, tbay pause and resume, and tbay clear, over each of   *)
(* the three backends.  A call first passes the kill switch (module        *)
(* KillSwitch) and then acquires, asks, runs and records.                  *)
(*                                                                         *)
(* A tool has one idempotency key here.  Acquiring is one step (CasStore   *)
(* has its steps); there is no clock, so whoever polls may give up, and no *)
(* lease.  An execution is named by its tool and how many there were       *)
(* before, which stands for a fresh UUID.                                  *)
(***************************************************************************)
EXTENDS KillSwitch, Naturals, FiniteSets

CONSTANTS
  Settings,    \* the situations of a run, of which a behaviour has one
  ArgsOf,      \* the arguments of each caller; key_fn leaves out what differs
  MaxIds       \* bound: executions per tool

\* Which backend, which tools are called and which of them need approval, max_retries,
\* and do operators use the kill switch, tbay clear, the dashboard, reasons?
Setting == [backend : {"sqlite", "postgres", "redis"}, tools : SUBSET Tools,
            gated : SUBSET Tools, retries : Nat, pauses : BOOLEAN, clears : BOOLEAN,
            dashboard : BOOLEAN, reasons : BOOLEAN]

ASSUME OperatorsAssumption ==
  \A s \in Settings : s \in Setting /\ s.gated \subseteq s.tools
ASSUME NoneAssumption == None \notin Tools \X Nat
ASSUME BoundAssumption == MaxIds \in Nat

VARIABLES
  setting,
  keys,       \* the execution that each tool's key leads to, or None
  execs,      \* the executions
  approvals,  \* their approvals
  born,       \* how many executions each tool has had
  work,       \* where each call is once it has passed the kill switch
  desk,       \* a request of the dashboard between its check and its write
  wipe        \* tbay clear: its progress, and on Redis the keys SCAN owes it

store == <<keys, execs, approvals, born>>
people == <<setting, desk, wipe>>
opVars == <<vars, store, work, people>>
-----------------------------------------------------------------------------
(* "owner" and "by" are history: who acquired the execution last, and who  *)
(* recorded its outcome; so are "asked", how often its approval was        *)
(* requested, and "of", the request a decision came after.  A hash without *)
(* its id field is not "whole".                                            *)

Ids == Tools \X (1..MaxIds)
Statuses == {"RUNNING", "WAITING_APPROVAL", "SUCCEEDED", "FAILED"}
Outcomes == {"value", "error", "rejected", "timeout", "broken"}

NoExec == [status |-> "none", whole |-> FALSE, attempt |-> 0, shown |-> None,
           owner |-> None, by |-> None]
NoApproval == [status |-> "none", of |-> 0, resolver |-> FALSE, note |-> 0, asked |-> 0]
NoWork == [at |-> "acquire", id |-> None, attempt |-> 0, heard |-> 0, reason |-> 0]
NoDesk == [id |-> None, approved |-> FALSE, reason |-> FALSE]
NoWipe == [at |-> "none", owed |-> {}, passed |-> {}]

OpInit ==
  /\ Init
  /\ setting \in Settings
  /\ keys = [t \in Tools |-> None]
  /\ execs = [id \in Ids |-> NoExec]
  /\ approvals = [id \in Ids |-> NoApproval]
  /\ born = [t \in Tools |-> 0]
  /\ work = [c \in Callers |-> NoWork]
  /\ desk = NoDesk
  /\ wipe = NoWipe

Redis == setting.backend = "redis"
Tool(c) == caller[c].tool
Exec(c) == execs[work[c].id]
Approval(c) == approvals[work[c].id]

In(c, place) == At(c, "runs") /\ work[c].at = place
To(c, place) == work' = [work EXCEPT ![c].at = place]
Done(c, outcome) == work' = [work EXCEPT ![c] = [NoWork EXCEPT !.at = outcome]]
Live(id) == execs[id].status # "none"
-----------------------------------------------------------------------------
(* Acquiring.                                                              *)

\* (A mutant: an id made of the key instead of uuid4().)
KeyedId(c) == <<Tool(c), 1>>

NewId(c) == <<Tool(c), born[Tool(c)] + 1>>

Own(c, id, attempt) ==
  work' = [work EXCEPT ![c] = [NoWork EXCEPT !.at = "owner", !.id = id, !.attempt = attempt]]

Join(c, id, place) ==
  work' = [work EXCEPT ![c] = [NoWork EXCEPT !.at = place, !.id = id,
                                             !.attempt = execs[id].attempt]]

AcquireNew(c) ==
  /\ In(c, "acquire") /\ keys[Tool(c)] = None /\ born[Tool(c)] < MaxIds
  /\ keys' = [keys EXCEPT ![Tool(c)] = NewId(c)]
  /\ execs' = [execs EXCEPT ![NewId(c)] =
                 [status |-> "RUNNING", whole |-> TRUE, attempt |-> 1,
                  shown |-> ArgsOf[c], owner |-> c, by |-> None]]
  /\ born' = [born EXCEPT ![Tool(c)] = @ + 1]
  /\ Own(c, NewId(c), 1)
  /\ UNCHANGED <<vars, approvals, people>>

\* What the row holds of its first caller, the arguments shown to people among
\* it, stays.
AcquireRetries(c) ==
  /\ In(c, "acquire")
  /\ \E id \in {keys[Tool(c)]} \ {None} :
       /\ execs[id].whole /\ execs[id].status = "FAILED" /\ execs[id].attempt <= setting.retries
       /\ execs' = [execs EXCEPT ![id] =
                      [execs[id] EXCEPT !.status = "RUNNING", !.owner = c,
                                        !.attempt = execs[id].attempt + 1, !.by = None]]
       /\ Own(c, id, execs[id].attempt + 1)
  /\ UNCHANGED <<vars, keys, approvals, born, people>>

AcquireAnswers(c) ==
  /\ In(c, "acquire")
  /\ \E id \in {keys[Tool(c)]} \ {None} :
       /\ execs[id].whole
       /\ \/ execs[id].status = "SUCCEEDED" /\ Done(c, "value")
          \/ /\ execs[id].status = "FAILED" /\ execs[id].attempt > setting.retries
             /\ Done(c, "error")
          \/ execs[id].status = "RUNNING" /\ Join(c, id, "follow")
          \/ execs[id].status = "WAITING_APPROVAL" /\ Join(c, id, "followApproval")
  /\ UNCHANGED <<vars, store, people>>

\* Redis after a clear: the key leads to no hash, which reads as a full tool until
\* concurrency_wait_timeout, or to one whose fields KeyError is raised for.
AcquireFindsWreck(c) ==
  /\ In(c, "acquire")
  /\ \E id \in {keys[Tool(c)]} \ {None} :
       \/ ~Live(id) /\ Done(c, "timeout")
       \/ Live(id) /\ ~execs[id].whole /\ Done(c, "broken")
  /\ UNCHANGED <<vars, store, people>>
-----------------------------------------------------------------------------
(* The owner.  On the SQL backends a write to a row that is gone matches   *)
(* nothing; HSET makes a new hash of the fields it sets.                   *)

Update(id, fields) ==
  execs' = IF Live(id) \/ Redis THEN [execs EXCEPT ![id] = fields] ELSE execs

NeedsApproval(c) == Tool(c) \in setting.gated

Pending(id) ==
  [approvals EXCEPT ![id] = [approvals[id] EXCEPT !.status = "pending", !.resolver = FALSE,
                                                  !.asked = approvals[id].asked + 1]]

\* (A mutant: the row first, in a transaction of its own.)
MarkWaitingRowFirst(c) ==
  /\ In(c, "owner") /\ NeedsApproval(c)
  /\ Update(work[c].id, [Exec(c) EXCEPT !.status = "WAITING_APPROVAL"])
  /\ To(c, "marked")
  /\ UNCHANGED <<vars, keys, approvals, born, people>>

\* (A mutant: INSERT ... ON CONFLICT DO NOTHING.)
MarkWaitingOnce(c) ==
  /\ ~Redis
  /\ In(c, "owner") /\ NeedsApproval(c)
  /\ Update(work[c].id, [Exec(c) EXCEPT !.status = "WAITING_APPROVAL"])
  /\ approvals' = IF Approval(c).status = "none" THEN Pending(work[c].id)
                  ELSE [approvals EXCEPT ![work[c].id].asked = @ + 1]
  /\ To(c, "approval")
  /\ UNCHANGED <<vars, keys, born, people>>

\* One transaction; on Postgres the approval of a deleted row breaks its foreign key.
MarkWaiting(c) ==
  /\ ~Redis
  /\ In(c, "owner") /\ NeedsApproval(c)
  /\ Live(work[c].id) \/ setting.backend = "sqlite"
  /\ Update(work[c].id, [Exec(c) EXCEPT !.status = "WAITING_APPROVAL"])
  /\ approvals' = Pending(work[c].id)
  /\ To(c, "approval")
  /\ UNCHANGED <<vars, keys, born, people>>

MarkWaitingRaises(c) ==
  /\ setting.backend = "postgres"
  /\ In(c, "owner") /\ NeedsApproval(c) /\ ~Live(work[c].id)
  /\ Done(c, "error")
  /\ UNCHANGED <<vars, store, people>>

\* Redis: _finish, then HSET, then HDEL.
MarkStatus(c) ==
  /\ Redis
  /\ In(c, "owner") /\ NeedsApproval(c)
  /\ Update(work[c].id, [Exec(c) EXCEPT !.status = "WAITING_APPROVAL"])
  /\ To(c, "marked")
  /\ UNCHANGED <<vars, keys, approvals, born, people>>

MarkPending(c) ==
  /\ In(c, "marked")
  /\ approvals' = [approvals EXCEPT ![work[c].id] =
                     [Approval(c) EXCEPT !.status = "pending", !.asked = Approval(c).asked + 1]]
  /\ To(c, "asked")
  /\ UNCHANGED <<vars, keys, execs, born, people>>

MarkUnresolved(c) ==
  /\ In(c, "asked")
  /\ approvals' = [approvals EXCEPT ![work[c].id].resolver = FALSE]
  /\ To(c, "approval")
  /\ UNCHANGED <<vars, keys, execs, born, people>>

Hear(c, place) ==
  work' = [work EXCEPT ![c] = [@ EXCEPT !.at = place, !.heard = Approval(c).of]]

OwnerSeesApproved(c) ==
  /\ In(c, "approval") /\ Approval(c).status = "approved"
  /\ Hear(c, "function")
  /\ UNCHANGED <<vars, store, people>>

OwnerSeesRejected(c) ==
  /\ In(c, "approval") /\ Approval(c).status = "rejected"
  /\ Hear(c, "decline")
  /\ UNCHANGED <<vars, store, people>>

\* _rejection_note reads the approval again.
ReadNote(c) ==
  /\ In(c, "decline")
  /\ work' = [work EXCEPT ![c] = [@ EXCEPT !.at = "declined", !.reason = Approval(c).note]]
  /\ UNCHANGED <<vars, store, people>>

Record(c, status) ==
  /\ Update(work[c].id, [Exec(c) EXCEPT !.status = status, !.by = c])
  /\ UNCHANGED <<vars, keys, approvals, born, people>>

Decline(c) == In(c, "declined") /\ Record(c, "FAILED") /\ To(c, "rejected")

OwnerGivesUpApproval(c) ==
  /\ In(c, "approval") /\ Approval(c).status \in {"none", "pending"}
  /\ Done(c, "timeout")
  /\ UNCHANGED <<vars, store, people>>

StartFunction(c) ==
  /\ In(c, "owner") /\ ~NeedsApproval(c)
  /\ To(c, "function")
  /\ UNCHANGED <<vars, store, people>>

\* (A mutant: the outcome is inserted if it is not there.)
CompleteInserts(c) ==
  /\ In(c, "function")
  /\ execs' = [execs EXCEPT ![work[c].id] = [@ EXCEPT !.status = "SUCCEEDED", !.by = c]]
  /\ Done(c, "value")
  /\ UNCHANGED <<vars, keys, approvals, born, people>>

Complete(c) == In(c, "function") /\ Record(c, "SUCCEEDED") /\ Done(c, "value")
Fail(c) == In(c, "function") /\ Record(c, "FAILED") /\ Done(c, "error")
-----------------------------------------------------------------------------
(* Followers.                                                              *)

FollowerSeesApproved(c) ==
  /\ In(c, "followApproval") /\ Approval(c).status = "approved"
  /\ To(c, "follow")
  /\ UNCHANGED <<vars, store, people>>

FollowerSeesRejected(c) ==
  /\ In(c, "followApproval") /\ Approval(c).status = "rejected"
  /\ Hear(c, "rejected")
  /\ UNCHANGED <<vars, store, people>>

FollowerSeesOutcome(c) ==
  /\ In(c, "follow")
  /\ \/ Exec(c).whole /\ Exec(c).status = "SUCCEEDED" /\ Done(c, "value")
     \/ Exec(c).whole /\ Exec(c).status = "FAILED" /\ Done(c, "error")
     \/ Live(work[c].id) /\ ~Exec(c).whole /\ Done(c, "broken")
  /\ UNCHANGED <<vars, store, people>>

FollowerGivesUp(c) ==
  /\ \/ In(c, "followApproval") /\ Approval(c).status \in {"none", "pending"}
     \/ In(c, "follow") /\ Exec(c).status \notin {"SUCCEEDED", "FAILED"}
                        /\ (Live(work[c].id) => Exec(c).whole)
  /\ Done(c, "timeout")
  /\ UNCHANGED <<vars, store, people>>

CallReturns(c) ==
  /\ work[c].at \in Outcomes \/ At(c, "blocked")
  /\ Return(c)
  /\ work' = [work EXCEPT ![c] = NoWork]
  /\ UNCHANGED <<store, people>>
-----------------------------------------------------------------------------
(* People.  They decide on executions they have seen in a list, which may  *)
(* be gone by now.                                                         *)

\* (A mutant: a reason that is not given does not replace the one there.)
ResolvedKeeping(id, approved, reason) ==
  [approvals[id] EXCEPT
     !.status = IF approved THEN "approved" ELSE "rejected",
     !.of = approvals[id].asked, !.resolver = TRUE,
     !.note = IF reason THEN approvals[id].asked ELSE @]

\* The SQL backends write a missing reason as NULL; on Redis it is not written.
Resolved(id, approved, reason) ==
  [approvals[id] EXCEPT
     !.status = IF approved THEN "approved" ELSE "rejected",
     !.of = approvals[id].asked, !.resolver = TRUE,
     !.note = IF reason THEN approvals[id].asked ELSE IF Redis THEN @ ELSE 0]

\* resolve_approval: an UPDATE, which needs the row, or HSET, which does not.
Resolve(id, approved, reason) ==
  approvals' = IF approvals[id].status # "none" \/ Redis
               THEN [approvals EXCEPT ![id] = Resolved(id, approved, reason)]
               ELSE approvals

\* tbay approve takes no reason.  (Bound: who is alone in deciding decides once.)
Decide(id, approved, reason) ==
  /\ approvals[id].status \in {"approved", "rejected"} => setting.dashboard
  /\ id[1] \in setting.gated /\ id[2] <= born[id[1]] /\ (reason => setting.reasons /\ ~approved)
  /\ Resolve(id, approved, reason)
  /\ UNCHANGED <<vars, keys, execs, born, work, people>>

\* The dashboard looks first, and writes in a second step; one thread per request.
DeskChecks(id, approved, reason) ==
  /\ setting.dashboard /\ (reason => setting.reasons)
  /\ desk = NoDesk /\ id[1] \in setting.gated /\ approvals[id].status = "pending"
  /\ desk' = [id |-> id, approved |-> approved, reason |-> reason]
  /\ UNCHANGED <<vars, store, work, setting, wipe>>

DeskWrites ==
  /\ desk # NoDesk
  /\ Resolve(desk.id, desk.approved, desk.reason)
  /\ desk' = NoDesk
  /\ UNCHANGED <<vars, keys, execs, born, work, setting, wipe>>

\* clear() of the SQL backends is one transaction, and leaves the controls.
ClearTables ==
  /\ setting.clears /\ ~Redis /\ wipe = NoWipe
  /\ keys' = [t \in Tools |-> None]
  /\ execs' = [id \in Ids |-> NoExec]
  /\ approvals' = [id \in Ids |-> [NoApproval EXCEPT !.asked = approvals[id].asked]]
  /\ wipe' = [wipe EXCEPT !.at = "over"]
  /\ UNCHANGED <<vars, born, work, setting, desk>>

\* Redis: SCAN returns every key that is there all the time, and may return one
\* that appears meanwhile; DEL follows in batches.
RedisKeys ==
  {<<"key", t>> : t \in {u \in Tools : keys[u] # None}}
    \cup {<<"exec", id>> : id \in {i \in Ids : Live(i)}}
    \cup {<<"approval", id>> : id \in {i \in Ids : approvals[i].status # "none"}}
    \cup (IF controls = {} THEN {} ELSE {<<"controls", None>>})

\* (A mutant: the hash of controls goes with the rest.)
NothingSurvives == {}

\* The keys that clear() passes over.
Survivors == {<<"controls", None>>}

ClearStarts ==
  /\ setting.clears /\ Redis /\ wipe = NoWipe
  /\ wipe' = [at |-> "scanning", owed |-> RedisKeys \ Survivors, passed |-> {}]
  /\ UNCHANGED <<vars, store, work, setting, desk>>

ClearDeletes(key) ==
  /\ wipe.at = "scanning" /\ wipe.owed # {}
  /\ key \in (RedisKeys \ Survivors) \ wipe.passed
  /\ keys' = [t \in Tools |-> IF key = <<"key", t>> THEN None ELSE keys[t]]
  /\ execs' = [id \in Ids |-> IF key = <<"exec", id>> THEN NoExec ELSE execs[id]]
  /\ approvals' = [id \in Ids |-> IF key = <<"approval", id>>
                                  THEN [NoApproval EXCEPT !.asked = approvals[id].asked]
                                  ELSE approvals[id]]
  /\ controls' = IF key = <<"controls", None>> THEN {} ELSE controls
  /\ wipe' = [wipe EXCEPT !.owed = @ \ {key}, !.passed = @ \cup {key}]
  /\ UNCHANGED <<caller, history, born, work, setting, desk>>

ClearEnds ==
  /\ wipe.at = "scanning" /\ wipe.owed = {}
  /\ wipe' = [NoWipe EXCEPT !.at = "over"]
  /\ UNCHANGED <<vars, store, work, setting, desk>>
-----------------------------------------------------------------------------
Switch ==
  /\ \/ \E key \in Tools \cup {All} : setting.pauses /\ (Pause(key) \/ Resume(key))
     \/ \E c \in Callers, tool \in Tools : tool \in setting.tools /\ Call(c, tool)
     \/ \E c \in Callers : ReadAll(c) \/ ReadTool(c)
  /\ UNCHANGED <<store, work, people>>

Acquire(c) == AcquireNew(c) \/ AcquireRetries(c) \/ AcquireAnswers(c) \/ AcquireFindsWreck(c)

Ask(c) ==
  \/ MarkWaiting(c) \/ MarkWaitingRaises(c)
  \/ MarkStatus(c) \/ MarkPending(c) \/ MarkUnresolved(c)
  \/ OwnerSeesApproved(c) \/ OwnerSeesRejected(c) \/ ReadNote(c) \/ Decline(c)
  \/ OwnerGivesUpApproval(c)

Follow(c) ==
  \/ FollowerSeesApproved(c) \/ FollowerSeesRejected(c)
  \/ FollowerSeesOutcome(c) \/ FollowerGivesUp(c)

Clear == ClearTables \/ ClearStarts \/ (\E key \in RedisKeys : ClearDeletes(key)) \/ ClearEnds

OpNext ==
  \/ Switch
  \/ \E c \in Callers : Acquire(c) \/ Ask(c) \/ Follow(c)
  \/ \E c \in Callers : StartFunction(c) \/ Complete(c) \/ Fail(c) \/ CallReturns(c)
  \/ \E id \in Ids, approved, reason \in BOOLEAN :
       Decide(id, approved, reason) \/ DeskChecks(id, approved, reason)
  \/ DeskWrites
  \/ Clear

OpSpec == OpInit /\ [][OpNext]_opVars
-----------------------------------------------------------------------------
\* Whatever was written in between, a gated function runs only on a decision taken
\* after the request of this very attempt was in the store: not on that of an
\* earlier attempt, over the three round trips of Redis, a clear, or a dashboard
\* that decides on what it saw earlier.
ApprovedBeforeRun ==
  \A c \in Callers :
    In(c, "function") /\ NeedsApproval(c) => work[c].heard = work[c].attempt

\* On the SQL backends a call that joins an execution is told "rejected" only of
\* the attempt it joined or a later one.  (Redis: the decision on the attempt
\* before stands until MarkPending.)
NoStaleRejection ==
  ~Redis => \A c \in Callers :
    In(c, "rejected") => work[c].heard >= work[c].attempt

\* On the SQL backends a decision on a waiting execution is not made undecided, nor
\* is it forgotten who took it.  (Redis: MarkPending overwrites what was decided
\* since MarkStatus, and MarkUnresolved the name of who decided since MarkPending.)
DecisionStands ==
  [][\A id \in Ids :
       /\ ~Redis /\ execs[id].status = "WAITING_APPROVAL"
       /\ approvals[id].status \in {"approved", "rejected"}
       => \/ approvals'[id].status = "none"
          \/ approvals'[id].status # "pending" /\ approvals'[id].resolver]_opVars

\* On the SQL backends the reason in ApprovalRejected was given for this attempt.
\* (Redis: a reason stays until another one is given.)
ReasonIsOfThisRejection ==
  ~Redis => \A c \in Callers :
    In(c, "rejected") /\ work[c].reason # 0 => work[c].reason = work[c].attempt

\* An outcome that can be read is that of the call that owns the execution, the
\* late owners of cleared ones included.
OutcomeIsOwners ==
  \A id \in Ids :
    execs[id].whole /\ execs[id].status \in {"SUCCEEDED", "FAILED"}
      => execs[id].by = execs[id].owner

\* On the SQL backends clear() leaves nothing half there, and nothing of before it
\* comes back: what is stored is whole and its key leads to it.
ClearLeavesNoWreck ==
  ~Redis => \A id \in Ids : Live(id) => execs[id].whole /\ keys[id[1]] = id
-----------------------------------------------------------------------------
\* cli.py: look at the arguments in the log before tbay approve, to see exactly
\* what you're about to greenlight.
WhatIsShownRuns ==
  \A c \in Callers :
    In(c, "function") /\ NeedsApproval(c) /\ Live(work[c].id) => Exec(c).shown = ArgsOf[c]
=============================================================================
