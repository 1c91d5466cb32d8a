-------------------------- MODULE ExecutionsProofs --------------------------
(* Proofs about Executions, for every set of callers and keys, every policy *)
(* and no bound on time but the one the module names.                      *)
EXTENDS ExecutionsSingleFlight, FiniteSetTheorems, TLAPS

\* A process that is inside run() has a key.
Placed == \A c \in Callers : caller[c].at # "idle" => caller[c].key \in Keys

TInv == TypeOK /\ Placed

LEMMA DeadlineType ==
  ASSUME clock \in Nat, NEW wait \in Nat
  PROVE  Deadline(wait) \in Nat
BY BoundAssumption, SMT DEF Deadline

LEMMA GoToType ==
  ASSUME TInv, NEW c \in Callers, caller[c].at # "idle",
         NEW place \in Places, NEW deadline \in Nat, GoTo(c, place, deadline)
  PROVE  caller' \in [Callers -> Local] /\ Placed'
BY DEF TInv, TypeOK, Placed, GoTo, Local

LEMMA LeaveType ==
  ASSUME TInv, NEW c \in Callers, caller[c].at # "idle",
         NEW kind \in Outcomes, NEW epoch \in Nat, Leave(c, kind, epoch)
  PROVE  caller' \in [Callers -> Local] /\ Placed' /\ answer' \in [Callers -> Answer]
BY DEF TInv, TypeOK, Placed, Leave, Local, Idle, Places, Answer, KeyOf

LEMMA WriteType ==
  ASSUME TInv, NEW k \in Keys, NEW row \in Row, Write(k, row)
  PROVE  executions' \in [Keys -> Row]
BY DEF TInv, TypeOK, Write

LEMMA OwnType ==
  ASSUME TInv, NEW c \in Callers, caller[c].at # "idle", NEW row \in Row, Own(c, row)
  PROVE  TInv'
<1>1. caller[c].key \in Keys
  BY DEF TInv, Placed
<1>2. executions' \in [Keys -> Row]
  BY <1>1, WriteType DEF Own, KeyOf
<1>3. row.epoch \in Nat
  BY DEF Row
<1>4. caller' \in [Callers -> Local] /\ Placed'
  BY <1>1, <1>3 DEF TInv, TypeOK, Placed, Own, KeyOf, Local, Places
<1> QED BY <1>2, <1>4 DEF TInv, TypeOK, Own

-----------------------------------------------------------------------------
(* The rows a transaction writes.                                          *)

LEMMA NoRowType == NoRow \in Row
BY DEF NoRow, Row

LEMMA RestartedFacts ==
  ASSUME clock \in Nat, NEW row \in Row, NEW retries \in Nat, NEW expires \in Nat \cup {None}
  PROVE  /\ Restarted(row, retries, expires) \in Row
         /\ Restarted(row, retries, expires).status = "RUNNING"
         /\ Restarted(row, retries, expires).created = clock
         /\ Restarted(row, retries, expires).epoch = row.epoch + 1
         /\ Restarted(row, retries, expires).retries = retries
         /\ Restarted(row, retries, expires).expires = expires
BY DEF Restarted, Row, Live

LEMMA ExpiresAtType ==
  ASSUME clock \in Nat
  PROVE  ExpiresAt \in Nat \cup {None} /\ (CacheTtl = None => ExpiresAt = None)
BY PolicyAssumption DEF ExpiresAt

LEMMA CompletedFacts ==
  ASSUME clock \in Nat, NEW row \in Row, NEW epoch \in Nat
  PROVE  LET new == Completed(row, epoch)
         IN /\ new \in Row /\ new.status = "SUCCEEDED" /\ new.result = epoch
            /\ new.created = row.created /\ new.epoch = row.epoch /\ new.retries = row.retries
            /\ new.expires = ExpiresAt /\ new.finished = clock
BY ExpiresAtType DEF Completed, Row, Finished

LEMMA FailedFacts ==
  ASSUME clock \in Nat, NEW row \in Row
  PROVE  /\ Failed(row) \in Row /\ Failed(row).status = "FAILED"
         /\ Failed(row).created = row.created /\ Failed(row).epoch = row.epoch
         /\ Failed(row).retries = row.retries /\ Failed(row).expires = row.expires
BY DEF Failed, Row, Finished

LEMMA WaitingFacts ==
  ASSUME NEW row \in Row
  PROVE  LET new == [row EXCEPT !.status = "WAITING_APPROVAL"]
         IN /\ new \in Row /\ new.status = "WAITING_APPROVAL"
            /\ new.created = row.created /\ new.epoch = row.epoch
            /\ new.retries = row.retries /\ new.expires = row.expires
BY DEF Row, Live

-----------------------------------------------------------------------------
(* Type correctness.                                                       *)

LEMMA RowOfType ==
  ASSUME TInv, NEW c \in Callers, caller[c].at # "idle"
  PROVE  /\ KeyOf(c) \in Keys /\ RowOf(c) \in Row /\ clock \in Nat
         /\ RowOf(c).epoch \in Nat /\ RowOf(c).retries \in Nat /\ RowOf(c).result \in Nat
         /\ RowOf(c).expires \in Nat \cup {None}
         /\ caller[c].epoch \in Nat
BY DEF TInv, TypeOK, Placed, KeyOf, RowOf, Row, Local

\* Rows are acquired with rows.
LEMMA AcquiredType ==
  ASSUME TInv, NEW c \in Callers, At(c, "acquire"),
         NEW row \in Row, NEW retries \in Nat, NEW expires \in Nat \cup {None},
         Own(c, Restarted(row, retries, expires))
  PROVE  TInv'
<1>1. clock \in Nat
  BY DEF TInv, TypeOK
<1>2. Restarted(row, retries, expires) \in Row
  BY <1>1, RestartedFacts
<1> QED BY <1>2, OwnType DEF At

LEMMA AcquireType ==
  ASSUME TInv, NEW c \in Callers, AcquireStep(c)
  PROVE  TInv'
<1> USE RowOfType DEF At
<1>1. CASE AcquireGivesUp(c)
  BY <1>1, LeaveType DEF AcquireGivesUp, Outcomes, TInv, TypeOK
<1>2. CASE AcquireInserts(c)
  BY <1>2, AcquiredType DEF AcquireInserts
<1>3. CASE AcquireUsesCached(c)
  BY <1>3, LeaveType DEF AcquireUsesCached, Outcomes, TInv, TypeOK
<1>4. CASE AcquireReclaimsExpired(c)
  BY <1>4, AcquiredType DEF AcquireReclaimsExpired
<1>5. CASE AcquireRetries(c)
  <2>1. RowOf(c) \in Row /\ RowOf(c).retries + 1 \in Nat /\ RowOf(c).expires \in Nat \cup {None}
    BY <1>5 DEF AcquireRetries
  <2> QED BY <1>5, <2>1, AcquiredType DEF AcquireRetries
<1>6. CASE AcquireReplaysError(c)
  BY <1>6, LeaveType DEF AcquireReplaysError, Outcomes, TInv, TypeOK
<1>7. CASE AcquireFollowsApproval(c)
  BY <1>7, GoToType, DeadlineType, PolicyAssumption DEF AcquireFollowsApproval, Places, TInv, TypeOK
<1>8. CASE AcquireReclaimsStale(c)
  BY <1>8, AcquiredType DEF AcquireReclaimsStale
<1>9. CASE AcquireFollowsRunning(c)
  BY <1>9, GoToType, DeadlineType, PolicyAssumption DEF AcquireFollowsRunning, Places, TInv, TypeOK
<1> QED BY <1>1, <1>2, <1>3, <1>4, <1>5, <1>6, <1>7, <1>8, <1>9 DEF AcquireStep

\* An owner writes its row and leaves.
LEMMA RecordType ==
  ASSUME TInv, NEW c \in Callers, caller[c].at # "idle",
         NEW row \in Row, Write(KeyOf(c), row),
         NEW kind \in Outcomes, NEW epoch \in Nat, Leave(c, kind, epoch),
         UNCHANGED <<clock, approvals, hung>>
  PROVE  TInv'
<1>1. KeyOf(c) \in Keys
  BY RowOfType
<1>2. executions' \in [Keys -> Row]
  BY <1>1, WriteType
<1> QED BY <1>2, LeaveType DEF TInv, TypeOK

LEMMA ApprovalType ==
  ASSUME TInv, NEW c \in Callers, ApprovalStep(c)
  PROVE  TInv'
<1> USE RowOfType DEF At
<1>1. CASE MarkWaiting(c)
  <2>1. KeyOf(c) \in Keys /\ RowOf(c) \in Row /\ caller[c].at # "idle"
    BY <1>1 DEF MarkWaiting
  <2>2. executions' \in [Keys -> Row]
    BY <1>1, <2>1, WaitingFacts, WriteType DEF MarkWaiting
  <2>3. approvals' \in [Keys -> Approval]
    BY <1>1, <2>1 DEF MarkWaiting, Pended, TInv, TypeOK, Approval
  <2>4. Deadline(ApprovalTimeout) \in Nat
    BY DeadlineType, PolicyAssumption DEF TInv, TypeOK
  <2>5. caller' \in [Callers -> Local] /\ Placed'
    BY <1>1, <2>1, <2>4, GoToType DEF MarkWaiting, Places
  <2> QED BY <1>1, <2>2, <2>3, <2>5 DEF MarkWaiting, TInv, TypeOK
<1>2. CASE OwnerSeesApproved(c)
  BY <1>2, GoToType DEF OwnerSeesApproved, Places, TInv, TypeOK
<1>3. CASE OwnerSeesRejected(c)
  BY <1>3, GoToType DEF OwnerSeesRejected, Places, TInv, TypeOK
<1>4. CASE OwnerGivesUpApproval(c)
  BY <1>4, LeaveType DEF OwnerGivesUpApproval, Outcomes, TInv, TypeOK
<1>5. CASE VerifySignature(c)
  <2>1. CASE GoTo(c, "refused", 0)
    BY <1>5, <2>1, GoToType DEF VerifySignature, Places, TInv, TypeOK
  <2>2. CASE GoTo(c, "function", IF ExecTimeout = None THEN 0 ELSE Deadline(ExecTimeout))
    <3>1. (IF ExecTimeout = None THEN 0 ELSE Deadline(ExecTimeout)) \in Nat
      BY DeadlineType, PolicyAssumption DEF TInv, TypeOK
    <3> QED BY <1>5, <2>2, <3>1, GoToType DEF VerifySignature, Places, TInv, TypeOK
  <2> QED BY <1>5, <2>1, <2>2 DEF VerifySignature
<1>6. CASE RecordRefusal(c)
  <2>1. RowOf(c) \in Row /\ clock \in Nat /\ caller[c].at # "idle"
    BY <1>6 DEF RecordRefusal
  <2> QED BY <1>6, <2>1, FailedFacts, RecordType DEF RecordRefusal, Outcomes
<1> QED BY <1>1, <1>2, <1>3, <1>4, <1>5, <1>6 DEF ApprovalStep

LEMMA RecordStepType ==
  ASSUME TInv, NEW c \in Callers, RecordStep(c)
  PROVE  TInv'
<1> USE RowOfType DEF At
<1>1. CASE StartFunction(c)
  <2>1. (IF ExecTimeout = None THEN 0 ELSE Deadline(ExecTimeout)) \in Nat
    BY DeadlineType, PolicyAssumption DEF TInv, TypeOK
  <2> QED BY <1>1, <2>1, GoToType DEF StartFunction, Places, TInv, TypeOK
<1>2. CASE FunctionTimesOut(c)
  <2>1. KeyOf(c) \in Keys /\ caller[c].epoch \in Nat
    BY <1>2 DEF FunctionTimesOut
  <2> QED BY <1>2, <2>1, GoToType DEF FunctionTimesOut, Places, TInv, TypeOK
<1>3. CASE Complete(c)
  <2>1. RowOf(c) \in Row /\ clock \in Nat /\ caller[c].at # "idle" /\ caller[c].epoch \in Nat
    BY <1>3 DEF Complete
  <2> QED BY <1>3, <2>1, CompletedFacts, RecordType DEF Complete, Outcomes
<1>4. CASE Fail(c)
  <2>1. RowOf(c) \in Row /\ clock \in Nat /\ caller[c].at # "idle"
    BY <1>4 DEF Fail
  <2> QED BY <1>4, <2>1, FailedFacts, RecordType DEF Fail, Outcomes
<1> QED BY <1>1, <1>2, <1>3, <1>4 DEF RecordStep

LEMMA FollowType ==
  ASSUME TInv, NEW c \in Callers, FollowStep(c)
  PROVE  TInv'
<1> USE RowOfType DEF At
<1>1. CASE FollowerSeesApproved(c)
  <2>1. Deadline(ApprovalTimeout) \in Nat
    BY DeadlineType, PolicyAssumption DEF TInv, TypeOK
  <2> QED BY <1>1, <2>1, GoToType DEF FollowerSeesApproved, Places, TInv, TypeOK
<1>2. CASE FollowerSeesRejected(c)
  BY <1>2, LeaveType DEF FollowerSeesRejected, Outcomes, TInv, TypeOK
<1>3. CASE FollowerGivesUpApproval(c)
  BY <1>3, LeaveType DEF FollowerGivesUpApproval, Outcomes, TInv, TypeOK
<1>4. CASE FollowerSeesResult(c)
  <2>1. CASE Leave(c, "value", RowOf(c).result)
    <3>1. RowOf(c).result \in Nat /\ caller[c].at # "idle"
      BY <1>4 DEF FollowerSeesResult
    <3> QED BY <1>4, <2>1, <3>1, LeaveType DEF FollowerSeesResult, Outcomes, TInv, TypeOK
  <2>2. CASE Leave(c, "storedError", 0)
    BY <1>4, <2>2, LeaveType DEF FollowerSeesResult, Outcomes, TInv, TypeOK
  <2> QED BY <1>4, <2>1, <2>2 DEF FollowerSeesResult
<1>5. CASE FollowerGivesUp(c)
  BY <1>5, LeaveType DEF FollowerGivesUp, Outcomes, TInv, TypeOK
<1> QED BY <1>1, <1>2, <1>3, <1>4, <1>5 DEF FollowStep

LEMMA ChanceType ==
  ASSUME TInv, NEW c \in Callers, Chance(c)
  PROVE  TInv'
<1> USE RowOfType DEF At
<1>1. CASE LimitsRefuse(c)
  <2>1. RowOf(c) \in Row /\ clock \in Nat /\ caller[c].at # "idle"
    BY <1>1 DEF LimitsRefuse
  <2> QED BY <1>1, <2>1, FailedFacts, RecordType DEF LimitsRefuse, Outcomes
<1>2. CASE FunctionReturns(c)
  BY <1>2, GoToType DEF FunctionReturns, Places, TInv, TypeOK
<1>3. CASE FunctionRaises(c)
  BY <1>3, GoToType DEF FunctionRaises, Places, TInv, TypeOK
<1>4. CASE CompleteRaises(c)
  BY <1>4, GoToType DEF CompleteRaises, Places, TInv, TypeOK
<1>5. CASE Die(c)
  BY <1>5 DEF Die, Idle, Local, Places, Placed, TInv, TypeOK
<1> QED BY <1>1, <1>2, <1>3, <1>4, <1>5 DEF Chance

LEMMA TypeInit == Init => TInv
BY NoRowType DEF Init, TInv, TypeOK, Placed, NoApproval, Approval, Idle, Local, Places,
                 NoAnswer, Answer, Outcomes

LEMMA TypeStep == TInv /\ [Next]_vars => TInv'
<1> SUFFICES ASSUME TInv, [Next]_vars PROVE TInv'
  OBVIOUS
<1>1. ASSUME NEW c \in Callers, NEW k \in Keys, Run(c, k) PROVE TInv'
  <2>1. (IF MaxConcurrent = None THEN 0 ELSE Deadline(SlotWait)) \in Nat
    BY DeadlineType, PolicyAssumption DEF TInv, TypeOK
  <2> QED BY <1>1, <2>1
          DEF Run, TInv, TypeOK, Placed, Local, Places, NoAnswer, Answer, Outcomes
<1>2. ASSUME NEW c \in Callers, Progress(c) PROVE TInv'
  BY <1>2, AcquireType, ApprovalType, RecordStepType, FollowType DEF Progress
<1>3. ASSUME NEW c \in Callers, Chance(c) PROVE TInv'
  BY <1>3, ChanceType
<1>4. ASSUME NEW k \in Keys, NEW approve \in BOOLEAN, NEW sign \in BOOLEAN,
             Resolve(k, approve, sign)
      PROVE  TInv'
  <2>1. executions[k].epoch \in Nat /\ approvals[k].sanctions \in Nat
    BY DEF TInv, TypeOK, Row, Approval
  <2>2. approvals' \in [Keys -> Approval]
    BY <1>4, <2>1 DEF Resolve, TInv, TypeOK, Approval
  <2> QED BY <1>4, <2>2 DEF Resolve, TInv, TypeOK, Placed
<1>5. ASSUME NEW run \in hung, HungFunctionEnds(run) PROVE TInv'
  BY <1>5 DEF HungFunctionEnds, TInv, TypeOK, Placed
<1>6. CASE Tick
  BY <1>6 DEF Tick, TInv, TypeOK, Placed
<1>7. CASE UNCHANGED vars
  BY <1>7 DEF vars, TInv, TypeOK, Placed
<1> QED BY <1>1, <1>2, <1>3, <1>4, <1>5, <1>6, <1>7 DEF Next

\* Every reachable state is well typed: no write of any interleaving leaves a row,
\* an approval or a process in a state the code has no name for.
THEOREM TypeCorrect == Spec => []TypeOK
<1>1. Spec => []TInv
  BY TypeInit, TypeStep, PTL DEF Spec
<1>2. TInv => TypeOK
  BY DEF TInv
<1> QED BY <1>1, <1>2, PTL

-----------------------------------------------------------------------------
(* The many actions come down to five kinds of step, as far as owners, rows *)
(* and answers are concerned.                                              *)

Owning(c) == caller[c].at \in OwnerPlaces

\* A process becomes an owner.
Acquires(c) ==
  \/ AcquireInserts(c)
  \/ AcquireReclaimsExpired(c)
  \/ AcquireRetries(c)
  \/ AcquireReclaimsStale(c)

\* An owner writes the outcome and leaves.
Records(c) ==
  /\ Owning(c) /\ caller[c].at # "idle"
  /\ \/ /\ Write(KeyOf(c), Completed(RowOf(c), caller[c].epoch))
        /\ Leave(c, "value", caller[c].epoch)
     \/ /\ Write(KeyOf(c), Failed(RowOf(c)))
        /\ \E kind \in Outcomes \ {"value"} : Leave(c, kind, 0)
  /\ UNCHANGED clock

\* A process moves and the table does not change: nobody becomes an owner, and a
\* value is handed out only if it is stored.
Moves(c) ==
  \E local \in Local :
    /\ caller' = [caller EXCEPT ![c] = local]
    /\ local.at \in OwnerPlaces =>
         Owning(c) /\ local.key = caller[c].key /\ local.epoch = caller[c].epoch
    /\ \/ answer' = answer /\ (local.at # "idle" => caller[c].at # "idle")
       \/ \E a \in Answer :
            /\ answer' = [answer EXCEPT ![c] = a]
            /\ a.kind = "value" =>
                 /\ a.key = caller[c].key /\ a.key \in Keys /\ local.at = "idle"
                 /\ executions[a.key].status = "SUCCEEDED"
                 /\ executions[a.key].result = a.epoch
                 /\ caller[c].at = "acquire" => ~Expired(executions[a.key])
    /\ UNCHANGED <<clock, executions>>

\* Nobody moves; time may pass.
Rests ==
  /\ clock' \in Nat /\ clock' >= clock
  /\ UNCHANGED <<executions, caller, answer>>

LEMMA GoToMoves ==
  ASSUME TInv, NEW c \in Callers, caller[c].at # "idle",
         NEW place \in Places, NEW deadline \in Nat, GoTo(c, place, deadline),
         place \in OwnerPlaces => Owning(c),
         UNCHANGED <<clock, executions, answer>>
  PROVE  Moves(c)
<1> DEFINE local == [caller[c] EXCEPT !.at = place, !.deadline = deadline]
<1>1. caller[c] \in Local
  BY DEF TInv, TypeOK
<1>2. local \in Local /\ local.at = place /\ local.key = caller[c].key /\ local.epoch = caller[c].epoch
  BY <1>1 DEF Local
<1>3. caller' = [caller EXCEPT ![c] = local]
  BY DEF GoTo
<1> QED BY <1>2, <1>3 DEF Moves

LEMMA LeaveMoves ==
  ASSUME TInv, NEW c \in Callers, caller[c].at # "idle",
         NEW kind \in Outcomes, NEW epoch \in Nat, Leave(c, kind, epoch),
         kind = "value" => /\ RowOf(c).status = "SUCCEEDED" /\ RowOf(c).result = epoch
                           /\ caller[c].at = "acquire" => ~Expired(RowOf(c)),
         UNCHANGED <<clock, executions>>
  PROVE  Moves(c)
<1> DEFINE a == [kind |-> kind, key |-> KeyOf(c), epoch |-> epoch]
<1>1. KeyOf(c) \in Keys
  BY RowOfType
<1>2. a \in Answer /\ answer' = [answer EXCEPT ![c] = a]
  BY <1>1 DEF Answer, Leave
<1>3. a.kind = "value" =>
        /\ a.key = caller[c].key /\ a.key \in Keys
        /\ executions[a.key].status = "SUCCEEDED" /\ executions[a.key].result = a.epoch
        /\ caller[c].at = "acquire" => ~Expired(executions[a.key])
  BY <1>1 DEF RowOf, KeyOf
<1>4. /\ Idle \in Local /\ Idle.at \notin OwnerPlaces /\ Idle.at = "idle"
      /\ caller' = [caller EXCEPT ![c] = Idle]
  BY DEF Idle, Local, Places, OwnerPlaces, Leave
<1> QED BY <1>2, <1>3, <1>4 DEF Moves

LEMMA AcquireKinds ==
  ASSUME TInv, NEW c \in Callers, AcquireStep(c)
  PROVE  Acquires(c) \/ Moves(c)
<1> USE RowOfType DEF At
<1>1. CASE AcquireGivesUp(c)
  BY <1>1, LeaveMoves DEF AcquireGivesUp, Outcomes
<1>2. CASE AcquireUsesCached(c)
  <2>1. RowOf(c).result \in Nat
    BY <1>2 DEF AcquireUsesCached
  <2> QED BY <1>2, <2>1, LeaveMoves DEF AcquireUsesCached, Outcomes
<1>3. CASE AcquireReplaysError(c)
  BY <1>3, LeaveMoves DEF AcquireReplaysError, Outcomes
<1>4. CASE AcquireFollowsApproval(c)
  BY <1>4, GoToMoves, DeadlineType, PolicyAssumption
     DEF AcquireFollowsApproval, Places, OwnerPlaces, TInv, TypeOK
<1>5. CASE AcquireFollowsRunning(c)
  BY <1>5, GoToMoves, DeadlineType, PolicyAssumption
     DEF AcquireFollowsRunning, Places, OwnerPlaces, TInv, TypeOK
<1> QED BY <1>1, <1>2, <1>3, <1>4, <1>5 DEF AcquireStep, Acquires

LEMMA ApprovalKinds ==
  ASSUME TInv, NEW c \in Callers, ApprovalStep(c)
  PROVE  MarkWaiting(c) \/ Records(c) \/ Moves(c)
<1> USE RowOfType DEF At
<1>1. CASE OwnerSeesApproved(c)
  BY <1>1, GoToMoves DEF OwnerSeesApproved, Places, OwnerPlaces, Owning
<1>2. CASE OwnerSeesRejected(c)
  BY <1>2, GoToMoves DEF OwnerSeesRejected, Places, OwnerPlaces, Owning
<1>3. CASE OwnerGivesUpApproval(c)
  BY <1>3, LeaveMoves DEF OwnerGivesUpApproval, Outcomes
<1>4. CASE VerifySignature(c)
  <2>1. CASE GoTo(c, "refused", 0)
    BY <1>4, <2>1, GoToMoves DEF VerifySignature, Places, OwnerPlaces, Owning
  <2>2. CASE GoTo(c, "function", IF ExecTimeout = None THEN 0 ELSE Deadline(ExecTimeout))
    <3>1. (IF ExecTimeout = None THEN 0 ELSE Deadline(ExecTimeout)) \in Nat
      BY DeadlineType, PolicyAssumption DEF TInv, TypeOK
    <3> QED BY <1>4, <2>2, <3>1, GoToMoves DEF VerifySignature, Places, OwnerPlaces, Owning
  <2> QED BY <1>4, <2>1, <2>2 DEF VerifySignature
<1>5. CASE RecordRefusal(c)
  <2>1. "rejected" \in Outcomes \ {"value"}
    BY DEF Outcomes
  <2> QED BY <1>5, <2>1 DEF RecordRefusal, Records, Owning, OwnerPlaces
<1> QED BY <1>1, <1>2, <1>3, <1>4, <1>5 DEF ApprovalStep

LEMMA RecordKinds ==
  ASSUME TInv, NEW c \in Callers, RecordStep(c)
  PROVE  Records(c) \/ Moves(c)
<1> USE RowOfType DEF At
<1>1. CASE StartFunction(c)
  <2>1. (IF ExecTimeout = None THEN 0 ELSE Deadline(ExecTimeout)) \in Nat
    BY DeadlineType, PolicyAssumption DEF TInv, TypeOK
  <2> QED BY <1>1, <2>1, GoToMoves DEF StartFunction, Places, OwnerPlaces, Owning
<1>2. CASE FunctionTimesOut(c)
  BY <1>2, GoToMoves DEF FunctionTimesOut, Places, OwnerPlaces, Owning
<1>3. CASE Complete(c)
  BY <1>3 DEF Complete, Records, Owning, OwnerPlaces
<1>4. CASE Fail(c)
  <2>1. "error" \in Outcomes \ {"value"}
    BY DEF Outcomes
  <2> QED BY <1>4, <2>1 DEF Fail, Records, Owning, OwnerPlaces
<1> QED BY <1>1, <1>2, <1>3, <1>4 DEF RecordStep

LEMMA FollowKinds ==
  ASSUME TInv, NEW c \in Callers, FollowStep(c)
  PROVE  Moves(c)
<1> USE RowOfType DEF At
<1>1. CASE FollowerSeesApproved(c)
  BY <1>1, GoToMoves, DeadlineType, PolicyAssumption
     DEF FollowerSeesApproved, Places, OwnerPlaces, TInv, TypeOK
<1>2. CASE FollowerSeesRejected(c)
  BY <1>2, LeaveMoves DEF FollowerSeesRejected, Outcomes
<1>3. CASE FollowerGivesUpApproval(c)
  BY <1>3, LeaveMoves DEF FollowerGivesUpApproval, Outcomes
<1>4. CASE FollowerSeesResult(c)
  <2>1. RowOf(c).result \in Nat /\ caller[c].at # "idle"
    BY <1>4 DEF FollowerSeesResult
  <2>2. CASE RowOf(c).status = "SUCCEEDED"
    BY <1>4, <2>1, <2>2, LeaveMoves DEF FollowerSeesResult, Outcomes
  <2>3. CASE RowOf(c).status # "SUCCEEDED"
    BY <1>4, <2>1, <2>3, LeaveMoves DEF FollowerSeesResult, Outcomes
  <2> QED BY <2>2, <2>3
<1>5. CASE FollowerGivesUp(c)
  BY <1>5, LeaveMoves DEF FollowerGivesUp, Outcomes
<1> QED BY <1>1, <1>2, <1>3, <1>4, <1>5 DEF FollowStep

LEMMA ChanceKinds ==
  ASSUME TInv, NEW c \in Callers, Chance(c)
  PROVE  Records(c) \/ Moves(c)
<1> USE RowOfType DEF At
<1>1. CASE LimitsRefuse(c)
  <2>1. "limited" \in Outcomes \ {"value"}
    BY DEF Outcomes
  <2> QED BY <1>1, <2>1 DEF LimitsRefuse, Records, Owning, OwnerPlaces
<1>2. CASE FunctionReturns(c)
  BY <1>2, GoToMoves DEF FunctionReturns, Places, OwnerPlaces, Owning
<1>3. CASE FunctionRaises(c)
  BY <1>3, GoToMoves DEF FunctionRaises, Places, OwnerPlaces, Owning
<1>4. CASE CompleteRaises(c)
  BY <1>4, GoToMoves DEF CompleteRaises, Places, OwnerPlaces, Owning
<1>5. CASE Die(c)
  <2>1. Idle \in Local /\ Idle.at \notin OwnerPlaces /\ Idle.at = "idle"
    BY DEF Idle, Local, Places, OwnerPlaces
  <2> QED BY <1>5, <2>1 DEF Die, Moves
<1> QED BY <1>1, <1>2, <1>3, <1>4, <1>5 DEF Chance

Kinds ==
  \/ \E c \in Callers : Acquires(c) \/ MarkWaiting(c) \/ Records(c) \/ Moves(c)
  \/ Rests

LEMMA StepKinds ==
  ASSUME TInv, [Next]_vars
  PROVE  Kinds
<1>1. ASSUME NEW c \in Callers, NEW k \in Keys, Run(c, k) PROVE Moves(c)
  <2> DEFINE local == [at |-> "acquire", key |-> k, epoch |-> 0,
                       deadline |-> IF MaxConcurrent = None THEN 0 ELSE Deadline(SlotWait)]
  <2>1. (IF MaxConcurrent = None THEN 0 ELSE Deadline(SlotWait)) \in Nat
    BY DeadlineType, PolicyAssumption DEF TInv, TypeOK
  <2>2. local \in Local /\ local.at \notin OwnerPlaces
    BY <2>1 DEF Local, Places, OwnerPlaces
  <2>3. NoAnswer \in Answer /\ NoAnswer.kind # "value"
    BY DEF NoAnswer, Answer, Outcomes
  <2> HIDE DEF local
  <2>4. caller' = [caller EXCEPT ![c] = local] /\ answer' = [answer EXCEPT ![c] = NoAnswer]
    BY <1>1 DEF Run, local
  <2> QED BY <1>1, <2>2, <2>3, <2>4 DEF Run, Moves
<1>2. ASSUME NEW c \in Callers, Progress(c)
      PROVE  Acquires(c) \/ MarkWaiting(c) \/ Records(c) \/ Moves(c)
  BY <1>2, AcquireKinds, ApprovalKinds, RecordKinds, FollowKinds DEF Progress
<1>3. ASSUME NEW k \in Keys, NEW approve \in BOOLEAN, NEW sign \in BOOLEAN,
             Resolve(k, approve, sign)
      PROVE  Rests
  BY <1>3 DEF Resolve, Rests, TInv, TypeOK
<1>4. ASSUME NEW run \in hung, HungFunctionEnds(run) PROVE Rests
  BY <1>4 DEF HungFunctionEnds, Rests, TInv, TypeOK
<1>5. CASE Tick
  BY <1>5 DEF Kinds, Tick, Rests, TInv, TypeOK
<1>6. CASE UNCHANGED vars
  BY <1>6 DEF Kinds, vars, Rests, TInv, TypeOK
<1> QED BY <1>1, <1>2, <1>3, <1>4, <1>5, <1>6, ChanceKinds DEF Next, Kinds

-----------------------------------------------------------------------------
(* One owner per key.                                                      *)

LEMMA OneOwnerInit == Init => OneOwner
BY DEF Init, OneOwner, Owners, Idle, OwnerPlaces

\* What a process that becomes an owner leaves behind, and what it found.
Starts(c, k, retries, expires) ==
  LET new == Restarted(executions[k], retries, expires)
  IN /\ caller[c].at = "acquire" /\ k = caller[c].key /\ SlotFree
     /\ executions' = [executions EXCEPT ![k] = new]
     /\ new \in Row /\ new.status = "RUNNING" /\ new.created = clock
     /\ new.epoch = executions[k].epoch + 1
     /\ new.retries = retries /\ new.expires = expires
     /\ caller' = [caller EXCEPT ![c] = [at |-> "owner", key |-> k,
                                         epoch |-> new.epoch, deadline |-> 0]]
     /\ UNCHANGED <<clock, approvals, answer, hung>>

MayStart(row, retries, expires) ==
  \/ row.status = "ABSENT" /\ retries = 0 /\ expires = None
  \/ row.status = "SUCCEEDED" /\ Expired(row) /\ retries = row.retries /\ expires = None
  \/ row.status = "FAILED" /\ MayRetry(row) /\ retries = row.retries + 1 /\ expires = row.expires
  \/ row.status = "RUNNING" /\ Stale(row) /\ retries = row.retries /\ expires = row.expires

LEMMA AcquireFacts ==
  ASSUME TInv, NEW c \in Callers, Acquires(c)
  PROVE  \E k \in Keys, retries \in Nat, expires \in Nat \cup {None} :
           Starts(c, k, retries, expires) /\ MayStart(executions[k], retries, expires)
<1>1. caller[c].at = "acquire" /\ SlotFree
  BY DEF Acquires, AcquireInserts, AcquireReclaimsExpired, AcquireRetries, AcquireReclaimsStale, At
<1> DEFINE k == caller[c].key
<1>2. k \in Keys /\ executions[k] \in Row /\ clock \in Nat /\ executions[k].retries \in Nat
      /\ executions[k].retries + 1 \in Nat /\ executions[k].expires \in Nat \cup {None}
      /\ RowOf(c) = executions[k]
  BY <1>1, RowOfType DEF RowOf, KeyOf
<1>3. ASSUME NEW retries \in Nat, NEW expires \in Nat \cup {None},
             Own(c, Restarted(executions[k], retries, expires))
      PROVE  Starts(c, k, retries, expires)
  <2> DEFINE new == Restarted(executions[k], retries, expires)
  <2>1. /\ new \in Row /\ new.status = "RUNNING" /\ new.created = clock
        /\ new.epoch = executions[k].epoch + 1 /\ new.retries = retries /\ new.expires = expires
    BY <1>2 DEF Restarted, Row, Live
  <2> HIDE DEF new
  <2>2. /\ executions' = [executions EXCEPT ![k] = new]
        /\ caller' = [caller EXCEPT ![c] = [at |-> "owner", key |-> k,
                                            epoch |-> new.epoch, deadline |-> 0]]
        /\ UNCHANGED <<clock, approvals, answer, hung>>
    BY <1>3 DEF Own, Write, KeyOf, new
  <2> QED BY <1>1, <2>1, <2>2 DEF Starts, new
<1>4. ASSUME NEW retries \in Nat, NEW expires \in Nat \cup {None},
             Own(c, Restarted(executions[k], retries, expires)),
             MayStart(executions[k], retries, expires)
      PROVE  \E kk \in Keys, r \in Nat, x \in Nat \cup {None} :
               Starts(c, kk, r, x) /\ MayStart(executions[kk], r, x)
  BY <1>2, <1>3, <1>4
<1> HIDE DEF k
<1>5. CASE AcquireInserts(c)
  <2>1. Own(c, Restarted(executions[k], 0, None)) /\ MayStart(executions[k], 0, None)
    BY <1>2, <1>5 DEF AcquireInserts, MayStart
  <2> QED BY <2>1, <1>4
<1>6. CASE AcquireReclaimsExpired(c)
  <2>1. /\ Own(c, Restarted(executions[k], executions[k].retries, None))
        /\ MayStart(executions[k], executions[k].retries, None)
    BY <1>2, <1>6 DEF AcquireReclaimsExpired, MayStart
  <2> QED BY <1>2, <2>1, <1>4
<1>7. CASE AcquireRetries(c)
  <2>1. /\ Own(c, Restarted(executions[k], executions[k].retries + 1, executions[k].expires))
        /\ MayStart(executions[k], executions[k].retries + 1, executions[k].expires)
    BY <1>2, <1>7 DEF AcquireRetries, MayStart
  <2> QED BY <1>2, <2>1, <1>4
<1>8. CASE AcquireReclaimsStale(c)
  <2>1. /\ Own(c, Restarted(executions[k], executions[k].retries, executions[k].expires))
        /\ MayStart(executions[k], executions[k].retries, executions[k].expires)
    BY <1>2, <1>8 DEF AcquireReclaimsStale, MayStart
  <2> QED BY <1>2, <2>1, <1>4
<1> QED BY <1>5, <1>6, <1>7, <1>8 DEF Acquires

\* What an owner that records leaves behind.
Ends(c, k, new, a) ==
  /\ k = caller[c].key /\ Owning(c)
  /\ executions' = [executions EXCEPT ![k] = new]
  /\ new.status \in Finished
  /\ new.created = executions[k].created /\ new.epoch = executions[k].epoch
  /\ new.retries = executions[k].retries
  /\ CacheTtl = None /\ executions[k].expires = None => new.expires = None
  /\ caller' = [caller EXCEPT ![c] = Idle]
  /\ clock' = clock
  /\ answer' = [answer EXCEPT ![c] = a]
  /\ a.kind = "value" => a.key = k /\ new.status = "SUCCEEDED" /\ new.result = a.epoch
  /\ new.status = "SUCCEEDED" => a.kind = "value" /\ a.epoch = caller[c].epoch
  /\ new.status = "SUCCEEDED" => new.expires = ExpiresAt /\ new.finished = clock

LEMMA RecordFacts ==
  ASSUME TInv, NEW c \in Callers, Records(c)
  PROVE  \E k \in Keys, new \in Row, a \in Answer : Ends(c, k, new, a)
<1> DEFINE k == caller[c].key
<1>1. /\ k \in Keys /\ executions[k] \in Row /\ clock \in Nat /\ caller[c].epoch \in Nat
      /\ RowOf(c) = executions[k] /\ KeyOf(c) = k /\ Owning(c) /\ clock' = clock
  BY RowOfType DEF Records, RowOf, KeyOf
<1>2. CASE /\ Write(KeyOf(c), Completed(RowOf(c), caller[c].epoch))
           /\ Leave(c, "value", caller[c].epoch)
  <2> DEFINE new == Completed(executions[k], caller[c].epoch)
             a == [kind |-> "value", key |-> k, epoch |-> caller[c].epoch]
  <2>1. new \in Row /\ new.status = "SUCCEEDED" /\ new.result = caller[c].epoch
        /\ new.created = executions[k].created /\ new.epoch = executions[k].epoch
        /\ new.retries = executions[k].retries /\ new.expires = ExpiresAt /\ new.finished = clock
    BY <1>1, CompletedFacts
  <2>2. a \in Answer
    BY <1>1 DEF Answer, Outcomes
  <2>3. Ends(c, k, new, a)
    BY <1>1, <1>2, <2>1, ExpiresAtType DEF Ends, Write, Leave, Finished
  <2> QED BY <1>1, <2>1, <2>2, <2>3
<1>3. CASE /\ Write(KeyOf(c), Failed(RowOf(c)))
           /\ \E kind \in Outcomes \ {"value"} : Leave(c, kind, 0)
  <2>1. PICK kind \in Outcomes \ {"value"} : Leave(c, kind, 0)
    BY <1>3
  <2> DEFINE new == Failed(executions[k])
             a == [kind |-> kind, key |-> k, epoch |-> 0]
  <2>2. new \in Row /\ new.status = "FAILED"
        /\ new.created = executions[k].created /\ new.epoch = executions[k].epoch
        /\ new.retries = executions[k].retries /\ new.expires = executions[k].expires
    BY <1>1, FailedFacts
  <2>3. a \in Answer
    BY <1>1 DEF Answer
  <2>4. Ends(c, k, new, a)
    BY <1>1, <1>3, <2>1, <2>2 DEF Ends, Write, Leave, Finished
  <2> QED BY <1>1, <2>2, <2>3, <2>4
<1> QED BY <1>2, <1>3 DEF Records

LEMMA ParkFacts ==
  ASSUME TInv, NEW c \in Callers, MarkWaiting(c)
  PROVE  \E k \in Keys, new \in Row, local \in Local :
           /\ k = caller[c].key /\ Owning(c)
           /\ executions' = [executions EXCEPT ![k] = new]
           /\ new.status = "WAITING_APPROVAL"
           /\ new.created = executions[k].created /\ new.epoch = executions[k].epoch
           /\ new.retries = executions[k].retries /\ new.expires = executions[k].expires
           /\ caller' = [caller EXCEPT ![c] = local]
           /\ local.key = k /\ local.epoch = caller[c].epoch
           /\ UNCHANGED <<clock, answer>>
<1> DEFINE k == caller[c].key
           new == [executions[k] EXCEPT !.status = "WAITING_APPROVAL"]
           local == [caller[c] EXCEPT !.at = "approval", !.deadline = Deadline(ApprovalTimeout)]
<1>1. caller[c].at = "owner" /\ Owning(c)
  BY DEF MarkWaiting, At, Owning, OwnerPlaces
<1>2. k \in Keys /\ executions[k] \in Row /\ RowOf(c) = executions[k] /\ KeyOf(c) = k
  BY <1>1, RowOfType DEF RowOf, KeyOf
<1>3. Deadline(ApprovalTimeout) \in Nat /\ caller[c] \in Local
  BY DeadlineType, PolicyAssumption DEF TInv, TypeOK
<1>4. local \in Local /\ local.key = k /\ local.epoch = caller[c].epoch
  BY <1>2, <1>3 DEF Local, Places
<1>5. /\ new \in Row /\ new.status = "WAITING_APPROVAL"
      /\ new.created = executions[k].created /\ new.epoch = executions[k].epoch
      /\ new.retries = executions[k].retries /\ new.expires = executions[k].expires
  BY <1>2, WaitingFacts
<1>6. /\ executions' = [executions EXCEPT ![k] = new]
      /\ caller' = [caller EXCEPT ![c] = local]
      /\ UNCHANGED <<clock, answer>>
  BY <1>2 DEF MarkWaiting, Write, GoTo
<1> QED BY <1>1, <1>2, <1>4, <1>5, <1>6

\* What a step may do to the table: a row is acquired, or parked or settled, or the
\* table rests and time passes.
RowStarts ==
  \E k \in Keys, new \in Row, retries \in Nat, expires \in Nat \cup {None} :
    /\ SlotFree /\ MayStart(executions[k], retries, expires)
    /\ executions' = [executions EXCEPT ![k] = new]
    /\ new.status = "RUNNING" /\ new.created = clock /\ new.epoch = executions[k].epoch + 1
    /\ new.retries = retries /\ new.expires = expires
    /\ clock' = clock

Settles(old, new) ==
  /\ new.status \in {"WAITING_APPROVAL"} \cup Finished
  /\ new.created = old.created /\ new.epoch = old.epoch /\ new.retries = old.retries
  /\ CacheTtl = None /\ old.expires = None => new.expires = None
  /\ new.status = "SUCCEEDED" => new.expires = ExpiresAt /\ new.finished = clock

RowSettles ==
  \E k \in Keys, new \in Row :
    executions' = [executions EXCEPT ![k] = new] /\ Settles(executions[k], new) /\ clock' = clock

TableRests == executions' = executions /\ clock' \in Nat /\ clock' >= clock

TableSteps == RowStarts \/ RowSettles \/ TableRests

LEMMA TableKinds ==
  ASSUME TInv, Kinds
  PROVE  TableSteps
<1>1. ASSUME NEW c \in Callers, Acquires(c) PROVE RowStarts
  <2>1. PICK k \in Keys, retries \in Nat, expires \in Nat \cup {None} :
          Starts(c, k, retries, expires) /\ MayStart(executions[k], retries, expires)
    BY <1>1, AcquireFacts
  <2> QED BY <2>1 DEF Starts, RowStarts
<1>2. ASSUME NEW c \in Callers, MarkWaiting(c) PROVE RowSettles
  BY <1>2, ParkFacts DEF RowSettles, Settles
<1>3. ASSUME NEW c \in Callers, Records(c) PROVE RowSettles
  <2>1. PICK k \in Keys, new \in Row, a \in Answer : Ends(c, k, new, a)
    BY <1>3, RecordFacts
  <2> QED BY <2>1 DEF Ends, RowSettles, Settles
<1>4. ASSUME NEW c \in Callers, Moves(c) PROVE TableRests
  BY <1>4 DEF Moves, TableRests, TInv, TypeOK
<1>5. Rests => TableRests
  BY DEF Rests, TableRests
<1> QED BY <1>1, <1>2, <1>3, <1>4, <1>5 DEF Kinds, TableSteps

LEMMA OneOwnerStep ==
  ASSUME TInv, OneOwner, Kinds
  PROVE  OneOwner'
<1> SUFFICES ASSUME LeaseTimeout = None PROVE OneOwner'
  BY DEF OneOwner
<1>1. /\ \A c, d \in Callers : Owning(c) /\ Owning(d) /\ caller[c].key = caller[d].key => c = d
      /\ \A c \in Callers : Owning(c) =>
           caller[c].key \in Keys /\ executions[caller[c].key].status \in Live
  BY DEF OneOwner, Owners, Owning, KeyOf, TInv, Placed, OwnerPlaces
<1>2. ASSUME /\ \A c, d \in Callers : Owning(c)' /\ Owning(d)' /\ caller'[c].key = caller'[d].key
                                      => c = d
             /\ \A c \in Callers : Owning(c)' =>
                  caller'[c].key \in Keys /\ executions'[caller'[c].key].status \in Live
      PROVE  OneOwner'
  BY <1>2 DEF OneOwner, Owners, Owning, KeyOf
<1>3. ASSUME NEW c \in Callers, Acquires(c) PROVE OneOwner'
  <2>1. PICK k \in Keys, retries \in Nat, expires \in Nat \cup {None} :
          Starts(c, k, retries, expires) /\ MayStart(executions[k], retries, expires)
    BY <1>3, AcquireFacts
  <2>2. executions[k].status \notin Live
    BY <2>1 DEF MayStart, Stale, Live
  <2>3. \A d \in Callers : Owning(d) => caller[d].key # k
    BY <1>1, <2>2
  <2> QED BY <1>1, <1>2, <2>1, <2>3 DEF Starts, Owning, OwnerPlaces, Live, TInv, TypeOK
<1>4. ASSUME NEW c \in Callers, MarkWaiting(c) PROVE OneOwner'
  <2>1. PICK k \in Keys, new \in Row, local \in Local :
           /\ k = caller[c].key /\ Owning(c)
           /\ executions' = [executions EXCEPT ![k] = new]
           /\ new.status = "WAITING_APPROVAL"
           /\ caller' = [caller EXCEPT ![c] = local]
           /\ local.key = k
    BY <1>4, ParkFacts
  <2> QED BY <1>1, <1>2, <2>1 DEF Owning, OwnerPlaces, Live, TInv, TypeOK
<1>5. ASSUME NEW c \in Callers, Records(c) PROVE OneOwner'
  <2>1. PICK k \in Keys, new \in Row, a \in Answer : Ends(c, k, new, a)
    BY <1>5, RecordFacts
  <2>2. \A d \in Callers \ {c} : Owning(d) => caller[d].key # k
    BY <1>1, <2>1 DEF Ends
  <2> QED BY <1>1, <1>2, <2>1, <2>2 DEF Ends, Owning, OwnerPlaces, Idle, TInv, TypeOK
<1>6. ASSUME NEW c \in Callers, Moves(c) PROVE OneOwner'
  BY <1>1, <1>2, <1>6 DEF Moves, Owning, TInv, TypeOK
<1>7. CASE Rests
  BY <1>1, <1>2, <1>7 DEF Rests, Owning
<1> QED BY <1>3, <1>4, <1>5, <1>6, <1>7 DEF Kinds

\* Without a lease no key ever has two owners, for any number of processes and
\* keys, any policy, crashes and store faults included.
THEOREM OneOwnerAlways == Spec => []OneOwner
<1>1. Init => TInv /\ OneOwner
  BY TypeInit, OneOwnerInit
<1>2. TInv /\ OneOwner /\ [Next]_vars => TInv' /\ OneOwner'
  BY TypeStep, StepKinds, OneOwnerStep
<1> QED BY <1>1, <1>2, PTL DEF Spec

-----------------------------------------------------------------------------
(* Results are final.                                                      *)

\* Without a TTL no row ever gets an expiry time.
NoExpiry == CacheTtl = None => \A k \in Keys : executions[k].expires = None

LEMMA NoExpiryInit == Init => NoExpiry
BY DEF Init, NoExpiry, NoRow

LEMMA NoExpiryStep ==
  ASSUME TInv, NoExpiry, TableSteps
  PROVE  NoExpiry'
<1> SUFFICES ASSUME CacheTtl = None, NEW k \in Keys PROVE executions'[k].expires = None
  BY DEF NoExpiry
<1>1. executions[k].expires = None /\ executions \in [Keys -> Row]
  BY DEF NoExpiry, TInv, TypeOK
<1>2. CASE RowStarts
  <2>1. PICK kk \in Keys, new \in Row, expires \in Nat \cup {None} :
          /\ \E retries \in Nat : MayStart(executions[kk], retries, expires)
          /\ executions' = [executions EXCEPT ![kk] = new] /\ new.expires = expires
    BY <1>2 DEF RowStarts
  <2>2. expires = None
    BY <2>1 DEF MayStart, NoExpiry
  <2> QED BY <1>1, <2>1, <2>2
<1>3. CASE RowSettles
  <2>1. PICK kk \in Keys, new \in Row :
          executions' = [executions EXCEPT ![kk] = new] /\ Settles(executions[kk], new)
    BY <1>3 DEF RowSettles
  <2>2. executions[kk].expires = None
    BY DEF NoExpiry
  <2> QED BY <1>1, <2>1, <2>2 DEF Settles
<1>4. CASE TableRests
  BY <1>1, <1>4 DEF TableRests
<1> QED BY <1>2, <1>3, <1>4 DEF TableSteps

SuccessKept ==
  \A k \in Keys : LeaseTimeout = None /\ CacheTtl = None /\ executions[k].status = "SUCCEEDED"
                  => executions'[k] = executions[k]

LEMMA SuccessStep ==
  ASSUME TInv, OneOwner, NoExpiry, Kinds
  PROVE  SuccessKept
<1> SUFFICES ASSUME NEW k \in Keys, LeaseTimeout = None, CacheTtl = None,
                    executions[k].status = "SUCCEEDED"
             PROVE  executions'[k] = executions[k]
  BY DEF SuccessKept
<1>1. \A c \in Callers : Owning(c) => caller[c].key # k
  BY DEF OneOwner, Owners, Owning, KeyOf, Live
<1>2. executions[k].expires = None /\ executions \in [Keys -> Row]
  BY DEF NoExpiry, TInv, TypeOK
<1>3. ASSUME NEW c \in Callers, Acquires(c) PROVE executions'[k] = executions[k]
  <2>1. PICK kk \in Keys, retries \in Nat, expires \in Nat \cup {None} :
          Starts(c, kk, retries, expires) /\ MayStart(executions[kk], retries, expires)
    BY <1>3, AcquireFacts
  <2>2. kk # k
    BY <1>2, <2>1 DEF MayStart, Expired
  <2> QED BY <1>2, <2>1, <2>2 DEF Starts
<1>4. ASSUME NEW c \in Callers, MarkWaiting(c) PROVE executions'[k] = executions[k]
  <2>1. PICK kk \in Keys, new \in Row :
           kk = caller[c].key /\ Owning(c) /\ executions' = [executions EXCEPT ![kk] = new]
    BY <1>4, ParkFacts
  <2> QED BY <1>1, <1>2, <2>1
<1>5. ASSUME NEW c \in Callers, Records(c) PROVE executions'[k] = executions[k]
  <2>1. PICK kk \in Keys, new \in Row, a \in Answer : Ends(c, kk, new, a)
    BY <1>5, RecordFacts
  <2> QED BY <1>1, <1>2, <2>1 DEF Ends
<1>6. ASSUME NEW c \in Callers, Moves(c) PROVE executions'[k] = executions[k]
  BY <1>6 DEF Moves
<1>7. CASE Rests
  BY <1>7 DEF Rests
<1> QED BY <1>3, <1>4, <1>5, <1>6, <1>7 DEF Kinds

\* Without TTL and lease, the row of a successful execution never changes again.
THEOREM SuccessIsFinalAlways == Spec => SuccessIsFinal
<1>1. Init => TInv /\ OneOwner /\ NoExpiry
  BY TypeInit, OneOwnerInit, NoExpiryInit
<1>2. TInv /\ OneOwner /\ NoExpiry /\ [Next]_vars => TInv' /\ OneOwner' /\ NoExpiry'
  BY TypeStep, StepKinds, TableKinds, OneOwnerStep, NoExpiryStep
<1>3. TInv /\ OneOwner /\ NoExpiry /\ [Next]_vars
      => [\A k \in Keys : /\ LeaseTimeout = None /\ CacheTtl = None
                          /\ executions[k].status = "SUCCEEDED"
                          => executions'[k] = executions[k]]_vars
  BY StepKinds, SuccessStep DEF SuccessKept
<1> QED BY <1>1, <1>2, <1>3, PTL DEF Spec, SuccessIsFinal

\* A value is the answer to a call for some key.
Answered == \A c \in Callers : answer[c].kind = "value" => answer[c].key \in Keys

LEMMA OneValueInit == Init => OneValue /\ Answered
BY DEF Init, OneValue, Answered, NoAnswer

LEMMA OneValueStep ==
  ASSUME TInv, OneOwner, NoExpiry, OneValue, Answered, LeaseTimeout = None, CacheTtl = None,
         Kinds
  PROVE  OneValue' /\ Answered'
<1> SUFFICES ASSUME NEW d \in Callers, answer'[d].kind = "value"
             PROVE  /\ answer'[d].key \in Keys
                    /\ executions'[answer'[d].key].status = "SUCCEEDED"
                    /\ executions'[answer'[d].key].result = answer'[d].epoch
  BY DEF OneValue, Answered
<1>1. /\ \A c \in Callers : answer[c].kind = "value" =>
           /\ answer[c].key \in Keys
           /\ executions[answer[c].key].status = "SUCCEEDED"
           /\ executions[answer[c].key].result = answer[c].epoch
      /\ answer \in [Callers -> Answer] /\ executions \in [Keys -> Row]
  BY DEF OneValue, Answered, TInv, TypeOK
<1>2. \A k \in Keys : executions[k].status = "SUCCEEDED" => executions'[k] = executions[k]
  BY SuccessStep DEF SuccessKept
<1> DEFINE Goal == /\ answer'[d].key \in Keys
                   /\ executions'[answer'[d].key].status = "SUCCEEDED"
                   /\ executions'[answer'[d].key].result = answer'[d].epoch
<1>3. CASE answer'[d] = answer[d]
  BY <1>1, <1>2, <1>3
<1>4. ASSUME NEW c \in Callers, Acquires(c) PROVE Goal
  BY <1>3, <1>4, AcquireFacts DEF Starts
<1>5. ASSUME NEW c \in Callers, MarkWaiting(c) PROVE Goal
  BY <1>3, <1>5, ParkFacts
<1>6. ASSUME NEW c \in Callers, Records(c) PROVE Goal
  <2>1. PICK k \in Keys, new \in Row, a \in Answer : Ends(c, k, new, a)
    BY <1>6, RecordFacts
  <2>2. CASE c = d
    BY <1>1, <2>1, <2>2 DEF Ends
  <2>3. CASE c # d
    BY <1>1, <1>3, <2>1, <2>3 DEF Ends
  <2> QED BY <2>2, <2>3
<1>7. ASSUME NEW c \in Callers, Moves(c) PROVE Goal
  <2>1. CASE answer' = answer
    BY <1>3, <2>1
  <2>2. CASE answer' # answer
    <3>1. PICK a \in Answer :
            /\ answer' = [answer EXCEPT ![c] = a]
            /\ a.kind = "value" => /\ a.key \in Keys
                                   /\ executions[a.key].status = "SUCCEEDED"
                                   /\ executions[a.key].result = a.epoch
      BY <1>7, <2>2 DEF Moves
    <3>2. executions' = executions
      BY <1>7 DEF Moves
    <3>3. CASE c = d
      BY <1>1, <3>1, <3>2, <3>3
    <3>4. CASE c # d
      BY <1>1, <1>3, <3>1, <3>4
    <3> QED BY <3>3, <3>4
  <2> QED BY <2>1, <2>2
<1>8. CASE Rests
  BY <1>3, <1>8 DEF Rests
<1> QED BY <1>4, <1>5, <1>6, <1>7, <1>8 DEF Kinds

\* Without TTL and lease everybody who gets a value for a key gets the value of
\* the same run: the owner, its followers, and every later caller.
THEOREM OneValueAlways == Spec => []OneValue
<1>1. CASE LeaseTimeout = None /\ CacheTtl = None
  <2> DEFINE Inv == TInv /\ OneOwner /\ NoExpiry /\ OneValue /\ Answered
  <2>1. Init => Inv
    BY TypeInit, OneOwnerInit, NoExpiryInit, OneValueInit
  <2>2. Inv /\ [Next]_vars => Inv'
    BY <1>1, TypeStep, StepKinds, TableKinds, OneOwnerStep, NoExpiryStep, OneValueStep
  <2>3. Inv => OneValue
    OBVIOUS
  <2> QED BY <2>1, <2>2, <2>3, PTL DEF Spec
<1>2. CASE ~(LeaseTimeout = None /\ CacheTtl = None)
  <2>1. OneValue
    BY <1>2 DEF OneValue
  <2> QED BY <2>1, PTL
<1> QED BY <1>1, <1>2

-----------------------------------------------------------------------------
(* How often a key is run.                                                 *)

\* The only way past the first attempt is a counted retry.
CountedAttempts ==
  \A k \in Keys : /\ executions[k].retries <= MaxRetries
                  /\ executions[k].epoch <= executions[k].retries + 1
                  /\ executions[k].status = "ABSENT" =>
                       executions[k].epoch = 0 /\ executions[k].retries = 0

LEMMA CountedInit == Init => CountedAttempts
BY PolicyAssumption DEF Init, CountedAttempts, NoRow

LEMMA CountedStep ==
  ASSUME TInv, NoExpiry, CountedAttempts, LeaseTimeout = None, CacheTtl = None, TableSteps
  PROVE  CountedAttempts'
<1> DEFINE Counted(row) == /\ row.retries <= MaxRetries
                           /\ row.epoch <= row.retries + 1
                           /\ row.status = "ABSENT" => row.epoch = 0 /\ row.retries = 0
<1> SUFFICES ASSUME NEW k \in Keys PROVE Counted(executions'[k])
  BY DEF CountedAttempts
<1>1. Counted(executions[k]) /\ executions \in [Keys -> Row]
  BY DEF CountedAttempts, TInv, TypeOK
<1>2. CASE RowStarts
  <2>1. PICK kk \in Keys, new \in Row, retries \in Nat :
          /\ \E expires \in Nat \cup {None} : MayStart(executions[kk], retries, expires)
          /\ executions' = [executions EXCEPT ![kk] = new] /\ new.status = "RUNNING"
          /\ new.epoch = executions[kk].epoch + 1 /\ new.retries = retries
    BY <1>2 DEF RowStarts
  <2>2. CASE k # kk
    BY <1>1, <2>1, <2>2
  <2>3. CASE k = kk
    <3>1. executions'[k].status = "RUNNING" /\ executions'[k].retries = retries
          /\ executions'[k].epoch = executions[k].epoch + 1
      BY <1>1, <2>1, <2>3
    <3>2. \/ executions[k].status = "ABSENT" /\ retries = 0
          \/ /\ executions[k].retries < MaxRetries
             /\ retries = executions[k].retries + 1
      BY <2>1, <2>3 DEF MayStart, Stale, Expired, MayRetry, NoExpiry
    <3>3. executions[k].retries \in Nat /\ executions[k].epoch \in Nat /\ MaxRetries \in Nat
      BY <1>1, PolicyAssumption DEF Row
    <3> QED BY <1>1, <3>1, <3>2, <3>3
  <2> QED BY <2>2, <2>3
<1>3. CASE RowSettles
  <2>1. PICK kk \in Keys, new \in Row :
          executions' = [executions EXCEPT ![kk] = new] /\ Settles(executions[kk], new)
    BY <1>3 DEF RowSettles
  <2> QED BY <1>1, <2>1 DEF Settles, Finished
<1>4. CASE TableRests
  BY <1>1, <1>4 DEF TableRests
<1> QED BY <1>2, <1>3, <1>4 DEF TableSteps

LEMMA CountedBounds ==
  ASSUME TInv, CountedAttempts
  PROVE  AttemptsBounded
<1> SUFFICES ASSUME NEW k \in Keys PROVE executions[k].epoch <= MaxRetries + 1
  BY DEF AttemptsBounded
<1>1. executions[k].retries \in Nat /\ executions[k].epoch \in Nat /\ MaxRetries \in Nat
  BY PolicyAssumption DEF TInv, TypeOK, Row
<1> QED BY <1>1 DEF CountedAttempts

\* Without TTL and lease a key is acquired at most max_retries + 1 times, ever.
THEOREM AttemptsBoundedAlways == Spec => []AttemptsBounded
<1>1. CASE LeaseTimeout = None /\ CacheTtl = None
  <2> DEFINE Inv == TInv /\ NoExpiry /\ CountedAttempts
  <2>1. Init => Inv
    BY TypeInit, NoExpiryInit, CountedInit
  <2>2. Inv /\ [Next]_vars => Inv'
    BY <1>1, TypeStep, StepKinds, TableKinds, NoExpiryStep, CountedStep
  <2>3. Inv => AttemptsBounded
    BY CountedBounds
  <2> QED BY <2>1, <2>2, <2>3, PTL DEF Spec
<1>2. CASE ~(LeaseTimeout = None /\ CacheTtl = None)
  <2>1. AttemptsBounded
    BY <1>2 DEF AttemptsBounded
  <2> QED BY <2>1, PTL
<1> QED BY <1>1, <1>2

LeaseOutlived == CacheTtl # None => CacheTtl >= LeaseTimeout

\* Apart from retries, every acquisition of a leased key took a whole lease, and
\* the result of one that succeeded lives as long.
PacedAttempts ==
  \A k \in Keys :
    /\ executions[k].created <= clock
    /\ (executions[k].epoch - 1 - executions[k].retries) * LeaseTimeout <= executions[k].created
    /\ executions[k].status = "ABSENT" =>
         executions[k].epoch = 0 /\ executions[k].retries = 0
    /\ executions[k].status = "SUCCEEDED" /\ executions[k].expires # None =>
         executions[k].created + LeaseTimeout <= executions[k].expires

LEMMA PacedInit == ASSUME LeaseTimeout \in Nat PROVE Init => PacedAttempts
BY DEF Init, PacedAttempts, NoRow

LEMMA PacedStep ==
  ASSUME TInv, PacedAttempts, LeaseTimeout \in Nat, LeaseOutlived, TableSteps
  PROVE  PacedAttempts'
<1> DEFINE Extra(row) == row.epoch - 1 - row.retries
           Paced(row, now) == /\ row.created <= now
                              /\ Extra(row) * LeaseTimeout <= row.created
                              /\ row.status = "ABSENT" => row.epoch = 0 /\ row.retries = 0
                              /\ row.status = "SUCCEEDED" /\ row.expires # None =>
                                   row.created + LeaseTimeout <= row.expires
<1> SUFFICES ASSUME NEW k \in Keys PROVE Paced(executions'[k], clock')
  BY DEF PacedAttempts
<1>1. Paced(executions[k], clock) /\ executions \in [Keys -> Row] /\ clock \in Nat
  BY DEF PacedAttempts, TInv, TypeOK
<1>2. CASE RowStarts
  <2>1. PICK kk \in Keys, row \in Row, retries \in Nat :
          /\ \E expires \in Nat \cup {None} : MayStart(executions[kk], retries, expires)
          /\ executions' = [executions EXCEPT ![kk] = row] /\ row.status = "RUNNING"
          /\ row.created = clock /\ row.epoch = executions[kk].epoch + 1 /\ row.retries = retries
          /\ clock' = clock
    BY <1>2 DEF RowStarts
  <2>2. CASE k # kk
    BY <1>1, <2>1, <2>2
  <2>3. CASE k = kk
    <3> DEFINE old == executions[k]  new == executions'[k]
    <3>1. /\ new.status = "RUNNING" /\ new.retries = retries /\ new.created = clock
          /\ new.epoch = old.epoch + 1 /\ clock' = clock
      BY <1>1, <2>1, <2>3
    <3>2. \/ old.status = "ABSENT" /\ retries = 0
          \/ old.status = "FAILED" /\ retries = old.retries + 1
          \/ old.created + LeaseTimeout <= clock /\ retries = old.retries
      <4>1. old.expires \in Nat \cup {None} /\ old.created \in Nat /\ LeaseTimeout \in Nat
        BY <1>1 DEF Row
      <4>2. /\ old.status = "SUCCEEDED" /\ old.expires # None =>
                 old.created + LeaseTimeout <= old.expires
            /\ clock \in Nat
        BY <1>1
      <4> QED BY <2>1, <2>3, <4>1, <4>2 DEF MayStart, Stale, Expired, MayRetry
    <3>3. old.retries \in Nat /\ old.epoch \in Nat /\ old.created \in Nat
      BY <1>1 DEF Row
    <3> HIDE DEF old, new
    <3>4. Paced(old, clock)
      BY <1>1 DEF old
    <3>5. CASE old.status = "ABSENT" /\ retries = 0
      <4>1. Extra(new) = 0
        BY <3>1, <3>3, <3>4, <3>5
      <4> QED BY <1>1, <3>1, <4>1 DEF new
    <3>6. CASE old.status = "FAILED" /\ retries = old.retries + 1
      <4>1. Extra(new) = Extra(old)
        BY <3>1, <3>3, <3>6
      <4>2. Extra(new) * LeaseTimeout <= old.created
        BY <3>4, <4>1
      <4>3. Extra(new) * LeaseTimeout \in Int
        BY <3>1, <3>3, <3>6
      <4>4. Extra(new) * LeaseTimeout <= clock
        BY <1>1, <3>3, <3>4, <4>2, <4>3
      <4> QED BY <1>1, <3>1, <4>4 DEF new
    <3>7. CASE old.created + LeaseTimeout <= clock /\ retries = old.retries
      <4>1. Extra(new) = Extra(old) + 1 /\ Extra(old) \in Int
        BY <3>1, <3>3, <3>7
      <4>2. \A n \in Int : (n + 1) * LeaseTimeout = n * LeaseTimeout + LeaseTimeout
        OBVIOUS
      <4>3. Extra(new) * LeaseTimeout = Extra(old) * LeaseTimeout + LeaseTimeout
        BY <4>1, <4>2
      <4>4. Extra(old) * LeaseTimeout \in Int
        BY <4>1
      <4>5. Extra(new) * LeaseTimeout <= clock
        BY <1>1, <3>3, <3>4, <3>7, <4>3, <4>4
      <4> QED BY <1>1, <3>1, <4>5 DEF new
    <3> QED BY <3>2, <3>5, <3>6, <3>7
  <2> QED BY <2>2, <2>3
<1>3. CASE RowSettles
  <2>1. PICK kk \in Keys, new \in Row :
           /\ executions' = [executions EXCEPT ![kk] = new]
           /\ Settles(executions[kk], new) /\ clock' = clock
    BY <1>3 DEF RowSettles
  <2>2. kk = k => executions'[k] = new /\ new.created = executions[k].created
    BY <1>1, <2>1 DEF Settles
  <2>3. ASSUME kk = k, new.status = "SUCCEEDED", new.expires # None
        PROVE  new.created + LeaseTimeout <= new.expires
    <3>1. CacheTtl # None /\ new.expires = clock + CacheTtl
      BY <2>1, <2>3 DEF Settles, ExpiresAt
    <3>2. CacheTtl \in Nat /\ CacheTtl >= LeaseTimeout
      BY <3>1, PolicyAssumption DEF LeaseOutlived
    <3>3. new.created \in Nat /\ new.created <= clock
      BY <1>1, <2>2, <2>3 DEF Row
    <3> QED BY <1>1, <3>1, <3>2, <3>3
  <2> QED BY <1>1, <2>1, <2>2, <2>3 DEF Settles, Finished
<1>4. CASE TableRests
  <2>1. executions[k].created \in Nat
    BY <1>1 DEF Row
  <2> QED BY <1>1, <1>4, <2>1 DEF TableRests
<1> QED BY <1>2, <1>3, <1>4 DEF TableSteps

LEMMA PacedBounds ==
  ASSUME TInv, PacedAttempts, LeaseTimeout \in Nat
  PROVE  OneReclaimPerLease
<1> SUFFICES ASSUME NEW k \in Keys
             PROVE  (executions[k].epoch - 1 - executions[k].retries) * LeaseTimeout <= clock
  BY DEF OneReclaimPerLease
<1>1. /\ executions[k].retries \in Nat /\ executions[k].epoch \in Nat
      /\ executions[k].created \in Nat /\ clock \in Nat
  BY DEF TInv, TypeOK, Row
<1>2. (executions[k].epoch - 1 - executions[k].retries) * LeaseTimeout \in Int
  BY <1>1
<1> QED BY <1>1, <1>2 DEF PacedAttempts

\* A stale lease has one reclaimer, for any number of contenders: unless the TTL is
\* shorter than the lease, the acquisitions of a key that are not retries are a
\* whole lease period apart.
THEOREM OneReclaimPerLeaseAlways == Spec => []OneReclaimPerLease
<1>1. CASE LeaseTimeout # None /\ LeaseOutlived
  <2> DEFINE Inv == TInv /\ PacedAttempts
  <2>0. LeaseTimeout \in Nat
    BY <1>1, PolicyAssumption
  <2>1. Init => Inv
    BY <2>0, TypeInit, PacedInit
  <2>2. Inv /\ [Next]_vars => Inv'
    BY <1>1, <2>0, TypeStep, StepKinds, TableKinds, PacedStep
  <2>3. Inv => OneReclaimPerLease
    BY <2>0, PacedBounds
  <2> QED BY <2>1, <2>2, <2>3, PTL DEF Spec
<1>2. CASE ~(LeaseTimeout # None /\ LeaseOutlived)
  <2>1. OneReclaimPerLease
    BY <1>2 DEF OneReclaimPerLease, LeaseOutlived
  <2> QED BY <2>1, PTL
<1> QED BY <1>1, <1>2

-----------------------------------------------------------------------------
(* The concurrency cap.                                                    *)

LEMMA CapInit == Init => CapHolds
<1> SUFFICES ASSUME Init, MaxConcurrent # None PROVE Cardinality(Running) <= MaxConcurrent
  BY DEF CapHolds
<1>1. Running = {}
  BY DEF Init, Running, NoRow
<1>2. Cardinality(Running) = 0
  BY <1>1, FS_EmptySet
<1> QED BY <1>2, PolicyAssumption

LEMMA CapStep ==
  ASSUME TInv, CapHolds, TableSteps
  PROVE  CapHolds'
<1> SUFFICES ASSUME MaxConcurrent # None PROVE Cardinality(Running') <= MaxConcurrent
  BY DEF CapHolds
<1>1. IsFiniteSet(Running) /\ Cardinality(Running) \in Nat /\ MaxConcurrent \in Nat
  <2>1. Running \subseteq Keys
    BY DEF Running
  <2> QED BY <2>1, KeysAssumption, FS_Subset, FS_CardinalityType, PolicyAssumption
<1>2. Cardinality(Running) <= MaxConcurrent /\ executions \in [Keys -> Row]
  BY DEF CapHolds, TInv, TypeOK
<1>3. ASSUME Running' \subseteq Running PROVE Cardinality(Running') <= MaxConcurrent
  <2>1. IsFiniteSet(Running') /\ Cardinality(Running') <= Cardinality(Running)
    BY <1>1, <1>3, FS_Subset
  <2>2. Cardinality(Running') \in Nat
    BY <2>1, FS_CardinalityType
  <2> QED BY <1>1, <1>2, <2>1, <2>2
<1>4. CASE RowStarts
  <2>1. PICK k \in Keys, new \in Row :
          SlotFree /\ executions' = [executions EXCEPT ![k] = new] /\ new.status = "RUNNING"
    BY <1>4 DEF RowStarts
  <2>2. Running' = Running \cup {k}
    BY <1>2, <2>1 DEF Running
  <2>3. Cardinality(Running) < MaxConcurrent
    BY <2>1 DEF SlotFree
  <2>4. CASE k \in Running
    BY <1>3, <2>2, <2>4
  <2>5. CASE k \notin Running
    <3>1. Cardinality(Running \cup {k}) = Cardinality(Running) + 1
      BY <1>1, <2>5, FS_AddElement
    <3> QED BY <1>1, <2>2, <2>3, <3>1
  <2> QED BY <2>4, <2>5
<1>5. RowSettles => Running' \subseteq Running
  BY <1>2 DEF RowSettles, Settles, Running, Finished
<1>6. TableRests => Running' \subseteq Running
  BY DEF TableRests, Running
<1> QED BY <1>3, <1>4, <1>5, <1>6 DEF TableSteps

\* The RUNNING rows never exceed max_concurrent, for any number of callers and
\* keys, with crashes, stale leases and owners that were presumed dead.
THEOREM CapHoldsAlways == Spec => []CapHolds
<1>1. Init => TInv /\ CapHolds
  BY TypeInit, CapInit
<1>2. TInv /\ CapHolds /\ [Next]_vars => TInv' /\ CapHolds'
  BY TypeStep, StepKinds, TableKinds, CapStep
<1> QED BY <1>1, <1>2, PTL DEF Spec
-----------------------------------------------------------------------------
(* Approvals.                                                              *)

\* Without a lease an owner's attempt is the one the row is in.
OwnerIsCurrent ==
  LeaseTimeout = None =>
    \A c \in Callers : Owning(c) => caller[c].epoch = executions[caller[c].key].epoch

LEMMA CurrentInit == Init => OwnerIsCurrent
BY DEF Init, OwnerIsCurrent, Owning, Idle, OwnerPlaces

LEMMA CurrentStep ==
  ASSUME TInv, OneOwner, OwnerIsCurrent, Kinds
  PROVE  OwnerIsCurrent'
<1> SUFFICES ASSUME LeaseTimeout = None, NEW d \in Callers, Owning(d)'
             PROVE  caller'[d].epoch = executions'[caller'[d].key].epoch
  BY DEF OwnerIsCurrent
<1> DEFINE Goal == caller'[d].epoch = executions'[caller'[d].key].epoch
<1>1. /\ \A c \in Callers : Owning(c) => /\ caller[c].epoch = executions[caller[c].key].epoch
                                         /\ caller[c].key \in Keys
                                         /\ executions[caller[c].key].status \in Live
      /\ \A c, e \in Callers : Owning(c) /\ Owning(e) /\ caller[c].key = caller[e].key => c = e
      /\ caller \in [Callers -> Local] /\ executions \in [Keys -> Row]
  BY DEF OwnerIsCurrent, OneOwner, Owners, Owning, KeyOf, TInv, TypeOK, Placed, OwnerPlaces
<1>2. ASSUME NEW c \in Callers, Acquires(c) PROVE Goal
  <2>1. PICK k \in Keys, retries \in Nat, expires \in Nat \cup {None} :
          Starts(c, k, retries, expires) /\ MayStart(executions[k], retries, expires)
    BY <1>2, AcquireFacts
  <2>2. CASE d = c
    BY <1>1, <2>1, <2>2 DEF Starts
  <2>3. CASE d # c
    <3>1. Owning(d) /\ caller'[d] = caller[d]
      BY <1>1, <2>1, <2>3 DEF Starts, Owning
    <3>2. caller[d].key # k
      BY <1>1, <2>1, <3>1 DEF MayStart, Stale, Live
    <3> QED BY <1>1, <2>1, <3>1, <3>2 DEF Starts
  <2> QED BY <2>2, <2>3
<1>3. ASSUME NEW c \in Callers, MarkWaiting(c) PROVE Goal
  <2>1. PICK k \in Keys, new \in Row, local \in Local :
           /\ k = caller[c].key /\ Owning(c)
           /\ executions' = [executions EXCEPT ![k] = new]
           /\ new.epoch = executions[k].epoch
           /\ caller' = [caller EXCEPT ![c] = local]
           /\ local.key = k /\ local.epoch = caller[c].epoch
    BY <1>3, ParkFacts
  <2> QED BY <1>1, <2>1 DEF Owning
<1>4. ASSUME NEW c \in Callers, Records(c) PROVE Goal
  <2>1. PICK k \in Keys, new \in Row, a \in Answer : Ends(c, k, new, a)
    BY <1>4, RecordFacts
  <2> QED BY <1>1, <2>1 DEF Ends, Owning, Idle, OwnerPlaces
<1>5. ASSUME NEW c \in Callers, Moves(c) PROVE Goal
  BY <1>1, <1>5 DEF Moves, Owning
<1>6. CASE Rests
  BY <1>1, <1>6 DEF Rests, Owning
<1> QED BY <1>2, <1>3, <1>4, <1>5, <1>6 DEF Kinds

\* Past the gate, or with a decision to go past it.
Sanctioned(c) ==
  \/ caller[c].at \in {"verify", "function"}
  \/ caller[c].at = "approval" /\ approvals[caller[c].key].status = "approved"

\* The decision is about this attempt: when the owner parked its row, whatever was
\* decided before was pending again.
SanctionsAreCurrent ==
  LeaseTimeout = None =>
    \A c \in Callers : caller[c].key \in Gated /\ Sanctioned(c) =>
      approvals[caller[c].key].sanctions = caller[c].epoch

\* A step of c that takes nobody past the gate.
GateStays(c) ==
  /\ UNCHANGED approvals
  /\ \E local \in Local :
       /\ caller' = [caller EXCEPT ![c] = local]
       /\ local.at \in {"approval", "verify", "function"} /\ local.key \in Gated =>
            Sanctioned(c) /\ local.key = caller[c].key /\ local.epoch = caller[c].epoch

LEMMA GoToStays ==
  ASSUME TInv, NEW c \in Callers, NEW place \in Places, NEW deadline \in Nat,
         GoTo(c, place, deadline), UNCHANGED approvals,
         place \in {"approval", "verify", "function"} /\ KeyOf(c) \in Gated => Sanctioned(c)
  PROVE  GateStays(c)
<1> DEFINE local == [caller[c] EXCEPT !.at = place, !.deadline = deadline]
<1>1. caller[c] \in Local
  BY DEF TInv, TypeOK
<1>2. local \in Local /\ local.at = place /\ local.key = caller[c].key /\ local.epoch = caller[c].epoch
  BY <1>1 DEF Local
<1>3. caller' = [caller EXCEPT ![c] = local]
  BY DEF GoTo
<1> HIDE DEF local
<1> QED BY <1>2, <1>3 DEF GateStays, KeyOf

LEMMA LeaveStays ==
  ASSUME NEW c \in Callers, caller' = [caller EXCEPT ![c] = Idle], UNCHANGED approvals
  PROVE  GateStays(c)
<1>1. Idle \in Local /\ Idle.at = "idle"
  BY DEF Idle, Local, Places
<1> QED BY <1>1 DEF GateStays

LEMMA AcquireStays ==
  ASSUME TInv, NEW c \in Callers, AcquireStep(c)
  PROVE  GateStays(c)
<1> USE DEF At
<1>1. CASE Acquires(c)
  <2>1. PICK k \in Keys, retries \in Nat, expires \in Nat \cup {None} :
          Starts(c, k, retries, expires)
    BY <1>1, AcquireFacts
  <2> DEFINE epoch == Restarted(executions[k], retries, expires).epoch
             local == [at |-> "owner", key |-> k, epoch |-> epoch, deadline |-> 0]
  <2>2. epoch \in Nat
    BY <2>1 DEF Starts, Row
  <2>3. local \in Local /\ local.at = "owner"
    BY <2>2 DEF Local, Places
  <2>4. caller' = [caller EXCEPT ![c] = local] /\ UNCHANGED approvals
    BY <2>1 DEF Starts
  <2> HIDE DEF local
  <2> QED BY <2>3, <2>4 DEF GateStays
<1>2. CASE AcquireGivesUp(c) \/ AcquireUsesCached(c) \/ AcquireReplaysError(c)
  BY <1>2, LeaveStays DEF AcquireGivesUp, AcquireUsesCached, AcquireReplaysError, Leave
<1>3. CASE AcquireFollowsApproval(c) \/ AcquireFollowsRunning(c)
  <2>1. Deadline(ApprovalTimeout) \in Nat /\ Deadline(FollowTimeout) \in Nat
    BY DeadlineType, PolicyAssumption DEF TInv, TypeOK
  <2> QED BY <1>3, <2>1, GoToStays DEF AcquireFollowsApproval, AcquireFollowsRunning, Places
<1> QED BY <1>1, <1>2, <1>3 DEF AcquireStep, Acquires

LEMMA OthersStay ==
  ASSUME TInv, NEW c \in Callers, Progress(c) \/ Chance(c)
  PROVE  MarkWaiting(c) \/ GateStays(c)
<1> USE DEF At, Sanctioned, KeyOf
<1>1. /\ Deadline(ApprovalTimeout) \in Nat /\ Deadline(FollowTimeout) \in Nat
      /\ (IF ExecTimeout = None THEN 0 ELSE Deadline(ExecTimeout)) \in Nat
  BY DeadlineType, PolicyAssumption DEF TInv, TypeOK
<1>2. CASE OwnerSeesApproved(c) \/ OwnerSeesRejected(c)
  BY <1>2, GoToStays DEF OwnerSeesApproved, OwnerSeesRejected, Places
<1>3. CASE VerifySignature(c)
  <2>1. CASE GoTo(c, "refused", 0)
    BY <1>3, <2>1, GoToStays DEF VerifySignature, Places
  <2>2. CASE GoTo(c, "function", IF ExecTimeout = None THEN 0 ELSE Deadline(ExecTimeout))
    BY <1>1, <1>3, <2>2, GoToStays DEF VerifySignature, Places
  <2> QED BY <1>3, <2>1, <2>2 DEF VerifySignature
<1>4. CASE StartFunction(c)
  BY <1>1, <1>4, GoToStays DEF StartFunction, NeedsApproval, Places
<1>5. CASE FunctionReturns(c) \/ FunctionRaises(c) \/ FunctionTimesOut(c) \/ CompleteRaises(c)
  BY <1>5, GoToStays DEF FunctionReturns, FunctionRaises, FunctionTimesOut, CompleteRaises, Places
<1>6. CASE FollowerSeesApproved(c)
  BY <1>1, <1>6, GoToStays DEF FollowerSeesApproved, Places
<1>7. CASE OwnerGivesUpApproval(c) \/ RecordRefusal(c) \/ Complete(c) \/ Fail(c) \/ LimitsRefuse(c)
  BY <1>7, LeaveStays DEF OwnerGivesUpApproval, RecordRefusal, Complete, Fail, LimitsRefuse, Leave
<1>8. CASE FollowerSeesRejected(c) \/ FollowerGivesUpApproval(c) \/ FollowerSeesResult(c)
           \/ FollowerGivesUp(c) \/ Die(c)
  BY <1>8, LeaveStays DEF FollowerSeesRejected, FollowerGivesUpApproval, FollowerSeesResult,
     FollowerGivesUp, Die, Leave
<1> QED BY <1>2, <1>3, <1>4, <1>5, <1>6, <1>7, <1>8, AcquireStays
    DEF Progress, Chance, ApprovalStep, RecordStep, FollowStep

GateSteps ==
  \/ \E c \in Callers : GateStays(c) \/ MarkWaiting(c)
  \/ \E k \in Keys, approve, sign \in BOOLEAN : Resolve(k, approve, sign)
  \/ UNCHANGED <<caller, approvals>>

LEMMA GateKinds ==
  ASSUME TInv, [Next]_vars
  PROVE  GateSteps
<1>1. ASSUME NEW c \in Callers, NEW k \in Keys, Run(c, k) PROVE GateStays(c)
  <2> DEFINE local == [at |-> "acquire", key |-> k, epoch |-> 0,
                       deadline |-> IF MaxConcurrent = None THEN 0 ELSE Deadline(SlotWait)]
  <2>1. (IF MaxConcurrent = None THEN 0 ELSE Deadline(SlotWait)) \in Nat
    BY DeadlineType, PolicyAssumption DEF TInv, TypeOK
  <2>2. local \in Local /\ local.at = "acquire"
    BY <2>1 DEF Local, Places
  <2> HIDE DEF local
  <2>3. caller' = [caller EXCEPT ![c] = local] /\ UNCHANGED approvals
    BY <1>1 DEF Run, local
  <2> QED BY <2>2, <2>3 DEF GateStays
<1>2. UNCHANGED vars \/ Tick \/ (\E run \in hung : HungFunctionEnds(run))
        => UNCHANGED <<caller, approvals>>
  BY DEF vars, Tick, HungFunctionEnds
<1> QED BY <1>1, <1>2, OthersStay DEF Next, GateSteps

LEMMA SanctionsInit == Init => SanctionsAreCurrent
BY DEF Init, SanctionsAreCurrent, Sanctioned, Idle

LEMMA SanctionsStep ==
  ASSUME TInv, OneOwner, OwnerIsCurrent, SanctionsAreCurrent, GateSteps
  PROVE  SanctionsAreCurrent'
<1> SUFFICES ASSUME LeaseTimeout = None, NEW d \in Callers, caller'[d].key \in Gated, Sanctioned(d)'
             PROVE  approvals'[caller'[d].key].sanctions = caller'[d].epoch
  BY DEF SanctionsAreCurrent
<1> DEFINE Goal == approvals'[caller'[d].key].sanctions = caller'[d].epoch
<1>1. /\ caller \in [Callers -> Local] /\ approvals \in [Keys -> Approval] /\ Gated \subseteq Keys
      /\ caller[d].key \in Gated /\ Sanctioned(d)
         => approvals[caller[d].key].sanctions = caller[d].epoch
      /\ Owning(d) => caller[d].epoch = executions[caller[d].key].epoch
  BY KeysAssumption DEF TInv, TypeOK, SanctionsAreCurrent, OwnerIsCurrent
<1>2. ASSUME NEW c \in Callers, GateStays(c) PROVE Goal
  BY <1>1, <1>2 DEF GateStays, Sanctioned
<1>3. ASSUME NEW c \in Callers, MarkWaiting(c) PROVE Goal
  <2>1. /\ caller[c].at = "owner" /\ caller[c].key \in Keys
        /\ approvals' = [approvals EXCEPT ![caller[c].key] = Pended(@)]
    BY <1>3, RowOfType DEF MarkWaiting, At, KeyOf
  <2>2. approvals'[caller[c].key].status = "pending"
    BY <1>1, <2>1 DEF Pended, Approval
  <2>3. d # c
    <3>1. caller'[c].at = "approval" /\ caller'[c].key = caller[c].key
      BY <1>1, <1>3 DEF MarkWaiting, GoTo, Local
    <3> QED BY <2>2, <3>1 DEF Sanctioned
  <2>4. caller'[d] = caller[d]
    BY <1>1, <1>3, <2>3 DEF MarkWaiting, GoTo
  <2>5. Owning(d) /\ Owning(c)
    BY <2>1, <2>4 DEF Sanctioned, Owning, OwnerPlaces
  <2>6. caller[d].key # caller[c].key
    BY <1>1, <2>1, <2>3, <2>5 DEF OneOwner, Owners, Owning, KeyOf
  <2>7. approvals'[caller[d].key] = approvals[caller[d].key]
    BY <1>1, <2>1, <2>4, <2>6
  <2> QED BY <1>1, <2>4, <2>7 DEF Sanctioned
<1>4. ASSUME NEW k \in Keys, NEW approve \in BOOLEAN, NEW sign \in BOOLEAN, Resolve(k, approve, sign)
      PROVE  Goal
  <2> DEFINE new == [status |-> IF approve THEN "approved" ELSE "rejected",
                     signed |-> approve /\ sign,
                     sanctions |-> IF approve THEN executions[k].epoch ELSE approvals[k].sanctions]
  <2>1. approvals' = [approvals EXCEPT ![k] = new] /\ caller' = caller
    BY <1>4 DEF Resolve
  <2>2. Owning(d)
    BY <2>1 DEF Sanctioned, Owning, OwnerPlaces
  <2>3. CASE caller[d].key # k
    BY <1>1, <2>1, <2>3 DEF Sanctioned
  <2>4. CASE caller[d].key = k /\ approve
    BY <1>1, <2>1, <2>2, <2>4
  <2>5. CASE caller[d].key = k /\ ~approve
    BY <1>1, <2>1, <2>5 DEF Sanctioned
  <2> QED BY <2>3, <2>4, <2>5
<1>5. CASE UNCHANGED <<caller, approvals>>
  BY <1>1, <1>5 DEF Sanctioned
<1> QED BY <1>2, <1>3, <1>4, <1>5 DEF GateSteps

\* Without a lease no gated function runs on the approval of an earlier attempt,
\* however humans change their minds and whatever died in between.
THEOREM ApprovedBeforeRunAlways == Spec => []ApprovedBeforeRun
<1> DEFINE Inv == TInv /\ OneOwner /\ OwnerIsCurrent /\ SanctionsAreCurrent
<1>1. Init => Inv
  BY TypeInit, OneOwnerInit, CurrentInit, SanctionsInit
<1>2. Inv /\ [Next]_vars => Inv'
  BY TypeStep, StepKinds, GateKinds, OneOwnerStep, CurrentStep, SanctionsStep
<1>3. Inv => ApprovedBeforeRun
  BY DEF ApprovedBeforeRun, SanctionsAreCurrent, Sanctioned, Inside, At, KeyOf
<1> QED BY <1>1, <1>2, <1>3, PTL DEF Spec
-----------------------------------------------------------------------------
(* Results that expire.                                                    *)

\* A stored result expires a TTL after it was recorded.
ResultsExpire ==
  CacheTtl # None =>
    \A k \in Keys : executions[k].status = "SUCCEEDED" =>
      executions[k].expires = executions[k].finished + CacheTtl

\* While a call is under way it has no value.
Quiet == \A c \in Callers : caller[c].at # "idle" => answer[c].kind # "value"

LEMMA FreshInit == Init => ResultsExpire /\ Quiet
BY DEF Init, ResultsExpire, NoRow, Quiet, Idle

LEMMA ExpireStep ==
  ASSUME TInv, ResultsExpire, TableSteps
  PROVE  ResultsExpire'
<1> SUFFICES ASSUME CacheTtl # None, NEW k \in Keys, executions'[k].status = "SUCCEEDED"
             PROVE  executions'[k].expires = executions'[k].finished + CacheTtl
  BY DEF ResultsExpire
<1>1. /\ executions[k].status = "SUCCEEDED" => executions[k].expires = executions[k].finished + CacheTtl
      /\ executions \in [Keys -> Row]
  BY DEF ResultsExpire, TInv, TypeOK
<1>2. RowStarts => executions'[k] = executions[k]
  BY <1>1 DEF RowStarts
<1>3. RowSettles => \/ executions'[k] = executions[k]
                    \/ executions'[k].expires = ExpiresAt /\ executions'[k].finished = clock
  BY <1>1 DEF RowSettles, Settles
<1>4. TableRests => executions'[k] = executions[k]
  BY DEF TableRests
<1> QED BY <1>1, <1>2, <1>3, <1>4 DEF TableSteps, ExpiresAt

LEMMA QuietStep ==
  ASSUME TInv, Quiet, Kinds
  PROVE  Quiet'
<1> SUFFICES ASSUME NEW d \in Callers, caller'[d].at # "idle" PROVE answer'[d].kind # "value"
  BY DEF Quiet
<1>1. /\ caller[d].at # "idle" => answer[d].kind # "value"
      /\ caller \in [Callers -> Local] /\ answer \in [Callers -> Answer]
  BY DEF Quiet, TInv, TypeOK
<1>2. ASSUME NEW c \in Callers, Acquires(c) PROVE answer'[d].kind # "value"
  <2>1. /\ caller[c].at = "acquire" /\ answer' = answer
        /\ \E local : caller' = [caller EXCEPT ![c] = local]
    BY <1>2, AcquireFacts DEF Starts
  <2> QED BY <1>1, <2>1
<1>3. ASSUME NEW c \in Callers, MarkWaiting(c) PROVE answer'[d].kind # "value"
  BY <1>1, <1>3 DEF MarkWaiting, GoTo, At
<1>4. ASSUME NEW c \in Callers, Records(c) PROVE answer'[d].kind # "value"
  <2>1. PICK k \in Keys, new \in Row, a \in Answer : Ends(c, k, new, a)
    BY <1>4, RecordFacts
  <2> QED BY <1>1, <2>1 DEF Ends, Idle
<1>5. ASSUME NEW c \in Callers, Moves(c) PROVE answer'[d].kind # "value"
  BY <1>1, <1>5 DEF Moves
<1>6. CASE Rests
  BY <1>1, <1>6 DEF Rests
<1> QED BY <1>2, <1>3, <1>4, <1>5, <1>6 DEF Kinds

Served ==
  \A c \in Callers :
    /\ CacheTtl # None /\ At(c, "acquire") /\ At(c, "idle")' /\ answer'[c].kind = "value"
    => clock < RowOf(c).finished + CacheTtl

LEMMA ServedStep ==
  ASSUME TInv, ResultsExpire, Quiet, Kinds
  PROVE  Served
<1> SUFFICES ASSUME NEW d \in Callers, CacheTtl # None, caller[d].at = "acquire",
                    caller'[d].at = "idle", answer'[d].kind = "value"
             PROVE  clock < executions[caller[d].key].finished + CacheTtl
  BY DEF Served, At, RowOf
<1>1. caller \in [Callers -> Local] /\ answer \in [Callers -> Answer] /\ answer[d].kind # "value"
  BY DEF Quiet, TInv, TypeOK
<1>2. ASSUME NEW c \in Callers, Moves(c)
      PROVE  clock < executions[caller[d].key].finished + CacheTtl
  <2>1. PICK a \in Answer :
          /\ answer' = [answer EXCEPT ![c] = a]
          /\ a.kind = "value" => /\ a.key = caller[c].key /\ a.key \in Keys
                                 /\ executions[a.key].status = "SUCCEEDED"
                                 /\ caller[c].at = "acquire" => ~Expired(executions[a.key])
    BY <1>1, <1>2 DEF Moves
  <2>2. c = d /\ a.kind = "value"
    BY <1>1, <2>1
  <2> DEFINE row == executions[caller[d].key]
  <2>3. row.status = "SUCCEEDED" /\ ~Expired(row) /\ row.expires = row.finished + CacheTtl
    BY <2>1, <2>2 DEF ResultsExpire
  <2>4. row \in Row /\ clock \in Nat /\ CacheTtl \in Nat
    BY <2>1, <2>2, PolicyAssumption DEF TInv, TypeOK
  <2>5. row.finished + CacheTtl \in Nat
    BY <2>4 DEF Row
  <2> HIDE DEF row
  <2>6. row.expires # None /\ ~(row.expires <= clock)
    BY <2>3, <2>5, NoneAssumption DEF Expired
  <2> QED BY <2>3, <2>4, <2>5, <2>6 DEF row
<1>3. ASSUME NEW c \in Callers, Acquires(c) PROVE FALSE
  BY <1>1, <1>3, AcquireFacts DEF Starts
<1>4. ASSUME NEW c \in Callers, MarkWaiting(c) PROVE FALSE
  BY <1>1, <1>4 DEF MarkWaiting
<1>5. ASSUME NEW c \in Callers, Records(c) PROVE FALSE
  <2>1. PICK k \in Keys, new \in Row, a \in Answer : Ends(c, k, new, a)
    BY <1>5, RecordFacts
  <2>2. c # d
    BY <2>1 DEF Ends, Owning, OwnerPlaces
  <2> QED BY <1>1, <2>1, <2>2 DEF Ends
<1>6. CASE Rests
  BY <1>1, <1>6 DEF Rests
<1> QED BY <1>2, <1>3, <1>4, <1>5, <1>6 DEF Kinds

\* acquire_or_get does not answer with a value whose TTL has passed, whenever it was
\* recorded and whoever recorded it.
THEOREM CacheHitIsFreshAlways == Spec => CacheHitIsFresh
<1>1. Init => TInv /\ ResultsExpire /\ Quiet
  BY TypeInit, FreshInit
<1>2. TInv /\ ResultsExpire /\ Quiet /\ [Next]_vars => TInv' /\ ResultsExpire' /\ Quiet'
  BY TypeStep, StepKinds, TableKinds, ExpireStep, QuietStep
<1>3. TInv /\ ResultsExpire /\ Quiet /\ [Next]_vars
      => [\A c \in Callers :
            /\ CacheTtl # None /\ At(c, "acquire") /\ At(c, "idle")' /\ answer'[c].kind = "value"
            => clock < RowOf(c).finished + CacheTtl]_vars
  BY StepKinds, ServedStep DEF Served
<1> QED BY <1>1, <1>2, <1>3, PTL DEF Spec, CacheHitIsFresh
-----------------------------------------------------------------------------
(* What followers are handed.                                              *)

\* How a process comes to follow.
Joins ==
  \A d \in Callers : caller'[d].at \in {"follow", "followApproval"} =>
    \/ caller'[d] = caller[d]
    \/ /\ caller'[d].key = caller[d].key /\ caller[d].key \in Keys
       /\ executions' = executions /\ clock' = clock
       /\ \/ /\ caller'[d].at = "follow" /\ caller'[d].deadline = Deadline(FollowTimeout)
             /\ executions[caller[d].key].status = "RUNNING"
          \/ /\ caller'[d].at = "followApproval"
             /\ executions[caller[d].key].status = "WAITING_APPROVAL"
          \/ caller[d].at = "followApproval"

\* Where a step of one process leads that does not come to follow.
Elsewhere(c) ==
  \/ caller' = caller
  \/ \E local : /\ caller' = [caller EXCEPT ![c] = local]
               /\ local.at \notin {"follow", "followApproval"}

LEMMA ElsewhereJoins ==
  ASSUME TInv, NEW c \in Callers, Elsewhere(c)
  PROVE  Joins
BY DEF Elsewhere, Joins, TInv, TypeOK

LEMMA GoToElsewhere ==
  ASSUME TInv, NEW c \in Callers, NEW place, NEW deadline, GoTo(c, place, deadline),
         place \notin {"follow", "followApproval"}
  PROVE  Elsewhere(c)
<1> DEFINE local == [caller[c] EXCEPT !.at = place, !.deadline = deadline]
<1>1. caller[c] \in Local
  BY DEF TInv, TypeOK
<1>2. local.at = place
  BY <1>1 DEF Local
<1>3. caller' = [caller EXCEPT ![c] = local]
  BY DEF GoTo
<1> QED BY <1>2, <1>3 DEF Elsewhere

LEMMA LeaveElsewhere ==
  ASSUME NEW c \in Callers, NEW kind, NEW epoch, Leave(c, kind, epoch)
  PROVE  Elsewhere(c)
<1>1. caller' = [caller EXCEPT ![c] = Idle]
  BY DEF Leave
<1>2. Idle.at \notin {"follow", "followApproval"}
  BY DEF Idle
<1> QED BY <1>1, <1>2 DEF Elsewhere

LEMMA AcquireJoins ==
  ASSUME TInv, NEW c \in Callers, AcquireStep(c)
  PROVE  Joins
<1> USE DEF At
<1>1. CASE AcquireGivesUp(c) \/ AcquireUsesCached(c) \/ AcquireReplaysError(c)
  BY <1>1, LeaveElsewhere, ElsewhereJoins DEF AcquireGivesUp, AcquireUsesCached, AcquireReplaysError
<1>2. CASE Acquires(c)
  <2>1. Elsewhere(c)
    BY <1>2, AcquireFacts DEF Starts, Elsewhere
  <2> QED BY <2>1, ElsewhereJoins
<1>3. CASE AcquireFollowsApproval(c) \/ AcquireFollowsRunning(c)
  <2>1. caller[c] \in Local /\ caller[c].key \in Keys /\ caller \in [Callers -> Local]
    BY <1>3 DEF AcquireFollowsApproval, AcquireFollowsRunning, TInv, TypeOK, Placed
  <2>2. CASE AcquireFollowsApproval(c)
    BY <2>1, <2>2 DEF AcquireFollowsApproval, GoTo, Local, Joins, RowOf
  <2>3. CASE AcquireFollowsRunning(c)
    BY <2>1, <2>3 DEF AcquireFollowsRunning, GoTo, Local, Joins, RowOf
  <2> QED BY <1>3, <2>2, <2>3
<1> QED BY <1>1, <1>2, <1>3 DEF AcquireStep, Acquires

LEMMA OwnerJoins ==
  ASSUME TInv, NEW c \in Callers, ApprovalStep(c) \/ RecordStep(c) \/ Chance(c)
  PROVE  Joins
<1>1. CASE \/ OwnerGivesUpApproval(c) \/ RecordRefusal(c) \/ Complete(c) \/ Fail(c)
           \/ LimitsRefuse(c)
  BY <1>1, LeaveElsewhere, ElsewhereJoins
     DEF OwnerGivesUpApproval, RecordRefusal, Complete, Fail, LimitsRefuse
<1>2. CASE \/ MarkWaiting(c) \/ OwnerSeesApproved(c) \/ OwnerSeesRejected(c)
           \/ VerifySignature(c) \/ StartFunction(c) \/ FunctionTimesOut(c)
  BY <1>2, GoToElsewhere, ElsewhereJoins
     DEF MarkWaiting, OwnerSeesApproved, OwnerSeesRejected, VerifySignature, StartFunction,
         FunctionTimesOut
<1>3. CASE FunctionReturns(c) \/ FunctionRaises(c) \/ CompleteRaises(c)
  BY <1>3, GoToElsewhere, ElsewhereJoins DEF FunctionReturns, FunctionRaises, CompleteRaises
<1>4. CASE Die(c)
  <2>1. caller' = [caller EXCEPT ![c] = Idle]
    BY <1>4 DEF Die
  <2>2. Idle.at \notin {"follow", "followApproval"}
    BY DEF Idle
  <2>3. Elsewhere(c)
    BY <2>1, <2>2 DEF Elsewhere
  <2> QED BY <2>3, ElsewhereJoins
<1> QED BY <1>1, <1>2, <1>3, <1>4 DEF ApprovalStep, RecordStep, Chance

LEMMA FollowJoins ==
  ASSUME TInv, NEW c \in Callers, FollowStep(c)
  PROVE  Joins
<1>1. CASE \/ FollowerSeesRejected(c) \/ FollowerGivesUpApproval(c) \/ FollowerGivesUp(c)
           \/ FollowerSeesResult(c)
  BY <1>1, LeaveElsewhere, ElsewhereJoins
     DEF FollowerSeesRejected, FollowerGivesUpApproval, FollowerGivesUp, FollowerSeesResult
<1>2. CASE FollowerSeesApproved(c)
  <2>1. caller[c] \in Local /\ caller[c].key \in Keys /\ caller \in [Callers -> Local]
    BY <1>2 DEF FollowerSeesApproved, At, TInv, TypeOK, Placed
  <2> QED BY <1>2, <2>1 DEF FollowerSeesApproved, At, GoTo, Local, Joins
<1> QED BY <1>1, <1>2 DEF FollowStep

LEMMA StepJoins ==
  ASSUME TInv, [Next]_vars
  PROVE  Joins
<1>1. ASSUME NEW c \in Callers, NEW k \in Keys, Run(c, k) PROVE Joins
  <2> DEFINE local == [at |-> "acquire", key |-> k, epoch |-> 0,
                       deadline |-> IF MaxConcurrent = None THEN 0 ELSE Deadline(SlotWait)]
  <2>1. caller' = [caller EXCEPT ![c] = local]
    BY <1>1 DEF Run
  <2>2. local.at = "acquire"
    OBVIOUS
  <2>3. Elsewhere(c)
    <3> HIDE DEF local
    <3> QED BY <2>1, <2>2 DEF Elsewhere
  <2> QED BY <2>3, ElsewhereJoins
<1>2. ASSUME NEW c \in Callers, Progress(c) \/ Chance(c) PROVE Joins
  BY <1>2, AcquireJoins, OwnerJoins, FollowJoins DEF Progress
<1>3. ASSUME caller' = caller PROVE Joins
  BY <1>3 DEF Joins
<1>4. ASSUME NEW k \in Keys, NEW approve \in BOOLEAN, NEW sign \in BOOLEAN,
             Resolve(k, approve, sign)
      PROVE  Joins
  BY <1>3, <1>4 DEF Resolve
<1>5. ASSUME NEW run \in hung, HungFunctionEnds(run) PROVE Joins
  BY <1>3, <1>5 DEF HungFunctionEnds
<1>6. CASE Tick
  BY <1>3, <1>6 DEF Tick
<1>7. CASE UNCHANGED vars
  BY <1>3, <1>7 DEF vars
<1> QED BY <1>1, <1>2, <1>4, <1>5, <1>6, <1>7 DEF Next

\* The row of a key that needs no approval never waits for one.
Unparked == \A k \in Keys \ Gated : executions[k].status # "WAITING_APPROVAL"

LEMMA UnparkedStep ==
  ASSUME TInv, Unparked, Kinds
  PROVE  Unparked'
<1> SUFFICES ASSUME NEW k \in Keys \ Gated PROVE executions'[k].status # "WAITING_APPROVAL"
  BY DEF Unparked
<1> DEFINE Goal == executions'[k].status # "WAITING_APPROVAL"
<1>1. executions \in [Keys -> Row] /\ executions[k].status # "WAITING_APPROVAL"
  BY DEF Unparked, TInv, TypeOK
<1>2. ASSUME NEW c \in Callers, Acquires(c) PROVE Goal
  BY <1>1, <1>2, AcquireFacts DEF Starts
<1>3. ASSUME NEW c \in Callers, MarkWaiting(c) PROVE Goal
  <2>1. caller[c].key # k
    BY <1>3 DEF MarkWaiting, NeedsApproval, KeyOf
  <2> QED BY <1>1, <1>3, <2>1, ParkFacts
<1>4. ASSUME NEW c \in Callers, Records(c) PROVE Goal
  <2>1. PICK kk \in Keys, new \in Row, a \in Answer : Ends(c, kk, new, a)
    BY <1>4, RecordFacts
  <2> QED BY <1>1, <2>1 DEF Ends, Finished
<1>5. ASSUME NEW c \in Callers, Moves(c) PROVE Goal
  BY <1>1, <1>5 DEF Moves
<1>6. CASE Rests
  BY <1>1, <1>6 DEF Rests
<1> QED BY <1>2, <1>3, <1>4, <1>5, <1>6 DEF Kinds

\* Whoever follows began no later than now, and before the result that is there now.
Followed ==
  \A c \in Callers : caller[c].key \notin Gated =>
    /\ caller[c].at # "followApproval"
    /\ caller[c].at = "follow" =>
         /\ caller[c].deadline <= clock + FollowTimeout
         /\ executions[caller[c].key].status = "SUCCEEDED" =>
              caller[c].deadline <= executions[caller[c].key].finished + FollowTimeout

LEMMA FollowedInit == Init => Unparked /\ Followed
BY DEF Init, Unparked, Followed, NoRow, Idle

LEMMA FollowedStep ==
  ASSUME TInv, Unparked, Followed, TableSteps, Joins
  PROVE  Followed'
<1> SUFFICES ASSUME NEW c \in Callers, caller'[c].key \notin Gated,
                    caller'[c].at \in {"follow", "followApproval"}
             PROVE  /\ caller'[c].at # "followApproval"
                    /\ caller'[c].deadline <= clock' + FollowTimeout
                    /\ executions'[caller'[c].key].status = "SUCCEEDED" =>
                         caller'[c].deadline <= executions'[caller'[c].key].finished + FollowTimeout
  BY DEF Followed
<1> DEFINE k == caller[c].key
<1>1. /\ executions \in [Keys -> Row] /\ clock \in Nat /\ FollowTimeout \in Nat
      /\ caller[c] \in Local /\ clock' \in Nat /\ clock' >= clock
  BY PolicyAssumption DEF TInv, TypeOK, TableSteps, RowStarts, RowSettles, TableRests
<1>2. CASE caller'[c] = caller[c]
  <2>1. k \in Keys
    BY <1>2 DEF TInv, Placed
  <2>2. /\ caller[c].at = "follow" /\ caller[c].deadline <= clock + FollowTimeout
        /\ executions[k].status = "SUCCEEDED" =>
             caller[c].deadline <= executions[k].finished + FollowTimeout
    BY <1>2 DEF Followed
  <2>3. \/ executions'[k] = executions[k]
        \/ executions'[k].status # "SUCCEEDED"
        \/ executions'[k].finished = clock
    BY <1>1, <2>1 DEF TableSteps, RowStarts, RowSettles, Settles, TableRests
  <2>4. caller[c].deadline \in Nat
    BY <1>1 DEF Local
  <2>5. caller[c].deadline <= clock' + FollowTimeout
    BY <1>1, <2>2, <2>4
  <2> QED BY <1>2, <2>2, <2>3, <2>5
<1>3. CASE caller'[c] # caller[c]
  <2>1. /\ caller'[c].key = k /\ k \in Keys \ Gated
        /\ executions' = executions /\ clock' = clock
    BY <1>3 DEF Joins
  <2>2. /\ caller'[c].at = "follow" /\ caller'[c].deadline = Deadline(FollowTimeout)
        /\ executions[k].status = "RUNNING"
    BY <1>3, <2>1 DEF Joins, Unparked, Followed
  <2>3. Deadline(FollowTimeout) <= clock + FollowTimeout
    BY <1>1, BoundAssumption DEF Deadline
  <2> QED BY <2>1, <2>2, <2>3
<1> QED BY <1>2, <1>3

HandedNew ==
  \A c \in Callers :
    /\ KeyOf(c) \notin Gated
    /\ At(c, "follow") /\ At(c, "idle")' /\ answer'[c].kind = "value"
    => caller[c].deadline <= RowOf(c).finished + FollowTimeout

LEMMA HandedStep ==
  ASSUME TInv, Followed, Quiet, Kinds
  PROVE  HandedNew
<1> SUFFICES ASSUME NEW d \in Callers, caller[d].key \notin Gated, caller[d].at = "follow",
                    caller'[d].at = "idle", answer'[d].kind = "value"
             PROVE  caller[d].deadline <= executions[caller[d].key].finished + FollowTimeout
  BY DEF HandedNew, At, RowOf, KeyOf
<1>1. caller \in [Callers -> Local] /\ answer \in [Callers -> Answer] /\ answer[d].kind # "value"
  BY DEF Quiet, TInv, TypeOK
<1>2. ASSUME NEW c \in Callers, Moves(c)
      PROVE  caller[d].deadline <= executions[caller[d].key].finished + FollowTimeout
  <2>1. executions[caller[d].key].status = "SUCCEEDED"
    BY <1>1, <1>2 DEF Moves
  <2> QED BY <2>1 DEF Followed
<1>3. ASSUME NEW c \in Callers, Acquires(c) PROVE FALSE
  BY <1>1, <1>3, AcquireFacts DEF Starts
<1>4. ASSUME NEW c \in Callers, MarkWaiting(c) PROVE FALSE
  BY <1>1, <1>4 DEF MarkWaiting
<1>5. ASSUME NEW c \in Callers, Records(c) PROVE FALSE
  <2>1. PICK k \in Keys, new \in Row, a \in Answer : Ends(c, k, new, a)
    BY <1>5, RecordFacts
  <2>2. c # d
    BY <2>1 DEF Ends, Owning, OwnerPlaces
  <2> QED BY <1>1, <2>1, <2>2 DEF Ends
<1>6. CASE Rests
  BY <1>1, <1>6 DEF Rests
<1> QED BY <1>2, <1>3, <1>4, <1>5, <1>6 DEF Kinds

\* A follower of a key that needs no approval is never handed a value recorded before
\* it began to follow, whoever reclaims, retries or writes late in between.
THEOREM FollowedIsNewAlways == Spec => FollowedIsNew
<1> DEFINE Inv == TInv /\ Quiet /\ Unparked /\ Followed
<1>1. Init => Inv
  BY TypeInit, FreshInit, FollowedInit
<1>2. Inv /\ [Next]_vars => Inv'
  BY TypeStep, StepKinds, TableKinds, StepJoins, QuietStep, UnparkedStep, FollowedStep
<1>3. Inv /\ [Next]_vars
      => [\A c \in Callers :
            /\ KeyOf(c) \notin Gated
            /\ At(c, "follow") /\ At(c, "idle")' /\ answer'[c].kind = "value"
            => caller[c].deadline <= RowOf(c).finished + FollowTimeout]_vars
  BY StepKinds, HandedStep DEF HandedNew
<1> QED BY <1>1, <1>2, <1>3, PTL DEF Spec, FollowedIsNew
-----------------------------------------------------------------------------
(* The cap, as far as the functions respect it.                            *)

\* Without a lease the row of an owner that needs no approval is RUNNING.
UngatedRuns ==
  LeaseTimeout = None =>
    \A c \in Callers : Owning(c) /\ caller[c].key \notin Gated =>
      executions[caller[c].key].status = "RUNNING"

LEMMA UngatedInit == Init => UngatedRuns
BY DEF Init, UngatedRuns, Owning, Idle, OwnerPlaces

LEMMA UngatedStep ==
  ASSUME TInv, OneOwner, UngatedRuns, Kinds
  PROVE  UngatedRuns'
<1> SUFFICES ASSUME LeaseTimeout = None, NEW d \in Callers, Owning(d)', caller'[d].key \notin Gated
             PROVE  executions'[caller'[d].key].status = "RUNNING"
  BY DEF UngatedRuns
<1> DEFINE Goal == executions'[caller'[d].key].status = "RUNNING"
<1>1. /\ Owning(d) /\ caller[d].key \notin Gated => executions[caller[d].key].status = "RUNNING"
      /\ \A c, e \in Callers : Owning(c) /\ Owning(e) /\ caller[c].key = caller[e].key => c = e
      /\ \A c \in Callers : Owning(c) =>
           caller[c].key \in Keys /\ executions[caller[c].key].status \in Live
      /\ caller \in [Callers -> Local] /\ executions \in [Keys -> Row]
  BY DEF UngatedRuns, OneOwner, Owners, Owning, KeyOf, TInv, TypeOK, Placed, OwnerPlaces
<1>2. ASSUME NEW c \in Callers, Acquires(c) PROVE Goal
  <2>1. PICK k \in Keys, retries \in Nat, expires \in Nat \cup {None} :
          Starts(c, k, retries, expires) /\ MayStart(executions[k], retries, expires)
    BY <1>2, AcquireFacts
  <2>2. CASE d = c
    BY <1>1, <2>1, <2>2 DEF Starts
  <2>3. CASE d # c
    <3>1. Owning(d) /\ caller'[d] = caller[d]
      BY <1>1, <2>1, <2>3 DEF Starts, Owning
    <3>2. caller[d].key # k
      BY <1>1, <2>1, <3>1 DEF MayStart, Stale, Live
    <3> QED BY <1>1, <2>1, <3>1, <3>2 DEF Starts
  <2> QED BY <2>2, <2>3
<1>3. ASSUME NEW c \in Callers, MarkWaiting(c) PROVE Goal
  <2>1. PICK k \in Keys, new \in Row, local \in Local :
           /\ k = caller[c].key /\ Owning(c)
           /\ executions' = [executions EXCEPT ![k] = new]
           /\ caller' = [caller EXCEPT ![c] = local] /\ local.key = k
    BY <1>3, ParkFacts
  <2>2. d # c
    BY <1>1, <1>3, <2>1 DEF MarkWaiting, NeedsApproval, KeyOf
  <2> QED BY <1>1, <2>1, <2>2 DEF Owning
<1>4. ASSUME NEW c \in Callers, Records(c) PROVE Goal
  <2>1. PICK k \in Keys, new \in Row, a \in Answer : Ends(c, k, new, a)
    BY <1>4, RecordFacts
  <2> QED BY <1>1, <2>1 DEF Ends, Owning, Idle, OwnerPlaces
<1>5. ASSUME NEW c \in Callers, Moves(c) PROVE Goal
  BY <1>1, <1>5 DEF Moves, Owning
<1>6. CASE Rests
  BY <1>1, <1>6 DEF Rests, Owning
<1> QED BY <1>2, <1>3, <1>4, <1>5, <1>6 DEF Kinds

\* Each function that runs without approval has a RUNNING row of its own.
LEMMA UngatedCap ==
  ASSUME TInv, OneOwner, UngatedRuns, CapHolds, LeaseTimeout = None, MaxConcurrent # None
  PROVE  LET running == Cardinality({c \in Callers : At(c, "function") /\ KeyOf(c) \notin Gated})
         IN  running <= MaxConcurrent /\ running \in Nat
<1> DEFINE S == {c \in Callers : At(c, "function") /\ KeyOf(c) \notin Gated}
           f == [c \in S |-> KeyOf(c)]
<1>1. IsFiniteSet(Running) /\ Cardinality(Running) \in Nat /\ MaxConcurrent \in Nat
  <2>1. Running \subseteq Keys
    BY DEF Running
  <2> QED BY <2>1, KeysAssumption, FS_Subset, FS_CardinalityType, PolicyAssumption
<1>2. \A c \in S : Owning(c) /\ KeyOf(c) \in Running
  BY DEF Owning, OwnerPlaces, At, KeyOf, Running, UngatedRuns, TInv, Placed
<1>3. \A c, d \in S : KeyOf(c) = KeyOf(d) => c = d
  BY <1>2 DEF OneOwner, Owners, Owning, KeyOf, TInv, Placed, OwnerPlaces
<1>4. f \in Injection(S, Running)
  BY <1>2, <1>3 DEF Injection, IsInjective
<1> HIDE DEF S, f
<1>5. IsFiniteSet(S) /\ Cardinality(S) <= Cardinality(Running)
  BY <1>1, <1>4, FS_Injection
<1>6. Cardinality(S) \in Nat
  BY <1>5, FS_CardinalityType
<1> QED BY <1>1, <1>5, <1>6 DEF CapHolds, S

\* Functions are left running by an execution_timeout only.
LEMMA HungStep ==
  ASSUME [Next]_vars
  PROVE  \/ hung' \subseteq hung
         \/ \E c \in Callers : FunctionTimesOut(c)
<1>1. ASSUME NEW c \in Callers, AcquireStep(c) PROVE hung' = hung
  BY <1>1 DEF AcquireStep, AcquireGivesUp, AcquireInserts, AcquireUsesCached,
     AcquireReclaimsExpired, AcquireRetries, AcquireReplaysError, AcquireFollowsApproval,
     AcquireReclaimsStale, AcquireFollowsRunning, Own
<1>2. ASSUME NEW c \in Callers, ApprovalStep(c) PROVE hung' = hung
  BY <1>2 DEF ApprovalStep, MarkWaiting, OwnerSeesApproved, OwnerSeesRejected,
     OwnerGivesUpApproval, VerifySignature, RecordRefusal
<1>3. ASSUME NEW c \in Callers, RecordStep(c) PROVE hung' = hung \/ FunctionTimesOut(c)
  BY <1>3 DEF RecordStep, StartFunction, Complete, Fail
<1>4. ASSUME NEW c \in Callers, FollowStep(c) PROVE hung' = hung
  BY <1>4 DEF FollowStep, FollowerSeesApproved, FollowerSeesRejected, FollowerGivesUpApproval,
     FollowerSeesResult, FollowerGivesUp
<1>5. ASSUME NEW c \in Callers, Chance(c) PROVE hung' = hung
  BY <1>5 DEF Chance, LimitsRefuse, FunctionReturns, FunctionRaises, CompleteRaises, Die
<1>6. ASSUME NEW c \in Callers, NEW k \in Keys, Run(c, k) PROVE hung' = hung
  BY <1>6 DEF Run
<1>7. ASSUME NEW k \in Keys, NEW approve \in BOOLEAN, NEW sign \in BOOLEAN,
             Resolve(k, approve, sign)
      PROVE  hung' = hung
  BY <1>7 DEF Resolve
<1>8. ASSUME NEW run \in hung, HungFunctionEnds(run) PROVE hung' \subseteq hung
  BY <1>8 DEF HungFunctionEnds
<1>9. Tick \/ UNCHANGED vars => hung' = hung
  BY DEF Tick, vars
<1> QED BY <1>1, <1>2, <1>3, <1>4, <1>5, <1>6, <1>7, <1>8, <1>9 DEF Next, Progress

\* With no function left running the cap on rows is one on functions.
LEMMA CapBoundsFunctions ==
  ASSUME TInv, OneOwner, UngatedRuns, CapHolds, LeaseTimeout = None, Gated = {}, hung = {}
  PROVE  CapOnFunctions
<1> SUFFICES ASSUME MaxConcurrent # None
             PROVE  Cardinality({c \in Callers : At(c, "function")}) + Cardinality(hung)
                      <= MaxConcurrent
  BY DEF CapOnFunctions
<1> DEFINE S == {c \in Callers : At(c, "function")}
           T == {c \in Callers : At(c, "function") /\ KeyOf(c) \notin Gated}
<1>1. S = T
  OBVIOUS
<1>2. Cardinality(T) <= MaxConcurrent /\ Cardinality(T) \in Nat
  BY UngatedCap
<1>3. Cardinality(hung) = 0
  BY FS_EmptySet
<1> QED BY <1>1, <1>2, <1>3

\* Where nothing needs approval, no lease runs out and no execution_timeout leaves a
\* function to its thread, max_concurrent bounds the functions that run, and not
\* only the rows that are RUNNING.
THEOREM CapOnFunctionsAlways ==
  ASSUME LeaseTimeout = None, Gated = {}, ExecTimeout = None
  PROVE  Spec => []CapOnFunctions
<1> DEFINE Inv == TInv /\ OneOwner /\ UngatedRuns /\ CapHolds /\ hung = {}
<1>1. Init => Inv
  BY TypeInit, OneOwnerInit, UngatedInit, CapInit DEF Init
<1>2. ASSUME hung = {}, [Next]_vars PROVE hung' = {}
  BY <1>2, HungStep DEF FunctionTimesOut
<1>3. Inv /\ [Next]_vars => Inv'
  BY <1>2, TypeStep, StepKinds, TableKinds, OneOwnerStep, UngatedStep, CapStep
<1>4. Inv => CapOnFunctions
  BY CapBoundsFunctions
<1> QED BY <1>1, <1>3, <1>4, PTL DEF Spec
-----------------------------------------------------------------------------
(* The refinement of SingleFlight.                                         *)

PInv == TInv /\ OneOwner /\ NoExpiry /\ CountedAttempts /\ OwnerIsCurrent

LEMMA PromiseInit == Init => SF!Init
BY DEF Init, SF!Init, claim, handed, ClaimOf, HandedOf, StateOf, NoRow, Live, NoAnswer

\* Changing one row changes one claim; changing one answer, one hand.
LEMMA ClaimUpdate ==
  ASSUME executions \in [Keys -> Row], NEW k \in Keys, NEW new,
         executions' = [executions EXCEPT ![k] = new]
  PROVE  claim' = [claim EXCEPT ![k] = ClaimOf(new)]
BY DEF claim, ClaimOf, StateOf

LEMMA HandedUpdate ==
  ASSUME answer \in [Callers -> Answer], NEW c \in Callers, NEW a,
         answer' = [answer EXCEPT ![c] = a]
  PROVE  handed' = [handed EXCEPT ![c] = HandedOf(a)]
BY DEF handed, HandedOf

LEMMA PInvStep ==
  ASSUME PInv, LeaseTimeout = None, CacheTtl = None, Kinds
  PROVE  /\ OneOwner' /\ NoExpiry' /\ CountedAttempts' /\ OwnerIsCurrent'
BY TableKinds, OneOwnerStep, NoExpiryStep, CountedStep, CurrentStep DEF PInv

\* What is acquired is open, and its retries are not used up.
LEMMA StartsCounted ==
  ASSUME TInv, NoExpiry, CountedAttempts, LeaseTimeout = None, CacheTtl = None,
         NEW k \in Keys, NEW retries, NEW expires, MayStart(executions[k], retries, expires)
  PROVE  executions[k].status \in {"ABSENT", "FAILED"} /\ executions[k].epoch <= MaxRetries
<1> DEFINE old == executions[k]
<1>1. old.expires = None /\ old.retries \in Nat /\ old.epoch \in Nat /\ MaxRetries \in Nat
  BY PolicyAssumption DEF NoExpiry, Row, TInv, TypeOK
<1>2. /\ old.epoch <= old.retries + 1
      /\ old.status = "ABSENT" => old.epoch = 0
  BY DEF CountedAttempts
<1> HIDE DEF old
<1>3. \/ old.status = "ABSENT"
      \/ old.status = "FAILED" /\ old.retries < MaxRetries
  BY <1>1 DEF MayStart, Expired, Stale, MayRetry, old
<1>4. old.status \in {"ABSENT", "FAILED"} /\ old.epoch <= MaxRetries
  BY <1>1, <1>2, <1>3
<1> QED BY <1>4 DEF old

LEMMA PromiseStep ==
  ASSUME PInv, LeaseTimeout = None, CacheTtl = None, Kinds
  PROVE  [SF!Next]_<<claim, handed>>
<1>1. executions \in [Keys -> Row] /\ answer \in [Callers -> Answer]
  BY DEF PInv, TInv, TypeOK
<1>2. ASSUME NEW c \in Callers, Acquires(c) PROVE SF!Next
  <2>1. PICK k \in Keys, retries \in Nat, expires \in Nat \cup {None} :
          Starts(c, k, retries, expires) /\ MayStart(executions[k], retries, expires)
    BY <1>2, AcquireFacts DEF PInv
  <2> DEFINE old == executions[k]  new == Restarted(old, retries, expires)
  <2>2. executions' = [executions EXCEPT ![k] = new]
        /\ new.status = "RUNNING" /\ new.epoch = old.epoch + 1 /\ answer' = answer
    BY <2>1 DEF Starts
  <2>3. old.status \in {"ABSENT", "FAILED"} /\ old.epoch <= MaxRetries
    BY <2>1, StartsCounted DEF PInv
  <2>4. claim' = [claim EXCEPT ![k] = ClaimOf(new)]
    BY <1>1, <2>2, ClaimUpdate
  <2>5. claim[k].state = "open" /\ claim[k].claims = old.epoch
    <3>1. claim[k] = ClaimOf(old)
      BY DEF claim
    <3>2. ClaimOf(old).state = StateOf(old) /\ ClaimOf(old).claims = old.epoch
      BY DEF ClaimOf
    <3> HIDE DEF old
    <3>3. StateOf(old) = "open"
      BY <2>3 DEF StateOf, Live
    <3> QED BY <3>1, <3>2, <3>3
  <2>6. ClaimOf(new) = [state |-> "claimed", claims |-> claim[k].claims + 1, value |-> 0]
    BY <2>2, <2>5 DEF ClaimOf, StateOf, Live
  <2>7. handed' = handed
    BY <2>2 DEF handed
  <2> HIDE DEF new
  <2>8. SF!Claim(k)
    BY <2>3, <2>4, <2>5, <2>6, <2>7 DEF SF!Claim
  <2> QED BY <2>8 DEF SF!Next
<1>3. ASSUME NEW c \in Callers, MarkWaiting(c) PROVE UNCHANGED <<claim, handed>>
  <2>1. PICK k \in Keys, new \in Row :
           /\ k = caller[c].key /\ Owning(c)
           /\ executions' = [executions EXCEPT ![k] = new]
           /\ new.status = "WAITING_APPROVAL" /\ new.epoch = executions[k].epoch
           /\ answer' = answer
    BY <1>3, ParkFacts DEF PInv
  <2>2. executions[k].status \in Live
    BY <2>1 DEF PInv, OneOwner, Owners, Owning, KeyOf
  <2>3. ClaimOf(new) = ClaimOf(executions[k])
    BY <2>1, <2>2 DEF ClaimOf, StateOf, Live
  <2>4. claim' = [claim EXCEPT ![k] = ClaimOf(new)]
    BY <1>1, <2>1, ClaimUpdate
  <2>5. claim' = claim
    <3>1. claim = [claim EXCEPT ![k] = claim[k]] /\ claim[k] = ClaimOf(executions[k])
      BY DEF claim
    <3> QED BY <2>3, <2>4, <3>1
  <2> QED BY <2>1, <2>5 DEF handed
<1>4. ASSUME NEW c \in Callers, Records(c) PROVE SF!Next
  <2>1. PICK k \in Keys, new \in Row, a \in Answer : Ends(c, k, new, a)
    BY <1>4, RecordFacts DEF PInv
  <2>2. executions[k].status \in Live /\ caller[c].epoch = executions[k].epoch
    BY <2>1 DEF Ends, PInv, OneOwner, OwnerIsCurrent, Owners, Owning, KeyOf
  <2>3. claim[k].state = "claimed" /\ claim[k].claims = executions[k].epoch
    <3> DEFINE old == executions[k]
    <3>1. claim[k] = ClaimOf(old) /\ old.status \in Live
      BY <2>2 DEF claim
    <3> HIDE DEF old
    <3>2. StateOf(old) = "claimed"
      BY <3>1 DEF StateOf
    <3>3. claim[k].state = "claimed" /\ claim[k].claims = old.epoch
      BY <3>1, <3>2 DEF ClaimOf
    <3> QED BY <3>3 DEF old
  <2>4. claim' = [claim EXCEPT ![k] = ClaimOf(new)] /\ handed' = [handed EXCEPT ![c] = HandedOf(a)]
    BY <1>1, <2>1, ClaimUpdate, HandedUpdate DEF Ends
  <2>5. CASE new.status = "SUCCEEDED"
    <3>1. ClaimOf(new) = [state |-> "settled", claims |-> claim[k].claims, value |-> claim[k].claims]
      BY <2>1, <2>2, <2>3, <2>5 DEF Ends, ClaimOf, StateOf, Live
    <3>2. HandedOf(a) = [key |-> k, value |-> claim[k].claims]
      BY <2>1, <2>2, <2>3, <2>5 DEF Ends, HandedOf
    <3>3. SF!Settle(c, k)
      BY <2>3, <2>4, <3>1, <3>2 DEF SF!Settle
    <3> QED BY <3>3 DEF SF!Next
  <2>6. CASE new.status # "SUCCEEDED"
    <3>1. new.status = "FAILED"
      BY <2>1, <2>6 DEF Ends, Finished
    <3>2. ClaimOf(new) = [state |-> "open", claims |-> claim[k].claims, value |-> 0]
      BY <2>1, <2>3, <3>1 DEF Ends, ClaimOf, StateOf, Live
    <3>3. HandedOf(a) = None
      BY <2>1, <2>6 DEF Ends, HandedOf
    <3>4. SF!Release(c, k)
      BY <2>3, <2>4, <3>2, <3>3 DEF SF!Release
    <3> QED BY <3>4 DEF SF!Next
  <2> QED BY <2>5, <2>6
<1>5. ASSUME NEW c \in Callers, Moves(c) PROVE [SF!Next]_<<claim, handed>>
  <2>1. claim' = claim
    BY <1>5 DEF Moves, claim
  <2>2. CASE answer' = answer
    BY <2>1, <2>2 DEF handed
  <2>3. CASE answer' # answer
    <3>1. PICK a \in Answer :
            /\ answer' = [answer EXCEPT ![c] = a]
            /\ a.kind = "value" => /\ a.key \in Keys
                                   /\ executions[a.key].status = "SUCCEEDED"
                                   /\ executions[a.key].result = a.epoch
      BY <1>5, <2>3 DEF Moves
    <3>2. handed' = [handed EXCEPT ![c] = HandedOf(a)]
      BY <1>1, <3>1, HandedUpdate
    <3>3. CASE a.kind = "value"
      <4>1. claim[a.key].state = "settled" /\ claim[a.key].value = a.epoch
        BY <3>1, <3>3 DEF claim, ClaimOf, StateOf, Live
      <4>2. HandedOf(a) = [key |-> a.key, value |-> claim[a.key].value]
        BY <3>3, <4>1 DEF HandedOf
      <4>3. SF!Hand(c, a.key)
        BY <2>1, <3>2, <4>1, <4>2 DEF SF!Hand
      <4> QED BY <3>1, <3>3, <4>3 DEF SF!Next
    <3>4. CASE a.kind # "value"
      <4>1. SF!Forget(c)
        BY <2>1, <3>2, <3>4 DEF SF!Forget, HandedOf
      <4> QED BY <4>1 DEF SF!Next
    <3> QED BY <3>3, <3>4
  <2> QED BY <2>2, <2>3
<1>6. CASE Rests
  BY <1>6 DEF Rests, claim, handed
<1> QED BY <1>2, <1>3, <1>4, <1>5, <1>6 DEF PInv, Kinds

\* Without TTL and lease, calls over the SQLite table keep the abstract promise:
\* one claimant, a bounded number of claims, one value for everybody, forever.
THEOREM PromiseKept ==
  ASSUME LeaseTimeout = None, CacheTtl = None
  PROVE  Spec => SingleFlightPromise
<1>1. Init => PInv
  BY TypeInit, OneOwnerInit, NoExpiryInit, CountedInit, CurrentInit DEF PInv
<1>2. PInv /\ [Next]_vars => PInv'
  BY TypeStep, StepKinds, PInvStep DEF PInv
<1>3. PInv /\ [Next]_vars => [SF!Next]_<<claim, handed>>
  BY StepKinds, PromiseStep DEF PInv
<1> QED BY <1>1, <1>2, <1>3, PromiseInit, PTL DEF Spec, SF!Spec, SingleFlightPromise
=============================================================================
