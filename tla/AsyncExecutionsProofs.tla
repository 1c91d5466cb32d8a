------------------------ MODULE AsyncExecutionsProofs ------------------------
(***************************************************************************)
(* Proofs about AsyncExecutions: what is proved of the calls of threads    *)
(* holds with tasks that are cancelled at any await, and with the store    *)
(* calls that go on in threads nobody waits for.  A cancelled task is one  *)
(* more process that moves (Kinds); its thread is one more who changes the *)
(* table (Late).  What keeps the two apart is LateInv: without a lease a   *)
(* write that is still to come is about the attempt its row is in, and     *)
(* that row has no owner and no other such write.                          *)
(***************************************************************************)
EXTENDS AsyncExecutions, ExecutionsProofs

StoreCall == [call : StoreCalls, key : Keys, epoch : Nat]
Writer(d) == d.call # "acquire_or_get"

\* A row nobody acquired has nothing in it.
AbsentIsEmpty ==
  \A k \in Keys : executions[k].status = "ABSENT" =>
    executions[k].retries = 0 /\ executions[k].expires = None

ATInv == TInv /\ detached \subseteq StoreCall /\ AbsentIsEmpty
-----------------------------------------------------------------------------
(* The kinds of step.                                                      *)

\* A task that gives up on its function, or is cancelled, moves.
LEMMA TaskKinds ==
  ASSUME TInv, NEW c \in Callers,
         AsyncFunctionTimesOut(c) \/ AsyncFunctionRaisesTimeout(c) \/ Cancel(c)
  PROVE  TInv' /\ Moves(c) /\ GateStays(c)
<1> USE DEF At
<1>1. CASE AsyncFunctionTimesOut(c)
  <2>1. /\ caller[c].at = "function" /\ GoTo(c, "fail", 0)
        /\ UNCHANGED <<clock, executions, approvals, answer, hung>>
    BY <1>1 DEF AsyncFunctionTimesOut
  <2>2. TInv'
    BY <2>1, GoToType DEF Places, TInv, TypeOK
  <2>3. Moves(c)
    BY <2>1, GoToMoves DEF Places, OwnerPlaces, Owning
  <2>4. GateStays(c)
    BY <2>1, GoToStays DEF Places
  <2> QED BY <2>2, <2>3, <2>4
<1>2. CASE AsyncFunctionRaisesTimeout(c)
  <2>1. /\ caller[c].at = "function" /\ Leave(c, "error", 0)
        /\ UNCHANGED <<clock, executions, approvals, hung>>
    BY <1>2 DEF AsyncFunctionRaisesTimeout
  <2>2. TInv'
    BY <2>1, LeaveType DEF Outcomes, TInv, TypeOK
  <2>3. Moves(c)
    BY <2>1, LeaveMoves DEF Outcomes
  <2>4. GateStays(c)
    BY <2>1, LeaveStays DEF Leave
  <2> QED BY <2>2, <2>3, <2>4
<1>3. CASE Cancel(c)
  <2>1. /\ caller' = [caller EXCEPT ![c] = Idle]
        /\ UNCHANGED <<clock, executions, approvals, answer, hung>>
    BY <1>3 DEF Cancel
  <2>2. Idle \in Local /\ Idle.at \notin OwnerPlaces /\ Idle.at = "idle"
    BY DEF Idle, Local, Places, OwnerPlaces
  <2>3. TInv'
    BY <2>1, <2>2 DEF TInv, TypeOK, Placed
  <2>4. Moves(c)
    BY <2>1, <2>2 DEF Moves
  <2>5. GateStays(c)
    BY <2>1, LeaveStays
  <2> QED BY <2>3, <2>4, <2>5
<1> QED BY <1>1, <1>2, <1>3

\* A store call of a task that is gone.
Late(d) ==
  \E new \in Row :
    /\ executions' = [executions EXCEPT ![d.key] = new]
    /\ detached' = detached \ {d} /\ UNCHANGED <<clock, caller, answer, hung>>
    /\ \/ approvals' = approvals
       \/ Writer(d) /\ approvals' = [approvals EXCEPT ![d.key] = Pended(@)]
    /\ \/ ~Writer(d) /\ new = executions[d.key]
       \/ /\ ~Writer(d) /\ SlotFree
          /\ \E retries \in Nat, expires \in Nat \cup {None} :
               /\ MayStart(executions[d.key], retries, expires)
               /\ new = Restarted(executions[d.key], retries, expires)
       \/ Writer(d) /\ Settles(executions[d.key], new)
          /\ (new.status = "WAITING_APPROVAL" \/ approvals' = approvals)
          /\ (new.status = "SUCCEEDED" => new.result = d.epoch)

\* What a thread nobody waits for may still do to the store.
LEMMA LateKinds ==
  ASSUME ATInv, NEW d \in detached, DetachedStep(d)
  PROVE  Late(d)
<1> DEFINE k == d.key
<1>1. /\ d \in StoreCall /\ k \in Keys /\ d.epoch \in Nat /\ executions[k] \in Row
      /\ clock \in Nat /\ executions \in [Keys -> Row]
  BY DEF ATInv, StoreCall, TInv, TypeOK
<1>2. detached' = detached \ {d} /\ UNCHANGED <<clock, caller, answer, hung>>
  BY DEF DetachedStep
<1>3. CASE DetachedAcquires(d)
  <2>1. ~Writer(d) /\ approvals' = approvals
    BY <1>3 DEF DetachedAcquires, Writer
  <2>2. CASE ~(SlotFree /\ Acquirable(executions[k]))
    <3>1. executions' = [executions EXCEPT ![k] = executions[k]]
      BY <1>1, <1>3, <2>2 DEF DetachedAcquires
    <3> QED BY <1>1, <1>2, <2>1, <3>1 DEF Late
  <2>3. CASE SlotFree /\ Acquirable(executions[k])
    <3> DEFINE old == executions[k]
               retries == IF old.status = "FAILED" THEN old.retries + 1 ELSE old.retries
               expires == IF old.status = "SUCCEEDED" THEN None ELSE old.expires
    <3>1. retries \in Nat /\ expires \in Nat \cup {None}
      BY <1>1 DEF Row
    <3> HIDE DEF retries, expires
    <3>2. MayStart(old, retries, expires)
      BY <1>1, <2>3 DEF Acquirable, MayStart, ATInv, AbsentIsEmpty, retries, expires
    <3>3. executions' = [executions EXCEPT ![k] = Restarted(old, retries, expires)]
      BY <1>3, <2>3 DEF DetachedAcquires, Acquired, retries, expires
    <3>4. Restarted(old, retries, expires) \in Row
      BY <1>1, <3>1, RestartedFacts
    <3> QED BY <1>2, <2>1, <2>3, <3>1, <3>2, <3>3, <3>4 DEF Late
  <2> QED BY <2>2, <2>3
<1>4. CASE DetachedMarksWaiting(d)
  <2> DEFINE new == [executions[k] EXCEPT !.status = "WAITING_APPROVAL"]
  <2>1. new \in Row /\ Settles(executions[k], new) /\ new.status = "WAITING_APPROVAL"
    BY <1>1, WaitingFacts DEF Settles
  <2>2. /\ Writer(d) /\ executions' = [executions EXCEPT ![k] = new]
        /\ approvals' = [approvals EXCEPT ![k] = Pended(@)]
    BY <1>4 DEF DetachedMarksWaiting, Writer
  <2> HIDE DEF new
  <2> QED BY <1>2, <2>1, <2>2 DEF Late
<1>5. CASE DetachedCompletes(d)
  <2> DEFINE new == Completed(executions[k], d.epoch)
  <2>1. new \in Row /\ Settles(executions[k], new) /\ new.result = d.epoch
    BY <1>1, CompletedFacts, ExpiresAtType DEF Settles, Finished
  <2>2. Writer(d) /\ executions' = [executions EXCEPT ![k] = new] /\ approvals' = approvals
    BY <1>5 DEF DetachedCompletes, Write, Writer
  <2> HIDE DEF new
  <2> QED BY <1>2, <2>1, <2>2 DEF Late
<1>6. CASE DetachedFails(d)
  <2> DEFINE new == Failed(executions[k])
  <2>1. new \in Row /\ Settles(executions[k], new) /\ new.status # "SUCCEEDED"
    BY <1>1, FailedFacts DEF Settles, Finished
  <2>2. Writer(d) /\ executions' = [executions EXCEPT ![k] = new] /\ approvals' = approvals
    BY <1>6 DEF DetachedFails, Write, Writer
  <2> HIDE DEF new
  <2> QED BY <1>2, <2>1, <2>2 DEF Late
<1> QED BY <1>3, <1>4, <1>5, <1>6 DEF DetachedStep

AsyncKinds ==
  \/ Kinds /\ GateSteps /\ (detached' = detached \/ \E c \in Callers : Cancel(c))
  \/ \E d \in detached : Late(d)

\* A step is one of a task's kinds, a cancellation, or a late thread's.
LEMMA AsyncStepKinds ==
  ASSUME ATInv, [AsyncNext]_asyncVars
  PROVE  AsyncKinds
<1>1. ASSUME [Next]_vars, detached' = detached PROVE AsyncKinds
  BY <1>1, StepKinds, GateKinds DEF AsyncKinds, ATInv
<1>2. ASSUME NEW c \in Callers,
             AsyncFunctionTimesOut(c) \/ AsyncFunctionRaisesTimeout(c) \/ Cancel(c)
      PROVE  AsyncKinds
  <2>1. Kinds /\ GateSteps
    BY <1>2, TaskKinds DEF Kinds, GateSteps, ATInv
  <2> QED BY <1>2, <2>1 DEF AsyncKinds, AsyncFunctionTimesOut, AsyncFunctionRaisesTimeout
<1>3. ASSUME NEW d \in detached, DetachedStep(d) PROVE AsyncKinds
  BY <1>3, LateKinds DEF AsyncKinds
<1> QED BY <1>1, <1>2, <1>3 DEF AsyncNext, asyncVars

\* Threads move rows only as the synchronous calls do.
LEMMA AsyncTable ==
  ASSUME ATInv, AsyncKinds
  PROVE  TableSteps
<1>1. ASSUME NEW d \in detached, Late(d) PROVE TableSteps
  <2>1. d.key \in Keys /\ executions[d.key] \in Row /\ clock \in Nat /\ executions \in [Keys -> Row]
    BY DEF ATInv, StoreCall, TInv, TypeOK
  <2>2. PICK new \in Row :
    /\ executions' = [executions EXCEPT ![d.key] = new] /\ clock' = clock
    /\ \/ new = executions[d.key]
       \/ /\ SlotFree
          /\ \E retries \in Nat, expires \in Nat \cup {None} :
               /\ MayStart(executions[d.key], retries, expires)
               /\ new = Restarted(executions[d.key], retries, expires)
       \/ Settles(executions[d.key], new)
    BY <1>1 DEF Late
  <2>3. CASE new = executions[d.key]
    BY <2>1, <2>2, <2>3 DEF TableSteps, TableRests
  <2>4. ASSUME SlotFree, NEW retries \in Nat, NEW expires \in Nat \cup {None},
               MayStart(executions[d.key], retries, expires),
               new = Restarted(executions[d.key], retries, expires)
        PROVE  TableSteps
    <3>1. /\ new.status = "RUNNING" /\ new.created = clock /\ new.epoch = executions[d.key].epoch + 1
          /\ new.retries = retries /\ new.expires = expires
      BY <2>4 DEF Restarted
    <3> QED BY <2>1, <2>2, <2>4, <3>1 DEF TableSteps, RowStarts
  <2>5. CASE Settles(executions[d.key], new)
    BY <2>1, <2>2, <2>5 DEF TableSteps, RowSettles
  <2> QED BY <2>2, <2>3, <2>4, <2>5
<1> QED BY <1>1, TableKinds DEF AsyncKinds, ATInv
-----------------------------------------------------------------------------
(* Type correctness.                                                       *)

\* An absent row stays without retries and without an expiry.
LEMMA AbsentStep ==
  ASSUME TInv, AbsentIsEmpty, TableSteps
  PROVE  AbsentIsEmpty'
<1> SUFFICES ASSUME NEW k \in Keys, executions'[k].status = "ABSENT"
             PROVE  executions'[k].retries = 0 /\ executions'[k].expires = None
  BY DEF AbsentIsEmpty
<1>1. executions \in [Keys -> Row]
  BY DEF TInv, TypeOK
<1>2. RowStarts => executions'[k] = executions[k]
  BY <1>1 DEF RowStarts
<1>3. RowSettles => executions'[k] = executions[k]
  BY <1>1 DEF RowSettles, Settles, Finished
<1>4. TableRests => executions'[k] = executions[k]
  BY DEF TableRests
<1> QED BY <1>2, <1>3, <1>4 DEF TableSteps, AbsentIsEmpty

\* Tasks, cancellations and late threads keep the types.
LEMMA AsyncTypeStep ==
  ASSUME ATInv, [AsyncNext]_asyncVars
  PROVE  ATInv'
<1>1. AbsentIsEmpty'
  BY AsyncStepKinds, AsyncTable, AbsentStep DEF ATInv
<1>2. ASSUME [Next]_vars, detached' = detached PROVE ATInv'
  BY <1>1, <1>2, TypeStep DEF ATInv
<1>3. ASSUME NEW c \in Callers, AsyncFunctionTimesOut(c) \/ AsyncFunctionRaisesTimeout(c)
      PROVE  ATInv'
  <2>1. detached' = detached
    BY <1>3 DEF AsyncFunctionTimesOut, AsyncFunctionRaisesTimeout
  <2> QED BY <1>1, <1>3, <2>1, TaskKinds DEF ATInv
<1>4. ASSUME NEW c \in Callers, Cancel(c) PROVE ATInv'
  <2>1. KeyOf(c) \in Keys /\ caller[c].epoch \in Nat
    BY <1>4, RowOfType DEF Cancel, At, ATInv
  <2>2. \A call \in Threads(c) :
           [call |-> call, key |-> KeyOf(c), epoch |-> caller[c].epoch] \in StoreCall
    BY <2>1 DEF Threads, StoreCall
  <2>3. detached' \subseteq StoreCall
    BY <1>4, <2>2 DEF Cancel, ATInv
  <2> QED BY <1>1, <1>4, <2>3, TaskKinds DEF ATInv
<1>5. ASSUME NEW d \in detached, DetachedStep(d) PROVE ATInv'
  <2>1. PICK new \in Row :
          /\ executions' = [executions EXCEPT ![d.key] = new]
          /\ detached' = detached \ {d} /\ UNCHANGED <<clock, caller, answer, hung>>
          /\ \/ approvals' = approvals
             \/ Writer(d) /\ approvals' = [approvals EXCEPT ![d.key] = Pended(@)]
    BY <1>5, LateKinds DEF Late
  <2>2. d.key \in Keys
    BY DEF ATInv, StoreCall
  <2>3. executions' \in [Keys -> Row] /\ approvals' \in [Keys -> Approval]
    BY <2>1, <2>2 DEF ATInv, TInv, TypeOK, Pended, Approval
  <2> QED BY <1>1, <2>1, <2>3 DEF ATInv, TInv, TypeOK, Placed
<1> QED BY <1>2, <1>3, <1>4, <1>5 DEF AsyncNext, asyncVars

\* No thread is left over at the start.
LEMMA AsyncTypeInit == AsyncInit => ATInv
BY TypeInit DEF AsyncInit, ATInv, AbsentIsEmpty, Init, NoRow

\* Every reachable state is well typed, the calls of threads nobody waits for included.
THEOREM AsyncTypeCorrect == AsyncSpec => []AsyncTypeOK
<1>1. AsyncSpec => []ATInv
  BY AsyncTypeInit, AsyncTypeStep, PTL DEF AsyncSpec
<1>2. ATInv => AsyncTypeOK
  BY DEF ATInv, TInv, AsyncTypeOK, StoreCall
<1> QED BY <1>1, <1>2, PTL
-----------------------------------------------------------------------------
(* Whose write is still to come.                                           *)

\* Without a lease a write to come is about the attempt its row is in, it is the only
\* one of its key, and the key has no owner beside it.
LateInv ==
  LeaseTimeout = None =>
    /\ \A d \in detached : Writer(d) =>
         executions[d.key].status \in Live /\ executions[d.key].epoch = d.epoch
    /\ \A d, e \in detached : Writer(d) /\ Writer(e) /\ d.key = e.key => d = e
    /\ \A d \in detached, c \in Callers : Writer(d) /\ Owning(c) => caller[c].key # d.key

\* Every key is held by one owner, or by one thread, or by nobody.
Apart == OneOwner /\ OwnerIsCurrent /\ LateInv

\* Without leases an owner has its row, and has it alone.
LEMMA ApartFacts ==
  ASSUME ATInv, Apart, LeaseTimeout = None
  PROVE  /\ \A c \in Callers : Owning(c) => /\ caller[c].key \in Keys
                                            /\ executions[caller[c].key].status \in Live
                                            /\ executions[caller[c].key].epoch = caller[c].epoch
         /\ \A c, e \in Callers : Owning(c) /\ Owning(e) /\ caller[c].key = caller[e].key => c = e
         /\ \A d \in detached : d.key \in Keys /\ d \in StoreCall
         /\ caller \in [Callers -> Local] /\ executions \in [Keys -> Row]
         /\ approvals \in [Keys -> Approval]
BY DEF Apart, OneOwner, OwnerIsCurrent, Owners, Owning, KeyOf, OwnerPlaces, ATInv, TInv, TypeOK,
       Placed, StoreCall

\* A task's own step leaves late writes with their rows.
LEMMA LateInvKinds ==
  ASSUME ATInv, Apart, Kinds, detached' = detached
  PROVE  LateInv'
<1> SUFFICES ASSUME LeaseTimeout = None PROVE LateInv'
  BY DEF LateInv
<1> USE ApartFacts
<1>1. /\ \A d \in detached : Writer(d) =>
           executions[d.key].status \in Live /\ executions[d.key].epoch = d.epoch
      /\ \A d, e \in detached : Writer(d) /\ Writer(e) /\ d.key = e.key => d = e
      /\ \A d \in detached, c \in Callers : Writer(d) /\ Owning(c) => caller[c].key # d.key
  BY DEF Apart, LateInv
<1>2. ASSUME \A d \in detached : Writer(d) => /\ executions'[d.key].status \in Live
                                             /\ executions'[d.key].epoch = executions[d.key].epoch,
             \A d \in detached, c \in Callers : Writer(d) /\ Owning(c)' => caller'[c].key # d.key
      PROVE  LateInv'
  BY <1>1, <1>2 DEF LateInv, Writer
<1>3. ASSUME NEW c \in Callers, Acquires(c) PROVE LateInv'
  <2>1. PICK k \in Keys, retries \in Nat, expires \in Nat \cup {None} :
          Starts(c, k, retries, expires) /\ MayStart(executions[k], retries, expires)
    BY <1>3, AcquireFacts DEF ATInv
  <2>2. executions[k].status \notin Live
    BY <2>1 DEF MayStart, Stale, Live
  <2>3. \A d \in detached : Writer(d) => d.key # k
    BY <1>1, <2>2
  <2>4. \A d \in detached : Writer(d) => executions'[d.key] = executions[d.key]
    BY <2>1, <2>3 DEF Starts
  <2>5. \A e \in Callers : Owning(e)' => caller'[e].key = k \/ (Owning(e) /\ caller'[e] = caller[e])
    BY <2>1 DEF Starts, Owning
  <2> QED BY <1>1, <1>2, <2>3, <2>4, <2>5
<1>4. ASSUME NEW c \in Callers, MarkWaiting(c) PROVE LateInv'
  <2>1. PICK k \in Keys, new \in Row, local \in Local :
           /\ k = caller[c].key /\ Owning(c)
           /\ executions' = [executions EXCEPT ![k] = new]
           /\ caller' = [caller EXCEPT ![c] = local]
           /\ local.key = k
    BY <1>4, ParkFacts DEF ATInv
  <2>2. \A d \in detached : Writer(d) => executions'[d.key] = executions[d.key] /\ d.key # k
    BY <1>1, <2>1
  <2>3. \A e \in Callers : Owning(e)' => caller'[e].key = k \/ (Owning(e) /\ caller'[e] = caller[e])
    BY <2>1 DEF Owning
  <2> QED BY <1>1, <1>2, <2>2, <2>3
<1>5. ASSUME NEW c \in Callers, Records(c) PROVE LateInv'
  <2>1. PICK k \in Keys, new \in Row, a \in Answer : Ends(c, k, new, a)
    BY <1>5, RecordFacts DEF ATInv
  <2>2. \A d \in detached : Writer(d) => executions'[d.key] = executions[d.key]
    BY <1>1, <2>1 DEF Ends
  <2>3. \A e \in Callers : Owning(e)' => Owning(e) /\ caller'[e] = caller[e]
    BY <2>1 DEF Ends, Owning, Idle, OwnerPlaces
  <2> QED BY <1>1, <1>2, <2>2, <2>3
<1>6. ASSUME NEW c \in Callers, Moves(c) PROVE LateInv'
  <2>1. executions' = executions
    BY <1>6 DEF Moves
  <2>2. \A e \in Callers : Owning(e)' => Owning(e) /\ caller'[e].key = caller[e].key
    BY <1>6 DEF Moves, Owning
  <2> QED BY <1>1, <1>2, <2>1, <2>2
<1>7. CASE Rests
  BY <1>1, <1>2, <1>7 DEF Rests, Owning
<1> QED BY <1>3, <1>4, <1>5, <1>6, <1>7 DEF Kinds

\* A task that is cancelled hands its row to its thread.
LEMMA LateInvCancel ==
  ASSUME ATInv, Apart, NEW c \in Callers, Cancel(c)
  PROVE  LateInv'
<1> SUFFICES ASSUME LeaseTimeout = None PROVE LateInv'
  BY DEF LateInv
<1> USE ApartFacts
<1>1. /\ \A d \in detached : Writer(d) =>
           executions[d.key].status \in Live /\ executions[d.key].epoch = d.epoch
      /\ \A d, e \in detached : Writer(d) /\ Writer(e) /\ d.key = e.key => d = e
      /\ \A d \in detached, e \in Callers : Writer(d) /\ Owning(e) => caller[e].key # d.key
  BY DEF Apart, LateInv
<1>2. /\ executions' = executions
      /\ \A e \in Callers : Owning(e)' => e # c /\ Owning(e) /\ caller'[e] = caller[e]
  BY DEF Cancel, Owning, Idle, OwnerPlaces
<1>3. CASE detached' = detached
  BY <1>1, <1>2, <1>3 DEF LateInv
<1>4. ASSUME NEW call \in Threads(c),
             detached' = detached \cup {[call |-> call, key |-> KeyOf(c), epoch |-> caller[c].epoch]}
      PROVE  LateInv'
  <2> DEFINE new == [call |-> call, key |-> KeyOf(c), epoch |-> caller[c].epoch]
  <2>1. new.key = caller[c].key /\ new.epoch = caller[c].epoch /\ (Writer(new) => Owning(c))
    BY DEF KeyOf, Writer, Threads, Owning, OwnerPlaces, At
  <2>2. detached' = detached \cup {new}
    BY <1>4
  <2> HIDE DEF new
  <2> QED BY <1>1, <1>2, <2>1, <2>2 DEF LateInv
<1> QED BY <1>3, <1>4 DEF Cancel

\* The row that a thread changes is nobody else's.
LEMMA LateApart ==
  ASSUME ATInv, Apart, LeaseTimeout = None, NEW d \in detached, Late(d)
  PROVE  /\ UNCHANGED <<clock, caller, answer>> /\ detached' = detached \ {d}
         /\ \A c \in Callers : Owning(c) =>
              /\ executions'[caller[c].key] = executions[caller[c].key]
              /\ approvals'[caller[c].key] = approvals[caller[c].key]
         /\ \A e \in detached' : Writer(e) => executions'[e.key] = executions[e.key]
<1> USE ApartFacts
<1>1. /\ \A e \in detached : Writer(e) =>
           executions[e.key].status \in Live /\ executions[e.key].epoch = e.epoch
      /\ \A f, e \in detached : Writer(f) /\ Writer(e) /\ f.key = e.key => f = e
      /\ \A e \in detached, c \in Callers : Writer(e) /\ Owning(c) => caller[c].key # e.key
  BY DEF Apart, LateInv
<1>2. PICK new \in Row :
    /\ executions' = [executions EXCEPT ![d.key] = new]
    /\ detached' = detached \ {d} /\ UNCHANGED <<clock, caller, answer>>
    /\ \/ approvals' = approvals
       \/ Writer(d) /\ approvals' = [approvals EXCEPT ![d.key] = Pended(@)]
    /\ \/ ~Writer(d) /\ new = executions[d.key]
       \/ /\ ~Writer(d)
          /\ \E retries \in Nat, expires \in Nat \cup {None} :
               MayStart(executions[d.key], retries, expires)
       \/ Writer(d)
  BY DEF Late
<1>3. CASE Writer(d)
  BY <1>1, <1>2, <1>3
<1>4. CASE ~Writer(d) /\ new = executions[d.key]
  BY <1>2, <1>4
<1>5. CASE /\ ~Writer(d)
           /\ \E retries \in Nat, expires \in Nat \cup {None} :
                MayStart(executions[d.key], retries, expires)
  <2>1. executions[d.key].status \notin Live
    BY <1>5 DEF MayStart, Stale, Live
  <2> QED BY <1>1, <1>2, <1>5, <2>1
<1> QED BY <1>2, <1>3, <1>4, <1>5

\* A late thread's step leaves the tasks' rows alone.
LEMMA ApartLate ==
  ASSUME ATInv, Apart, NEW d \in detached, Late(d)
  PROVE  Apart'
<1> SUFFICES ASSUME LeaseTimeout = None PROVE Apart'
  BY DEF Apart, OneOwner, OwnerIsCurrent, LateInv
<1> USE ApartFacts, LateApart
<1>1. OneOwner' /\ OwnerIsCurrent'
  BY DEF OneOwner, OwnerIsCurrent, Owners, Owning, KeyOf
<1>2. LateInv'
  BY DEF Apart, LateInv, Owning, Writer
<1> QED BY <1>1, <1>2 DEF Apart

\* No step of tasks or threads brings two owners together.
LEMMA ApartStep ==
  ASSUME ATInv, Apart, AsyncKinds
  PROVE  Apart'
<1>1. ASSUME Kinds PROVE OneOwner' /\ OwnerIsCurrent'
  BY <1>1, OneOwnerStep, CurrentStep DEF ATInv, Apart
<1> QED BY <1>1, LateInvKinds, LateInvCancel, ApartLate DEF AsyncKinds, Apart
-----------------------------------------------------------------------------
(* What a late write leaves alone.                                         *)

\* A late thread starts no function.
LEMMA UngatedLate ==
  ASSUME ATInv, Apart, UngatedRuns, NEW d \in detached, Late(d)
  PROVE  UngatedRuns'
BY ApartFacts, LateApart DEF UngatedRuns, Owning

\* A late thread takes no task's approval away.
LEMMA SanctionsLate ==
  ASSUME ATInv, Apart, SanctionsAreCurrent, NEW d \in detached, Late(d)
  PROVE  SanctionsAreCurrent'
<1> SUFFICES ASSUME LeaseTimeout = None, NEW c \in Callers, caller'[c].key \in Gated, Sanctioned(c)'
             PROVE  approvals'[caller'[c].key].sanctions = caller'[c].epoch
  BY DEF SanctionsAreCurrent
<1>1. caller' = caller /\ Owning(c)
  BY LateApart DEF Sanctioned, Owning, OwnerPlaces
<1>2. approvals'[caller[c].key] = approvals[caller[c].key]
  BY <1>1, LateApart
<1> QED BY <1>1, <1>2 DEF SanctionsAreCurrent, Sanctioned

\* A late thread does not touch a stored result.
LEMMA SuccessLate ==
  ASSUME ATInv, Apart, NoExpiry, NEW d \in detached, Late(d)
  PROVE  SuccessKept
<1> SUFFICES ASSUME NEW k \in Keys, LeaseTimeout = None, CacheTtl = None,
                    executions[k].status = "SUCCEEDED"
             PROVE  executions'[k] = executions[k]
  BY DEF SuccessKept
<1>1. executions[k].expires = None /\ (Writer(d) => executions[d.key].status \in Live)
  BY DEF NoExpiry, Apart, LateInv
<1>2. PICK new \in Row :
    /\ executions' = [executions EXCEPT ![d.key] = new]
    /\ \/ new = executions[d.key]
       \/ \E retries \in Nat, expires \in Nat \cup {None} :
            MayStart(executions[d.key], retries, expires)
       \/ Writer(d)
  BY DEF Late
<1>3. CASE d.key # k
  BY <1>2, <1>3, ApartFacts
<1>4. CASE d.key = k
  <2>1. ~Writer(d)
    BY <1>1, <1>4 DEF Live
  <2>2. new = executions[d.key]
    BY <1>1, <1>2, <1>4, <2>1 DEF MayStart, Expired
  <2> QED BY <1>2, <1>4, <2>2, ApartFacts
<1> QED BY <1>3, <1>4

\* A late thread adds no second value.
LEMMA OneValueLate ==
  ASSUME ATInv, Apart, NoExpiry, OneValue, Answered, LeaseTimeout = None, CacheTtl = None,
         NEW d \in detached, Late(d)
  PROVE  OneValue' /\ Answered'
BY LateApart, SuccessLate DEF SuccessKept, OneValue, Answered

\* What holds in every state whatever the policy.
Base ==
  /\ ATInv /\ Apart /\ NoExpiry /\ CapHolds /\ UngatedRuns /\ SanctionsAreCurrent
  /\ ResultsExpire /\ Quiet

\* All of it holds at the start.
LEMMA BaseInit == AsyncInit => Base
<1> SUFFICES ASSUME AsyncInit PROVE Base
  OBVIOUS
<1>1. Init /\ detached = {}
  BY DEF AsyncInit
<1>2. Apart
  BY <1>1, OneOwnerInit, CurrentInit DEF Apart, LateInv
<1> QED BY <1>1, <1>2, AsyncTypeInit, NoExpiryInit, CapInit, UngatedInit, SanctionsInit, FreshInit
        DEF Base

\* All of it is kept together, each part with the help of the others.
LEMMA BaseStep ==
  ASSUME Base, [AsyncNext]_asyncVars
  PROVE  Base' /\ TableSteps /\ AsyncKinds
<1> USE DEF Base
<1>1. AsyncKinds /\ TableSteps /\ TInv
  BY AsyncStepKinds, AsyncTable DEF ATInv
<1>2. ATInv' /\ Apart' /\ NoExpiry' /\ CapHolds' /\ ResultsExpire'
  BY <1>1, AsyncTypeStep, ApartStep, NoExpiryStep, CapStep, ExpireStep
<1>3. UngatedRuns' /\ SanctionsAreCurrent' /\ Quiet'
  <2>1. CASE Kinds /\ GateSteps
    BY <1>1, <2>1, UngatedStep, SanctionsStep, QuietStep DEF Apart
  <2>2. ASSUME NEW d \in detached, Late(d) PROVE UngatedRuns' /\ SanctionsAreCurrent' /\ Quiet'
    <3>1. Quiet'
      BY <2>2 DEF Late, Quiet
    <3> QED BY <2>2, <3>1, UngatedLate, SanctionsLate
  <2> QED BY <1>1, <2>1, <2>2 DEF AsyncKinds
<1> QED BY <1>1, <1>2, <1>3

\* So all of it holds at every moment.
LEMMA BaseAlways == AsyncSpec => []Base
<1>1. Base /\ [AsyncNext]_asyncVars => Base'
  BY BaseStep
<1> QED BY <1>1, BaseInit, PTL DEF AsyncSpec
-----------------------------------------------------------------------------
(* What the calls of one key may count on, tasks and threads alike.        *)

\* Without a lease a thread that outlives its task writes the outcome of the attempt
\* its row is in, and nobody else holds the key until it has.
THEOREM LateWriteIsOwnersAlways == AsyncSpec => []LateWriteIsOwners
<1>1. Base => LateWriteIsOwners
  <2> SUFFICES ASSUME Base, LeaseTimeout = None, NEW k \in Keys
               PROVE  /\ Cardinality(Owners(k)) + Cardinality(Writers(k)) <= 1
                      /\ \A d \in Writers(k) : executions[k].status \in Live
                                              /\ executions[k].epoch = d.epoch
    BY DEF LateWriteIsOwners
  <2>1. /\ \A d \in detached : Writer(d) =>
             executions[d.key].status \in Live /\ executions[d.key].epoch = d.epoch
        /\ \A d, e \in detached : Writer(d) /\ Writer(e) /\ d.key = e.key => d = e
        /\ \A d \in detached, c \in Callers : Writer(d) /\ Owning(c) => caller[c].key # d.key
        /\ \A c, e \in Callers : Owning(c) /\ Owning(e) /\ caller[c].key = caller[e].key => c = e
    BY ApartFacts DEF Base, Apart, LateInv
  <2>2. Owners(k) = {} \/ \E c : Owners(k) = {c}
    BY <2>1 DEF Owners, Owning, KeyOf
  <2>3. Writers(k) = {} \/ \E d : Writers(k) = {d}
    BY <2>1 DEF Writers, Writer
  <2>4. Owners(k) = {} \/ Writers(k) = {}
    BY <2>1 DEF Owners, Owning, KeyOf, Writers, Writer
  <2>5. Cardinality(Owners(k)) + Cardinality(Writers(k)) <= 1
    <3>1. Cardinality({}) = 0 /\ \A x : Cardinality({x}) = 1
      BY FS_EmptySet, FS_Singleton
    <3>2. /\ Owners(k) = {} \/ Cardinality(Owners(k)) = 1
          /\ Writers(k) = {} \/ Cardinality(Writers(k)) = 1
      BY <2>2, <2>3, <3>1
    <3>3. CASE Owners(k) = {}
      BY <3>1, <3>2, <3>3
    <3>4. CASE Writers(k) = {}
      BY <3>1, <3>2, <3>4
    <3> QED BY <2>4, <3>3, <3>4
  <2> QED BY <2>1, <2>5 DEF Writers, Writer
<1> QED BY <1>1, BaseAlways, PTL

\* Without a lease no key has two owners, tasks that are cancelled included.
THEOREM AsyncOneOwner == AsyncSpec => []OneOwner
<1>1. Base => OneOwner
  BY DEF Base, Apart
<1> QED BY <1>1, BaseAlways, PTL

\* The RUNNING rows never exceed max_concurrent, with rows acquired for tasks that are
\* gone among them.
THEOREM AsyncCapHolds == AsyncSpec => []CapHolds
<1>1. Base => CapHolds
  BY DEF Base
<1> QED BY <1>1, BaseAlways, PTL

\* Without a lease no gated function runs on the approval of an earlier attempt, and no
\* late mark_waiting_approval takes the approval away from the attempt that has it.
THEOREM AsyncApprovedBeforeRun == AsyncSpec => []ApprovedBeforeRun
<1>1. Base => ApprovedBeforeRun
  BY DEF Base, ApprovedBeforeRun, SanctionsAreCurrent, Sanctioned, Inside, At, KeyOf
<1> QED BY <1>1, BaseAlways, PTL

\* Where no thread has an execution_timeout to outlive, none goes on running.
LEMMA NothingHangs ==
  ASSUME TInv, ExecTimeout = None \/ Callers \subseteq Async, hung = {},
         [AsyncNext]_asyncVars
  PROVE  hung' = {}
<1>1. ASSUME Next, ThreadsHang PROVE hung' = {}
  <2>1. CASE hung' \subseteq hung
    BY <2>1
  <2>2. ASSUME NEW c \in Callers, FunctionTimesOut(c), \A d \in Async : caller'[d] = caller[d]
        PROVE  FALSE
    <3>1. ExecTimeout # None /\ c \in Async
      BY <2>2 DEF FunctionTimesOut
    <3>2. caller[c].at = "function" /\ caller[c] \in Local /\ caller \in [Callers -> Local]
      BY <2>2 DEF FunctionTimesOut, At, TInv, TypeOK
    <3>3. caller'[c] = [caller[c] EXCEPT !.at = "fail", !.deadline = 0]
      BY <2>2, <3>2 DEF FunctionTimesOut, GoTo
    <3>4. caller'[c].at = "fail"
      BY <3>2, <3>3 DEF Local
    <3> QED BY <2>2, <3>1, <3>2, <3>4
  <2> QED BY <1>1, <2>1, <2>2, HungStep DEF ThreadsHang
<1>2. ASSUME NEW c \in Callers,
             AsyncFunctionTimesOut(c) \/ AsyncFunctionRaisesTimeout(c) \/ Cancel(c)
      PROVE  hung' = {}
  BY <1>2 DEF AsyncFunctionTimesOut, AsyncFunctionRaisesTimeout, Cancel
<1>3. ASSUME NEW d \in detached, DetachedStep(d) PROVE hung' = {}
  BY <1>3 DEF DetachedStep
<1>4. CASE UNCHANGED asyncVars
  BY <1>4 DEF asyncVars, vars
<1> QED BY <1>1, <1>2, <1>3, <1>4 DEF AsyncNext

\* Where nothing needs approval, no lease runs out and no thread has an
\* execution_timeout to outlive (tasks may have one: they are cancelled),
\* max_concurrent bounds the functions of tasks and threads that run.
THEOREM AsyncCapOnFunctions ==
  ASSUME LeaseTimeout = None, Gated = {}, ExecTimeout = None \/ Callers \subseteq Async
  PROVE  AsyncSpec => []CapOnFunctions
<1> DEFINE Inv == Base /\ hung = {}
<1>1. AsyncInit => Inv
  BY BaseInit DEF AsyncInit, Init
<1>2. Inv /\ [AsyncNext]_asyncVars => Inv'
  BY BaseStep, NothingHangs DEF Base, ATInv
<1>3. Inv => CapOnFunctions
  BY CapBoundsFunctions DEF Base, ATInv, Apart
<1> QED BY <1>1, <1>2, <1>3, PTL DEF AsyncSpec

\* Without TTL and lease the row of a successful execution never changes again: no late
\* write of a cancelled task lands on it.
THEOREM AsyncSuccessIsFinal == AsyncSpec => SuccessIsFinal
<1>1. Base /\ [AsyncNext]_asyncVars
      => [\A k \in Keys : /\ LeaseTimeout = None /\ CacheTtl = None
                          /\ executions[k].status = "SUCCEEDED"
                          => executions'[k] = executions[k]]_vars
  BY BaseStep, SuccessStep, SuccessLate DEF Base, ATInv, Apart, AsyncKinds, SuccessKept
<1> QED BY <1>1, BaseAlways, PTL DEF AsyncSpec, SuccessIsFinal

\* acquire_or_get does not answer with a value whose TTL has passed, be it one that the
\* thread of a cancelled task recorded.
THEOREM AsyncCacheHitIsFresh == AsyncSpec => CacheHitIsFresh
<1>1. Base /\ [AsyncNext]_asyncVars
      => [\A c \in Callers :
            /\ CacheTtl # None /\ At(c, "acquire") /\ At(c, "idle")' /\ answer'[c].kind = "value"
            => clock < RowOf(c).finished + CacheTtl]_vars
  <2> SUFFICES ASSUME Base, [AsyncNext]_asyncVars PROVE Served
    BY DEF Served
  <2>1. AsyncKinds
    BY BaseStep
  <2>2. ASSUME NEW d \in detached, Late(d) PROVE Served
    BY <2>2 DEF Late, Served, At
  <2> QED BY <2>1, <2>2, ServedStep DEF Base, ATInv, AsyncKinds
<1> QED BY <1>1, BaseAlways, PTL DEF AsyncSpec, CacheHitIsFresh

\* A task comes to follow as a thread does.
LEMMA AsyncJoins ==
  ASSUME TInv, [AsyncNext]_asyncVars
  PROVE  Joins
<1>1. ASSUME [Next]_vars PROVE Joins
  BY <1>1, StepJoins
<1>2. ASSUME NEW c \in Callers, AsyncFunctionTimesOut(c) PROVE Joins
  BY <1>2, GoToElsewhere, ElsewhereJoins DEF AsyncFunctionTimesOut
<1>3. ASSUME NEW c \in Callers, AsyncFunctionRaisesTimeout(c) PROVE Joins
  BY <1>3, LeaveElsewhere, ElsewhereJoins DEF AsyncFunctionRaisesTimeout
<1>4. ASSUME NEW c \in Callers, Cancel(c) PROVE Joins
  <2>1. caller' = [caller EXCEPT ![c] = Idle] /\ Idle.at \notin {"follow", "followApproval"}
    BY <1>4 DEF Cancel, Idle
  <2> QED BY <2>1, ElsewhereJoins DEF Elsewhere
<1>5. ASSUME NEW d \in detached, DetachedStep(d) PROVE Joins
  BY <1>5 DEF DetachedStep, Joins
<1> QED BY <1>1, <1>2, <1>3, <1>4, <1>5 DEF AsyncNext, asyncVars

\* Only the calls of gated keys leave a mark_waiting_approval behind.
MarksAreGated == \A d \in detached : d.call = "mark_waiting_approval" => d.key \in Gated

LEMMA MarksStep ==
  ASSUME MarksAreGated, [AsyncNext]_asyncVars
  PROVE  MarksAreGated'
<1>1. ASSUME detached' \subseteq detached PROVE MarksAreGated'
  BY <1>1 DEF MarksAreGated
<1>2. ASSUME NEW c \in Callers, NEW call \in Threads(c),
             detached' = detached \cup {[call |-> call, key |-> KeyOf(c), epoch |-> caller[c].epoch]}
      PROVE  MarksAreGated'
  <2> DEFINE new == [call |-> call, key |-> KeyOf(c), epoch |-> caller[c].epoch]
  <2>1. new.call = "mark_waiting_approval" => new.key \in Gated
    BY DEF Threads, NeedsApproval
  <2>2. detached' = detached \cup {new}
    BY <1>2
  <2> HIDE DEF new
  <2> QED BY <2>1, <2>2 DEF MarksAreGated
<1> QED BY <1>1, <1>2
        DEF AsyncNext, asyncVars, AsyncFunctionTimesOut, AsyncFunctionRaisesTimeout, Cancel,
            DetachedStep

\* No late thread parks the row of a key that needs no approval.
LEMMA AsyncUnparked ==
  ASSUME ATInv, Unparked, MarksAreGated, [AsyncNext]_asyncVars
  PROVE  Unparked'
<1>1. ASSUME Kinds PROVE Unparked'
  BY <1>1, UnparkedStep DEF ATInv
<1>2. ASSUME NEW d \in detached, DetachedStep(d) PROVE Unparked'
  <2> SUFFICES ASSUME NEW k \in Keys \ Gated PROVE executions'[k].status # "WAITING_APPROVAL"
    BY DEF Unparked
  <2>1. /\ executions \in [Keys -> Row] /\ executions[d.key] \in Row /\ d.epoch \in Nat
        /\ executions[k].status # "WAITING_APPROVAL" /\ clock \in Nat
    BY DEF ATInv, StoreCall, TInv, TypeOK, Unparked
  <2>2. CASE DetachedAcquires(d)
    BY <2>1, <2>2 DEF DetachedAcquires, Acquired, Restarted
  <2>3. CASE DetachedMarksWaiting(d)
    BY <2>1, <2>3 DEF DetachedMarksWaiting, MarksAreGated
  <2>4. CASE DetachedCompletes(d)
    <3> DEFINE new == Completed(executions[d.key], d.epoch)
    <3>1. new.status = "SUCCEEDED"
      BY <2>1, CompletedFacts, ExpiresAtType
    <3>2. executions' = [executions EXCEPT ![d.key] = new]
      BY <2>4 DEF DetachedCompletes, Write
    <3> HIDE DEF new
    <3> QED BY <2>1, <3>1, <3>2
  <2>5. CASE DetachedFails(d)
    <3> DEFINE new == Failed(executions[d.key])
    <3>1. new.status = "FAILED"
      BY <2>1, FailedFacts
    <3>2. executions' = [executions EXCEPT ![d.key] = new]
      BY <2>5 DEF DetachedFails, Write
    <3> HIDE DEF new
    <3> QED BY <2>1, <3>1, <3>2
  <2> QED BY <1>2, <2>2, <2>3, <2>4, <2>5 DEF DetachedStep
<1>3. ASSUME NEW c \in Callers,
             AsyncFunctionTimesOut(c) \/ AsyncFunctionRaisesTimeout(c) \/ Cancel(c)
      PROVE  Kinds
  BY <1>3, TaskKinds DEF Kinds, ATInv
<1>4. [Next]_vars => Kinds
  BY StepKinds DEF ATInv
<1> QED BY <1>1, <1>2, <1>3, <1>4 DEF AsyncNext, asyncVars

\* A follower of a key that needs no approval is never handed a value recorded before
\* it began to follow, by an owner, a zombie or the thread of a cancelled task.
THEOREM AsyncFollowedIsNew == AsyncSpec => FollowedIsNew
<1> DEFINE Inv == Base /\ Unparked /\ Followed /\ MarksAreGated
<1>1. AsyncInit => Inv
  BY BaseInit, FollowedInit DEF AsyncInit, MarksAreGated
<1>2. Inv /\ [AsyncNext]_asyncVars => Inv'
  <2> SUFFICES ASSUME Inv, [AsyncNext]_asyncVars PROVE Inv'
    OBVIOUS
  <2>1. Joins /\ TInv /\ ATInv
    BY AsyncJoins DEF Base, ATInv
  <2>2. Base' /\ TableSteps
    BY BaseStep
  <2>3. Unparked' /\ MarksAreGated'
    BY <2>1, AsyncUnparked, MarksStep
  <2>4. Followed'
    BY <2>1, <2>2, FollowedStep
  <2> QED BY <2>2, <2>3, <2>4
<1>3. Inv /\ [AsyncNext]_asyncVars
      => [\A c \in Callers :
            /\ KeyOf(c) \notin Gated
            /\ At(c, "follow") /\ At(c, "idle")' /\ answer'[c].kind = "value"
            => caller[c].deadline <= RowOf(c).finished + FollowTimeout]_vars
  <2> SUFFICES ASSUME Inv, [AsyncNext]_asyncVars PROVE HandedNew
    BY DEF HandedNew
  <2>1. AsyncKinds
    BY BaseStep
  <2>2. ASSUME NEW d \in detached, Late(d) PROVE HandedNew
    BY <2>2 DEF Late, HandedNew, At
  <2> QED BY <2>1, <2>2, HandedStep DEF Base, ATInv, AsyncKinds
<1> QED BY <1>1, <1>2, <1>3, PTL DEF AsyncSpec, FollowedIsNew

\* Without TTL and lease everybody who gets a value for a key gets that of one run, and a
\* thread whose task is gone cannot replace it.
THEOREM AsyncOneValue == AsyncSpec => []OneValue
<1>1. CASE LeaseTimeout = None /\ CacheTtl = None
  <2> DEFINE Inv == Base /\ OneValue /\ Answered
  <2>1. AsyncInit => Inv
    BY BaseInit, OneValueInit DEF AsyncInit
  <2>2. Inv /\ [AsyncNext]_asyncVars => Inv'
    BY <1>1, BaseStep, OneValueStep, OneValueLate DEF Base, ATInv, Apart, AsyncKinds
  <2>3. Inv => OneValue
    OBVIOUS
  <2> QED BY <2>1, <2>2, <2>3, PTL DEF AsyncSpec
<1>2. CASE ~(LeaseTimeout = None /\ CacheTtl = None)
  <2>1. OneValue
    BY <1>2 DEF OneValue
  <2> QED BY <2>1, PTL
<1> QED BY <1>1, <1>2

\* Without TTL and lease a key is acquired at most max_retries + 1 times, acquisitions of
\* threads that nobody waits for included.
THEOREM AsyncAttemptsBounded == AsyncSpec => []AttemptsBounded
<1>1. CASE LeaseTimeout = None /\ CacheTtl = None
  <2> DEFINE Inv == Base /\ CountedAttempts
  <2>1. AsyncInit => Inv
    BY BaseInit, CountedInit DEF AsyncInit
  <2>2. Inv /\ [AsyncNext]_asyncVars => Inv'
    BY <1>1, BaseStep, CountedStep DEF Base, ATInv
  <2>3. Inv => AttemptsBounded
    BY CountedBounds DEF Base, ATInv
  <2> QED BY <2>1, <2>2, <2>3, PTL DEF AsyncSpec
<1>2. CASE ~(LeaseTimeout = None /\ CacheTtl = None)
  <2>1. AttemptsBounded
    BY <1>2 DEF AttemptsBounded
  <2> QED BY <2>1, PTL
<1> QED BY <1>1, <1>2

\* A stale lease has one reclaimer, be it a task that is gone.
THEOREM AsyncOneReclaimPerLease == AsyncSpec => []OneReclaimPerLease
<1>1. CASE LeaseTimeout # None /\ LeaseOutlived
  <2> DEFINE Inv == Base /\ PacedAttempts
  <2>0. LeaseTimeout \in Nat
    BY <1>1, PolicyAssumption
  <2>1. AsyncInit => Inv
    BY <2>0, BaseInit, PacedInit DEF AsyncInit
  <2>2. Inv /\ [AsyncNext]_asyncVars => Inv'
    BY <1>1, <2>0, BaseStep, PacedStep DEF Base, ATInv
  <2>3. Inv => OneReclaimPerLease
    BY <2>0, PacedBounds DEF Base, ATInv
  <2> QED BY <2>1, <2>2, <2>3, PTL DEF AsyncSpec
<1>2. CASE ~(LeaseTimeout # None /\ LeaseOutlived)
  <2>1. OneReclaimPerLease
    BY <1>2 DEF OneReclaimPerLease, LeaseOutlived
  <2> QED BY <2>1, PTL
<1> QED BY <1>1, <1>2
-----------------------------------------------------------------------------
(* The refinement of SingleFlight.                                         *)

\* A thread whose task is gone claims, settles or releases a key unheard.
LEMMA PromiseLate ==
  ASSUME Base, CountedAttempts, LeaseTimeout = None, CacheTtl = None, NEW d \in detached, Late(d)
  PROVE  [SF!Next]_<<claim, handed>>
<1> DEFINE k == d.key  old == executions[k]
<1>1. k \in Keys /\ executions \in [Keys -> Row] /\ handed' = handed /\ d.epoch \in Nat
  BY DEF Base, ATInv, StoreCall, TInv, TypeOK, Late, handed
<1>2. PICK new \in Row :
    /\ executions' = [executions EXCEPT ![k] = new]
    /\ \/ new = old
       \/ \E retries \in Nat, expires \in Nat \cup {None} :
            MayStart(old, retries, expires) /\ new = Restarted(old, retries, expires)
       \/ /\ Writer(d) /\ Settles(old, new)
          /\ (new.status = "SUCCEEDED" => new.result = d.epoch)
  BY DEF Late
<1>3. claim' = [claim EXCEPT ![k] = ClaimOf(new)] /\ claim[k] = ClaimOf(old)
  BY <1>1, <1>2, ClaimUpdate DEF claim
<1>4. claim = [claim EXCEPT ![k] = claim[k]]
  BY DEF claim
<1>5. CASE ClaimOf(new) = ClaimOf(old)
  BY <1>1, <1>3, <1>4, <1>5
<1>6. ASSUME NEW retries \in Nat, NEW expires \in Nat \cup {None},
             MayStart(old, retries, expires), new = Restarted(old, retries, expires)
      PROVE  SF!Next
  <2>1. old.status \in {"ABSENT", "FAILED"} /\ old.epoch <= MaxRetries
    BY <1>1, <1>6, StartsCounted DEF Base, ATInv
  <2>2. new.status = "RUNNING" /\ new.epoch = old.epoch + 1
    BY <1>6 DEF Restarted
  <2> HIDE DEF old
  <2>3. claim[k].state = "open" /\ claim[k].claims = old.epoch
    BY <1>3, <2>1 DEF ClaimOf, StateOf, Live
  <2>4. ClaimOf(new) = [state |-> "claimed", claims |-> claim[k].claims + 1, value |-> 0]
    BY <2>2, <2>3 DEF ClaimOf, StateOf, Live
  <2>5. SF!Claim(k)
    BY <1>1, <1>3, <2>1, <2>3, <2>4 DEF SF!Claim
  <2> QED BY <1>1, <2>5 DEF SF!Next
<1>7. CASE Writer(d) /\ Settles(old, new) /\ (new.status = "SUCCEEDED" => new.result = d.epoch)
  <2>1. old.status \in Live /\ old.epoch = d.epoch
    BY <1>7 DEF Base, Apart, LateInv
  <2> HIDE DEF old
  <2>2. claim[k].state = "claimed" /\ claim[k].claims = old.epoch
    BY <1>3, <2>1 DEF ClaimOf, StateOf
  <2>3. new.epoch = old.epoch
    BY <1>7 DEF Settles
  <2>4. CASE new.status = "WAITING_APPROVAL"
    <3>1. ClaimOf(new) = ClaimOf(old)
      BY <2>1, <2>3, <2>4 DEF ClaimOf, StateOf, Live
    <3> QED BY <1>5, <3>1 DEF old
  <2>5. CASE new.status = "SUCCEEDED"
    <3>1. ClaimOf(new) = [state |-> "settled", claims |-> claim[k].claims, value |-> claim[k].claims]
      BY <1>7, <2>1, <2>2, <2>3, <2>5 DEF ClaimOf, StateOf, Live
    <3>2. SF!SettleUnheard(k)
      BY <1>1, <1>3, <2>2, <3>1 DEF SF!SettleUnheard
    <3> QED BY <1>1, <3>2 DEF SF!Next
  <2>6. CASE new.status = "FAILED"
    <3>1. ClaimOf(new) = [state |-> "open", claims |-> claim[k].claims, value |-> 0]
      BY <2>2, <2>3, <2>6 DEF ClaimOf, StateOf, Live
    <3>2. SF!ReleaseUnheard(k)
      BY <1>1, <1>3, <2>2, <3>1 DEF SF!ReleaseUnheard
    <3> QED BY <1>1, <3>2 DEF SF!Next
  <2> QED BY <1>7, <2>4, <2>5, <2>6 DEF Settles, Finished
<1> QED BY <1>2, <1>5, <1>6, <1>7

\* Without TTL and lease, tasks that are cancelled and threads that go on without them
\* keep the abstract promise too.
THEOREM AsyncPromiseKept ==
  ASSUME LeaseTimeout = None, CacheTtl = None
  PROVE  AsyncSpec => SingleFlightPromise
<1> DEFINE Inv == Base /\ CountedAttempts
<1>1. AsyncInit => Inv /\ SF!Init
  BY BaseInit, CountedInit, PromiseInit DEF AsyncInit
<1>2. Inv /\ [AsyncNext]_asyncVars => Inv'
  BY BaseStep, CountedStep DEF Base, ATInv
<1>3. Inv /\ [AsyncNext]_asyncVars => [SF!Next]_<<claim, handed>>
  <2> SUFFICES ASSUME Inv, [AsyncNext]_asyncVars PROVE [SF!Next]_<<claim, handed>>
    OBVIOUS
  <2>1. AsyncKinds /\ PInv
    BY BaseStep DEF Base, ATInv, Apart, PInv
  <2> QED BY <2>1, PromiseStep, PromiseLate DEF AsyncKinds
<1> QED BY <1>1, <1>2, <1>3, PTL DEF AsyncSpec, SF!Spec, SingleFlightPromise
=============================================================================
