--------------------------- MODULE CasStoreProofs ---------------------------
(* Proofs about CasStore, for both backends, any policy and number of      *)
(* processes and keys, and any time.                                       *)
EXTENDS CasStoreSingleFlight, FiniteSetTheorems, TLAPS

AnswerType == [kind : {"none", "value", "error", "slotTimeout", "followTimeout"},
               key : Keys \cup {None}, epoch : Nat]

\* A process inside run() is one of the setting's, and has a key.
Placed == \A c \in Callers : caller[c].at # "idle" => caller[c].key \in Keys /\ c \in load.callers

TInv == TypeOK /\ Placed

(***************************************************************************)
(* The steps.  Whatever the action, a process wins the record of its key,  *)
(* its function ends and it writes the record, it does neither and moves,  *)
(* or time passes.                                                         *)
(***************************************************************************)

Acquires(c) ==
  PostgresClaims(c) \/ RedisClaims(c) \/ ReclaimsExpired(c) \/ Retries(c) \/ ReclaimsStale(c)

Records(c) == Complete(c) \/ Fail(c)

\* Callers with a copy that still permits a retry.
Straggles(c, k) ==
  /\ caller[c].at = "decide" /\ caller[c].key = k
  /\ caller[c].copy.status = "FAILED" /\ caller[c].copy.retries < MaxRetries

Won(retries, epoch) ==
  [status |-> "RUNNING", created |-> clock, finished |-> 0, expires |-> None,
   retries |-> retries, epoch |-> epoch, result |-> 0]

\* Which records may be won, and what becomes of their retries.
MayWin(c, k, retries) ==
  LET row == executions[k]
  IN \/ row.status = "ABSENT" /\ retries = 0
     \/ row.status = "SUCCEEDED" /\ caller[c].copy.expires # None /\ retries = row.retries
     \/ row.status = "FAILED" /\ Straggles(c, k) /\ retries = row.retries + 1
     \/ row.status = "RUNNING" /\ Stale(row) /\ retries = row.retries

\* Where a Postgres transaction is open.
Holding == {"insert", "read", "decide"}

Ending(c) == lock' = IF lock = c THEN None ELSE lock

Wins(c, k, retries) ==
  /\ caller[c].at # "idle" /\ k = caller[c].key /\ MayWin(c, k, retries)
  /\ ~Redis => caller[c].at \in Holding
  /\ executions' = [executions EXCEPT ![k] = Won(retries, executions[k].epoch + 1)]
  /\ running' = IF Redis THEN running \cup {k} ELSE running
  /\ Ending(c)
  /\ caller' = [caller EXCEPT ![c] = [at |-> "function", key |-> k, copy |-> NoRow,
                                      epoch |-> executions[k].epoch + 1]]
  /\ UNCHANGED <<load, clock, answer>>

Writes(c, k, new, a) ==
  /\ At(c, "function") /\ k = caller[c].key
  /\ new.retries = executions[k].retries /\ new.epoch = executions[k].epoch
  /\ \/ new.status = "SUCCEEDED" /\ new.result = caller[c].epoch
        /\ a = [kind |-> "value", key |-> k, epoch |-> caller[c].epoch]
        /\ (CacheTtl = None => new.expires = None)
     \/ new.status = "FAILED" /\ new.result = executions[k].result
        /\ a = [kind |-> "error", key |-> k, epoch |-> 0]
        /\ new.expires = executions[k].expires
  /\ executions' = [executions EXCEPT ![k] = new]
  /\ running' = running \ {k}
  /\ caller' = [caller EXCEPT ![c] = Idle] /\ answer' = [answer EXCEPT ![c] = a]
  /\ UNCHANGED <<load, clock, lock>>

\* The lock goes to who needs it, from nobody, and is kept until the end of the
\* transaction.
Locks(c, local) ==
  IF local.at \in Holding /\ caller[c].at \in Holding THEN lock' = lock
  ELSE IF local.at \in Holding
         THEN \/ Redis /\ lock' = lock
              \/ ~Redis /\ MaxConcurrent = None /\ lock' = lock
              \/ ~Redis /\ MaxConcurrent # None /\ SlotFree /\ lock = None /\ lock' = c
         ELSE lock' = lock \/ Ending(c)

\* What a process is handed on the way.
Hands(c, a) ==
  \/ a = answer[c]
  \/ a.kind # "value"
  \/ /\ a.kind = "value" /\ caller[c].key \in Keys
     /\ \E row \in Row :
          /\ row = executions[caller[c].key] \/ (row = caller[c].copy /\ caller[c].at = "decide")
          /\ row.status = "SUCCEEDED" /\ a.key = caller[c].key /\ a.epoch = row.result

Moves(c, local, a) ==
  /\ local.at # "function" /\ (local.at # "idle" => local.key \in Keys /\ c \in load.callers)
  /\ local.at = "decide" => /\ local.key = caller[c].key
                            /\ local.copy = executions[local.key]
  /\ local.at # "decide" => local.copy \in {NoRow, caller[c].copy}
  /\ caller' = [caller EXCEPT ![c] = local] /\ answer' = [answer EXCEPT ![c] = a]
  /\ Locks(c, local) /\ Hands(c, a)
  /\ UNCHANGED <<load, clock, executions, running>>

Rests == UNCHANGED <<load, executions, running, lock, caller, answer>> /\ clock' \in Nat
-----------------------------------------------------------------------------
LEMMA LoadFacts ==
  ASSUME TInv
  PROVE  /\ load \in Load
         /\ CacheTtl \in (Nat \ {0}) \cup {None} /\ LeaseTimeout \in (Nat \ {0}) \cup {None}
         /\ MaxConcurrent \in (Nat \ {0}) \cup {None}
BY PolicyAssumption DEF TInv, TypeOK, Load, CacheTtl, LeaseTimeout, MaxConcurrent

LEMMA CallerFacts ==
  ASSUME TInv, NEW c \in Callers, caller[c].at # "idle"
  PROVE  /\ KeyOf(c) \in Keys /\ KeyOf(c) = caller[c].key /\ RowOf(c) \in Row
         /\ RowOf(c) = executions[caller[c].key] /\ c \in load.callers
         /\ caller[c] \in Local /\ caller[c].copy \in Row /\ caller[c].epoch \in Nat
         /\ Copy(c) = caller[c].copy
BY DEF TInv, TypeOK, Placed, KeyOf, RowOf, Local, Copy

LEMMA AcquireFacts ==
  ASSUME TInv, NEW c \in Callers, Acquires(c)
  PROVE  \E k \in Keys, retries \in Nat : Wins(c, k, retries)
<1>1. caller[c].at # "idle"
  BY DEF Acquires, PostgresClaims, RedisClaims, ReclaimsExpired, Retries, ReclaimsStale, Decides, At
<1> USE <1>1, CallerFacts
<1> DEFINE k == KeyOf(c)
<1>2. RowOf(c).retries \in Nat /\ RowOf(c).retries + 1 \in Nat /\ RowOf(c).created \in Nat
  BY DEF Row
<1>3. ASSUME NEW retries \in Nat, Own(c, retries), MayWin(c, k, retries),
             ~Redis => caller[c].at \in Holding
      PROVE  \E l \in Keys, n \in Nat : Wins(c, l, n)
  <2>1. Wins(c, k, retries)
    BY <1>3 DEF Own, Wins, Won, AddRunning, EndTransaction, Ending
  <2> QED BY <2>1
<1>4. CASE PostgresClaims(c)
  <2>1. Own(c, 0) /\ MayWin(c, k, 0) /\ caller[c].at \in Holding
    BY <1>4 DEF PostgresClaims, MayWin, At, Holding
  <2> QED BY <1>3, <2>1
<1>5. CASE RedisClaims(c)
  BY <1>3, <1>5 DEF RedisClaims, MayWin, Redis
<1>6. CASE ReclaimsExpired(c)
  <2>1. MayWin(c, k, RowOf(c).retries)
    BY <1>6 DEF ReclaimsExpired, MayWin, Decides, Expired
  <2> QED BY <1>2, <1>3, <1>6, <2>1 DEF ReclaimsExpired, Decides, At, Holding
<1>7. CASE Retries(c)
  <2>1. MayWin(c, k, RowOf(c).retries + 1)
    BY <1>7 DEF Retries, MayWin, Decides, Straggles, MayRetry, At
  <2> QED BY <1>2, <1>3, <1>7, <2>1 DEF Retries, Decides, At, Holding
<1>8. CASE ReclaimsStale(c)
  <2>1. Stale(RowOf(c))
    BY <1>8 DEF ReclaimsStale, Stale
  <2>2. MayWin(c, k, RowOf(c).retries)
    BY <1>8, <2>1 DEF ReclaimsStale, MayWin
  <2> QED BY <1>2, <1>3, <1>8, <2>2 DEF ReclaimsStale, Decides, At, Holding
<1> QED BY <1>4, <1>5, <1>6, <1>7, <1>8 DEF Acquires

LEMMA RecordFacts ==
  ASSUME TInv, NEW c \in Callers, Records(c)
  PROVE  \E k \in Keys, new \in Row, a \in AnswerType : Writes(c, k, new, a)
<1>1. caller[c].at = "function"
  BY DEF Records, Complete, Fail, At
<1> DEFINE k == KeyOf(c)  old == executions[k]
           expires == IF CacheTtl = None THEN None ELSE clock + CacheTtl
           done == [old EXCEPT !.status = "SUCCEEDED", !.result = caller[c].epoch,
                               !.finished = clock, !.expires = expires]
           failed == [old EXCEPT !.status = "FAILED", !.finished = clock]
           value == [kind |-> "value", key |-> k, epoch |-> caller[c].epoch]
           error == [kind |-> "error", key |-> k, epoch |-> 0]
<1>2. k \in Keys /\ k = caller[c].key /\ old \in Row /\ caller[c].epoch \in Nat /\ clock \in Nat
  BY <1>1, CallerFacts DEF TInv, TypeOK
<1>3. expires \in Nat \cup {None}
  BY <1>2, LoadFacts
<1>4. value \in AnswerType /\ error \in AnswerType
  BY <1>2 DEF AnswerType
<1>5. CASE Complete(c)
  <2>1. /\ done \in Row /\ done.status = "SUCCEEDED" /\ done.result = caller[c].epoch
        /\ done.retries = old.retries /\ done.epoch = old.epoch /\ done.expires = expires
    <3> HIDE DEF expires, old
    <3> QED BY <1>2, <1>3 DEF Row
  <2>2. executions' = [executions EXCEPT ![k] = done]
    BY <1>2, <1>5 DEF Complete, TInv, TypeOK
  <2>3. Writes(c, k, done, value)
    <3>1. CacheTtl = None => expires = None
      OBVIOUS
    <3> HIDE DEF done, expires
    <3> QED BY <1>1, <1>2, <1>5, <2>1, <2>2, <3>1
        DEF Complete, Writes, DropRunning, Leave, At
  <2> QED BY <1>2, <1>4, <2>1, <2>3
<1>6. CASE Fail(c)
  <2>1. /\ failed \in Row /\ failed.status = "FAILED" /\ failed.result = old.result
        /\ failed.retries = old.retries /\ failed.epoch = old.epoch /\ failed.expires = old.expires
    <3> HIDE DEF old
    <3> QED BY <1>2 DEF Row
  <2>2. executions' = [executions EXCEPT ![k] = failed]
    BY <1>2, <1>6 DEF Fail, TInv, TypeOK
  <2>3. Writes(c, k, failed, error)
    <3> HIDE DEF failed
    <3> QED BY <1>1, <1>2, <1>6, <2>1, <2>2 DEF Fail, Writes, DropRunning, Leave, At
  <2> QED BY <1>2, <1>4, <2>1, <2>3
<1> QED BY <1>5, <1>6 DEF Records

Walks(c) ==
  \/ \E k \in Keys : Run(c, k)
  \/ PostgresCounts(c) \/ FindsKeyHeld(c) \/ GivesUpSlot(c) \/ Reads(c)
  \/ UsesCached(c) \/ ReplaysError(c) \/ FollowsRunning(c) \/ LosesSwap(c)
  \/ FollowerSeesResult(c) \/ FollowerGivesUp(c) \/ Die(c)

\* run() returns or raises, or the process dies, before it owned anything.
LEMMA LeaveFacts ==
  ASSUME TInv, NEW c \in Callers, NEW a \in AnswerType, caller[c].at # "idle",
         caller' = [caller EXCEPT ![c] = Idle], answer' = [answer EXCEPT ![c] = a],
         lock' = lock \/ Ending(c), Hands(c, a),
         UNCHANGED <<load, clock, executions, running>>
  PROVE  Idle \in Local /\ Moves(c, Idle, a)
<1>1. Idle \in Local /\ Idle.at = "idle" /\ Idle.copy = NoRow
  BY DEF Idle, Local, NoRow, Row
<1> QED BY <1>1 DEF Moves, Locks, Holding

\* It goes on to another place.
LEMMA GoToFacts ==
  ASSUME TInv, NEW c \in Callers, caller[c].at # "idle",
         NEW place \in {"insert", "read", "follow"}, GoTo(c, place),
         Locks(c, [caller[c] EXCEPT !.at = place]),
         UNCHANGED <<load, clock, executions, running, answer>>
  PROVE  \E local \in Local, a \in AnswerType : Moves(c, local, a)
<1> DEFINE local == [caller[c] EXCEPT !.at = place]
<1>1. caller[c] \in Local /\ caller[c].key \in Keys /\ c \in load.callers
  BY CallerFacts
<1>2. /\ local \in Local /\ local.at = place /\ local.key = caller[c].key
      /\ local.copy = caller[c].copy
  BY <1>1 DEF Local
<1>3. caller' = [caller EXCEPT ![c] = local]
  BY <1>1 DEF GoTo, TInv, TypeOK
<1>4. answer[c] \in AnswerType /\ answer' = [answer EXCEPT ![c] = answer[c]]
  BY DEF TInv, TypeOK, AnswerType
<1> HIDE DEF local
<1>5. Moves(c, local, answer[c])
  BY <1>1, <1>2, <1>3, <1>4 DEF Moves, Hands, local
<1> QED BY <1>2, <1>4, <1>5

LEMMA WalkFacts ==
  ASSUME TInv, NEW c \in Callers, Walks(c)
  PROVE  \E local \in Local, a \in AnswerType : Moves(c, local, a)
<1> DEFINE Goal == \E local \in Local, a \in AnswerType : Moves(c, local, a)
<1>1. /\ caller \in [Callers -> Local] /\ answer \in [Callers -> AnswerType]
      /\ answer[c] \in AnswerType /\ answer = [answer EXCEPT ![c] = answer[c]]
  BY DEF TInv, TypeOK, AnswerType
<1>2. ASSUME NEW k \in Keys, Run(c, k) PROVE Goal
  <2> DEFINE local == [Idle EXCEPT !.at = "acquire", !.key = k]
  <2>1. local \in Local /\ local.at = "acquire" /\ local.key = k /\ local.copy = NoRow
    BY DEF Idle, Local, NoRow, Row
  <2>2. NoAnswer \in AnswerType /\ NoAnswer.kind = "none"
    BY DEF NoAnswer, AnswerType
  <2>3. /\ caller' = [caller EXCEPT ![c] = local] /\ answer' = [answer EXCEPT ![c] = NoAnswer]
        /\ c \in load.callers /\ UNCHANGED <<load, clock, executions, running, lock>>
    BY <1>2 DEF Run
  <2> HIDE DEF local
  <2>4. Moves(c, local, NoAnswer)
    BY <2>1, <2>2, <2>3 DEF Moves, Locks, Holding, Hands
  <2> QED BY <2>1, <2>2, <2>4
<1>3. ASSUME caller[c].at # "idle", NEW kind \in {"error", "slotTimeout", "followTimeout"},
             Leave(c, kind, 0), lock' = lock \/ Ending(c),
             UNCHANGED <<load, clock, executions, running>>
      PROVE  Goal
  <2> DEFINE a == [kind |-> kind, key |-> KeyOf(c), epoch |-> 0]
  <2>1. a \in AnswerType /\ a.kind # "value"
    BY <1>3, CallerFacts DEF AnswerType
  <2>2. caller' = [caller EXCEPT ![c] = Idle] /\ answer' = [answer EXCEPT ![c] = a]
    BY <1>3 DEF Leave
  <2> HIDE DEF a
  <2> QED BY <1>3, <2>1, <2>2, LeaveFacts DEF Hands
<1>4. ASSUME caller[c].at # "idle", NEW row \in Row, Leave(c, "value", row.result),
             row.status = "SUCCEEDED", lock' = lock \/ Ending(c),
             row = RowOf(c) \/ (row = Copy(c) /\ caller[c].at = "decide"),
             UNCHANGED <<load, clock, executions, running>>
      PROVE  Goal
  <2> DEFINE a == [kind |-> "value", key |-> KeyOf(c), epoch |-> row.result]
  <2>1. a \in AnswerType /\ a.kind = "value" /\ a.key = caller[c].key /\ a.epoch = row.result
    BY <1>4, CallerFacts DEF AnswerType, Row
  <2>2. caller' = [caller EXCEPT ![c] = Idle] /\ answer' = [answer EXCEPT ![c] = a]
    BY <1>4 DEF Leave
  <2> HIDE DEF a
  <2>3. Hands(c, a)
    BY <1>4, <2>1, CallerFacts DEF Hands
  <2> QED BY <1>4, <2>1, <2>2, <2>3, LeaveFacts
<1>5. ASSUME NEW place \in {"insert", "read", "follow"}
      PROVE  caller[c] \in Local /\ [caller[c] EXCEPT !.at = place].at = place
  BY <1>1 DEF Local
<1>6. CASE PostgresCounts(c)
  <2>1. Locks(c, [caller[c] EXCEPT !.at = "insert"])
    BY <1>5, <1>6 DEF PostgresCounts, Locks, Holding, At
  <2> QED BY <1>6, <2>1, GoToFacts DEF PostgresCounts, At
<1>7. CASE FindsKeyHeld(c)
  <2>1. Locks(c, [caller[c] EXCEPT !.at = "read"])
    BY <1>5, <1>7 DEF FindsKeyHeld, Locks, Holding, At
  <2> QED BY <1>7, <2>1, GoToFacts DEF FindsKeyHeld, At
<1>8. CASE FollowsRunning(c) \/ LosesSwap(c)
  <2>1. Locks(c, [caller[c] EXCEPT !.at = "follow"])
    BY <1>5, <1>8 DEF FollowsRunning, LosesSwap, Locks, Holding, EndTransaction, Ending
  <2> QED BY <1>8, <2>1, GoToFacts DEF FollowsRunning, LosesSwap, Decides, At
<1>9. CASE Reads(c)
  <2> DEFINE local == [caller[c] EXCEPT !.at = "decide", !.copy = RowOf(c)]
  <2>1. /\ caller[c].at = "read" /\ RowOf(c) \in Row /\ caller[c] \in Local
        /\ RowOf(c) = executions[caller[c].key] /\ caller[c].key \in Keys /\ c \in load.callers
    BY <1>9, CallerFacts DEF Reads, At
  <2>2. /\ local \in Local /\ local.at = "decide" /\ local.key = caller[c].key
        /\ local.copy = executions[caller[c].key]
    BY <2>1 DEF Local
  <2>3. caller' = [caller EXCEPT ![c] = local]
    BY <1>1, <1>9 DEF Reads
  <2> HIDE DEF local
  <2>4. Moves(c, local, answer[c])
    BY <1>1, <1>9, <2>1, <2>2, <2>3 DEF Reads, Moves, Locks, Holding, Hands
  <2> QED BY <1>1, <2>2, <2>4
<1>10. CASE GivesUpSlot(c)
  BY <1>3, <1>10 DEF GivesUpSlot, At
<1>11. CASE ReplaysError(c)
  BY <1>3, <1>11 DEF ReplaysError, Decides, At, EndTransaction, Ending
<1>12. CASE UsesCached(c)
  BY <1>4, <1>12, CallerFacts DEF UsesCached, Decides, At, EndTransaction, Ending
<1>13. CASE FollowerSeesResult(c)
  BY <1>3, <1>4, <1>13, CallerFacts DEF FollowerSeesResult, At
<1>14. CASE FollowerGivesUp(c)
  BY <1>3, <1>14 DEF FollowerGivesUp, At
<1>15. CASE Die(c)
  <2>1. /\ caller[c].at # "idle" /\ caller' = [caller EXCEPT ![c] = Idle]
        /\ answer' = [answer EXCEPT ![c] = answer[c]] /\ Ending(c)
        /\ UNCHANGED <<load, clock, executions, running>>
    BY <1>1, <1>15 DEF Die, At, EndTransaction, Ending
  <2> QED BY <1>1, <2>1, LeaveFacts DEF Hands
<1> QED BY <1>2, <1>6, <1>7, <1>8, <1>9, <1>10, <1>11, <1>12, <1>13, <1>14, <1>15 DEF Walks

LEMMA StepKinds ==
  ASSUME TInv, [Next]_vars
  PROVE  \/ \E c \in Callers, k \in Keys, retries \in Nat : Wins(c, k, retries)
         \/ \E c \in Callers, k \in Keys, new \in Row, a \in AnswerType : Writes(c, k, new, a)
         \/ \E c \in Callers, local \in Local, a \in AnswerType : Moves(c, local, a)
         \/ Rests
<1>1. clock \in Nat
  BY DEF TInv, TypeOK
<1>2. CASE UNCHANGED vars
  BY <1>1, <1>2 DEF vars, Rests
<1>3. CASE Tick
  BY <1>1, <1>3 DEF Tick, Rests
<1>4. CASE Next /\ ~Tick
  <2>1. \E c \in Callers : Acquires(c) \/ Records(c) \/ Walks(c)
    BY <1>4 DEF Next, AcquireStep, DecideStep, OwnerStep, FollowStep, Acquires, Records, Walks
  <2> QED BY <2>1, AcquireFacts, RecordFacts, WalkFacts
<1> QED BY <1>2, <1>3, <1>4
-----------------------------------------------------------------------------
(* Type correctness.                                                       *)

LEMMA WonType ==
  ASSUME TInv, NEW retries \in Nat, NEW k \in Keys
  PROVE  /\ Won(retries, executions[k].epoch + 1) \in Row
         /\ executions[k].epoch \in Nat /\ executions[k].epoch + 1 \in Nat
BY DEF TInv, TypeOK, Won, Row

LEMMA TypeInit == Init => TInv
BY DEF Init, TInv, TypeOK, Placed, NoRow, Row, Idle, Local, NoAnswer

LEMMA TypeStep == TInv /\ [Next]_vars => TInv'
<1> SUFFICES ASSUME TInv, [Next]_vars PROVE TInv'
  OBVIOUS
<1>1. ASSUME NEW c \in Callers, NEW k \in Keys, NEW retries \in Nat, Wins(c, k, retries)
      PROVE  TInv'
  <2>1. c \in load.callers
    BY <1>1, CallerFacts DEF Wins
  <2>2. executions' \in [Keys -> Row]
    BY <1>1, WonType DEF Wins, TInv, TypeOK
  <2>3. [at |-> "function", key |-> k, copy |-> NoRow, epoch |-> executions[k].epoch + 1] \in Local
    BY WonType DEF Local, NoRow, Row
  <2>4. caller' \in [Callers -> Local]
    BY <1>1, <2>3 DEF Wins, TInv, TypeOK
  <2>5. Placed'
    BY <1>1, <2>1 DEF Wins, TInv, TypeOK, Placed
  <2>6. running' \subseteq Keys /\ lock' \in Callers \cup {None}
    BY <1>1 DEF Wins, Ending, TInv, TypeOK
  <2> QED BY <1>1, <2>2, <2>4, <2>5, <2>6 DEF Wins, TInv, TypeOK
<1>2. ASSUME NEW c \in Callers, NEW k \in Keys, NEW new \in Row, NEW a \in AnswerType,
             Writes(c, k, new, a)
      PROVE  TInv'
  <2>1. Idle \in Local /\ Idle.at = "idle"
    BY DEF Idle, Local, NoRow, Row
  <2>2. caller' \in [Callers -> Local] /\ Placed'
    BY <1>2, <2>1 DEF Writes, TInv, TypeOK, Placed
  <2>3. executions' \in [Keys -> Row] /\ answer' \in [Callers -> AnswerType]
    BY <1>2 DEF Writes, TInv, TypeOK, AnswerType
  <2> QED BY <1>2, <2>2, <2>3 DEF Writes, TInv, TypeOK, AnswerType
<1>3. ASSUME NEW c \in Callers, NEW local \in Local, NEW a \in AnswerType, Moves(c, local, a)
      PROVE  TInv'
  <2>1. caller' \in [Callers -> Local] /\ Placed'
    BY <1>3 DEF Moves, TInv, TypeOK, Placed
  <2>2. lock' \in Callers \cup {None}
    BY <1>3 DEF Moves, Locks, Ending, TInv, TypeOK
  <2>3. answer' \in [Callers -> AnswerType]
    BY <1>3 DEF Moves, TInv, TypeOK, AnswerType
  <2> QED BY <1>3, <2>1, <2>2, <2>3 DEF Moves, TInv, TypeOK, AnswerType
<1>4. CASE Rests
  BY <1>4 DEF Rests, TInv, TypeOK, Placed
<1> QED BY <1>1, <1>2, <1>3, <1>4, StepKinds

LEMMA TypeAlways == Spec => []TInv
BY TypeInit, TypeStep, PTL DEF Spec

\* Every variable keeps its type, on either backend.
THEOREM TypeCorrect == Spec => []TypeOK
<1>1. TInv => TypeOK
  BY DEF TInv
<1> QED BY <1>1, TypeAlways, PTL
-----------------------------------------------------------------------------
(* One owner: a record is won when it is not RUNNING, or when it is stale. *)

LEMMA OneOwnerInit == Init => OneOwner
BY DEF Init, OneOwner, Owners, At, Idle

Owning(c, k) == caller[c].at = "function" /\ caller[c].key = k

LEMMA OneOwnerStep == TInv /\ OneOwner /\ [Next]_vars => OneOwner'
<1> SUFFICES ASSUME TInv, OneOwner, [Next]_vars, LeaseTimeout' = None,
                    NEW l \in Keys, NEW e \in Callers, NEW f \in Callers,
                    Owning(e, l)', Owning(f, l)'
             PROVE  e = f /\ executions'[l].status = "RUNNING"
  BY DEF OneOwner, Owners, Owning, At, KeyOf
<1> DEFINE Goal == e = f /\ executions'[l].status = "RUNNING"
<1>1. caller \in [Callers -> Local] /\ executions \in [Keys -> Row]
  BY DEF TInv, TypeOK
<1>2. ASSUME LeaseTimeout = None, NEW c \in Callers, NEW k \in Keys, Owning(c, k)
      PROVE  executions[k].status = "RUNNING" /\ \A d \in Callers : Owning(d, k) => d = c
  BY <1>2 DEF OneOwner, Owners, Owning, At, KeyOf
<1>3. ASSUME NEW c \in Callers, NEW k \in Keys, NEW retries \in Nat, Wins(c, k, retries)
      PROVE  Goal
  <2>1. LeaseTimeout = None
    BY <1>3 DEF Wins, LeaseTimeout
  <2>2. executions[k].status # "RUNNING"
    BY <1>3, <2>1 DEF Wins, MayWin, Stale
  <2>3. \A d \in Callers : ~Owning(d, k)
    BY <1>2, <2>1, <2>2
  <2>4. /\ executions'[k].status = "RUNNING"
        /\ \A m \in Keys : m # k => executions'[m] = executions[m]
    BY <1>1, <1>3 DEF Wins, Won
  <2>5. \A d \in Callers : Owning(d, l)' => (d = c /\ l = k) \/ (d # c /\ Owning(d, l))
    BY <1>1, <1>3 DEF Wins, Owning
  <2>6. CASE l = k
    BY <2>3, <2>4, <2>5, <2>6
  <2>7. CASE l # k
    BY <1>2, <2>1, <2>4, <2>5, <2>7
  <2> QED BY <2>6, <2>7
<1>4. ASSUME NEW c \in Callers, NEW k \in Keys, NEW new \in Row, NEW a \in AnswerType,
             Writes(c, k, new, a)
      PROVE  Goal
  <2>1. LeaseTimeout = None /\ Owning(c, k)
    BY <1>4 DEF Writes, LeaseTimeout, At, Owning
  <2>2. \A d \in Callers : Owning(d, l)' => d # c /\ Owning(d, l)
    BY <1>1, <1>4 DEF Writes, Owning, Idle
  <2>3. l # k
    BY <1>2, <2>1, <2>2
  <2>4. executions'[l] = executions[l]
    BY <1>1, <1>4, <2>3 DEF Writes
  <2> QED BY <1>2, <2>1, <2>2, <2>4
<1>5. ASSUME NEW c \in Callers, NEW local \in Local, NEW a \in AnswerType, Moves(c, local, a)
      PROVE  Goal
  <2>1. LeaseTimeout = None /\ executions' = executions
    BY <1>5 DEF Moves, LeaseTimeout
  <2>2. \A d \in Callers : Owning(d, l)' => Owning(d, l)
    BY <1>1, <1>5 DEF Moves, Owning
  <2> QED BY <1>2, <2>1, <2>2
<1>6. CASE Rests
  <2>1. LeaseTimeout = None /\ executions' = executions
    BY <1>6 DEF Rests, LeaseTimeout
  <2>2. \A d \in Callers : Owning(d, l)' => Owning(d, l)
    BY <1>6 DEF Rests, Owning
  <2> QED BY <1>2, <2>1, <2>2
<1> QED BY <1>3, <1>4, <1>5, <1>6, StepKinds

\* However many callers decide on old copies, without a lease a key has one owner,
\* and its record is RUNNING as long as it has.
THEOREM OneOwnerAlways == Spec => []OneOwner
<1>1. Init /\ [][Next]_vars /\ []TInv => []OneOwner
  BY OneOwnerInit, OneOwnerStep, PTL
<1> QED BY <1>1, TypeAlways, PTL DEF Spec

\* A RUNNING record changes hands only when its own lease has run out, although
\* what is compared with the clock is a copy.
THEOREM OnlyStaleIsReclaimedAlways == Spec => OnlyStaleIsReclaimed
<1>1. ASSUME TInv, [Next]_vars, NEW k \in Keys, executions[k].status = "RUNNING",
             executions'[k].epoch # executions[k].epoch
      PROVE  Stale(executions[k])
  <2>1. executions \in [Keys -> Row]
    BY <1>1 DEF TInv, TypeOK
  <2>2. ASSUME NEW c \in Callers, NEW l \in Keys, NEW retries \in Nat, Wins(c, l, retries)
        PROVE  Stale(executions[k])
    BY <1>1, <2>1, <2>2 DEF Wins, MayWin
  <2>3. ASSUME NEW c \in Callers, NEW l \in Keys, NEW new \in Row, NEW a \in AnswerType,
               Writes(c, l, new, a)
        PROVE  FALSE
    BY <1>1, <2>1, <2>3 DEF Writes
  <2>4. ASSUME NEW c \in Callers, NEW local \in Local, NEW a \in AnswerType, Moves(c, local, a)
        PROVE  FALSE
    BY <1>1, <2>4 DEF Moves
  <2>5. CASE Rests
    BY <1>1, <2>5 DEF Rests
  <2> QED BY <1>1, <2>2, <2>3, <2>4, <2>5, StepKinds
<1>2. TInv /\ [Next]_vars
      => [\A k \in Keys : /\ executions[k].status = "RUNNING"
                          /\ executions'[k].epoch # executions[k].epoch
                          => Stale(executions[k])]_vars
  BY <1>1
<1> QED BY <1>2, TypeAlways, PTL DEF Spec, OnlyStaleIsReclaimed
-----------------------------------------------------------------------------
(* What the cap is compared with.                                          *)

\* Which rows are RUNNING after a step.
LEMMA RunningAfter ==
  ASSUME TInv
  PROVE  /\ \A c \in Callers, k \in Keys, retries \in Nat :
              Wins(c, k, retries) => RunningRows' = RunningRows \cup {k}
         /\ \A c \in Callers, k \in Keys, new \in Row, a \in AnswerType :
              Writes(c, k, new, a) => RunningRows' = RunningRows \ {k}
         /\ executions' = executions => RunningRows' = RunningRows
<1>1. executions \in [Keys -> Row]
  BY DEF TInv, TypeOK
<1>2. ASSUME NEW c \in Callers, NEW k \in Keys, NEW retries \in Nat, Wins(c, k, retries)
      PROVE  RunningRows' = RunningRows \cup {k}
  BY <1>1, <1>2 DEF Wins, Won, RunningRows
<1>3. ASSUME NEW c \in Callers, NEW k \in Keys, NEW new \in Row, NEW a \in AnswerType,
             Writes(c, k, new, a)
      PROVE  RunningRows' = RunningRows \ {k}
  BY <1>1, <1>3 DEF Writes, RunningRows
<1> QED BY <1>2, <1>3 DEF RunningRows

LEMMA ExactInit == Init => RunningSetExact
BY DEF Init, RunningSetExact, RunningRows, NoRow

LEMMA ExactStep == TInv /\ RunningSetExact /\ [Next]_vars => RunningSetExact'
<1> SUFFICES ASSUME TInv, RunningSetExact, [Next]_vars PROVE RunningSetExact'
  OBVIOUS
<1>1. ASSUME NEW c \in Callers, NEW k \in Keys, NEW retries \in Nat, Wins(c, k, retries)
      PROVE  RunningSetExact'
  BY <1>1, RunningAfter DEF Wins, RunningSetExact, Redis
<1>2. ASSUME NEW c \in Callers, NEW k \in Keys, NEW new \in Row, NEW a \in AnswerType,
             Writes(c, k, new, a)
      PROVE  RunningSetExact'
  BY <1>2, RunningAfter DEF Writes, RunningSetExact, Redis
<1>3. ASSUME NEW c \in Callers, NEW local \in Local, NEW a \in AnswerType, Moves(c, local, a)
      PROVE  RunningSetExact'
  BY <1>3, RunningAfter DEF Moves, RunningSetExact, Redis
<1>4. CASE Rests
  BY <1>4, RunningAfter DEF Rests, RunningSetExact, Redis
<1> QED BY <1>1, <1>2, <1>3, <1>4, StepKinds

\* Redis counts in tbay:running exactly the records that are RUNNING, whoever
\* reclaims them and however late their owners write.
THEOREM RunningSetExactAlways == Spec => []RunningSetExact
<1>1. Init /\ [][Next]_vars /\ []TInv => []RunningSetExact
  BY ExactInit, ExactStep, PTL
<1> QED BY <1>1, TypeAlways, PTL DEF Spec

\* Postgres: who is inside a transaction under a cap has the lock, and found a
\* slot that nobody can have taken since.
LockKept ==
  MaxConcurrent # None /\ ~Redis =>
    \A c \in Callers : caller[c].at \in Holding =>
      lock = c /\ Cardinality(RunningRows) < MaxConcurrent

LEMMA RunningIsFinite ==
  ASSUME TInv
  PROVE  IsFiniteSet(RunningRows) /\ Cardinality(RunningRows) \in Nat
<1>1. IsFiniteSet(RunningRows)
  BY FiniteAssumption, FS_Subset DEF RunningRows
<1> QED BY <1>1, FS_CardinalityType

LEMMA OneMore ==
  ASSUME NEW S, IsFiniteSet(S), NEW x
  PROVE  Cardinality(S \cup {x}) <= Cardinality(S) + 1 /\ Cardinality(S \cup {x}) \in Nat
<1>1. Cardinality(S) \in Nat
  BY FS_CardinalityType
<1>2. CASE x \in S
  <2>1. S \cup {x} = S
    BY <1>2
  <2>2. Cardinality(S \cup {x}) = Cardinality(S)
    BY <2>1, Zenon
  <2> QED BY <1>1, <2>2
<1>3. CASE x \notin S
  <2>1. Cardinality(S \cup {x}) = Cardinality(S) + 1
    BY <1>3, FS_AddElement
  <2> QED BY <1>1, <2>1
<1> QED BY <1>2, <1>3

LEMMA CapInit == Init => LockKept /\ CapHolds
<1> SUFFICES ASSUME Init PROVE LockKept /\ CapHolds
  OBVIOUS
<1>1. RunningRows = {} /\ LockKept
  BY DEF Init, RunningRows, NoRow, LockKept, Idle, Holding
<1>2. MaxConcurrent \in (Nat \ {0}) \cup {None}
  BY TypeInit, LoadFacts
<1> QED BY <1>1, <1>2, FS_EmptySet DEF CapHolds

LEMMA CapStep == TInv /\ LockKept /\ CapHolds /\ [Next]_vars => (LockKept /\ CapHolds)'
<1> SUFFICES ASSUME TInv, LockKept, CapHolds, [Next]_vars, (MaxConcurrent # None /\ ~Redis)'
             PROVE  /\ Cardinality(RunningRows') <= MaxConcurrent'
                    /\ \A d \in Callers : caller'[d].at \in Holding =>
                         lock' = d /\ Cardinality(RunningRows') < MaxConcurrent'
  BY DEF LockKept, CapHolds, Holding
<1> DEFINE Goal == /\ Cardinality(RunningRows') <= MaxConcurrent'
                   /\ \A d \in Callers : caller'[d].at \in Holding =>
                        lock' = d /\ Cardinality(RunningRows') < MaxConcurrent'
<1>1. load' = load => MaxConcurrent' = MaxConcurrent /\ MaxConcurrent # None /\ ~Redis
  BY DEF MaxConcurrent, Redis
<1>2. MaxConcurrent # None /\ ~Redis
      => /\ MaxConcurrent \in Nat /\ Cardinality(RunningRows) <= MaxConcurrent
         /\ \A d \in Callers : caller[d].at \in Holding =>
              lock = d /\ Cardinality(RunningRows) < MaxConcurrent
  BY LoadFacts DEF LockKept, CapHolds
<1>3. /\ IsFiniteSet(RunningRows) /\ Cardinality(RunningRows) \in Nat
      /\ caller \in [Callers -> Local] /\ None \notin Callers
  BY RunningIsFinite, NoneAssumption DEF TInv, TypeOK
<1>4. ASSUME NEW c \in Callers, NEW k \in Keys, NEW retries \in Nat, Wins(c, k, retries)
      PROVE  Goal
  <2>1. MaxConcurrent' = MaxConcurrent /\ MaxConcurrent # None /\ ~Redis
    BY <1>1, <1>4 DEF Wins
  <2>2. Cardinality(RunningRows) < MaxConcurrent /\ MaxConcurrent \in Nat /\ lock = c
    BY <1>2, <1>4, <2>1 DEF Wins
  <2>3. /\ Cardinality(RunningRows') <= Cardinality(RunningRows) + 1
        /\ Cardinality(RunningRows') \in Nat
    BY <1>3, <1>4, RunningAfter, OneMore
  <2>4. \A d \in Callers : caller'[d].at \notin Holding
    BY <1>2, <1>3, <1>4, <2>1, <2>2 DEF Wins, Holding
  <2> QED BY <1>3, <2>1, <2>2, <2>3, <2>4
<1>5. ASSUME NEW c \in Callers, NEW k \in Keys, NEW new \in Row, NEW a \in AnswerType,
             Writes(c, k, new, a)
      PROVE  Goal
  <2>1. MaxConcurrent' = MaxConcurrent /\ MaxConcurrent # None /\ ~Redis
    BY <1>1, <1>5 DEF Writes
  <2>2. RunningRows' \subseteq RunningRows
    BY <1>5, RunningAfter
  <2>3. /\ Cardinality(RunningRows') <= Cardinality(RunningRows)
        /\ Cardinality(RunningRows') \in Nat
    BY <1>3, <2>2, FS_Subset, FS_CardinalityType
  <2>4. \A d \in Callers : caller'[d].at \in Holding => caller[d].at \in Holding /\ lock' = lock
    BY <1>3, <1>5 DEF Writes, Idle, Holding
  <2> QED BY <1>2, <1>3, <2>1, <2>3, <2>4
<1>6. ASSUME NEW c \in Callers, NEW local \in Local, NEW a \in AnswerType, Moves(c, local, a)
      PROVE  Goal
  <2>1. MaxConcurrent' = MaxConcurrent /\ MaxConcurrent # None /\ ~Redis
    BY <1>1, <1>6 DEF Moves
  <2>2. RunningRows' = RunningRows
    BY <1>6, RunningAfter DEF Moves
  <2>3. ASSUME NEW d \in Callers, caller'[d].at \in Holding, d # c
        PROVE  lock' = d /\ Cardinality(RunningRows) < MaxConcurrent
    <3>1. caller[d].at \in Holding
      BY <1>3, <1>6, <2>3 DEF Moves
    <3>2. lock = d /\ Cardinality(RunningRows) < MaxConcurrent
      BY <1>2, <2>1, <3>1
    <3> QED BY <1>2, <1>3, <1>6, <2>1, <2>3, <3>2 DEF Moves, Locks, Ending
  <2>4. ASSUME caller'[c].at \in Holding
        PROVE  lock' = c /\ Cardinality(RunningRows) < MaxConcurrent
    <3>1. local.at \in Holding
      BY <1>3, <1>6, <2>4 DEF Moves
    <3>2. CASE caller[c].at \in Holding
      BY <1>2, <1>6, <2>1, <3>1, <3>2 DEF Moves, Locks
    <3>3. CASE caller[c].at \notin Holding
      <4>1. SlotFree /\ lock' = c
        BY <1>6, <2>1, <3>1, <3>3 DEF Moves, Locks
      <4> QED BY <2>1, <4>1 DEF SlotFree, Counted
    <3> QED BY <3>2, <3>3
  <2> QED BY <1>2, <2>1, <2>2, <2>3, <2>4
<1>7. CASE Rests
  <2>1. MaxConcurrent' = MaxConcurrent /\ MaxConcurrent # None /\ ~Redis
    BY <1>1, <1>7 DEF Rests
  <2> QED BY <1>2, <1>7, <2>1, RunningAfter DEF Rests
<1> QED BY <1>4, <1>5, <1>6, <1>7, StepKinds

\* Postgres: the count is right because the lock spans it and the write.
THEOREM CapHoldsAlways == Spec => []CapHolds
<1>1. Init /\ [][Next]_vars /\ []TInv => [](LockKept /\ CapHolds)
  BY CapInit, CapStep, PTL
<1> QED BY <1>1, TypeAlways, PTL DEF Spec
-----------------------------------------------------------------------------
(* Retries: a caller that read a record with a retry left may use it after *)
(* the last one is gone, once.                                             *)

Stragglers(k) == {c \in Callers : Straggles(c, k)}

\* When a record has had its retries, every straggler may add one more; the
\* process that had the last one is none.
Slack ==
  \A k \in Keys : executions[k].retries >= MaxRetries =>
    executions[k].retries + Cardinality(Stragglers(k)) < MaxRetries + Cardinality(load.callers)

LEMMA StragglerFacts ==
  ASSUME TInv, NEW k \in Keys
  PROVE  /\ IsFiniteSet(load.callers) /\ load.callers # {}
         /\ Cardinality(load.callers) \in Nat /\ Cardinality(load.callers) > 0
         /\ Stragglers(k) \subseteq load.callers
         /\ MaxRetries = 0 => Stragglers(k) = {}
<1>1. load.callers \subseteq Callers /\ load.callers # {}
  BY LoadFacts DEF Load
<1>2. IsFiniteSet(load.callers) /\ Cardinality(load.callers) \in Nat
  BY <1>1, FiniteAssumption, FS_Subset, FS_CardinalityType
<1>3. Cardinality(load.callers) # 0
  BY <1>1, <1>2, FS_EmptySet
<1>4. \A c \in Callers : caller[c].copy.retries \in Nat
  BY DEF TInv, TypeOK, Local, Row
<1>5. Stragglers(k) \subseteq load.callers
  BY DEF Stragglers, Straggles, TInv, Placed
<1> QED BY <1>1, <1>2, <1>3, <1>4, <1>5 DEF Stragglers, Straggles

LEMMA FewerStragglers ==
  ASSUME NEW S, IsFiniteSet(S), NEW T, T \subseteq S
  PROVE  /\ Cardinality(T) \in Nat /\ Cardinality(T) <= Cardinality(S)
         /\ \A x \in S \ T : Cardinality(T) < Cardinality(S)
<1>1. Cardinality(S) \in Nat /\ IsFiniteSet(T) /\ Cardinality(T) \in Nat
      /\ Cardinality(T) <= Cardinality(S)
  BY FS_Subset, FS_CardinalityType
<1>2. ASSUME NEW x \in S \ T PROVE Cardinality(T) < Cardinality(S)
  <2>1. Cardinality(T) # Cardinality(S)
    BY <1>2, <1>1, FS_Subset
  <2> QED BY <1>1, <2>1
<1> QED BY <1>1, <1>2

LEMMA SlackInit == Init => Slack
<1> SUFFICES ASSUME Init, NEW k \in Keys, 0 >= MaxRetries
             PROVE  0 + Cardinality(Stragglers(k)) < MaxRetries + Cardinality(load.callers)
  BY DEF Init, Slack, NoRow
<1>1. MaxRetries = 0
  BY PolicyAssumption
<1>2. Stragglers(k) = {} /\ Cardinality(load.callers) \in Nat /\ Cardinality(load.callers) > 0
  BY <1>1, TypeInit, StragglerFacts
<1>3. Cardinality(Stragglers(k)) = 0
  BY <1>2, FS_EmptySet
<1> QED BY <1>1, <1>2, <1>3

LEMMA SlackStep == TInv /\ Slack /\ [Next]_vars => Slack'
<1> SUFFICES ASSUME TInv, Slack, [Next]_vars, NEW k \in Keys, executions'[k].retries >= MaxRetries
             PROVE  executions'[k].retries + Cardinality(Stragglers(k)')
                      < MaxRetries + Cardinality(load'.callers)
  BY DEF Slack
<1> DEFINE old == Stragglers(k)  new == Stragglers(k)'  all == load.callers
           Goal == executions'[k].retries + Cardinality(new) < MaxRetries + Cardinality(load'.callers)
<1>1. /\ executions \in [Keys -> Row] /\ caller \in [Callers -> Local]
      /\ executions[k].retries \in Nat /\ MaxRetries \in Nat
  BY PolicyAssumption DEF TInv, TypeOK, Row
<1>2. /\ IsFiniteSet(all) /\ Cardinality(all) \in Nat /\ Cardinality(all) > 0
      /\ old \subseteq all /\ (MaxRetries = 0 => old = {})
  BY StragglerFacts
<1>3. IsFiniteSet(old) /\ Cardinality(old) \in Nat
  BY <1>2, FS_Subset, FS_CardinalityType
<1>4. executions[k].retries >= MaxRetries
      => executions[k].retries + Cardinality(old) < MaxRetries + Cardinality(all)
  BY DEF Slack
\* A step that leaves the retries alone and makes nobody a straggler.
<1>5. ASSUME executions'[k].retries = executions[k].retries, load' = load, new \subseteq old
      PROVE  Goal
  <2>1. Cardinality(new) \in Nat /\ Cardinality(new) <= Cardinality(old)
    BY <1>3, <1>5, FewerStragglers
  <2> HIDE DEF new, old
  <2> QED BY <1>1, <1>2, <1>3, <1>4, <1>5, <2>1
<1>6. ASSUME NEW c \in Callers, NEW l \in Keys, NEW retries \in Nat, Wins(c, l, retries)
      PROVE  Goal
  <2>1. new \subseteq old \ {c} /\ load' = load /\ c \in all
    BY <1>1, <1>6, CallerFacts DEF Wins, Stragglers, Straggles
  <2>2. CASE l # k \/ (l = k /\ retries = executions[k].retries)
    <3>1. executions'[k].retries = executions[k].retries
      BY <1>1, <1>6, <2>2 DEF Wins, Won
    <3> QED BY <1>5, <2>1, <3>1
  <2>3. CASE l = k /\ retries = 0
    <3>1. executions'[k].retries = 0
      BY <1>1, <1>6, <2>3 DEF Wins, Won
    <3>2. MaxRetries = 0
      BY <1>1, <3>1
    <3>3. new = {}
      BY <1>2, <2>1, <3>2
    <3>4. Cardinality(new) = 0
      BY <3>3, FS_EmptySet
    <3> HIDE DEF new
    <3> QED BY <1>2, <2>1, <3>1, <3>2, <3>4
  <2>4. CASE l = k /\ c \in old /\ retries = executions[k].retries + 1
    <3>1. executions'[k].retries = executions[k].retries + 1
      BY <1>1, <1>6, <2>4 DEF Wins, Won
    <3>2. /\ Cardinality(new) \in Nat /\ Cardinality(new) < Cardinality(old)
          /\ Cardinality(old) <= Cardinality(all)
      <4> HIDE DEF new, old
      <4> QED BY <1>2, <1>3, <2>1, <2>4, FewerStragglers
    <3> HIDE DEF new, old
    <3>3. CASE executions[k].retries >= MaxRetries
      BY <1>1, <1>2, <1>3, <1>4, <2>1, <3>1, <3>2, <3>3
    <3>4. CASE executions[k].retries < MaxRetries
      BY <1>1, <1>2, <1>3, <2>1, <3>1, <3>2, <3>4
    <3> QED BY <1>1, <3>3, <3>4
  <2>5. l # k \/ retries = executions[k].retries \/ retries = 0
        \/ (c \in old /\ retries = executions[k].retries + 1)
    BY <1>6 DEF Wins, MayWin, Stragglers
  <2> QED BY <2>2, <2>3, <2>4, <2>5
<1>7. ASSUME NEW c \in Callers, NEW l \in Keys, NEW row \in Row, NEW a \in AnswerType,
             Writes(c, l, row, a)
      PROVE  Goal
  <2>1. executions'[k].retries = executions[k].retries /\ load' = load
    BY <1>1, <1>7 DEF Writes
  <2>2. new \subseteq old
    BY <1>1, <1>7 DEF Writes, Stragglers, Straggles, Idle
  <2> QED BY <1>5, <2>1, <2>2
<1>8. ASSUME NEW c \in Callers, NEW local \in Local, NEW a \in AnswerType, Moves(c, local, a)
      PROVE  Goal
  <2>1. executions' = executions /\ load' = load
    BY <1>8 DEF Moves
  <2>2. new \subseteq old
    BY <1>1, <1>8, <2>1 DEF Moves, Stragglers, Straggles
  <2> QED BY <1>5, <2>1, <2>2
<1>9. CASE Rests
  <2>1. executions' = executions /\ load' = load /\ new \subseteq old
    BY <1>9 DEF Rests, Stragglers, Straggles
  <2> QED BY <1>5, <2>1
<1> QED BY <1>6, <1>7, <1>8, <1>9, StepKinds

\* Whoever reads a failed record before its last retry and writes after it, all of
\* them together pass max_retries by less than the number of processes.
THEOREM RetriesAlmostBoundedAlways == Spec => []RetriesAlmostBounded
<1>1. TInv /\ Slack => RetriesAlmostBounded
  <2> SUFFICES ASSUME TInv, Slack, NEW k \in Keys
               PROVE  executions[k].retries < MaxRetries + Cardinality(load.callers)
    BY DEF RetriesAlmostBounded
  <2>1. /\ IsFiniteSet(Stragglers(k)) /\ Cardinality(load.callers) \in Nat
        /\ Cardinality(load.callers) > 0
    BY StragglerFacts, FS_Subset
  <2>2. Cardinality(Stragglers(k)) \in Nat /\ executions[k].retries \in Nat /\ MaxRetries \in Nat
    BY <2>1, FS_CardinalityType, PolicyAssumption DEF TInv, TypeOK, Row
  <2> QED BY <2>1, <2>2 DEF Slack
<1>2. Init /\ [][Next]_vars /\ []TInv => []Slack
  BY SlackInit, SlackStep, PTL
<1> QED BY <1>1, <1>2, TypeAlways, PTL DEF Spec
-----------------------------------------------------------------------------
(* The refinement of SingleFlight.                                         *)

\* Without TTL nothing ever expires, nor does any copy.
NoExpiry ==
  CacheTtl = None =>
    /\ \A k \in Keys : executions[k].expires = None
    /\ \A c \in Callers : caller[c].copy.expires = None

\* Only a success has a result.
Blank == Promised => \A k \in Keys : executions[k].status # "SUCCEEDED" => executions[k].result = 0

\* Without a lease an owner's attempt is the one its record is in.
OwnerIsCurrent ==
  LeaseTimeout = None =>
    \A c \in Callers : caller[c].at = "function" => caller[c].epoch = executions[caller[c].key].epoch

\* A copy may be old, but a success that it tells of is one still.
CopiesLast ==
  Promised => \A c \in Callers :
    caller[c].at = "decide" /\ caller[c].copy.status = "SUCCEEDED" =>
      /\ executions[caller[c].key].status = "SUCCEEDED"
      /\ executions[caller[c].key].result = caller[c].copy.result

\* Every acquisition is the first or a retry.
CountedAttempts ==
  Promised => \A k \in Keys : /\ executions[k].epoch <= executions[k].retries + 1
                              /\ executions[k].status = "ABSENT" => executions[k].epoch = 0

\* What a success means to whoever wins or writes a record.
LEMMA SuccessStays ==
  ASSUME TInv, OneOwner, NoExpiry, Promised, NEW c \in Callers, NEW k \in Keys
  PROVE  /\ \A retries \in Nat : Wins(c, k, retries) => executions[k].status \in {"ABSENT", "FAILED"}
         /\ Owning(c, k) => executions[k].status = "RUNNING"
<1>1. CacheTtl = None /\ LeaseTimeout = None
  BY DEF Promised
<1>2. caller[c].copy.expires = None
  BY <1>1 DEF NoExpiry
<1>3. \A retries \in Nat : Wins(c, k, retries) => executions[k].status \in {"ABSENT", "FAILED"}
  BY <1>1, <1>2 DEF Wins, MayWin, Stale
<1> QED BY <1>1, <1>3 DEF OneOwner, Owners, Owning, At, KeyOf

LEMMA WritesOwned ==
  ASSUME NEW c \in Callers, NEW k \in Keys, NEW new \in Row, NEW a \in AnswerType,
         Writes(c, k, new, a)
  PROVE  Owning(c, k)
BY DEF Writes, Owning, At

LEMMA NoExpiryStep == TInv /\ NoExpiry /\ [Next]_vars => NoExpiry'
<1> SUFFICES ASSUME TInv, NoExpiry, [Next]_vars, CacheTtl' = None
             PROVE  /\ \A k \in Keys : executions'[k].expires = None
                    /\ \A c \in Callers : caller'[c].copy.expires = None
  BY DEF NoExpiry
<1> DEFINE Goal == /\ \A k \in Keys : executions'[k].expires = None
                   /\ \A c \in Callers : caller'[c].copy.expires = None
<1>1. executions \in [Keys -> Row] /\ caller \in [Callers -> Local]
  BY DEF TInv, TypeOK
<1>2. load' = load => /\ CacheTtl = None
                      /\ \A k \in Keys : executions[k].expires = None
                      /\ \A c \in Callers : caller[c].copy.expires = None
  BY DEF NoExpiry, CacheTtl
<1>3. ASSUME NEW c \in Callers, NEW k \in Keys, NEW retries \in Nat, Wins(c, k, retries)
      PROVE  Goal
  BY <1>1, <1>2, <1>3 DEF Wins, Won, NoRow
<1>4. ASSUME NEW c \in Callers, NEW k \in Keys, NEW new \in Row, NEW a \in AnswerType,
             Writes(c, k, new, a)
      PROVE  Goal
  <2>1. new.expires = None
    BY <1>2, <1>4 DEF Writes
  <2> QED BY <1>1, <1>2, <1>4, <2>1 DEF Writes, Idle, NoRow
<1>5. ASSUME NEW c \in Callers, NEW local \in Local, NEW a \in AnswerType, Moves(c, local, a)
      PROVE  Goal
  <2>1. local.copy.expires = None
    BY <1>1, <1>2, <1>5 DEF Moves, NoRow
  <2> QED BY <1>1, <1>2, <1>5, <2>1 DEF Moves
<1>6. CASE Rests
  BY <1>2, <1>6 DEF Rests
<1> QED BY <1>3, <1>4, <1>5, <1>6, StepKinds

\* Neither TTL nor lease ever changes.
LEMMA PromisedBefore ==
  ASSUME TInv, [Next]_vars
  PROVE  Promised' = Promised
<1>1. load' = load
  BY StepKinds DEF Wins, Writes, Moves, Rests
<1> QED BY <1>1 DEF Promised, CacheTtl, LeaseTimeout

PInv == TInv /\ OneOwner /\ NoExpiry /\ Blank /\ OwnerIsCurrent /\ CopiesLast /\ CountedAttempts
        /\ Slack

LEMMA BlankStep == PInv /\ [Next]_vars => Blank'
<1> SUFFICES ASSUME PInv, [Next]_vars, Promised, NEW l \in Keys, executions'[l].status # "SUCCEEDED"
             PROVE  executions'[l].result = 0
  BY PromisedBefore DEF Blank, PInv
<1> USE DEF PInv
<1>1. executions \in [Keys -> Row] /\ \A k \in Keys : executions[k].status # "SUCCEEDED"
                                                   => executions[k].result = 0
  BY DEF TInv, TypeOK, Blank
<1>2. ASSUME NEW c \in Callers, NEW k \in Keys, NEW retries \in Nat, Wins(c, k, retries)
      PROVE  executions'[l].result = 0
  BY <1>1, <1>2 DEF Wins, Won
<1>3. ASSUME NEW c \in Callers, NEW k \in Keys, NEW new \in Row, NEW a \in AnswerType,
             Writes(c, k, new, a)
      PROVE  executions'[l].result = 0
  <2>1. executions[k].status = "RUNNING"
    BY <1>3, WritesOwned, SuccessStays
  <2> QED BY <1>1, <1>3, <2>1 DEF Writes
<1>4. executions' = executions => executions'[l].result = 0
  BY <1>1
<1> QED BY <1>2, <1>3, <1>4, StepKinds DEF Moves, Rests

LEMMA CurrentStep == PInv /\ [Next]_vars => OwnerIsCurrent'
<1> SUFFICES ASSUME PInv, [Next]_vars, LeaseTimeout' = None, NEW d \in Callers,
                    caller'[d].at = "function"
             PROVE  caller'[d].epoch = executions'[caller'[d].key].epoch
  BY DEF OwnerIsCurrent
<1> DEFINE Goal == caller'[d].epoch = executions'[caller'[d].key].epoch
<1> USE DEF PInv
<1>1. /\ executions \in [Keys -> Row] /\ caller \in [Callers -> Local]
      /\ caller[d].at = "function" => caller[d].key \in Keys
  BY DEF TInv, TypeOK, Placed
<1>2. load' = load => LeaseTimeout = None
  BY DEF LeaseTimeout
<1>3. ASSUME LeaseTimeout = None, caller[d].at = "function"
      PROVE  /\ caller[d].epoch = executions[caller[d].key].epoch
             /\ executions[caller[d].key].status = "RUNNING"
             /\ \A e \in Callers : Owning(e, caller[d].key) => e = d
  BY <1>1, <1>3 DEF OwnerIsCurrent, OneOwner, Owners, Owning, At, KeyOf
<1>4. ASSUME NEW c \in Callers, NEW k \in Keys, NEW retries \in Nat, Wins(c, k, retries)
      PROVE  Goal
  <2>1. CASE d = c
    BY <1>1, <1>4, <2>1 DEF Wins, Won
  <2>2. CASE d # c
    <3>1. caller'[d] = caller[d] /\ caller[d].at = "function" /\ LeaseTimeout = None
      BY <1>1, <1>2, <1>4, <2>2 DEF Wins
    <3>2. executions[k].status # "RUNNING"
      BY <1>4, <3>1 DEF Wins, MayWin, Stale
    <3>3. k # caller[d].key
      BY <1>3, <3>1, <3>2
    <3> QED BY <1>1, <1>3, <1>4, <3>1, <3>3 DEF Wins
  <2> QED BY <2>1, <2>2
<1>5. ASSUME NEW c \in Callers, NEW k \in Keys, NEW new \in Row, NEW a \in AnswerType,
             Writes(c, k, new, a)
      PROVE  Goal
  <2>1. /\ d # c /\ caller'[d] = caller[d] /\ caller[d].at = "function" /\ LeaseTimeout = None
        /\ executions'[caller[d].key].epoch = executions[caller[d].key].epoch
    BY <1>1, <1>2, <1>5 DEF Writes, Idle
  <2> QED BY <1>3, <2>1
<1>6. ASSUME NEW c \in Callers, NEW local \in Local, NEW a \in AnswerType, Moves(c, local, a)
      PROVE  Goal
  <2>1. d # c /\ caller'[d] = caller[d] /\ LeaseTimeout = None /\ executions' = executions
    BY <1>1, <1>2, <1>6 DEF Moves
  <2> QED BY <1>3, <2>1
<1>7. CASE Rests
  BY <1>2, <1>3, <1>7 DEF Rests
<1> QED BY <1>4, <1>5, <1>6, <1>7, StepKinds

LEMMA CopiesStep == PInv /\ [Next]_vars => CopiesLast'
<1> SUFFICES ASSUME PInv, [Next]_vars, Promised, NEW d \in Callers,
                    caller'[d].at = "decide", caller'[d].copy.status = "SUCCEEDED"
             PROVE  /\ executions'[caller'[d].key].status = "SUCCEEDED"
                    /\ executions'[caller'[d].key].result = caller'[d].copy.result
  BY PromisedBefore DEF CopiesLast, PInv
<1> DEFINE Goal == /\ executions'[caller'[d].key].status = "SUCCEEDED"
                   /\ executions'[caller'[d].key].result = caller'[d].copy.result
<1> USE DEF PInv
<1>1. /\ executions \in [Keys -> Row] /\ caller \in [Callers -> Local]
      /\ caller[d].at = "decide" => caller[d].key \in Keys
  BY DEF TInv, TypeOK, Placed
<1>2. caller[d].at = "decide" /\ caller[d].copy.status = "SUCCEEDED"
      => /\ executions[caller[d].key].status = "SUCCEEDED"
         /\ executions[caller[d].key].result = caller[d].copy.result
  BY DEF CopiesLast
<1>3. ASSUME NEW c \in Callers, NEW k \in Keys, NEW retries \in Nat, Wins(c, k, retries)
      PROVE  Goal
  <2>1. executions[k].status # "SUCCEEDED"
    BY <1>3, SuccessStays
  <2>2. d # c /\ caller'[d] = caller[d]
    BY <1>1, <1>3 DEF Wins
  <2> QED BY <1>1, <1>2, <1>3, <2>1, <2>2 DEF Wins
<1>4. ASSUME NEW c \in Callers, NEW k \in Keys, NEW new \in Row, NEW a \in AnswerType,
             Writes(c, k, new, a)
      PROVE  Goal
  <2>1. executions[k].status = "RUNNING"
    BY <1>4, WritesOwned, SuccessStays
  <2>2. d # c /\ caller'[d] = caller[d]
    BY <1>1, <1>4 DEF Writes, Idle
  <2> QED BY <1>1, <1>2, <1>4, <2>1, <2>2 DEF Writes
<1>5. ASSUME NEW c \in Callers, NEW local \in Local, NEW a \in AnswerType, Moves(c, local, a)
      PROVE  Goal
  BY <1>1, <1>2, <1>5 DEF Moves
<1>6. CASE Rests
  BY <1>2, <1>6 DEF Rests
<1> QED BY <1>3, <1>4, <1>5, <1>6, StepKinds

LEMMA CountedStep == PInv /\ [Next]_vars => CountedAttempts'
<1> SUFFICES ASSUME PInv, [Next]_vars, Promised, NEW l \in Keys
             PROVE  /\ executions'[l].epoch <= executions'[l].retries + 1
                    /\ executions'[l].status = "ABSENT" => executions'[l].epoch = 0
  BY PromisedBefore DEF CountedAttempts, PInv
<1> DEFINE Goal == /\ executions'[l].epoch <= executions'[l].retries + 1
                   /\ executions'[l].status = "ABSENT" => executions'[l].epoch = 0
<1> USE DEF PInv
<1>1. /\ executions \in [Keys -> Row] /\ executions[l].epoch \in Nat /\ executions[l].retries \in Nat
      /\ executions[l].epoch <= executions[l].retries + 1
      /\ executions[l].status = "ABSENT" => executions[l].epoch = 0
  BY DEF TInv, TypeOK, Row, CountedAttempts
<1>2. ASSUME NEW c \in Callers, NEW k \in Keys, NEW retries \in Nat, Wins(c, k, retries)
      PROVE  Goal
  <2>1. CASE l # k
    BY <1>1, <1>2, <2>1 DEF Wins
  <2>2. CASE l = k
    <3>1. /\ executions'[l].epoch = executions[l].epoch + 1 /\ executions'[l].retries = retries
          /\ executions'[l].status = "RUNNING"
      BY <1>1, <1>2, <2>2 DEF Wins, Won
    <3>2. \/ executions[l].status = "ABSENT"
          \/ executions[l].status = "FAILED" /\ retries = executions[l].retries + 1
      BY <1>2, <2>2, SuccessStays DEF Wins, MayWin
    <3> QED BY <1>1, <3>1, <3>2
  <2> QED BY <2>1, <2>2
<1>3. ASSUME NEW c \in Callers, NEW k \in Keys, NEW new \in Row, NEW a \in AnswerType,
             Writes(c, k, new, a)
      PROVE  Goal
  BY <1>1, <1>3 DEF Writes
<1>4. executions' = executions => Goal
  BY <1>1
<1> QED BY <1>2, <1>3, <1>4, StepKinds DEF Moves, Rests

LEMMA PInvInit == Init => PInv
<1> SUFFICES ASSUME Init PROVE PInv
  OBVIOUS
<1>1. NoExpiry /\ Blank /\ OwnerIsCurrent /\ CopiesLast /\ CountedAttempts
  BY DEF Init, NoExpiry, Blank, OwnerIsCurrent, CopiesLast, CountedAttempts, NoRow, Idle
<1> QED BY <1>1, TypeInit, OneOwnerInit, SlackInit DEF PInv

LEMMA PInvStep == PInv /\ [Next]_vars => PInv'
BY TypeStep, OneOwnerStep, NoExpiryStep, BlankStep, CurrentStep, CopiesStep, CountedStep, SlackStep
   DEF PInv
-----------------------------------------------------------------------------
(* Steps of CasStore as steps of SingleFlight.                             *)

ClaimOf(row) == [state |-> StateOf(row), claims |-> row.epoch, value |-> row.result]

HandedOf(a) == IF a.kind = "value" THEN [key |-> a.key, value |-> a.epoch] ELSE None

LEMMA PromisedMeans ==
  ASSUME TInv, Promised
  PROVE  /\ claim = [k \in Keys |-> ClaimOf(executions[k])]
         /\ handed = [c \in Callers |-> HandedOf(answer[c])]
BY DEF claim, handed, ClaimOf, HandedOf

LEMMA PromisedMeansNext ==
  ASSUME Promised'
  PROVE  /\ claim' = [k \in Keys |-> ClaimOf(executions'[k])]
         /\ handed' = [c \in Callers |-> HandedOf(answer'[c])]
BY DEF claim, handed, ClaimOf, HandedOf, StateOf

\* Changing one record changes one claim; changing one answer, one hand.
LEMMA ClaimUpdate ==
  ASSUME TInv, Promised, Promised', NEW k \in Keys, NEW new,
         executions' = [executions EXCEPT ![k] = new]
  PROVE  claim' = [claim EXCEPT ![k] = ClaimOf(new)]
BY PromisedMeans, PromisedMeansNext DEF TInv, TypeOK

LEMMA HandedUpdate ==
  ASSUME TInv, Promised, Promised', NEW c \in Callers, NEW a,
         answer' = [answer EXCEPT ![c] = a]
  PROVE  handed' = [handed EXCEPT ![c] = HandedOf(a)]
BY PromisedMeans, PromisedMeansNext DEF TInv, TypeOK

LEMMA PromiseInit == Init => SF!Init
BY DEF Init, SF!Init, claim, handed, StateOf, NoRow, NoAnswer

LEMMA ProcessesSuffice ==
  ASSUME TInv
  PROVE  /\ Cardinality(load.callers) <= Cardinality(Callers)
         /\ Cardinality(load.callers) \in Nat /\ Cardinality(load.callers) > 0
         /\ Cardinality(Callers) \in Nat
<1>1. load.callers \subseteq Callers
  BY LoadFacts DEF Load
<1>2. load.callers # {} /\ IsFiniteSet(load.callers)
  BY <1>1, LoadFacts, FiniteAssumption, FS_Subset DEF Load
<1>3. Cardinality(load.callers) \in Nat /\ Cardinality(load.callers) > 0
  BY <1>2, FS_EmptySet, FS_CardinalityType
<1> QED BY <1>1, <1>3, FiniteAssumption, FS_Subset, FS_CardinalityType

LEMMA WinClaims ==
  ASSUME PInv, [Next]_vars, Promised, Promised',
         NEW c \in Callers, NEW k \in Keys, NEW retries \in Nat, Wins(c, k, retries)
  PROVE  SF!Claim(k)
<1> USE DEF PInv
<1> DEFINE old == executions[k]  new == Won(retries, old.epoch + 1)
           most == MaxRetries + Cardinality(Callers) - 1
<1>1. old \in Row /\ old.epoch \in Nat /\ old.retries \in Nat /\ MaxRetries \in Nat
  BY PolicyAssumption DEF TInv, TypeOK, Row
<1>2. \/ old.status = "ABSENT"
      \/ old.status = "FAILED" /\ retries = old.retries + 1
  BY SuccessStays DEF Wins, MayWin
<1>3. old.epoch <= old.retries + 1 /\ (old.status = "ABSENT" => old.epoch = 0)
  BY DEF CountedAttempts
<1>4. /\ executions' = [executions EXCEPT ![k] = new] /\ answer' = answer /\ load' = load
      /\ new.status = "RUNNING" /\ new.epoch = old.epoch + 1 /\ new.result = 0
      /\ new.retries = retries
  BY DEF Wins, Won
<1>5. executions'[k].retries = retries
  BY <1>4 DEF TInv, TypeOK
<1>6. retries < MaxRetries + Cardinality(load.callers)
  <2>1. /\ IsFiniteSet(Stragglers(k)') /\ Cardinality(load.callers) \in Nat
        /\ Cardinality(load.callers) > 0
    BY FiniteAssumption, FS_Subset, ProcessesSuffice DEF Stragglers
  <2>2. Cardinality(Stragglers(k)') \in Nat
    BY <2>1, FS_CardinalityType
  <2>3. retries >= MaxRetries
        => retries + Cardinality(Stragglers(k)') < MaxRetries + Cardinality(load.callers)
    BY <1>4, <1>5, SlackStep DEF Slack
  <2> QED BY <1>1, <2>1, <2>2, <2>3
<1>7. old.epoch <= most
  <2> HIDE DEF old
  <2> QED BY <1>1, <1>2, <1>3, <1>6, ProcessesSuffice
<1>8. claim' = [claim EXCEPT ![k] = ClaimOf(new)] /\ handed' = handed
  <2>1. handed' = [d \in Callers |-> HandedOf(answer[d])]
    BY <1>4, PromisedMeansNext
  <2> QED BY <1>4, <2>1, ClaimUpdate, PromisedMeans
<1>9. claim[k].state = "open" /\ claim[k].claims = old.epoch
  <2>1. claim[k] = ClaimOf(old)
    BY PromisedMeans
  <2> HIDE DEF old
  <2>2. StateOf(old) = "open"
    BY <1>2 DEF StateOf
  <2> QED BY <2>1, <2>2 DEF ClaimOf
<1>10. ClaimOf(new) = [state |-> "claimed", claims |-> claim[k].claims + 1, value |-> 0]
  BY <1>4, <1>9 DEF ClaimOf, StateOf
<1> HIDE DEF new, most
<1> QED BY <1>7, <1>8, <1>9, <1>10 DEF SF!Claim, most

LEMMA WriteSettles ==
  ASSUME PInv, Promised, Promised', NEW c \in Callers, NEW k \in Keys, NEW new \in Row,
         NEW a \in AnswerType, Writes(c, k, new, a)
  PROVE  SF!Settle(c, k) \/ SF!Release(c, k)
<1> USE DEF PInv
<1> DEFINE old == executions[k]
<1>1. old.status = "RUNNING" /\ old.result = 0 /\ caller[c].epoch = old.epoch
  <2>1. LeaseTimeout = None /\ Owning(c, k)
    BY WritesOwned DEF Promised
  <2>2. old.status = "RUNNING"
    BY WritesOwned, SuccessStays
  <2> QED BY <2>1, <2>2 DEF Blank, OwnerIsCurrent, Owning
<1>2. claim[k].state = "claimed" /\ claim[k].claims = old.epoch
  <2>1. claim[k] = ClaimOf(old)
    BY PromisedMeans
  <2> HIDE DEF old
  <2>2. StateOf(old) = "claimed"
    BY <1>1 DEF StateOf
  <2> QED BY <2>1, <2>2 DEF ClaimOf
<1>3. /\ claim' = [claim EXCEPT ![k] = ClaimOf(new)]
      /\ handed' = [handed EXCEPT ![c] = HandedOf(a)]
  BY ClaimUpdate, HandedUpdate DEF Writes
<1>4. new.epoch = old.epoch
  BY DEF Writes
<1>5. CASE new.status = "SUCCEEDED"
  <2>1. new.result = old.epoch /\ a = [kind |-> "value", key |-> k, epoch |-> old.epoch]
    BY <1>1, <1>5 DEF Writes
  <2>2. ClaimOf(new) = [state |-> "settled", claims |-> claim[k].claims, value |-> claim[k].claims]
    BY <1>2, <1>4, <1>5, <2>1 DEF ClaimOf, StateOf
  <2>3. HandedOf(a) = [key |-> k, value |-> claim[k].claims]
    BY <1>2, <2>1 DEF HandedOf
  <2> HIDE DEF old
  <2> QED BY <1>2, <1>3, <2>2, <2>3 DEF SF!Settle
<1>6. CASE new.status = "FAILED"
  <2>1. new.result = 0 /\ a.kind = "error"
    BY <1>1, <1>6 DEF Writes
  <2>2. ClaimOf(new) = [state |-> "open", claims |-> claim[k].claims, value |-> 0]
    BY <1>2, <1>4, <1>6, <2>1 DEF ClaimOf, StateOf
  <2>3. HandedOf(a) = None
    BY <2>1 DEF HandedOf
  <2> HIDE DEF old
  <2> QED BY <1>2, <1>3, <2>2, <2>3 DEF SF!Release
<1> QED BY <1>5, <1>6 DEF Writes

LEMMA MoveHands ==
  ASSUME PInv, Promised, Promised', NEW c \in Callers, NEW local \in Local,
         NEW a \in AnswerType, Moves(c, local, a)
  PROVE  SF!Forget(c) \/ (\E k \in Keys : SF!Hand(c, k)) \/ UNCHANGED <<claim, handed>>
<1> USE DEF PInv
<1>1. claim' = claim
  <2>1. claim' = [k \in Keys |-> ClaimOf(executions[k])]
    BY PromisedMeansNext DEF Moves
  <2> QED BY <2>1, PromisedMeans
<1>2. handed' = [handed EXCEPT ![c] = HandedOf(a)]
  BY HandedUpdate DEF Moves
<1>3. CASE a = answer[c]
  <2>1. handed = [d \in Callers |-> HandedOf(answer[d])]
    BY PromisedMeans
  <2> QED BY <1>1, <1>2, <1>3, <2>1
<1>4. CASE a.kind # "value"
  <2>1. HandedOf(a) = None
    BY <1>4 DEF HandedOf
  <2> QED BY <1>1, <1>2, <2>1 DEF SF!Forget
<1>5. ASSUME a.kind = "value", NEW row \in Row,
             row = executions[caller[c].key] \/ (row = caller[c].copy /\ caller[c].at = "decide"),
             row.status = "SUCCEEDED", a.key = caller[c].key, a.epoch = row.result,
             caller[c].key \in Keys
      PROVE  \E k \in Keys : SF!Hand(c, k)
  <2> DEFINE k == caller[c].key  old == executions[k]
  <2>1. old.status = "SUCCEEDED" /\ old.result = row.result
    BY <1>5 DEF CopiesLast
  <2>2. claim[k].state = "settled" /\ claim[k].value = row.result
    <3>1. claim[k] = ClaimOf(old)
      BY <1>5, PromisedMeans
    <3>2. StateOf(old) = "settled"
      <4> HIDE DEF old
      <4> QED BY <2>1 DEF StateOf
    <3> HIDE DEF old
    <3> QED BY <2>1, <3>1, <3>2 DEF ClaimOf
  <2>3. HandedOf(a) = [key |-> k, value |-> claim[k].value]
    BY <1>5, <2>2 DEF HandedOf
  <2>4. SF!Hand(c, k)
    BY <1>1, <1>2, <2>2, <2>3 DEF SF!Hand
  <2> QED BY <1>5, <2>4
<1>6. CASE a # answer[c] /\ a.kind = "value"
  <2>1. PICK row \in Row :
          /\ row = executions[caller[c].key] \/ (row = caller[c].copy /\ caller[c].at = "decide")
          /\ row.status = "SUCCEEDED" /\ a.key = caller[c].key /\ a.epoch = row.result
    BY <1>6 DEF Moves, Hands
  <2>2. caller[c].key \in Keys
    BY <1>6 DEF Moves, Hands
  <2> QED BY <1>5, <1>6, <2>1, <2>2
<1> QED BY <1>3, <1>4, <1>6

LEMMA PromiseStep == PInv /\ [Next]_vars => [SF!Next]_<<claim, handed>>
<1> SUFFICES ASSUME PInv, [Next]_vars PROVE [SF!Next]_<<claim, handed>>
  OBVIOUS
<1>1. Promised' = Promised /\ Promised \in BOOLEAN
  BY PromisedBefore DEF PInv, Promised
<1>2. CASE ~Promised
  BY <1>1, <1>2 DEF claim, handed
<1>3. CASE Promised
  <2>1. Promised'
    BY <1>1, <1>3
  <2>2. ASSUME NEW c \in Callers, NEW k \in Keys, NEW retries \in Nat, Wins(c, k, retries)
        PROVE  SF!Next
    BY <1>3, <2>1, <2>2, WinClaims DEF SF!Next
  <2>3. ASSUME NEW c \in Callers, NEW k \in Keys, NEW new \in Row, NEW a \in AnswerType,
               Writes(c, k, new, a)
        PROVE  SF!Next
    BY <1>3, <2>1, <2>3, WriteSettles DEF SF!Next
  <2>4. ASSUME NEW c \in Callers, NEW local \in Local, NEW a \in AnswerType, Moves(c, local, a)
        PROVE  [SF!Next]_<<claim, handed>>
    BY <1>3, <2>1, <2>4, MoveHands DEF SF!Next
  <2>5. CASE Rests
    <3>1. claim' = claim /\ handed' = handed
      BY <1>3, <2>1, <2>5, PromisedMeans, PromisedMeansNext DEF Rests, PInv
    <3> QED BY <3>1
  <2> QED BY <2>2, <2>3, <2>4, <2>5, StepKinds DEF PInv
<1> QED BY <1>2, <1>3

\* Without TTL and lease, calls over Postgres and Redis keep the abstract promise
\* too, with as many more claims as there are other processes.
THEOREM PromiseKept == Spec => SingleFlightPromise
BY PInvInit, PInvStep, PromiseInit, PromiseStep, PTL DEF Spec, SF!Spec, SingleFlightPromise
=============================================================================
