--------------------------- MODULE OperatorsProofs --------------------------
(***************************************************************************)
(* Proofs about Operators, for any number of callers and tools and any     *)
(* settings.  What people and calls do to the store, tbay clear included,  *)
(* is a stuttering step of the kill switch: the composition implements     *)
(* module KillSwitch, and so has what is proved of it there.               *)
(***************************************************************************)
EXTENDS Operators, KillSwitchProofs

\* clear() on Redis passes over the hash of controls.
LEMMA ClearKeepsControls ==
  ASSUME NEW key, ClearDeletes(key)
  PROVE  UNCHANGED vars
<1>1. key # <<"controls", None>>
  BY DEF ClearDeletes, Survivors
<1>2. QED
  BY <1>1 DEF ClearDeletes, vars, history

\* What a call does after the kill switch leaves the controls and the check alone.
LEMMA CallsKeepControls ==
  ASSUME NEW c \in Callers,
         \/ Acquire(c) \/ Ask(c) \/ Follow(c) \/ StartFunction(c) \/ Complete(c) \/ Fail(c)
  PROVE  UNCHANGED vars
<1>1. Acquire(c) => UNCHANGED vars
  BY DEF Acquire, AcquireNew, AcquireRetries, AcquireAnswers, AcquireFindsWreck
<1>2. Ask(c) => UNCHANGED vars
  BY DEF Ask, MarkWaiting, MarkWaitingRaises, MarkStatus, MarkPending, MarkUnresolved,
         OwnerSeesApproved, OwnerSeesRejected, ReadNote, Decline, Record, OwnerGivesUpApproval
<1>3. Follow(c) => UNCHANGED vars
  BY DEF Follow, FollowerSeesApproved, FollowerSeesRejected, FollowerSeesOutcome, FollowerGivesUp
<1>4. StartFunction(c) \/ Complete(c) \/ Fail(c) => UNCHANGED vars
  BY DEF StartFunction, Complete, Fail, Record
<1>5. QED
  BY <1>1, <1>2, <1>3, <1>4

\* A step of the composition is a step of the kill switch or none.
LEMMA StepIsKillSwitchStep == [OpNext]_opVars => [Next]_vars
<1>1. Switch => [Next]_vars
  BY DEF Switch, Next
<1>2. ASSUME NEW c \in Callers, CallReturns(c)
      PROVE  Next
  BY <1>2 DEF CallReturns, Next
<1>3. ASSUME NEW id \in Ids, NEW approved \in BOOLEAN, NEW reason \in BOOLEAN,
             Decide(id, approved, reason) \/ DeskChecks(id, approved, reason)
      PROVE  UNCHANGED vars
  BY <1>3 DEF Decide, DeskChecks
<1>4. DeskWrites => UNCHANGED vars
  BY DEF DeskWrites
<1>5. Clear => UNCHANGED vars
  BY ClearKeepsControls DEF Clear, ClearTables, ClearStarts, ClearEnds
<1>6. UNCHANGED opVars => UNCHANGED vars
  BY DEF opVars
<1>7. QED
  BY <1>1, <1>2, <1>3, <1>4, <1>5, <1>6, CallsKeepControls DEF OpNext

\* Calls that wait for approvals, decisions and clear() do not get in the way of
\* pause() and resume(): the composition implements KillSwitch.
THEOREM OperatorsKillSwitch == OpSpec => Spec
<1>1. OpInit => Init
  BY DEF OpInit
<1>2. QED
  BY <1>1, StepIsKillSwitchStep, PTL DEF OpSpec, Spec

\* A pause survives tbay clear, on Redis too, and stops what it stops without it.
THEOREM PausedIsStoppedInOperators == OpSpec => []PausedIsStoppedUnlessNarrowed
  BY OperatorsKillSwitch, PausedIsStoppedUnlessNarrowedAlways

\* No call is stopped for a pause of something else.
THEOREM OnlyPausedIsStoppedInOperators == OpSpec => []OnlyPausedIsStopped
  BY OperatorsKillSwitch, OnlyPausedIsStoppedAlways
-----------------------------------------------------------------------------
(* What people and calls do to an execution and its approval.  All that is *)
(* to be shown follows from how the work of each call fits the row it is   *)
(* at (Fits), and from each row by itself (Sound).                         *)

Shown == {ArgsOf[c] : c \in Callers} \cup {None}
ExecRow == [status : Statuses \cup {"none"}, whole : BOOLEAN, attempt : Nat,
          shown : Shown,
          owner : Callers \cup {None}, by : Callers \cup {None}]
ApprovalRow == [status : {"none", "pending", "approved", "rejected"}, of : Nat, resolver : BOOLEAN,
              note : Nat, asked : Nat]

OwnerPlaces == {"owner", "marked", "asked", "approval", "decline", "declined", "function"}
FollowPlaces == {"follow", "followApproval"}
Work == [at : {"acquire"} \cup OwnerPlaces \cup FollowPlaces \cup Outcomes,
         id : Ids \cup {None}, attempt : Nat, heard : Nat, reason : Nat]

OpTypeOK ==
  /\ setting \in Setting
  /\ keys \in [Tools -> Ids \cup {None}]
  /\ execs \in [Ids -> ExecRow]
  /\ approvals \in [Ids -> ApprovalRow]
  /\ born \in [Tools -> 0..MaxIds]
  /\ work \in [Callers -> Work]
  /\ desk = NoDesk \/ desk \in [id : Ids, approved : BOOLEAN, reason : BOOLEAN]
  /\ wipe.at = "scanning" => Redis
  /\ \A c \in Callers : caller[c].at # "idle" => caller[c].tool \in Tools

Decided(a) == a.status \in {"approved", "rejected"}

\* An execution e and its approval a, by themselves.
Sound(e, a, gated) ==
  /\ Decided(a) => a.of = a.asked
  /\ e.whole /\ e.status \in {"SUCCEEDED", "FAILED"} =>
       e.by = e.owner /\ (gated => a.asked = e.attempt)
  /\ ~Redis =>
       /\ a.status # "pending" => a.note \in {0, a.asked}
       /\ Decided(a) => a.resolver
       /\ e.status # "none" => e.whole
       /\ e.status = "WAITING_APPROVAL" => a.asked = e.attempt

\* The work w of c against the execution e it is at, and its approval a.
Fits(c, w, e, a, gated) ==
  /\ w.at \in OwnerPlaces =>
       /\ e.whole => /\ e.owner = c /\ e.attempt = w.attempt
                     /\ e.status \in {"RUNNING", "WAITING_APPROVAL"}
                     /\ w.at = "owner" => e.status = "RUNNING"
       /\ w.at \notin {"owner", "function"} => gated
       /\ w.at \in {"owner", "marked"} => (gated => a.asked + 1 = w.attempt)
       /\ w.at \notin {"owner", "marked"} => (gated => a.asked = w.attempt)
       /\ w.at \in {"decline", "declined", "function"} => (gated => w.heard = w.attempt)
       /\ w.at \in {"marked", "asked"} => Redis
       /\ ~Redis /\ w.at = "decline" => a.status # "pending"
       /\ ~Redis /\ w.at = "declined" => w.reason \in {0, w.attempt}
  /\ w.at \in FollowPlaces => w.reason = 0
  /\ ~Redis /\ w.at = "followApproval" => a.asked >= w.attempt

\* What c was told of the attempt it made or joined.
Told(w) ==
  ~Redis /\ w.at = "rejected" => w.heard >= w.attempt /\ w.reason \in {0, w.attempt}

GatedId(id) == id[1] \in setting.gated
Born(id) == id[2] <= born[id[1]]

AllSound == \A id \in Ids : Sound(execs[id], approvals[id], GatedId(id))

Placed(c) ==
  /\ ~At(c, "runs") => work[c] = NoWork
  /\ work[c].at \in OwnerPlaces \cup FollowPlaces =>
       /\ work[c].id \in Ids /\ work[c].id[1] = Tool(c) /\ Born(work[c].id)
       /\ Fits(c, work[c], Exec(c), Approval(c), GatedId(work[c].id))
  /\ Told(work[c])

AllPlaced == \A c \in Callers : Placed(c)

Alone ==
  \A c, d \in Callers :
    work[c].at \in OwnerPlaces /\ work[d].at \in OwnerPlaces /\ work[c].id = work[d].id => c = d

Fresh == \A id \in Ids : ~Born(id) => approvals[id].asked = 0

Keyed ==
  /\ \A t \in Tools : keys[t] # None => keys[t][1] = t /\ Born(keys[t])
  /\ ~Redis => \A id \in Ids : Live(id) => keys[id[1]] = id

OpInv == TypeOK /\ OpTypeOK /\ AllSound /\ AllPlaced /\ Alone /\ Fresh /\ Keyed
-----------------------------------------------------------------------------
(* Steps of one call.                                                      *)

\* An owner writes at its execution, or only moves on.
Writes(c) ==
  \E e \in ExecRow, a \in ApprovalRow, w \in Work :
    /\ At(c, "runs") /\ work[c].at \in OwnerPlaces
    /\ execs' = [execs EXCEPT ![work[c].id] = e]
    /\ approvals' = [approvals EXCEPT ![work[c].id] = a]
    /\ work' = [work EXCEPT ![c] = w]
    /\ UNCHANGED <<vars, keys, born, people>>
    /\ w.at \notin FollowPlaces /\ (w.at \in OwnerPlaces => w.id = work[c].id)
    /\ Sound(e, a, GatedId(work[c].id)) /\ Fits(c, w, e, a, GatedId(work[c].id)) /\ Told(w)
    /\ a.asked >= Approval(c).asked
    /\ e.status # "none" => Redis \/ Live(work[c].id)

\* A call looks at the store, and follows an execution or has its answer.
Looks(c) ==
  \E w \in Work :
    /\ At(c, "runs") /\ work' = [work EXCEPT ![c] = w] /\ UNCHANGED <<vars, store, people>>
    /\ w.at \notin OwnerPlaces /\ Told(w)
    /\ w.at \in FollowPlaces =>
         /\ w.id \in Ids /\ w.id[1] = Tool(c) /\ Born(w.id) /\ w.reason = 0
         /\ ~Redis /\ w.at = "followApproval" => approvals[w.id].asked >= w.attempt

LEMMA AcquireTool ==
  ASSUME OpInv, NEW c \in Callers, In(c, "acquire")
  PROVE  Tool(c) \in Tools
BY DEF OpInv, TypeOK, OpTypeOK, In, At, Tool

LEMMA WorkFacts ==
  ASSUME OpInv, NEW c \in Callers, work[c].at \in OwnerPlaces \cup FollowPlaces
  PROVE  /\ work[c].id \in Ids /\ work[c].id[1] = Tool(c) /\ Born(work[c].id) /\ Tool(c) \in Tools
         /\ work[c] \in Work /\ Exec(c) \in ExecRow /\ Approval(c) \in ApprovalRow /\ At(c, "runs")
         /\ Fits(c, work[c], Exec(c), Approval(c), GatedId(work[c].id))
         /\ Sound(Exec(c), Approval(c), GatedId(work[c].id))
<1>1. Placed(c) /\ work[c] \in Work
  BY DEF OpInv, OpTypeOK, AllPlaced
<1>2. work[c].id \in Ids
  BY <1>1 DEF Placed
<1>3. Exec(c) \in ExecRow /\ Approval(c) \in ApprovalRow
  BY <1>2 DEF OpInv, OpTypeOK, Exec, Approval
<1>4. At(c, "runs")
  BY <1>1 DEF Placed, NoWork, OwnerPlaces, FollowPlaces
<1>5. Sound(Exec(c), Approval(c), GatedId(work[c].id))
  BY <1>2 DEF OpInv, AllSound, Exec, Approval
<1>6. work[c].id[1] \in Tools
  BY <1>2 DEF Ids
<1> QED BY <1>1, <1>2, <1>3, <1>4, <1>5, <1>6 DEF Placed

LEMMA WritesKeep ==
  ASSUME OpInv, NEW c \in Callers, Writes(c)
  PROVE  OpInv'
<1>1. PICK e \in ExecRow, a \in ApprovalRow, w \in Work :
    /\ At(c, "runs") /\ work[c].at \in OwnerPlaces
    /\ execs' = [execs EXCEPT ![work[c].id] = e]
    /\ approvals' = [approvals EXCEPT ![work[c].id] = a]
    /\ work' = [work EXCEPT ![c] = w]
    /\ UNCHANGED <<vars, keys, born, people>>
    /\ w.at \notin FollowPlaces /\ (w.at \in OwnerPlaces => w.id = work[c].id)
    /\ Sound(e, a, GatedId(work[c].id)) /\ Fits(c, w, e, a, GatedId(work[c].id)) /\ Told(w)
    /\ a.asked >= Approval(c).asked
    /\ e.status # "none" => Redis \/ Live(work[c].id)
  BY DEF Writes
<1> DEFINE id == work[c].id
<1>2. id \in Ids /\ id[1] = Tool(c) /\ Born(id)
  BY <1>1, WorkFacts
<1>3. /\ caller' = caller /\ keys' = keys /\ born' = born /\ setting' = setting
      /\ desk' = desk /\ wipe' = wipe /\ controls' = controls /\ history' = history
      /\ (Redis' <=> Redis) /\ (\A i : GatedId(i)' <=> GatedId(i)) /\ (\A i : Born(i)' <=> Born(i))
  BY <1>1 DEF vars, people, Redis, GatedId, Born
<1>4. /\ work' \in [Callers -> Work] /\ work'[c] = w
      /\ \A d \in Callers : d # c => work'[d] = work[d]
      /\ execs' \in [Ids -> ExecRow] /\ execs'[id] = e /\ \A i \in Ids : i # id => execs'[i] = execs[i]
      /\ approvals' \in [Ids -> ApprovalRow] /\ approvals'[id] = a
      /\ \A i \in Ids : i # id => approvals'[i] = approvals[i]
  BY <1>1, <1>2 DEF OpInv, OpTypeOK
<1>5. TypeOK' /\ OpTypeOK'
  BY <1>3, <1>4 DEF OpInv, TypeOK, OpTypeOK, history
<1>6. AllSound'
  BY <1>1, <1>3, <1>4 DEF OpInv, AllSound, Sound
<1>7. Alone'
  BY <1>1, <1>3, <1>4 DEF OpInv, Alone
<1>8. Fresh'
  BY <1>2, <1>3, <1>4 DEF OpInv, Fresh
<1>9. Keyed'
  BY <1>1, <1>3, <1>4 DEF OpInv, Keyed, Live
<1>10. ASSUME NEW d \in Callers PROVE Placed(d)'
  <2>1. CASE d = c
    BY <1>1, <1>2, <1>3, <1>4, <2>1 DEF Placed, Fits, Told, At, Tool, Exec, Approval
  <2>2. CASE d # c
    <3>1. Placed(d) /\ work'[d] = work[d]
      BY <1>4, <2>2 DEF OpInv, AllPlaced
    <3>2. (~At(d, "runs") => work[d] = NoWork)' /\ Told(work[d])'
      BY <1>3, <3>1 DEF Placed, Told, At
    <3>3. CASE work[d].at \in OwnerPlaces \cup FollowPlaces
      <4>1. work[d].id \in Ids /\ (work[d].at \in OwnerPlaces => work[d].id # id)
        BY <1>1, <2>2, <3>1, <3>3 DEF OpInv, Alone, Placed
      <4>2. CASE work[d].id # id
        BY <1>3, <1>4, <3>1, <3>2, <3>3, <4>1, <4>2 DEF Placed, Fits, Exec, Approval, Tool
      <4>3. CASE work[d].id = id
        <5>1. work[d].at \in FollowPlaces /\ work[d].at \notin OwnerPlaces /\ work[d] \in Work
          BY <3>3, <4>1, <4>3 DEF OpInv, OpTypeOK
        <5>2. approvals[id] \in ApprovalRow /\ Approval(c) = approvals[id]
          BY <1>2 DEF OpInv, OpTypeOK, Approval
        <5>3. ~Redis /\ work[d].at = "followApproval" => a.asked >= work[d].attempt
          BY <1>1, <3>1, <3>3, <4>3, <5>1, <5>2 DEF Placed, Fits, Approval, ApprovalRow, Work
        <5> QED BY <1>3, <1>4, <3>1, <3>2, <3>3, <4>1, <4>3, <5>1, <5>3
                DEF Placed, Fits, Exec, Approval, Tool
      <4> QED BY <4>2, <4>3
    <3>4. CASE work[d].at \notin OwnerPlaces \cup FollowPlaces
      BY <3>1, <3>2, <3>4 DEF Placed
    <3> QED BY <3>3, <3>4
  <2> QED BY <2>1, <2>2
<1> QED BY <1>5, <1>6, <1>7, <1>8, <1>9, <1>10 DEF OpInv, AllPlaced

LEMMA LooksKeep ==
  ASSUME OpInv, NEW c \in Callers, Looks(c)
  PROVE  OpInv'
<1>1. PICK w \in Work :
    /\ At(c, "runs") /\ work' = [work EXCEPT ![c] = w] /\ UNCHANGED <<vars, store, people>>
    /\ w.at \notin OwnerPlaces /\ Told(w)
    /\ w.at \in FollowPlaces =>
         /\ w.id \in Ids /\ w.id[1] = Tool(c) /\ Born(w.id) /\ w.reason = 0
         /\ ~Redis /\ w.at = "followApproval" => approvals[w.id].asked >= w.attempt
  BY DEF Looks
<1>2. /\ caller' = caller /\ keys' = keys /\ born' = born /\ setting' = setting
      /\ desk' = desk /\ wipe' = wipe /\ controls' = controls /\ history' = history
      /\ execs' = execs /\ approvals' = approvals
      /\ (Redis' <=> Redis) /\ (\A i : GatedId(i)' <=> GatedId(i)) /\ (\A i : Born(i)' <=> Born(i))
  BY <1>1 DEF vars, store, people, Redis, GatedId, Born
<1>3. /\ work' \in [Callers -> Work] /\ work'[c] = w
      /\ \A d \in Callers : d # c => work'[d] = work[d]
  BY <1>1 DEF OpInv, OpTypeOK
<1>4. TypeOK' /\ OpTypeOK'
  BY <1>2, <1>3 DEF OpInv, TypeOK, OpTypeOK, history
<1>5. AllSound' /\ Fresh' /\ Keyed'
  BY <1>2 DEF OpInv, AllSound, Sound, Fresh, Keyed, Live
<1>6. Alone'
  BY <1>1, <1>3 DEF OpInv, Alone
<1>7. ASSUME NEW d \in Callers PROVE Placed(d)'
  <2>1. CASE d = c
    BY <1>1, <1>2, <1>3, <2>1 DEF Placed, Fits, Told, At, Tool, Exec, Approval
  <2>2. CASE d # c
    BY <1>2, <1>3, <2>2 DEF OpInv, AllPlaced, Placed, Fits, Told, At, Tool, Exec, Approval
  <2> QED BY <2>1, <2>2
<1> QED BY <1>4, <1>5, <1>6, <1>7 DEF OpInv, AllPlaced

\* A call gets an execution to own, a new one or one that failed.
Wins(c) ==
  \E id \in Ids, e \in ExecRow, w \in Work, m \in 0..MaxIds :
    /\ At(c, "runs") /\ work[c].at = "acquire" /\ id[1] = Tool(c) /\ id[2] <= m /\ born[Tool(c)] <= m
    /\ \A d \in Callers : work[d].at \in OwnerPlaces => work[d].id # id
    /\ keys[Tool(c)] \in {None, id} /\ keys' = [keys EXCEPT ![Tool(c)] = id]
    /\ born' = [born EXCEPT ![Tool(c)] = m]
    /\ execs' = [execs EXCEPT ![id] = e] /\ e.status = "RUNNING" /\ e.whole /\ e.owner = c
    /\ work' = [work EXCEPT ![c] = w] /\ w.at = "owner" /\ w.id = id /\ w.attempt = e.attempt
    /\ GatedId(id) => approvals[id].asked + 1 = e.attempt
    /\ UNCHANGED <<vars, approvals, people>>

LEMMA WinsKeep ==
  ASSUME OpInv, NEW c \in Callers, Wins(c)
  PROVE  OpInv'
<1>1. PICK id \in Ids, e \in ExecRow, w \in Work, m \in 0..MaxIds :
    /\ At(c, "runs") /\ work[c].at = "acquire" /\ id[1] = Tool(c) /\ id[2] <= m /\ born[Tool(c)] <= m
    /\ \A d \in Callers : work[d].at \in OwnerPlaces => work[d].id # id
    /\ keys[Tool(c)] \in {None, id} /\ keys' = [keys EXCEPT ![Tool(c)] = id]
    /\ born' = [born EXCEPT ![Tool(c)] = m]
    /\ execs' = [execs EXCEPT ![id] = e] /\ e.status = "RUNNING" /\ e.whole /\ e.owner = c
    /\ work' = [work EXCEPT ![c] = w] /\ w.at = "owner" /\ w.id = id /\ w.attempt = e.attempt
    /\ GatedId(id) => approvals[id].asked + 1 = e.attempt
    /\ UNCHANGED <<vars, approvals, people>>
  BY DEF Wins
<1>2. /\ caller' = caller /\ approvals' = approvals /\ setting' = setting
      /\ desk' = desk /\ wipe' = wipe /\ controls' = controls /\ history' = history
      /\ (Redis' <=> Redis) /\ (\A i : GatedId(i)' <=> GatedId(i))
  BY <1>1 DEF vars, people, Redis, GatedId
<1>3. Tool(c) \in Tools /\ \A i \in Ids : i[1] \in Tools /\ i[2] \in Nat /\ i # None
  BY <1>1, NoneAssumption, BoundAssumption DEF Ids
<1>4. /\ work' \in [Callers -> Work] /\ work'[c] = w
      /\ \A d \in Callers : d # c => work'[d] = work[d]
      /\ execs' \in [Ids -> ExecRow] /\ execs'[id] = e /\ \A i \in Ids : i # id => execs'[i] = execs[i]
      /\ keys' \in [Tools -> Ids \cup {None}] /\ keys'[Tool(c)] = id
      /\ \A t \in Tools : t # Tool(c) => keys'[t] = keys[t]
      /\ born' \in [Tools -> 0..MaxIds]
      /\ \A t \in Tools : born'[t] = IF t = Tool(c) THEN m ELSE born[t]
  BY <1>1, <1>3 DEF OpInv, OpTypeOK
<1>5. Born(id)' /\ \A i \in Ids : Born(i) => Born(i)'
  <2>1. \A t \in Tools : born[t] \in Nat /\ born[t] <= born'[t] /\ born'[t] \in Nat
    BY <1>1, <1>4, BoundAssumption DEF OpInv, OpTypeOK
  <2> QED BY <1>1, <1>3, <1>4, <2>1, BoundAssumption DEF Born
<1>6. TypeOK' /\ OpTypeOK'
  BY <1>2, <1>4 DEF OpInv, TypeOK, OpTypeOK, history
<1>7. AllSound'
  BY <1>1, <1>2, <1>4 DEF OpInv, AllSound, Sound
<1>8. Alone'
  BY <1>1, <1>4 DEF OpInv, Alone
<1>9. Fresh'
  BY <1>2, <1>5 DEF OpInv, Fresh
<1>10. Keyed'
  <2>1. ASSUME NEW t \in Tools, keys'[t] # None PROVE (keys[t][1] = t /\ Born(keys[t]))'
    <3>1. CASE t = Tool(c)
      BY <1>1, <1>4, <1>5, <3>1 DEF Born
    <3>2. CASE t # Tool(c)
      <4>1. keys'[t] = keys[t] /\ keys[t] \in Ids
        BY <1>4, <2>1, <3>2 DEF OpInv, OpTypeOK
      <4> QED BY <1>5, <2>1, <4>1 DEF OpInv, Keyed, Born
    <3> QED BY <3>1, <3>2
  <2>2. ASSUME ~Redis, NEW i \in Ids, Live(i)' PROVE keys'[i[1]] = i
    <3>1. CASE i # id
      BY <1>1, <1>3, <1>4, <2>2, <3>1 DEF OpInv, Keyed, Live
    <3>2. CASE i = id
      BY <1>1, <1>4, <3>2
    <3> QED BY <3>1, <3>2
  <2> QED BY <1>2, <2>1, <2>2 DEF Keyed
<1>11. ASSUME NEW d \in Callers PROVE Placed(d)'
  <2>1. CASE d = c
    <3>1. w.at \notin FollowPlaces /\ w.at # "rejected" /\ w.at \in OwnerPlaces
      BY <1>1 DEF FollowPlaces, OwnerPlaces
    <3>2. Fits(c, w, e, approvals[id], GatedId(id))'
      BY <1>1, <1>2, <3>1 DEF Fits
    <3> QED BY <1>1, <1>2, <1>4, <1>5, <2>1, <3>1, <3>2 DEF Placed, Told, At, Tool, Exec, Approval
  <2>2. CASE d # c
    <3>1. Placed(d) /\ work'[d] = work[d]
      BY <1>4, <2>2 DEF OpInv, AllPlaced
    <3>2. CASE work[d].at \in OwnerPlaces \cup FollowPlaces
      <4>1. Fits(d, work[d], Exec(d), Approval(d), GatedId(work[d].id))'
        <5>1. CASE work[d].id # id
          <6>1. work[d].id \in Ids
            BY <3>1, <3>2 DEF Placed
          <6> QED BY <1>2, <1>4, <3>1, <3>2, <5>1, <6>1 DEF Placed, Fits, Exec, Approval
        <5>2. CASE work[d].id = id
          BY <1>1, <1>2, <3>1, <3>2, <5>2 DEF Placed, Fits, Exec, Approval
        <5> QED BY <5>1, <5>2
      <4> QED BY <1>2, <1>5, <3>1, <3>2, <4>1 DEF Placed, Told, At, Tool, Exec, Approval
    <3>3. CASE work[d].at \notin OwnerPlaces \cup FollowPlaces
      BY <1>2, <3>1, <3>3 DEF Placed, Told, At
    <3> QED BY <3>2, <3>3
  <2> QED BY <2>1, <2>2
<1> QED BY <1>6, <1>7, <1>8, <1>9, <1>10, <1>11 DEF OpInv, AllPlaced
-----------------------------------------------------------------------------
(* Steps of the kill switch and of people.                                 *)

\* A call that has not passed the kill switch moves, or pauses come and go.
LEMMA SwitchKeeps ==
  ASSUME OpInv, TypeOK', Switch
  PROVE  OpInv'
<1>1. /\ setting' = setting /\ keys' = keys /\ execs' = execs /\ approvals' = approvals
      /\ born' = born /\ work' = work /\ desk' = desk /\ wipe' = wipe
      /\ (Redis' <=> Redis) /\ (\A i : GatedId(i)' <=> GatedId(i)) /\ (\A i : Born(i)' <=> Born(i))
  BY DEF Switch, store, people, Redis, GatedId, Born
<1>2. \A c \in Callers : At(c, "runs") => caller'[c] = caller[c]
  BY DEF Switch, Pause, Resume, Write, Call, ReadAll, ReadTool, GoTo, At, OpInv, TypeOK
<1>3. \A c \in Callers : caller'[c].at # "idle" => caller'[c].tool \in Tools
  <2>1. ASSUME NEW key, Pause(key) \/ Resume(key) PROVE caller' = caller
    BY <2>1 DEF Pause, Resume, Write
  <2>2. ASSUME NEW d \in Callers, NEW tool \in Tools, Call(d, tool)
        PROVE  \A c \in Callers : caller'[c] = caller[c] \/ caller'[c].tool = tool
    BY <2>2 DEF Call, OpInv, TypeOK
  <2>3. ASSUME NEW d \in Callers, ReadAll(d) \/ ReadTool(d)
        PROVE  \A c \in Callers : \/ caller[c].at # "idle" /\ caller'[c].tool = caller[c].tool
                                  \/ caller'[c] = caller[c]
    BY <2>3 DEF ReadAll, ReadTool, GoTo, At, OpInv, TypeOK
  <2> QED BY <2>1, <2>2, <2>3 DEF Switch, OpInv, OpTypeOK
<1>5. OpTypeOK' /\ AllSound' /\ Alone' /\ Fresh' /\ Keyed'
  BY <1>1, <1>3 DEF OpInv, OpTypeOK, AllSound, Sound, Alone, Fresh, Keyed, Live
<1>4. ASSUME NEW c \in Callers PROVE Placed(c)'
  <2>1. Placed(c)
    BY DEF OpInv, AllPlaced
  <2>2. CASE At(c, "runs")
    BY <1>1, <1>2, <2>1, <2>2 DEF Placed, Fits, Told, At, Tool, Exec, Approval
  <2>3. CASE ~At(c, "runs")
    BY <1>1, <2>1, <2>3 DEF Placed, Told, NoWork, OwnerPlaces, FollowPlaces
  <2> QED BY <2>2, <2>3
<1> QED BY <1>4, <1>5 DEF OpInv, AllPlaced

LEMMA ReturnsKeep ==
  ASSUME OpInv, TypeOK', NEW c \in Callers, CallReturns(c)
  PROVE  OpInv'
<1>1. /\ setting' = setting /\ keys' = keys /\ execs' = execs /\ approvals' = approvals
      /\ born' = born /\ work' = [work EXCEPT ![c] = NoWork] /\ desk' = desk /\ wipe' = wipe
      /\ (Redis' <=> Redis) /\ (\A i : GatedId(i)' <=> GatedId(i)) /\ (\A i : Born(i)' <=> Born(i))
  BY DEF CallReturns, store, people, Redis, GatedId, Born
<1>2. caller'[c].at = "idle" /\ \A d \in Callers : d # c => caller'[d] = caller[d]
  BY DEF CallReturns, Return, OpInv, TypeOK
<1>3. NoWork \in Work
  BY DEF NoWork, Work
<1>4. work' \in [Callers -> Work] /\ work'[c] = NoWork /\ \A d \in Callers : d # c => work'[d] = work[d]
  BY <1>1, <1>3 DEF OpInv, OpTypeOK
<1>5. OpTypeOK' /\ AllSound' /\ Fresh' /\ Keyed'
  BY <1>1, <1>2, <1>4 DEF OpInv, OpTypeOK, AllSound, Sound, Fresh, Keyed, Live
<1>6. Alone'
  BY <1>4 DEF OpInv, Alone, NoWork, OwnerPlaces
<1>7. ASSUME NEW d \in Callers PROVE Placed(d)'
  <2>1. CASE d = c
    BY <1>4, <2>1 DEF Placed, Told, NoWork, OwnerPlaces, FollowPlaces
  <2>2. CASE d # c
    BY <1>1, <1>2, <1>4, <2>2 DEF OpInv, AllPlaced, Placed, Fits, Told, At, Tool, Exec, Approval
  <2> QED BY <2>1, <2>2
<1> QED BY <1>5, <1>6, <1>7 DEF OpInv, AllPlaced

\* Somebody decides, now or on what the dashboard showed.
Decides ==
  /\ \E id \in Ids, approved, reason \in BOOLEAN : Resolve(id, approved, reason)
  /\ desk' \in {desk, NoDesk}
  /\ UNCHANGED <<vars, keys, execs, born, work, setting, wipe>>

LEMMA ResolvedFacts ==
  ASSUME OpTypeOK, NEW id \in Ids, NEW approved \in BOOLEAN, NEW reason \in BOOLEAN
  PROVE  LET a == Resolved(id, approved, reason)
         IN  /\ a \in ApprovalRow /\ Decided(a) /\ a.asked = approvals[id].asked /\ a.of = a.asked
             /\ a.resolver /\ (~Redis => a.note \in {0, a.asked})
  BY DEF OpTypeOK, Resolved, ApprovalRow, Decided

LEMMA DecidesKeep ==
  ASSUME OpInv, Decides
  PROVE  OpInv'
<1>1. PICK id \in Ids, approved \in BOOLEAN, reason \in BOOLEAN : Resolve(id, approved, reason)
  BY DEF Decides
<1>2. /\ setting' = setting /\ keys' = keys /\ execs' = execs /\ UNCHANGED vars
      /\ born' = born /\ work' = work /\ desk' \in {desk, NoDesk} /\ wipe' = wipe /\ caller' = caller
      /\ (Redis' <=> Redis) /\ (\A i : GatedId(i)' <=> GatedId(i)) /\ (\A i : Born(i)' <=> Born(i))
  BY DEF Decides, vars, Redis, GatedId, Born
<1> DEFINE a == Resolved(id, approved, reason)
<1>3. /\ a \in ApprovalRow /\ Decided(a) /\ a.asked = approvals[id].asked /\ a.of = a.asked
      /\ a.resolver /\ (~Redis => a.note \in {0, a.asked})
  BY ResolvedFacts DEF OpInv
<1>4. /\ approvals' \in [Ids -> ApprovalRow]
      /\ \A i \in Ids : \/ approvals'[i] = approvals[i]
                        \/ /\ Decided(approvals'[i]) /\ approvals'[i].asked = approvals[i].asked
                           /\ approvals'[i].of = approvals'[i].asked /\ approvals'[i].resolver
                           /\ (~Redis => approvals'[i].note \in {0, approvals'[i].asked})
  BY <1>1, <1>3 DEF Resolve, OpInv, OpTypeOK
<1> HIDE DEF a
<1>5. TypeOK' /\ OpTypeOK'
  BY <1>2, <1>4 DEF OpInv, TypeOK, OpTypeOK, vars, history
<1>6. AllSound'
  BY <1>2, <1>4 DEF OpInv, AllSound, Sound, Decided
<1>7. Alone' /\ Fresh' /\ Keyed'
  BY <1>2, <1>4 DEF OpInv, Alone, Fresh, Keyed, Live
<1>8. ASSUME NEW c \in Callers PROVE Placed(c)'
  BY <1>2, <1>4, <1>8 DEF OpInv, AllPlaced, Placed, Fits, Told, At, Tool, Exec, Approval, Decided
<1> QED BY <1>5, <1>6, <1>7, <1>8 DEF OpInv, AllPlaced

\* The dashboard looks, and clear() starts and ends.
Waits ==
  /\ UNCHANGED <<vars, store, work, setting>>
  /\ desk' = desk \/ desk' \in [id : Ids, approved : BOOLEAN, reason : BOOLEAN]
  /\ wipe'.at = "scanning" => Redis

LEMMA WaitsKeep ==
  ASSUME OpInv, Waits
  PROVE  OpInv'
<1>1. /\ setting' = setting /\ keys' = keys /\ execs' = execs /\ approvals' = approvals
      /\ born' = born /\ work' = work /\ caller' = caller /\ UNCHANGED vars
      /\ (Redis' <=> Redis) /\ (\A i : GatedId(i)' <=> GatedId(i)) /\ (\A i : Born(i)' <=> Born(i))
  BY DEF Waits, vars, store, Redis, GatedId, Born
<1>2. TypeOK' /\ OpTypeOK'
  BY <1>1 DEF OpInv, TypeOK, OpTypeOK, Waits, vars, history
<1>3. AllSound' /\ Alone' /\ Fresh' /\ Keyed'
  BY <1>1 DEF OpInv, AllSound, Sound, Alone, Fresh, Keyed, Live
<1>4. ASSUME NEW c \in Callers PROVE Placed(c)'
  BY <1>1 DEF OpInv, AllPlaced, Placed, Fits, Told, At, Tool, Exec, Approval
<1> QED BY <1>2, <1>3, <1>4 DEF OpInv, AllPlaced

\* Rows go: on the SQL backends all at once, on Redis any.
Wipes ==
  \E K \in SUBSET Tools, E, A \in SUBSET Ids :
    /\ keys' = [t \in Tools |-> IF t \in K THEN None ELSE keys[t]]
    /\ execs' = [id \in Ids |-> IF id \in E THEN NoExec ELSE execs[id]]
    /\ approvals' = [id \in Ids |-> IF id \in A THEN [NoApproval EXCEPT !.asked = approvals[id].asked]
                                    ELSE approvals[id]]
    /\ ~Redis => E = Ids
    /\ UNCHANGED <<vars, born, work, setting, desk>>
    /\ wipe'.at = "scanning" => Redis

LEMMA WipesKeep ==
  ASSUME OpInv, Wipes
  PROVE  OpInv'
<1>1. PICK K \in SUBSET Tools, E \in SUBSET Ids, A \in SUBSET Ids :
    /\ keys' = [t \in Tools |-> IF t \in K THEN None ELSE keys[t]]
    /\ execs' = [id \in Ids |-> IF id \in E THEN NoExec ELSE execs[id]]
    /\ approvals' = [id \in Ids |-> IF id \in A THEN [NoApproval EXCEPT !.asked = approvals[id].asked]
                                    ELSE approvals[id]]
    /\ ~Redis => E = Ids
    /\ UNCHANGED <<vars, born, work, setting, desk>>
    /\ wipe'.at = "scanning" => Redis
  BY DEF Wipes
<1>2. /\ setting' = setting /\ born' = born /\ work' = work /\ caller' = caller /\ UNCHANGED vars
      /\ desk' = desk
      /\ (Redis' <=> Redis) /\ (\A i : GatedId(i)' <=> GatedId(i)) /\ (\A i : Born(i)' <=> Born(i))
  BY <1>1 DEF vars, Redis, GatedId, Born
<1>3. NoExec \in ExecRow /\ NoExec.status = "none" /\ ~NoExec.whole
  BY DEF NoExec, ExecRow, Shown
<1>4. /\ execs' \in [Ids -> ExecRow]
      /\ \A id \in Ids : execs'[id] = IF id \in E THEN NoExec ELSE execs[id]
  BY <1>1, <1>3 DEF OpInv, OpTypeOK
<1>5. \A id \in Ids :
        LET a == [NoApproval EXCEPT !.asked = approvals[id].asked]
        IN  a \in ApprovalRow /\ a.status = "none" /\ a.note = 0 /\ a.asked = approvals[id].asked
  BY DEF OpInv, OpTypeOK, NoApproval, ApprovalRow
<1>6. /\ approvals' \in [Ids -> ApprovalRow]
      /\ \A id \in Ids : /\ approvals'[id].asked = approvals[id].asked
                         /\ approvals'[id] = approvals[id]
                            \/ (approvals'[id].status = "none" /\ approvals'[id].note = 0)
  BY <1>1, <1>5 DEF OpInv, OpTypeOK
<1>7. TypeOK' /\ OpTypeOK'
  BY <1>1, <1>2, <1>4, <1>6 DEF OpInv, TypeOK, OpTypeOK, vars, history
<1>8. AllSound'
  BY <1>1, <1>2, <1>3, <1>4, <1>6 DEF OpInv, AllSound, Sound, Decided
<1>9. Alone' /\ Fresh'
  BY <1>2, <1>6 DEF OpInv, Alone, Fresh
<1>10. Keyed'
  BY <1>1, <1>2, <1>3, <1>4 DEF OpInv, OpTypeOK, Keyed, Live
<1>11. ASSUME NEW c \in Callers PROVE Placed(c)'
  <2>1. Placed(c)
    BY DEF OpInv, AllPlaced
  <2>2. CASE work[c].at \in OwnerPlaces \cup FollowPlaces
    <3>1. work[c].id \in Ids
      BY <2>1, <2>2 DEF Placed
    <3>2. Fits(c, work[c], execs[work[c].id], approvals[work[c].id], GatedId(work[c].id))'
      BY <1>2, <1>3, <1>4, <1>6, <2>1, <2>2, <3>1 DEF Placed, Fits, Exec, Approval
    <3> QED BY <1>2, <2>1, <2>2, <3>2 DEF Placed, Told, At, Tool, Exec, Approval
  <2>3. CASE work[c].at \notin OwnerPlaces \cup FollowPlaces
    BY <1>2, <2>1, <2>3 DEF Placed, Told, At
  <2> QED BY <2>2, <2>3
<1> QED BY <1>7, <1>8, <1>9, <1>10, <1>11 DEF OpInv, AllPlaced
-----------------------------------------------------------------------------
(* Each action is one of these steps.                                      *)

LEMMA DoneFacts ==
  ASSUME NEW outcome \in Outcomes \ {"rejected"}
  PROVE  LET w == [NoWork EXCEPT !.at = outcome]
         IN  /\ w \in Work /\ w.at \notin OwnerPlaces /\ w.at \notin FollowPlaces /\ Told(w)
             /\ \A c, e, a, gated : Fits(c, w, e, a, gated)
  BY DEF NoWork, Work, Outcomes, OwnerPlaces, FollowPlaces, Told, Fits

LEMMA NewIsWins ==
  ASSUME OpInv, NEW c \in Callers, AcquireNew(c)
  PROVE  Wins(c)
<1> DEFINE id == NewId(c)
           e == [status |-> "RUNNING", whole |-> TRUE, attempt |-> 1,
                 shown |-> ArgsOf[c], owner |-> c, by |-> None]
           w == [NoWork EXCEPT !.at = "owner", !.id = id, !.attempt = 1]
           m == born[Tool(c)] + 1
<1>1. At(c, "runs") /\ work[c].at = "acquire" /\ keys[Tool(c)] = None
  BY DEF AcquireNew, In
<1>2. Tool(c) \in Tools
  BY AcquireTool DEF AcquireNew
<1>3. born[Tool(c)] \in Nat /\ m \in 0..MaxIds /\ born[Tool(c)] <= m
  BY <1>2, BoundAssumption DEF AcquireNew, OpInv, OpTypeOK
<1>4. id \in Ids /\ id[1] = Tool(c) /\ id[2] = m
  BY <1>2, <1>3, BoundAssumption DEF NewId, Ids
<1>5. e \in ExecRow /\ w \in Work
  BY <1>4 DEF ExecRow, Shown, Statuses, Work, NoWork, OwnerPlaces
<1>6. ~Born(id)
  BY <1>3, <1>4 DEF Born
<1>7. approvals[id].asked = 0
  BY <1>4, <1>6 DEF OpInv, Fresh
<1>8. \A d \in Callers : work[d].at \in OwnerPlaces => work[d].id # id
  BY <1>6, WorkFacts
<1>9. /\ keys' = [keys EXCEPT ![Tool(c)] = id] /\ born' = [born EXCEPT ![Tool(c)] = m]
      /\ execs' = [execs EXCEPT ![id] = e] /\ work' = [work EXCEPT ![c] = w]
      /\ UNCHANGED <<vars, approvals, people>>
  BY <1>2 DEF AcquireNew, Own, OpInv, OpTypeOK
<1>10. e.status = "RUNNING" /\ e.whole /\ e.owner = c /\ e.attempt = 1
       /\ w.at = "owner" /\ w.id = id /\ w.attempt = 1
  BY DEF NoWork
<1>11. id[2] <= m /\ approvals[id].asked + 1 = e.attempt
  BY <1>3, <1>4, <1>7
<1> HIDE DEF id, e, w, m
<1> QED BY <1>1, <1>3, <1>4, <1>5, <1>8, <1>9, <1>10, <1>11 DEF Wins

LEMMA RetriesIsWins ==
  ASSUME OpInv, NEW c \in Callers, AcquireRetries(c)
  PROVE  Wins(c)
<1>1. PICK id \in {keys[Tool(c)]} \ {None} :
       /\ execs[id].whole /\ execs[id].status = "FAILED" /\ execs[id].attempt <= setting.retries
       /\ execs' = [execs EXCEPT ![id] =
                      [execs[id] EXCEPT !.status = "RUNNING", !.owner = c,
                                        !.attempt = execs[id].attempt + 1, !.by = None]]
       /\ Own(c, id, execs[id].attempt + 1)
  BY DEF AcquireRetries
<1> DEFINE n == execs[id].attempt + 1
           e == [execs[id] EXCEPT !.status = "RUNNING", !.owner = c, !.attempt = n, !.by = None]
           w == [NoWork EXCEPT !.at = "owner", !.id = id, !.attempt = n]
<1>2. At(c, "runs") /\ work[c].at = "acquire"
  BY DEF AcquireRetries, In
<1>3. Tool(c) \in Tools
  BY AcquireTool DEF AcquireRetries, OpInv
<1>4. id = keys[Tool(c)] /\ id \in Ids /\ id[1] = Tool(c) /\ Born(id)
  BY <1>1, <1>3 DEF OpInv, OpTypeOK, Keyed
<1>5. execs[id] \in ExecRow /\ Sound(execs[id], approvals[id], GatedId(id))
  BY <1>4 DEF OpInv, OpTypeOK, AllSound
<1>6. e \in ExecRow /\ e.status = "RUNNING" /\ e.whole /\ e.owner = c /\ e.attempt = n
  <2>1. n \in Nat
    BY <1>5 DEF ExecRow
  <2> HIDE DEF n
  <2>2. \A row \in ExecRow :
          /\ [row EXCEPT !.status = "RUNNING", !.owner = c, !.attempt = n, !.by = None] \in ExecRow
          /\ [row EXCEPT !.status = "RUNNING", !.owner = c, !.attempt = n, !.by = None].whole = row.whole
    BY <2>1 DEF ExecRow, Statuses
  <2>3. e.status = "RUNNING" /\ e.owner = c /\ e.attempt = n
    BY <1>5, <2>1 DEF ExecRow, Statuses
  <2> QED BY <1>1, <1>5, <2>2, <2>3
<1>7. w \in Work /\ w.at = "owner" /\ w.id = id /\ w.attempt = e.attempt
  BY <1>4, <1>5, <1>6 DEF ExecRow, Work, NoWork, OwnerPlaces
<1>8. GatedId(id) => approvals[id].asked + 1 = e.attempt
  BY <1>1, <1>5, <1>6 DEF Sound
<1>9. \A d \in Callers : work[d].at \in OwnerPlaces => work[d].id # id
  <2>1. ASSUME NEW d \in Callers, work[d].at \in OwnerPlaces, work[d].id = id PROVE FALSE
    <3>1. Fits(d, work[d], Exec(d), Approval(d), GatedId(work[d].id))
      BY <2>1, WorkFacts
    <3> QED BY <1>1, <2>1, <3>1 DEF Fits, Exec
  <2> QED BY <2>1
<1>10. born[Tool(c)] \in 0..MaxIds /\ born' = [born EXCEPT ![Tool(c)] = born[Tool(c)]]
       /\ keys' = [keys EXCEPT ![Tool(c)] = id]
  BY <1>3, <1>4 DEF AcquireRetries, OpInv, OpTypeOK
<1>11. execs' = [execs EXCEPT ![id] = e] /\ work' = [work EXCEPT ![c] = w]
       /\ UNCHANGED <<vars, approvals, people>>
  BY <1>1, <1>4, <1>5 DEF AcquireRetries, Own, ExecRow
<1>12. id[2] <= born[Tool(c)] /\ born[Tool(c)] <= born[Tool(c)]
  BY <1>4, <1>10, BoundAssumption DEF Born
<1> HIDE DEF e, w
<1> QED BY <1>2, <1>4, <1>6, <1>7, <1>8, <1>9, <1>10, <1>11, <1>12 DEF Wins

LEMMA AnswersIsLooks ==
  ASSUME OpInv, NEW c \in Callers, AcquireAnswers(c) \/ AcquireFindsWreck(c)
  PROVE  Looks(c)
<1>1. At(c, "runs") /\ work[c].at = "acquire" /\ UNCHANGED <<vars, store, people>>
  BY DEF AcquireAnswers, AcquireFindsWreck, In
<1>2. ASSUME NEW outcome \in Outcomes \ {"rejected"}, Done(c, outcome) PROVE Looks(c)
  BY <1>1, <1>2, DoneFacts DEF Looks, Done
<1>3. ASSUME NEW id \in {keys[Tool(c)]} \ {None}, NEW place \in FollowPlaces, Join(c, id, place),
             execs[id].whole, place = "followApproval" => execs[id].status = "WAITING_APPROVAL"
      PROVE  Looks(c)
  <2> DEFINE w == [NoWork EXCEPT !.at = place, !.id = id, !.attempt = execs[id].attempt]
  <2>1. Tool(c) \in Tools
    BY <1>1, AcquireTool DEF OpInv, In
  <2>2. id \in Ids /\ id[1] = Tool(c) /\ Born(id)
    BY <2>1 DEF OpInv, OpTypeOK, Keyed
  <2>3. execs[id] \in ExecRow /\ Sound(execs[id], approvals[id], GatedId(id)) /\ approvals[id] \in ApprovalRow
    BY <2>2 DEF OpInv, OpTypeOK, AllSound
  <2>4. /\ w \in Work /\ w.at = place /\ w.id = id /\ w.reason = 0 /\ w.attempt = execs[id].attempt
        /\ w.at \notin OwnerPlaces /\ Told(w)
    BY <2>2, <2>3 DEF Work, NoWork, ExecRow, FollowPlaces, OwnerPlaces, Told
  <2>5. ~Redis /\ place = "followApproval" => approvals[id].asked >= execs[id].attempt
    BY <1>3, <2>3 DEF Sound, ApprovalRow, ExecRow
  <2>6. work' = [work EXCEPT ![c] = w]
    BY <1>3 DEF Join
  <2> HIDE DEF w
  <2> QED BY <1>1, <2>2, <2>4, <2>5, <2>6 DEF Looks
<1>4. "value" \in Outcomes \ {"rejected"} /\ "error" \in Outcomes \ {"rejected"}
      /\ "timeout" \in Outcomes \ {"rejected"} /\ "broken" \in Outcomes \ {"rejected"}
  BY DEF Outcomes
<1>5. "follow" \in FollowPlaces /\ "followApproval" \in FollowPlaces
  BY DEF FollowPlaces
<1>6. CASE AcquireAnswers(c)
  <2>1. PICK id \in {keys[Tool(c)]} \ {None} :
       /\ execs[id].whole
       /\ \/ execs[id].status = "SUCCEEDED" /\ Done(c, "value")
          \/ /\ execs[id].status = "FAILED" /\ execs[id].attempt > setting.retries
             /\ Done(c, "error")
          \/ execs[id].status = "RUNNING" /\ Join(c, id, "follow")
          \/ execs[id].status = "WAITING_APPROVAL" /\ Join(c, id, "followApproval")
    BY <1>6 DEF AcquireAnswers
  <2> QED BY <1>2, <1>3, <1>4, <1>5, <2>1
<1>7. CASE AcquireFindsWreck(c)
  BY <1>2, <1>4, <1>7 DEF AcquireFindsWreck
<1> QED BY <1>6, <1>7

LEMMA FollowIsLooks ==
  ASSUME OpInv, NEW c \in Callers, Follow(c)
  PROVE  Looks(c)
<1>1. work[c].at \in FollowPlaces /\ work[c].at \notin OwnerPlaces /\ UNCHANGED <<vars, store, people>>
  BY DEF Follow, FollowerSeesApproved, FollowerSeesRejected, FollowerSeesOutcome, FollowerGivesUp,
         In, FollowPlaces, OwnerPlaces
<1>2. /\ work[c].id \in Ids /\ work[c].id[1] = Tool(c) /\ Born(work[c].id)
      /\ work[c] \in Work /\ Approval(c) \in ApprovalRow /\ At(c, "runs")
      /\ Fits(c, work[c], Exec(c), Approval(c), GatedId(work[c].id))
      /\ Sound(Exec(c), Approval(c), GatedId(work[c].id))
  BY <1>1, WorkFacts
<1>3. ASSUME NEW outcome \in Outcomes \ {"rejected"}, Done(c, outcome) PROVE Looks(c)
  BY <1>1, <1>2, <1>3, DoneFacts DEF Looks, Done
<1>4. CASE FollowerSeesApproved(c)
  <2> DEFINE w == [work[c] EXCEPT !.at = "follow"]
  <2>1. /\ w \in Work /\ w.at = "follow" /\ w.id = work[c].id /\ w.reason = 0
        /\ w.at \notin OwnerPlaces /\ Told(w)
    BY <1>1, <1>2 DEF Work, Fits, FollowPlaces, OwnerPlaces, Told
  <2>2. work' = [work EXCEPT ![c] = w]
    BY <1>4 DEF FollowerSeesApproved, To
  <2> HIDE DEF w
  <2> QED BY <1>1, <1>2, <2>1, <2>2 DEF Looks
<1>5. CASE FollowerSeesRejected(c)
  <2> DEFINE w == [work[c] EXCEPT !.at = "rejected", !.heard = Approval(c).of]
  <2>1. work[c].at = "followApproval" /\ Approval(c).status = "rejected"
    BY <1>5 DEF FollowerSeesRejected, In
  <2>2. ~Redis => Approval(c).of >= work[c].attempt
    BY <1>1, <1>2, <2>1 DEF Sound, Fits, Decided
  <2>3. /\ w \in Work /\ w.at = "rejected" /\ w.heard = Approval(c).of /\ w.reason = work[c].reason
        /\ w.attempt = work[c].attempt
    BY <1>2 DEF Work, ApprovalRow, Outcomes
  <2>4. work[c].reason = 0
    BY <1>1, <1>2 DEF Fits
  <2>5. work' = [work EXCEPT ![c] = w]
    BY <1>5 DEF FollowerSeesRejected, Hear
  <2> HIDE DEF w
  <2> QED BY <1>1, <1>2, <2>2, <2>3, <2>4, <2>5 DEF Looks, Told, OwnerPlaces, FollowPlaces
<1>6. CASE FollowerSeesOutcome(c) \/ FollowerGivesUp(c)
  BY <1>3, <1>6 DEF FollowerSeesOutcome, FollowerGivesUp, Outcomes
<1> QED BY <1>4, <1>5, <1>6 DEF Follow

\* An owner that only moves on.
LEMMA OwnerMoves ==
  ASSUME OpInv, NEW c \in Callers, NEW w \in Work, work[c].at \in OwnerPlaces,
         work' = [work EXCEPT ![c] = w], UNCHANGED <<vars, store, people>>,
         w.at \notin FollowPlaces, w.at \in OwnerPlaces => w.id = work[c].id,
         Fits(c, w, Exec(c), Approval(c), GatedId(work[c].id)), Told(w)
  PROVE  Writes(c)
<1>1. /\ work[c].id \in Ids /\ Exec(c) \in ExecRow /\ Approval(c) \in ApprovalRow /\ At(c, "runs")
      /\ Sound(Exec(c), Approval(c), GatedId(work[c].id))
  BY WorkFacts
<1>2. execs' = [execs EXCEPT ![work[c].id] = Exec(c)] /\ UNCHANGED <<vars, keys, born, people>>
      /\ approvals' = [approvals EXCEPT ![work[c].id] = Approval(c)]
  BY <1>1 DEF store, Exec, Approval, OpInv, OpTypeOK
<1>3. Approval(c).asked >= Approval(c).asked
  BY <1>1 DEF ApprovalRow
<1>4. Exec(c).status # "none" => Redis \/ Live(work[c].id)
  BY DEF Live, Exec
<1> QED BY <1>1, <1>2, <1>3, <1>4 DEF Writes

\* An owner whose row is gone does not own a whole one.
LEMMA GoneIsNotWhole ==
  ASSUME OpInv, NEW c \in Callers, work[c].at \in OwnerPlaces, ~Live(work[c].id)
  PROVE  ~Exec(c).whole
BY WorkFacts DEF Fits, Live, Exec, ExecRow

\* An owner that sets the status of its row, if the row is there or can be made.
LEMMA OwnerUpdates ==
  ASSUME OpInv, NEW c \in Callers, NEW e \in ExecRow, NEW a \in ApprovalRow, NEW w \in Work,
         work[c].at \in OwnerPlaces, Update(work[c].id, e),
         approvals' = [approvals EXCEPT ![work[c].id] = a], work' = [work EXCEPT ![c] = w],
         UNCHANGED <<vars, keys, born, people>>,
         w.at \notin FollowPlaces, w.at \in OwnerPlaces => w.id = work[c].id,
         a.asked >= Approval(c).asked, Decided(a) => a.of = a.asked,
         ~Redis => /\ a.status # "pending" => a.note \in {0, a.asked}
                   /\ Decided(a) => a.resolver,
         e.whole = Exec(c).whole, Told(w),
         Sound(e, a, GatedId(work[c].id)) \/ ~(Live(work[c].id) \/ Redis),
         Fits(c, w, e, a, GatedId(work[c].id))
  PROVE  Writes(c)
<1>1. /\ work[c].id \in Ids /\ Exec(c) \in ExecRow /\ At(c, "runs")
  BY WorkFacts
<1>2. CASE Live(work[c].id) \/ Redis
  BY <1>1, <1>2 DEF Update, Writes
<1>3. CASE ~Live(work[c].id) /\ ~Redis
  <2>1. execs' = [execs EXCEPT ![work[c].id] = Exec(c)]
    BY <1>1, <1>3 DEF Update, Exec, OpInv, OpTypeOK
  <2>2. ~Exec(c).whole /\ Exec(c).status = "none"
    BY <1>3, GoneIsNotWhole DEF Live, Exec
  <2>3. Sound(Exec(c), a, GatedId(work[c].id)) /\ Fits(c, w, Exec(c), a, GatedId(work[c].id))
    BY <2>2 DEF Sound, Fits
  <2> QED BY <1>1, <2>1, <2>2, <2>3 DEF Writes
<1> QED BY <1>2, <1>3

\* Waiting for an approval: the row and the request at once, or one after the other.
LEMMA MarkIsWrites ==
  ASSUME OpInv, NEW c \in Callers,
         MarkWaiting(c) \/ MarkStatus(c) \/ MarkPending(c) \/ MarkUnresolved(c)
  PROVE  Writes(c)
<1>1. work[c].at \in {"owner", "marked", "asked"} /\ work[c].at \in OwnerPlaces
  BY DEF MarkWaiting, MarkStatus, MarkPending, MarkUnresolved, In, OwnerPlaces
<1>2. /\ work[c].id \in Ids /\ work[c].id[1] = Tool(c)
      /\ work[c] \in Work /\ Exec(c) \in ExecRow /\ Approval(c) \in ApprovalRow /\ At(c, "runs")
      /\ Fits(c, work[c], Exec(c), Approval(c), GatedId(work[c].id))
      /\ Sound(Exec(c), Approval(c), GatedId(work[c].id))
  BY <1>1, WorkFacts
<1> DEFINE e == [Exec(c) EXCEPT !.status = "WAITING_APPROVAL"]
           n == Approval(c).asked + 1
<1>3. /\ e \in ExecRow /\ e.status = "WAITING_APPROVAL" /\ e.whole = Exec(c).whole
      /\ e.owner = Exec(c).owner /\ e.attempt = Exec(c).attempt
  BY <1>2 DEF ExecRow, Statuses
<1>4. n \in Nat /\ n >= Approval(c).asked
  BY <1>2 DEF ApprovalRow
<1> HIDE DEF e
<1>5. CASE MarkWaiting(c)
  <2> DEFINE a == [Approval(c) EXCEPT !.status = "pending", !.resolver = FALSE, !.asked = n]
             w == [work[c] EXCEPT !.at = "approval"]
  <2>1. /\ work[c].at = "owner" /\ GatedId(work[c].id) /\ ~Redis /\ Update(work[c].id, e)
        /\ work' = [work EXCEPT ![c] = w] /\ UNCHANGED <<vars, keys, born, people>>
    BY <1>2, <1>5 DEF MarkWaiting, In, NeedsApproval, GatedId, To, e
  <2>2. approvals' = [approvals EXCEPT ![work[c].id] = a]
    BY <1>5 DEF MarkWaiting, Pending, Approval
  <2>3. n = work[c].attempt
    BY <1>2, <2>1, <1>1 DEF Fits
  <2> HIDE DEF n
  <2>4. a \in ApprovalRow /\ a.status = "pending" /\ a.asked = n
    BY <1>2, <1>4 DEF ApprovalRow
  <2>5. w \in Work /\ w.at = "approval" /\ w.id = work[c].id /\ w.attempt = work[c].attempt
    BY <1>2 DEF Work, OwnerPlaces
  <2> HIDE DEF a, w
  <2>6. Fits(c, w, e, a, GatedId(work[c].id)) /\ Told(w)
    BY <1>1, <1>2, <1>3, <2>1, <2>3, <2>4, <2>5 DEF Fits, Told, FollowPlaces
  <2>7. Sound(e, a, GatedId(work[c].id)) \/ ~(Live(work[c].id) \/ Redis)
    <3>1. CASE Live(work[c].id)
      <4>1. Exec(c).whole
        BY <1>2, <2>1, <3>1 DEF Sound, Live, Exec
      <4> QED BY <1>1, <1>2, <1>3, <2>1, <2>3, <2>4, <4>1 DEF Sound, Fits, Decided
    <3> QED BY <2>1, <3>1
  <2> QED BY <1>1, <1>3, <1>4, <2>1, <2>2, <2>4, <2>5, <2>6, <2>7, OwnerUpdates
          DEF OwnerPlaces, FollowPlaces, Decided
<1>6. CASE MarkStatus(c)
  <2> DEFINE w == [work[c] EXCEPT !.at = "marked"]
  <2>1. /\ work[c].at = "owner" /\ GatedId(work[c].id) /\ Redis /\ Update(work[c].id, e)
        /\ work' = [work EXCEPT ![c] = w] /\ UNCHANGED <<vars, keys, born, people, approvals>>
    BY <1>2, <1>6 DEF MarkStatus, In, NeedsApproval, GatedId, To, e
  <2>2. approvals' = [approvals EXCEPT ![work[c].id] = Approval(c)]
    BY <1>2, <2>1 DEF Approval, OpInv, OpTypeOK
  <2>3. w \in Work /\ w.at = "marked" /\ w.id = work[c].id /\ w.attempt = work[c].attempt
    BY <1>2 DEF Work, OwnerPlaces
  <2> HIDE DEF w
  <2>4. Fits(c, w, e, Approval(c), GatedId(work[c].id)) /\ Told(w)
    BY <1>1, <1>2, <1>3, <2>1, <2>3 DEF Fits, Told, FollowPlaces
  <2>5. Sound(e, Approval(c), GatedId(work[c].id))
    BY <1>2, <1>3, <2>1 DEF Sound
  <2>6. Approval(c).asked >= Approval(c).asked /\ (Decided(Approval(c)) => Approval(c).of = Approval(c).asked)
    BY <1>2 DEF ApprovalRow, Sound
  <2> QED BY <1>1, <1>2, <1>3, <2>1, <2>2, <2>3, <2>4, <2>5, <2>6, OwnerUpdates
          DEF OwnerPlaces, FollowPlaces
<1>7. CASE MarkPending(c)
  <2> DEFINE a == [Approval(c) EXCEPT !.status = "pending", !.asked = n]
             w == [work[c] EXCEPT !.at = "asked"]
  <2>1. /\ work[c].at = "marked" /\ approvals' = [approvals EXCEPT ![work[c].id] = a]
        /\ work' = [work EXCEPT ![c] = w] /\ UNCHANGED <<vars, keys, execs, born, people>>
    BY <1>7 DEF MarkPending, In, To
  <2>2. GatedId(work[c].id) /\ Redis /\ n = work[c].attempt
    BY <1>1, <1>2, <2>1 DEF Fits
  <2> HIDE DEF n
  <2>3. a \in ApprovalRow /\ a.status = "pending" /\ a.asked = n
    BY <1>2, <1>4 DEF ApprovalRow
  <2>4. w \in Work /\ w.at = "asked" /\ w.id = work[c].id /\ w.attempt = work[c].attempt
    BY <1>2 DEF Work, OwnerPlaces
  <2> HIDE DEF a, w
  <2>5. Fits(c, w, Exec(c), a, GatedId(work[c].id)) /\ Told(w)
    BY <1>1, <1>2, <2>1, <2>2, <2>3, <2>4 DEF Fits, Told, FollowPlaces
  <2>6. Sound(Exec(c), a, GatedId(work[c].id))
    BY <1>1, <1>2, <2>2, <2>3 DEF Sound, Decided, Fits
  <2>7. Update(work[c].id, Exec(c))
    BY <1>2, <2>1 DEF Update, Exec, OpInv, OpTypeOK
  <2> QED BY <1>1, <1>2, <1>4, <2>1, <2>2, <2>3, <2>4, <2>5, <2>6, <2>7, OwnerUpdates
          DEF OwnerPlaces, FollowPlaces, Decided
<1>8. CASE MarkUnresolved(c)
  <2> DEFINE a == [Approval(c) EXCEPT !.resolver = FALSE]
             w == [work[c] EXCEPT !.at = "approval"]
  <2>1. /\ work[c].at = "asked" /\ approvals' = [approvals EXCEPT ![work[c].id] = a]
        /\ work' = [work EXCEPT ![c] = w] /\ UNCHANGED <<vars, keys, execs, born, people>>
    BY <1>2, <1>8 DEF MarkUnresolved, In, To, Approval, OpInv, OpTypeOK
  <2>2. GatedId(work[c].id) /\ Redis
    BY <1>1, <1>2, <2>1 DEF Fits
  <2>3. a \in ApprovalRow /\ a.status = Approval(c).status /\ a.asked = Approval(c).asked
        /\ a.of = Approval(c).of
    BY <1>2 DEF ApprovalRow
  <2>4. w \in Work /\ w.at = "approval" /\ w.id = work[c].id /\ w.attempt = work[c].attempt
    BY <1>2 DEF Work, OwnerPlaces
  <2> HIDE DEF a, w
  <2>5. Fits(c, w, Exec(c), a, GatedId(work[c].id)) /\ Told(w)
    BY <1>1, <1>2, <2>1, <2>2, <2>3, <2>4 DEF Fits, Told, FollowPlaces
  <2>6. Sound(Exec(c), a, GatedId(work[c].id)) /\ (Decided(a) => a.of = a.asked) /\ a.asked >= Approval(c).asked
    BY <1>1, <1>2, <2>2, <2>3 DEF Sound, Decided, ApprovalRow
  <2>7. Update(work[c].id, Exec(c))
    BY <1>2, <2>1 DEF Update, Exec, OpInv, OpTypeOK
  <2> QED BY <1>1, <1>2, <2>1, <2>2, <2>3, <2>4, <2>5, <2>6, <2>7, OwnerUpdates
          DEF OwnerPlaces, FollowPlaces
<1> QED BY <1>5, <1>6, <1>7, <1>8

\* The owner hears, starts or gives up.
LEMMA OwnerHearsIsWrites ==
  ASSUME OpInv, NEW c \in Callers,
         \/ MarkWaitingRaises(c) \/ OwnerSeesApproved(c) \/ OwnerSeesRejected(c) \/ ReadNote(c)
         \/ OwnerGivesUpApproval(c) \/ StartFunction(c)
  PROVE  Writes(c)
<1>1. work[c].at \in OwnerPlaces /\ UNCHANGED <<vars, store, people>>
  BY DEF MarkWaitingRaises, OwnerSeesApproved, OwnerSeesRejected, ReadNote, OwnerGivesUpApproval,
         StartFunction, In, OwnerPlaces
<1>2. /\ work[c].id \in Ids /\ work[c].id[1] = Tool(c)
      /\ work[c] \in Work /\ Exec(c) \in ExecRow /\ Approval(c) \in ApprovalRow
      /\ Fits(c, work[c], Exec(c), Approval(c), GatedId(work[c].id))
      /\ Sound(Exec(c), Approval(c), GatedId(work[c].id))
  BY <1>1, WorkFacts
<1>3. CASE MarkWaitingRaises(c) \/ OwnerGivesUpApproval(c)
  <2>1. PICK outcome \in Outcomes \ {"rejected"} : Done(c, outcome)
    BY <1>3 DEF MarkWaitingRaises, OwnerGivesUpApproval, Outcomes
  <2> QED BY <1>1, <2>1, DoneFacts, OwnerMoves DEF Done
<1>4. CASE OwnerSeesApproved(c) \/ OwnerSeesRejected(c)
  <2>1. PICK place \in {"function", "decline"} :
           /\ work[c].at = "approval" /\ Hear(c, place) /\ Decided(Approval(c))
           /\ Approval(c).status # "pending"
    BY <1>4 DEF OwnerSeesApproved, OwnerSeesRejected, In, Decided
  <2> DEFINE w == [work[c] EXCEPT !.at = place, !.heard = Approval(c).of]
  <2>2. /\ w \in Work /\ w.at = place /\ w.id = work[c].id /\ w.heard = Approval(c).of
        /\ w.attempt = work[c].attempt
    BY <1>2 DEF Work, ApprovalRow, OwnerPlaces
  <2>3. work' = [work EXCEPT ![c] = w]
    BY <2>1 DEF Hear
  <2> HIDE DEF w
  <2>4. Fits(c, w, Exec(c), Approval(c), GatedId(work[c].id)) /\ Told(w)
    BY <1>1, <1>2, <2>1, <2>2 DEF Fits, Sound, Told, FollowPlaces
  <2> QED BY <1>1, <2>2, <2>3, <2>4, OwnerMoves DEF OwnerPlaces, FollowPlaces
<1>5. CASE ReadNote(c)
  <2> DEFINE w == [work[c] EXCEPT !.at = "declined", !.reason = Approval(c).note]
  <2>1. work[c].at = "decline" /\ work' = [work EXCEPT ![c] = w]
    BY <1>5 DEF ReadNote, In
  <2>2. /\ w \in Work /\ w.at = "declined" /\ w.id = work[c].id /\ w.heard = work[c].heard
        /\ w.attempt = work[c].attempt /\ w.reason = Approval(c).note
    BY <1>2 DEF Work, ApprovalRow, OwnerPlaces
  <2> HIDE DEF w
  <2>3. Fits(c, w, Exec(c), Approval(c), GatedId(work[c].id)) /\ Told(w)
    BY <1>1, <1>2, <2>1, <2>2 DEF Fits, Sound, Told, FollowPlaces
  <2> QED BY <1>1, <2>1, <2>2, <2>3, OwnerMoves DEF OwnerPlaces, FollowPlaces
<1>6. CASE StartFunction(c)
  <2> DEFINE w == [work[c] EXCEPT !.at = "function"]
  <2>1. work[c].at = "owner" /\ work' = [work EXCEPT ![c] = w] /\ ~GatedId(work[c].id)
    BY <1>2, <1>6 DEF StartFunction, In, To, NeedsApproval, GatedId
  <2>2. /\ w \in Work /\ w.at = "function" /\ w.id = work[c].id /\ w.attempt = work[c].attempt
    BY <1>2 DEF Work, OwnerPlaces
  <2> HIDE DEF w
  <2>3. Fits(c, w, Exec(c), Approval(c), GatedId(work[c].id)) /\ Told(w)
    BY <1>1, <1>2, <2>1, <2>2 DEF Fits, Told, FollowPlaces
  <2> QED BY <1>1, <2>1, <2>2, <2>3, OwnerMoves DEF OwnerPlaces, FollowPlaces
<1> QED BY <1>3, <1>4, <1>5, <1>6

\* The owner records how its attempt ended.
LEMMA RecordIsWrites ==
  ASSUME OpInv, NEW c \in Callers, Decline(c) \/ Complete(c) \/ Fail(c)
  PROVE  Writes(c)
<1>1. PICK status \in {"SUCCEEDED", "FAILED"} :
        /\ Update(work[c].id, [Exec(c) EXCEPT !.status = status, !.by = c])
        /\ UNCHANGED <<vars, keys, approvals, born, people>>
  BY DEF Decline, Complete, Fail, Record
<1>2. work[c].at \in {"declined", "function"} /\ work[c].at \in OwnerPlaces
  BY DEF Decline, Complete, Fail, In, OwnerPlaces
<1>3. /\ work[c].id \in Ids /\ work[c].id[1] = Tool(c)
      /\ work[c] \in Work /\ Exec(c) \in ExecRow /\ Approval(c) \in ApprovalRow
      /\ Fits(c, work[c], Exec(c), Approval(c), GatedId(work[c].id))
      /\ Sound(Exec(c), Approval(c), GatedId(work[c].id))
  BY <1>2, WorkFacts
<1> DEFINE e == [Exec(c) EXCEPT !.status = status, !.by = c]
<1>4. /\ e \in ExecRow /\ e.status = status /\ e.by = c /\ e.whole = Exec(c).whole
      /\ e.owner = Exec(c).owner /\ e.attempt = Exec(c).attempt
  BY <1>3 DEF ExecRow, Statuses
<1>5. PICK w \in Work : /\ work' = [work EXCEPT ![c] = w] /\ w.at \in Outcomes
                        /\ \A gated : Fits(c, w, e, Approval(c), gated)
                        /\ Told(w)
  <2>1. CASE Decline(c)
    <3> DEFINE w == [work[c] EXCEPT !.at = "rejected"]
    <3>1. work[c].at = "declined" /\ work' = [work EXCEPT ![c] = w]
      BY <2>1 DEF Decline, In, To
    <3>2. /\ w \in Work /\ w.at = "rejected" /\ w.heard = work[c].heard
          /\ w.attempt = work[c].attempt /\ w.reason = work[c].reason
      BY <1>3 DEF Work, Outcomes
    <3> HIDE DEF w
    <3>3. Told(w) /\ \A gated : Fits(c, w, e, Approval(c), gated)
      BY <1>2, <1>3, <3>1, <3>2 DEF Fits, Told, FollowPlaces, OwnerPlaces, Work
    <3> QED BY <3>1, <3>2, <3>3 DEF Outcomes
  <2>2. CASE Complete(c) \/ Fail(c)
    <3>1. PICK outcome \in Outcomes \ {"rejected"} : Done(c, outcome)
      BY <2>2 DEF Complete, Fail, Outcomes
    <3>2. work' = [work EXCEPT ![c] = [NoWork EXCEPT !.at = outcome]] /\ [NoWork EXCEPT !.at = outcome].at = outcome
      BY <3>1 DEF Done, NoWork
    <3> QED BY <3>1, <3>2, DoneFacts
  <2> QED BY <2>1, <2>2
<1> HIDE DEF e
<1>6. w.at \notin OwnerPlaces /\ w.at \notin FollowPlaces
  BY <1>5 DEF Outcomes, OwnerPlaces, FollowPlaces
<1>7. Sound(e, Approval(c), GatedId(work[c].id)) \/ ~(Live(work[c].id) \/ Redis)
  <2>1. e.whole => e.by = e.owner /\ (GatedId(work[c].id) => Approval(c).asked = e.attempt)
    BY <1>2, <1>3, <1>4 DEF Fits
  <2>2. ~Redis /\ Live(work[c].id) => e.whole
    BY <1>3, <1>4 DEF Sound, Live, Exec
  <2> QED BY <1>1, <1>3, <1>4, <2>1, <2>2 DEF Sound
<1>8. approvals' = [approvals EXCEPT ![work[c].id] = Approval(c)] /\ Approval(c).asked >= Approval(c).asked
  BY <1>1, <1>3 DEF Approval, ApprovalRow, OpInv, OpTypeOK
<1>9. Update(work[c].id, e)
  BY <1>1 DEF e
<1>10. /\ Decided(Approval(c)) => Approval(c).of = Approval(c).asked
       /\ ~Redis => /\ Approval(c).status # "pending" => Approval(c).note \in {0, Approval(c).asked}
                    /\ Decided(Approval(c)) => Approval(c).resolver
  BY <1>3 DEF Sound
<1> QED BY <1>1, <1>2, <1>3, <1>4, <1>5, <1>6, <1>7, <1>8, <1>9, <1>10, OwnerUpdates

LEMMA DecideIsDecides ==
  ASSUME OpInv
  PROVE  /\ \A id \in Ids, approved, reason \in BOOLEAN : Decide(id, approved, reason) => Decides
         /\ DeskWrites => Decides
<1>1. ASSUME NEW id \in Ids, NEW approved \in BOOLEAN, NEW reason \in BOOLEAN,
             Decide(id, approved, reason)
      PROVE  Decides
  BY <1>1 DEF Decide, Decides, people
<1>2. ASSUME DeskWrites PROVE Decides
  <2>1. desk.id \in Ids /\ desk.approved \in BOOLEAN /\ desk.reason \in BOOLEAN
    BY <1>2 DEF DeskWrites, OpInv, OpTypeOK
  <2> QED BY <1>2, <2>1 DEF DeskWrites, Decides
<1> QED BY <1>1, <1>2

LEMMA WaitingIsWaits ==
  ASSUME OpInv
  PROVE  /\ \A id \in Ids, approved, reason \in BOOLEAN : DeskChecks(id, approved, reason) => Waits
         /\ ClearStarts \/ ClearEnds => Waits
<1>1. ASSUME NEW id \in Ids, NEW approved \in BOOLEAN, NEW reason \in BOOLEAN,
             DeskChecks(id, approved, reason)
      PROVE  Waits
  BY <1>1 DEF DeskChecks, Waits, OpInv, OpTypeOK
<1>2. ClearStarts => Waits
  BY DEF ClearStarts, Waits
<1>3. ClearEnds => Waits
  BY DEF ClearEnds, Waits, NoWipe
<1> QED BY <1>1, <1>2, <1>3

LEMMA ClearIsWipes ==
  ASSUME OpInv
  PROVE  /\ ClearTables => Wipes
         /\ \A key \in RedisKeys : ClearDeletes(key) => Wipes
<1>1. ASSUME ClearTables PROVE Wipes
  <2>1. /\ keys' = [t \in Tools |-> IF t \in Tools THEN None ELSE keys[t]]
        /\ execs' = [id \in Ids |-> IF id \in Ids THEN NoExec ELSE execs[id]]
        /\ approvals' = [id \in Ids |-> IF id \in Ids
                           THEN [NoApproval EXCEPT !.asked = approvals[id].asked] ELSE approvals[id]]
    BY <1>1 DEF ClearTables
  <2>2. wipe'.at # "scanning" /\ UNCHANGED <<vars, born, work, setting, desk>>
    BY <1>1 DEF ClearTables, NoWipe
  <2> QED BY <2>1, <2>2 DEF Wipes
<1>2. ASSUME NEW key \in RedisKeys, ClearDeletes(key) PROVE Wipes
  <2> DEFINE K == {t \in Tools : key = <<"key", t>>}
             E == {id \in Ids : key = <<"exec", id>>}
             A == {id \in Ids : key = <<"approval", id>>}
  <2>1. /\ keys' = [t \in Tools |-> IF t \in K THEN None ELSE keys[t]]
        /\ execs' = [id \in Ids |-> IF id \in E THEN NoExec ELSE execs[id]]
        /\ approvals' = [id \in Ids |-> IF id \in A
                           THEN [NoApproval EXCEPT !.asked = approvals[id].asked] ELSE approvals[id]]
    BY <1>2 DEF ClearDeletes
  <2>2. Redis /\ (wipe'.at = "scanning" => Redis)
    BY <1>2 DEF ClearDeletes, OpInv, OpTypeOK
  <2>3. UNCHANGED <<vars, born, work, setting, desk>>
    BY <1>2, ClearKeepsControls DEF ClearDeletes
  <2> QED BY <2>1, <2>2, <2>3 DEF Wipes
<1> QED BY <1>1, <1>2
-----------------------------------------------------------------------------
(* The invariant.                                                          *)

LEMMA OpInitHolds == OpInit => OpInv
<1> SUFFICES ASSUME OpInit PROVE OpInv
  OBVIOUS
<1>1. TypeOK
  BY InitHolds DEF OpInit, KInv
<1>2. NoExec \in ExecRow /\ NoApproval \in ApprovalRow /\ NoWork \in Work
  BY DEF NoExec, ExecRow, Shown, NoApproval, ApprovalRow, NoWork, Work
<1>3. setting \in Setting
  BY OperatorsAssumption DEF OpInit
<1>4. OpTypeOK
  BY <1>2, <1>3, BoundAssumption DEF OpInit, Init, OpTypeOK, NoWipe
<1>5. AllSound
  BY DEF OpInit, AllSound, Sound, Decided, NoExec, NoApproval
<1>6. AllPlaced
  BY DEF OpInit, AllPlaced, Placed, NoWork, Told, OwnerPlaces, FollowPlaces
<1>7. Alone /\ Fresh /\ Keyed
  BY DEF OpInit, Alone, Fresh, Keyed, Live, NoWork, OwnerPlaces, NoApproval, NoExec
<1> QED BY <1>1, <1>4, <1>5, <1>6, <1>7 DEF OpInv

LEMMA SwitchTypes ==
  ASSUME TypeOK, [Next]_vars
  PROVE  TypeOK'
<1> USE KillSwitchAssumption DEF TypeOK, Places
<1>1. ASSUME NEW key \in Tools \cup {All}, Pause(key) \/ Resume(key)
      PROVE  TypeOK'
  BY <1>1 DEF Pause, Resume, Write, Checking, At
<1>2. ASSUME NEW c \in Callers, NEW tool \in Tools, Call(c, tool)
      PROVE  TypeOK'
  BY <1>2 DEF Call, Paused
<1>3. ASSUME NEW c \in Callers, ReadAll(c) \/ ReadTool(c) \/ Return(c)
      PROVE  TypeOK'
  BY <1>3 DEF ReadAll, ReadTool, Return, GoTo, history
<1>4. UNCHANGED vars => TypeOK'
  BY DEF vars, history
<1> QED BY <1>1, <1>2, <1>3, <1>4 DEF Next

LEMMA OwnerIsWrites ==
  ASSUME OpInv, NEW c \in Callers, Ask(c) \/ StartFunction(c) \/ Complete(c) \/ Fail(c)
  PROVE  Writes(c)
BY MarkIsWrites, OwnerHearsIsWrites, RecordIsWrites DEF Ask

LEMMA OpStep ==
  ASSUME OpInv, [OpNext]_opVars
  PROVE  OpInv'
<1>1. TypeOK'
  BY StepIsKillSwitchStep, SwitchTypes DEF OpInv
<1>2. CASE Switch
  BY <1>1, <1>2, SwitchKeeps
<1>3. ASSUME NEW c \in Callers, Acquire(c) PROVE OpInv'
  BY <1>3, NewIsWins, RetriesIsWins, AnswersIsLooks, WinsKeep, LooksKeep DEF Acquire
<1>4. ASSUME NEW c \in Callers, Ask(c) \/ StartFunction(c) \/ Complete(c) \/ Fail(c) PROVE OpInv'
  BY <1>4, OwnerIsWrites, WritesKeep
<1>5. ASSUME NEW c \in Callers, Follow(c) PROVE OpInv'
  BY <1>5, FollowIsLooks, LooksKeep
<1>6. ASSUME NEW c \in Callers, CallReturns(c) PROVE OpInv'
  BY <1>1, <1>6, ReturnsKeep
<1>7. ASSUME NEW id \in Ids, NEW approved \in BOOLEAN, NEW reason \in BOOLEAN,
             Decide(id, approved, reason) \/ DeskChecks(id, approved, reason)
      PROVE  OpInv'
  BY <1>7, DecideIsDecides, DecidesKeep, WaitingIsWaits, WaitsKeep
<1>8. CASE DeskWrites
  BY <1>8, DecideIsDecides, DecidesKeep
<1>9. CASE Clear
  BY <1>9, WaitingIsWaits, WaitsKeep, ClearIsWipes, WipesKeep DEF Clear
<1>10. CASE UNCHANGED opVars
  <2>1. UNCHANGED <<vars, setting, keys, execs, approvals, born, work, desk, wipe>> /\ caller' = caller
    BY <1>10 DEF opVars, store, people, vars
  <2>2. Waits
    BY <2>1 DEF Waits, store, OpInv, OpTypeOK
  <2> QED BY <2>2, WaitsKeep
<1> QED BY <1>2, <1>3, <1>4, <1>5, <1>6, <1>7, <1>8, <1>9, <1>10 DEF OpNext

\* Work and rows fit each other in every state.
THEOREM WorkFitsRows == OpSpec => []OpInv
<1>1. OpInv /\ [OpNext]_opVars => OpInv'
  BY OpStep
<1> QED BY <1>1, OpInitHolds, PTL DEF OpSpec

\* A gated function runs only on a decision taken after the request of this very
\* attempt was in the store, whatever is decided, cleared and shown meanwhile.
THEOREM ApprovedBeforeRunAlways == OpSpec => []ApprovedBeforeRun
<1>1. OpInv => ApprovedBeforeRun
  <2> SUFFICES ASSUME OpInv, NEW c \in Callers, In(c, "function"), NeedsApproval(c)
               PROVE  work[c].heard = work[c].attempt
    BY DEF ApprovedBeforeRun
  <2>1. work[c].at = "function" /\ work[c].at \in OwnerPlaces
    BY DEF In, OwnerPlaces
  <2>2. GatedId(work[c].id) /\ Fits(c, work[c], Exec(c), Approval(c), GatedId(work[c].id))
    BY <2>1, WorkFacts DEF NeedsApproval, GatedId
  <2> QED BY <2>1, <2>2 DEF Fits
<1> QED BY <1>1, WorkFitsRows, PTL

LEMMA InvToldRight == OpInv => NoStaleRejection /\ ReasonIsOfThisRejection
<1> SUFFICES ASSUME OpInv PROVE NoStaleRejection /\ ReasonIsOfThisRejection
  OBVIOUS
<1>1. \A c \in Callers : Told(work[c])
  BY DEF OpInv, AllPlaced, Placed
<1> QED BY <1>1 DEF NoStaleRejection, ReasonIsOfThisRejection, Told, In

\* On the SQL backends nobody is told of the rejection of an earlier attempt.
THEOREM NoStaleRejectionAlways == OpSpec => []NoStaleRejection
  BY WorkFitsRows, InvToldRight, PTL

\* On the SQL backends the reason that comes with a rejection was given for it.
THEOREM ReasonIsOfThisRejectionAlways == OpSpec => []ReasonIsOfThisRejection
  BY WorkFitsRows, InvToldRight, PTL

\* Late owners, of executions that are retried or cleared meanwhile, leave no
\* outcome on what others own.
THEOREM OutcomeIsOwnersAlways == OpSpec => []OutcomeIsOwners
<1>1. OpInv => OutcomeIsOwners
  BY DEF OpInv, AllSound, Sound, OutcomeIsOwners
<1> QED BY <1>1, WorkFitsRows, PTL

\* On the SQL backends what is stored after a clear is whole, and its key leads to it.
THEOREM ClearLeavesNoWreckAlways == OpSpec => []ClearLeavesNoWreck
<1>1. OpInv => ClearLeavesNoWreck
  BY DEF OpInv, AllSound, Sound, Keyed, ClearLeavesNoWreck, Live
<1> QED BY <1>1, WorkFitsRows, PTL

\* What is asked for on the SQL backends is asked for by the owner of a running row.
LEMMA RequestsAreOfRunning ==
  ASSUME OpInv, ~Redis, NEW c \in Callers, Ask(c)
  PROVE  \/ approvals' = approvals
         \/ \A id \in Ids : approvals'[id] = approvals[id] \/ execs[id].status \in {"RUNNING", "none"}
<1>1. CASE MarkWaiting(c)
  <2>1. work[c].at = "owner" /\ work[c].at \in OwnerPlaces
    BY <1>1 DEF MarkWaiting, In, OwnerPlaces
  <2>2. /\ work[c].id \in Ids /\ Exec(c) \in ExecRow
        /\ Fits(c, work[c], Exec(c), Approval(c), GatedId(work[c].id))
        /\ Sound(Exec(c), Approval(c), GatedId(work[c].id))
    BY <2>1, WorkFacts
  <2>3. Exec(c).status \in {"RUNNING", "none"}
    BY <2>1, <2>2 DEF Fits, Sound
  <2>4. \A id \in Ids : id # work[c].id => approvals'[id] = approvals[id]
    BY <1>1, <2>2 DEF MarkWaiting, Pending, OpInv, OpTypeOK
  <2> QED BY <2>3, <2>4 DEF Exec
<1>2. CASE MarkPending(c) \/ MarkUnresolved(c)
  <2>1. work[c].at \in {"marked", "asked"} /\ work[c].at \in OwnerPlaces
    BY <1>2 DEF MarkPending, MarkUnresolved, In, OwnerPlaces
  <2>2. Fits(c, work[c], Exec(c), Approval(c), GatedId(work[c].id))
    BY <2>1, WorkFacts
  <2> QED BY <2>1, <2>2 DEF Fits
<1>3. CASE ~MarkWaiting(c) /\ ~MarkPending(c) /\ ~MarkUnresolved(c)
  BY <1>3 DEF Ask, MarkWaitingRaises, MarkStatus, OwnerSeesApproved, OwnerSeesRejected, ReadNote,
              Decline, Record, OwnerGivesUpApproval, store
<1> QED BY <1>1, <1>2, <1>3

LEMMA DecisionStep ==
  ASSUME OpInv, [OpNext]_opVars, NEW id \in Ids, ~Redis, execs[id].status = "WAITING_APPROVAL",
         approvals[id].status \in {"approved", "rejected"}
  PROVE  \/ approvals'[id].status = "none"
         \/ approvals'[id].status # "pending" /\ approvals'[id].resolver
<1>1. approvals[id].resolver
  BY DEF OpInv, AllSound, Sound, Decided
<1>2. CASE approvals'[id] = approvals[id]
  BY <1>1, <1>2
<1>3. CASE Decides
  <2>1. PICK i \in Ids, approved \in BOOLEAN, reason \in BOOLEAN : Resolve(i, approved, reason)
    BY <1>3 DEF Decides
  <2>2. CASE i = id
    BY <2>1, <2>2 DEF Resolve, Resolved, OpInv, OpTypeOK, ApprovalRow
  <2>3. CASE i # id
    BY <1>2, <2>1, <2>3 DEF Resolve, OpInv, OpTypeOK
  <2> QED BY <2>2, <2>3
<1>4. CASE ClearTables
  BY <1>4 DEF ClearTables, NoApproval
<1>5. CASE \E key \in RedisKeys : ClearDeletes(key)
  BY <1>5 DEF ClearDeletes, OpInv, OpTypeOK
<1>6. CASE Switch \/ ClearStarts \/ ClearEnds \/ UNCHANGED opVars
  BY <1>2, <1>6 DEF Switch, ClearStarts, ClearEnds, opVars, store
<1>7. ASSUME NEW c \in Callers, Ask(c)
      PROVE  approvals'[id] = approvals[id]
  BY <1>7, RequestsAreOfRunning
<1>8. ASSUME NEW c \in Callers,
             Acquire(c) \/ Follow(c) \/ StartFunction(c) \/ Complete(c) \/ Fail(c) \/ CallReturns(c)
      PROVE  approvals' = approvals
  <2>1. Acquire(c) => approvals' = approvals
    BY DEF Acquire, AcquireNew, AcquireRetries, AcquireAnswers, AcquireFindsWreck, store
  <2>2. Follow(c) => approvals' = approvals
    BY DEF Follow, FollowerSeesApproved, FollowerSeesRejected, FollowerSeesOutcome, FollowerGivesUp,
           store
  <2>3. StartFunction(c) \/ Complete(c) \/ Fail(c) \/ CallReturns(c) => approvals' = approvals
    BY DEF StartFunction, Complete, Fail, Record, CallReturns, store
  <2> QED BY <1>8, <2>1, <2>2, <2>3
<1>9. ASSUME NEW i \in Ids, NEW approved \in BOOLEAN, NEW reason \in BOOLEAN,
             DeskChecks(i, approved, reason)
      PROVE  approvals' = approvals
  BY <1>9 DEF DeskChecks, store
<1> QED BY <1>2, <1>3, <1>4, <1>5, <1>6, <1>7, <1>8, <1>9, DecideIsDecides DEF OpNext, Clear

\* On the SQL backends a decision on a waiting execution is not undone, and it stays
\* known who took it.
THEOREM DecisionStandsAlways == OpSpec => DecisionStands
<1>1. OpInv /\ [OpNext]_opVars =>
        [\A id \in Ids :
           /\ ~Redis /\ execs[id].status = "WAITING_APPROVAL"
           /\ approvals[id].status \in {"approved", "rejected"}
           => \/ approvals'[id].status = "none"
              \/ approvals'[id].status # "pending" /\ approvals'[id].resolver]_opVars
  BY DecisionStep
<1> QED BY <1>1, WorkFitsRows, PTL DEF OpSpec, DecisionStands
=============================================================================
