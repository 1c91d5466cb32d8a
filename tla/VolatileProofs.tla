--------------------------- MODULE VolatileProofs ---------------------------
(* Proofs about Volatile, for any number of callers, retries and slots.    *)
EXTENDS Volatile, FiniteSetTheorems, TLAPS

(***************************************************************************)
(* No action but the acquisition looks at another call, so the invariant   *)
(* is about one call c: its rows r, its place p, what a thread owes it, l, *)
(* and the starts n of its function.                                       *)
(***************************************************************************)

\* Where a call has an attempt.
Attempting ==
  {"owner", "asks", "approval", "refused", "function", "complete", "fail", "caught", "value"}

\* How many attempts and starts there are, and there may still be.
Counted(r, p, l, n) ==
  /\ n <= Len(r) /\ Len(r) <= MaxRetries + 1
  /\ p = "idle" => Len(r) = 0
  /\ p = "acquire" \/ l = "acquire_or_get" => Len(r) <= MaxRetries
  /\ p \in {"owner", "asks", "approval"} => n < Len(r)
  /\ p \in Attempting \/ l \notin {"none", "acquire_or_get"} => Len(r) > 0
  /\ l # "none" => p = "cancelled"

\* Where a row may be RUNNING or SUCCEEDED.
Slotted(c, r, p, l) ==
  c \notin Async \cap Untimed =>
    \A i \in 1..Len(r) : r[i].status = "RUNNING" /\ ~r[i].lost =>
      /\ i = Len(r)
      /\ p \in {"owner", "asks", "function", "complete", "fail", "dead", "cancelled"}
      /\ l # "acquire_or_get"

Succeeded(r, p, l) ==
  /\ \A i \in 1..Len(r) : r[i].status = "SUCCEEDED" =>
       i = Len(r) /\ p \in {"value", "cancelled"} /\ l # "acquire_or_get"
  /\ p = "value" => r[Len(r)].status = "SUCCEEDED"

\* Which spans are open where.
Traced(c, r, p, l) ==
  /\ \A i \in 1..Len(r) :
       /\ r[i].span = "ok" => r[i].status = "SUCCEEDED"
       /\ r[i].span = "error" => r[i].status = "FAILED"
       /\ r[i].span = "open" /\ c \notin Async \cap Untimed =>
            \/ r[i].status = "WAITING_APPROVAL" \/ r[i].lost
            \/ /\ i = Len(r) /\ l # "acquire_or_get"
               /\ p \in {"asks", "function", "complete", "fail", "dead", "cancelled"}
  /\ p = "owner" => r[Len(r)].span = "none"
  /\ p \in {"asks", "approval", "refused", "function", "complete", "fail"} =>
       r[Len(r)].span = "open"
  /\ p \in {"approval", "refused"} => r[Len(r)].status = "WAITING_APPROVAL"
  /\ l \notin {"none", "acquire_or_get"} => r[Len(r)].span \in {"none", "open"}

Good(c, r, p, l, n) ==
  /\ r \in Seq(Row) /\ p \in Places /\ l \in StoreCalls \cup {"none"} /\ n \in Nat
  /\ l # "none" => c \in Async
  /\ Counted(r, p, l, n) /\ Slotted(c, r, p, l) /\ Succeeded(r, p, l) /\ Traced(c, r, p, l)

VInv ==
  /\ TypeOK
  /\ \A c \in Callers : Good(c, rows[c], at[c], late[c], ran[c])

LEMMA GoodInit == Init => VInv
BY VolatileAssumption DEF Init, VInv, TypeOK, Good, Counted, Slotted, Succeeded, Traced,
   Places, StoreCalls, Attempting

-----------------------------------------------------------------------------
(* What becomes of the sequence of rows.                                   *)

LEMMA RowChanges ==
  ASSUME NEW row \in Row
  PROVE  /\ \A status \in Statuses : [row EXCEPT !.status = status] \in Row
         /\ \A span \in {"open", "ok", "error"} :
              /\ [row EXCEPT !.span = span] \in Row
              /\ \A status \in Statuses :
                   [row EXCEPT !.status = status, !.span = span] \in Row
         /\ [row EXCEPT !.lost = TRUE] \in Row
         /\ \A approval \in {"pending", "approved", "rejected"} :
              [row EXCEPT !.approval = approval] \in Row
BY DEF Row

LEMMA WriteFacts ==
  ASSUME NEW r \in Seq(Row), Len(r) > 0, NEW row \in Row, NEW s, s = [r EXCEPT ![Len(r)] = row]
  PROVE  /\ s \in Seq(Row) /\ Len(s) = Len(r) /\ s[Len(s)] = row
         /\ \A i \in 1..Len(s) : i # Len(s) => s[i] = r[i]
OBVIOUS

LEMMA AppendFacts ==
  ASSUME NEW r \in Seq(Row), NEW row \in Row, NEW s, s = Append(r, row)
  PROVE  /\ s \in Seq(Row) /\ Len(s) = Len(r) + 1 /\ s[Len(s)] = row
         /\ \A i \in 1..Len(s) : i # Len(s) => s[i] = r[i] /\ i \in 1..Len(r)
OBVIOUS

-----------------------------------------------------------------------------
(* A step of the call c leaves it with the rows s, at the place q, with l  *)
(* owed to it and after n starts.                                          *)

Leaves(c, s, q, l, n) ==
  /\ rows' = [rows EXCEPT ![c] = s] /\ at' = [at EXCEPT ![c] = q]
  /\ late' = [late EXCEPT ![c] = l] /\ ran' = [ran EXCEPT ![c] = n]

LEMMA GoodLeaves ==
  ASSUME VInv, NEW c \in Callers, NEW s, NEW q, NEW l, NEW n,
         Leaves(c, s, q, l, n), Good(c, s, q, l, n)
  PROVE  VInv'
<1>1. TypeOK'
  BY DEF VInv, TypeOK, Leaves, Good
<1>2. ASSUME NEW d \in Callers PROVE Good(d, rows'[d], at'[d], late'[d], ran'[d])
  <2>1. CASE d = c
    BY <2>1 DEF VInv, TypeOK, Leaves
  <2>2. CASE d # c
    BY <2>2 DEF VInv, TypeOK, Leaves
  <2> QED BY <2>1, <2>2
<1> QED BY <1>1, <1>2 DEF VInv

\* What holds of c before any step.
LEMMA GoodBefore ==
  ASSUME VInv, NEW c \in Callers
  PROVE  /\ Good(c, rows[c], at[c], late[c], ran[c])
         /\ rows = [rows EXCEPT ![c] = rows[c]] /\ at = [at EXCEPT ![c] = at[c]]
         /\ late = [late EXCEPT ![c] = late[c]] /\ ran = [ran EXCEPT ![c] = ran[c]]
BY DEF VInv, TypeOK

Ended == {"idle", "value", "raised", "dead", "cancelled"}

\* From some places a call moves on without a look at its rows.
LEMMA GoodMoves ==
  ASSUME NEW c \in Callers, NEW r, NEW p, NEW n, NEW q, Good(c, r, p, "none", n),
         \/ p = "idle" /\ q = "acquire"
         \/ p = "acquire" /\ q = "raised"
         \/ p = "approval" /\ q \in {"caught", "refused"}
         \/ p = "function" /\ q \in {"complete", "fail"}
         \/ p = "function" /\ q = "caught" /\ c \in Async \cap Untimed
         \/ p = "complete" /\ q = "fail"
         \/ p = "caught" /\ q = "raised"
         \/ p = "caught" /\ q = "acquire" /\ Len(r) - 1 < MaxRetries
         \/ p \notin Ended /\ q = "dead"
  PROVE  Good(c, r, q, "none", n)
<1> USE VolatileAssumption
<1>1. Len(r) \in Nat
  BY DEF Good
<1>2. Counted(r, q, "none", n)
  BY <1>1 DEF Good, Counted, Attempting, Ended
<1>3. Slotted(c, r, q, "none")
  BY DEF Good, Slotted, Ended
<1>4. Succeeded(r, q, "none")
  BY DEF Good, Succeeded, Ended
<1>5. Traced(c, r, q, "none")
  BY DEF Good, Traced, Ended
<1> QED BY <1>2, <1>3, <1>4, <1>5 DEF Good, Places

\* The next attempt, of the call or of a thread it has left.
LEMMA GoodAppends ==
  ASSUME NEW c \in Callers, NEW r, NEW p, NEW l, NEW n, NEW s, NEW q, Good(c, r, p, l, n),
         s = Append(r, NewRow),
         \/ p = "acquire" /\ q = "owner"
         \/ l = "acquire_or_get" /\ q = p
  PROVE  Good(c, s, q, "none", n)
<1> USE VolatileAssumption
<1>1. /\ s \in Seq(Row) /\ Len(s) = Len(r) + 1 /\ s[Len(s)] = NewRow /\ Len(r) \in Nat
      /\ \A i \in 1..Len(s) : i # Len(s) => s[i] = r[i] /\ i \in 1..Len(r)
  <2>1. r \in Seq(Row) /\ NewRow \in Row
    BY DEF Good, NewRow, Row, Statuses
  <2> QED BY <2>1, AppendFacts
<1>2. l # "none" => p = "cancelled" /\ c \in Async
  BY DEF Good, Counted
<1>3. Counted(s, q, "none", n)
  BY <1>1, <1>2 DEF Good, Counted, Attempting
<1>4. Slotted(c, s, q, "none")
  BY <1>1, <1>2 DEF Good, Slotted, NewRow
<1>5. Succeeded(s, q, "none")
  BY <1>1, <1>2 DEF Good, Succeeded, NewRow
<1>6. Traced(c, s, q, "none")
  BY <1>1, <1>2 DEF Good, Traced, NewRow
<1> QED BY <1>1, <1>3, <1>4, <1>5, <1>6 DEF Good, Places

\* The last row is written and the call goes where that is told.
LEMMA GoodWrites ==
  ASSUME NEW c \in Callers, NEW r, NEW p, NEW n, NEW m, NEW s, NEW q, NEW row \in Row,
         Good(c, r, p, "none", n), p \in Attempting, s = [r EXCEPT ![Len(r)] = row],
         \/ /\ p = "owner" /\ q = "raised" /\ m = n
            /\ row.status = "FAILED" /\ row.span = "none"
         \/ /\ p = "owner" /\ q = "function" /\ m = n + 1
            /\ row.span = "open" /\ row.status = r[Len(r)].status
         \/ /\ p = "owner" /\ q = "asks" /\ m = n
            /\ row.span = "open" /\ row.status = r[Len(r)].status
         \/ /\ p = "asks" /\ q = "approval" /\ m = n
            /\ row.span = "open" /\ row.status = "WAITING_APPROVAL"
         \/ /\ p \in {"fail", "refused"} /\ q = "caught" /\ m = n
            /\ row.status = "FAILED" /\ row.span = "error"
         \/ /\ \/ p \in {"asks", "fail", "refused"} /\ q = "caught"
               \/ p = "owner" /\ q = "raised"
            /\ m = n /\ row.lost
            /\ row.span = r[Len(r)].span /\ row.status = r[Len(r)].status
         \/ /\ p = "complete" /\ q = "value" /\ m = n
            /\ row.status = "SUCCEEDED" /\ row.span = "ok"
  PROVE  Good(c, s, q, "none", m)
<1> USE VolatileAssumption
<1>1. /\ s \in Seq(Row) /\ Len(s) = Len(r) /\ s[Len(s)] = row /\ Len(r) \in Nat /\ n \in Nat
      /\ \A i \in 1..Len(s) : i # Len(s) => s[i] = r[i]
  <2>1. r \in Seq(Row) /\ Len(r) > 0 /\ n \in Nat
    BY DEF Good, Counted
  <2> QED BY <2>1, WriteFacts
<1>2. Counted(s, q, "none", m)
  BY <1>1 DEF Good, Counted, Attempting
<1>3. Slotted(c, s, q, "none")
  BY <1>1 DEF Good, Slotted
<1>4. Succeeded(s, q, "none")
  BY <1>1 DEF Good, Succeeded
<1>5. Traced(c, s, q, "none")
  BY <1>1 DEF Good, Traced
<1> QED BY <1>1, <1>2, <1>3, <1>4, <1>5 DEF Good, Places

\* A thread of a cancelled task writes the last row.
LEMMA GoodWritesLate ==
  ASSUME NEW c \in Callers, NEW r, NEW p, NEW l, NEW n, NEW s, NEW row \in Row,
         Good(c, r, p, l, n), l \notin {"none", "acquire_or_get"},
         s = [r EXCEPT ![Len(r)] = row], row.span = r[Len(r)].span,
         row.status \in {"WAITING_APPROVAL", "SUCCEEDED", "FAILED"}
  PROVE  Good(c, s, p, "none", n)
<1> USE VolatileAssumption
<1>1. p = "cancelled" /\ c \in Async /\ Len(r) > 0 /\ r[Len(r)].span \in {"none", "open"} /\ r \in Seq(Row)
  BY DEF Good, Counted, Traced
<1>2. /\ s \in Seq(Row) /\ Len(s) = Len(r) /\ s[Len(s)] = row /\ Len(r) \in Nat
      /\ \A i \in 1..Len(s) : i # Len(s) => s[i] = r[i]
  BY <1>1, WriteFacts
<1>3. Counted(s, p, "none", n)
  BY <1>1, <1>2 DEF Good, Counted, Attempting
<1>4. Slotted(c, s, p, "none")
  BY <1>1, <1>2 DEF Good, Slotted
<1>5. Succeeded(s, p, "none")
  BY <1>1, <1>2 DEF Good, Succeeded
<1>6. Traced(c, s, p, "none")
  BY <1>1, <1>2 DEF Good, Traced
<1> QED BY <1>1, <1>2, <1>3, <1>4, <1>5, <1>6 DEF Good, Places

\* A decision is none of the fields that the invariant is about.
LEMMA GoodDecided ==
  ASSUME NEW c \in Callers, NEW r, NEW p, NEW l, NEW n, Good(c, r, p, l, n),
         NEW s \in Seq(Row), Len(s) = Len(r),
         \A i \in 1..Len(r) :
           s[i].status = r[i].status /\ s[i].span = r[i].span /\ s[i].lost = r[i].lost
  PROVE  Good(c, s, p, l, n)
<1>1. Len(r) \in Nat
  BY DEF Good
<1>2. Len(r) > 0 \/ ~(p \in Attempting \/ l \notin {"none", "acquire_or_get"})
  BY DEF Good, Counted
<1>3. Counted(s, p, l, n) /\ Slotted(c, s, p, l)
  BY <1>1 DEF Good, Counted, Slotted
<1>4. Succeeded(s, p, l)
  BY <1>1, <1>2 DEF Good, Succeeded, Attempting
<1>5. Traced(c, s, p, l)
  BY <1>1, <1>2 DEF Good, Traced, Attempting
<1> QED BY <1>3, <1>4, <1>5 DEF Good
-----------------------------------------------------------------------------
(* Every step of Volatile is a step of one call.                           *)

\* The steps that leave the rows alone.
LEMMA MoveStep ==
  ASSUME VInv, NEW c \in Callers,
         \/ Run(c) \/ AcquireGivesUp(c) \/ OwnerSeesRejected(c) \/ OwnerGivesUpApproval(c)
         \/ FunctionReturns(c) \/ FunctionRaises(c) \/ AsyncFunctionRaisesTimeout(c)
         \/ CompleteRaises(c) \/ Retry(c) \/ Die(c)
  PROVE  VInv'
<1> DEFINE r == rows[c]  p == at[c]  n == ran[c]
<1>1. Good(c, r, p, late[c], n) /\ Len(r) \in Nat
  BY GoodBefore DEF Good
<1>2. p # "cancelled"
  BY DEF Run, AcquireGivesUp, OwnerSeesRejected, OwnerGivesUpApproval, FunctionReturns,
     FunctionRaises, AsyncFunctionRaisesTimeout, CompleteRaises, Retry, Die
<1>3. late[c] = "none"
  BY <1>1, <1>2 DEF Good, Counted
<1>4. PICK q : /\ GoTo(c, q) /\ UNCHANGED <<rows, late, ran>>
               /\ \/ p = "idle" /\ q = "acquire"
                  \/ p = "acquire" /\ q = "raised"
                  \/ p = "approval" /\ q \in {"caught", "refused"}
                  \/ p = "function" /\ q \in {"complete", "fail"}
                  \/ p = "function" /\ q = "caught" /\ c \in Async \cap Untimed
                  \/ p = "complete" /\ q = "fail"
                  \/ p = "caught" /\ q = "raised"
                  \/ p = "caught" /\ q = "acquire" /\ Len(r) - 1 < MaxRetries
                  \/ p \notin Ended /\ q = "dead"
  <2>1. CASE Run(c) \/ AcquireGivesUp(c) \/ OwnerSeesRejected(c) \/ OwnerGivesUpApproval(c)
    BY <2>1 DEF Run, AcquireGivesUp, OwnerSeesRejected, OwnerGivesUpApproval
  <2>2. CASE FunctionReturns(c) \/ FunctionRaises(c) \/ AsyncFunctionRaisesTimeout(c)
    BY <2>2 DEF FunctionReturns, FunctionRaises, AsyncFunctionRaisesTimeout
  <2>3. CASE CompleteRaises(c) \/ Die(c)
    BY <2>3 DEF CompleteRaises, Die, Ended
  <2>4. CASE Retry(c)
    <3>1. CASE Len(r) - 1 >= MaxRetries
      BY <2>4, <3>1 DEF Retry
    <3>2. CASE ~(Len(r) - 1 >= MaxRetries)
      <4>1. Len(r) - 1 < MaxRetries
        BY <1>1, <3>2, VolatileAssumption
      <4> QED BY <2>4, <3>2, <4>1 DEF Retry
    <3> QED BY <3>1, <3>2
  <2> QED BY <2>1, <2>2, <2>3, <2>4
<1>5. Good(c, r, q, "none", n)
  BY <1>1, <1>3, <1>4, GoodMoves
<1>6. Leaves(c, r, q, "none", n)
  BY <1>3, <1>4, GoodBefore DEF Leaves, GoTo
<1> QED BY <1>5, <1>6, GoodLeaves

\* A cancelled task may leave a thread behind.
LEMMA CancelStep ==
  ASSUME VInv, NEW c \in Callers, Cancel(c)
  PROVE  VInv'
<1> USE VolatileAssumption
<1> DEFINE r == rows[c]  p == at[c]  n == ran[c]
<1>1. Good(c, r, p, late[c], n) /\ Len(r) \in Nat
  BY GoodBefore DEF Good
<1>2. c \in Async /\ p \notin Ended /\ GoTo(c, "cancelled") /\ UNCHANGED <<rows, ran>>
  BY DEF Cancel, Ended
<1>3. PICK call \in StoreCalls \cup {"none"} :
        /\ call = "acquire_or_get" => p = "acquire"
        /\ call = "mark_waiting_approval" => p = "asks"
        /\ call = "complete" => p = "complete"
        /\ call = "fail" => p \in {"refused", "fail"} \/ (p = "owner" /\ Limited)
        /\ late' = [late EXCEPT ![c] = call]
  BY DEF Cancel
<1>4. /\ call \notin {"none", "acquire_or_get"} => p \in {"owner", "asks", "refused", "complete", "fail"}
      /\ call = "acquire_or_get" => p = "acquire"
  BY <1>3 DEF StoreCalls
<1>5. Counted(r, "cancelled", call, n)
  BY <1>1, <1>2, <1>4 DEF Good, Counted, Attempting, Ended
<1>6. Slotted(c, r, "cancelled", call)
  BY <1>1, <1>2, <1>4 DEF Good, Slotted, Ended
<1>7. Succeeded(r, "cancelled", call)
  BY <1>1, <1>2, <1>4 DEF Good, Succeeded, Ended
<1>8. Traced(c, r, "cancelled", call)
  BY <1>1, <1>2, <1>4 DEF Good, Traced, Ended
<1>9. Good(c, r, "cancelled", call, n)
  BY <1>1, <1>2, <1>5, <1>6, <1>7, <1>8 DEF Good, Places
<1>10. Leaves(c, r, "cancelled", call, n)
  BY <1>2, <1>3, GoodBefore DEF Leaves, GoTo
<1> QED BY <1>9, <1>10, GoodLeaves

\* An owner writes its row, or the store raises instead.
LEMMA WriteStep ==
  ASSUME VInv, NEW c \in Callers,
         \/ LimitsRefuse(c) \/ LimitsRaise(c) \/ StartFunction(c) \/ StartGated(c)
         \/ MarkWaiting(c) \/ Complete(c) \/ Fail(c) \/ WriteRaises(c)
  PROVE  VInv'
<1> DEFINE r == rows[c]  p == at[c]  n == ran[c]
<1>1. Good(c, r, p, late[c], n)
  BY GoodBefore
<1>2. p \in Attempting /\ p # "cancelled"
  BY DEF LimitsRefuse, LimitsRaise, StartFunction, StartGated, MarkWaiting, Complete, Fail,
     WriteRaises, Attempting
<1>3. late[c] = "none"
  BY <1>1, <1>2 DEF Good, Counted
<1>4. Last(c) \in Row /\ Last(c) = r[Len(r)] /\ n \in Nat
  BY <1>1, <1>2 DEF Good, Counted, Last
<1>5. /\ p = "owner" => Last(c).span = "none"
      /\ p \in {"asks", "refused", "complete", "fail"} => Last(c).span = "open"
  BY <1>1, <1>4 DEF Good, Traced
<1>6. PICK row \in Row, q \in Places, m \in Nat :
        /\ Write(c, row) /\ GoTo(c, q) /\ ran' = [ran EXCEPT ![c] = m] /\ UNCHANGED late
        /\ \/ /\ p = "owner" /\ q = "raised" /\ m = n
              /\ row.status = "FAILED" /\ row.span = "none"
           \/ /\ p = "owner" /\ q = "function" /\ m = n + 1
              /\ row.span = "open" /\ row.status = r[Len(r)].status
           \/ /\ p = "owner" /\ q = "asks" /\ m = n
              /\ row.span = "open" /\ row.status = r[Len(r)].status
           \/ /\ p = "asks" /\ q = "approval" /\ m = n
              /\ row.span = "open" /\ row.status = "WAITING_APPROVAL"
           \/ /\ p \in {"fail", "refused"} /\ q = "caught" /\ m = n
              /\ row.status = "FAILED" /\ row.span = "error"
           \/ /\ \/ p \in {"asks", "fail", "refused"} /\ q = "caught"
                 \/ p = "owner" /\ q = "raised"
              /\ m = n /\ row.lost
              /\ row.span = r[Len(r)].span /\ row.status = r[Len(r)].status
           \/ /\ p = "complete" /\ q = "value" /\ m = n
              /\ row.status = "SUCCEEDED" /\ row.span = "ok"
  <2> DEFINE failed == [Last(c) EXCEPT !.status = "FAILED"]
             opened == [Last(c) EXCEPT !.span = "open"]
             rejected == [Last(c) EXCEPT !.status = "FAILED", !.span = "error"]
             completed == [Last(c) EXCEPT !.status = "SUCCEEDED", !.span = "ok"]
             kept == [Last(c) EXCEPT !.lost = TRUE]
  <2>1. {failed, opened, Waiting(Last(c)), rejected, completed, kept} \subseteq Row
    <3>1. failed \in Row /\ opened \in Row /\ kept \in Row
      BY <1>4, RowChanges DEF Statuses
    <3>2. rejected \in Row /\ completed \in Row
      BY <1>4, RowChanges DEF Statuses
    <3>3. Waiting(Last(c)) \in Row
      BY <1>4 DEF Waiting, Row, Statuses
    <3> QED BY <3>1, <3>2, <3>3
  <2>2. /\ failed.status = "FAILED" /\ failed.span = Last(c).span
        /\ opened.status = Last(c).status /\ opened.span = "open"
        /\ rejected.status = "FAILED" /\ rejected.span = "error"
        /\ completed.status = "SUCCEEDED" /\ completed.span = "ok"
    BY <1>4 DEF Row
  <2>11. /\ kept.lost /\ kept.status = Last(c).status /\ kept.span = Last(c).span
         /\ Waiting(Last(c)).status = "WAITING_APPROVAL"
         /\ Waiting(Last(c)).span = Last(c).span
    BY <1>4 DEF Row, Waiting
  <2>3. ran = [ran EXCEPT ![c] = n]
    BY GoodBefore
  <2>10. /\ {"raised", "function", "asks", "approval", "caught", "value"} \subseteq Places
         /\ n \in Nat /\ n + 1 \in Nat
    BY <1>4 DEF Places
  <2>4. CASE LimitsRefuse(c)
    BY <2>1, <2>2, <2>3, <2>10, <2>4, <1>5 DEF LimitsRefuse
  <2>5. CASE StartFunction(c)
    <3>1. ran' = [ran EXCEPT ![c] = n + 1]
      BY <2>5 DEF StartFunction
    <3> QED BY <2>1, <2>2, <2>10, <2>5, <3>1, <1>4 DEF StartFunction
  <2>6. CASE MarkWaiting(c)
    BY <2>1, <2>11, <2>3, <2>10, <2>6, <1>5 DEF MarkWaiting
  <2>7. CASE StartGated(c)
    BY <2>1, <2>2, <2>3, <2>10, <2>7, <1>4 DEF StartGated
  <2>8. CASE Complete(c)
    BY <2>1, <2>2, <2>3, <2>10, <2>8 DEF Complete
  <2>9. CASE Fail(c)
    <3>1. Failed(Last(c)) = rejected
      BY <2>9, <1>5 DEF Fail, Failed
    <3> QED BY <2>1, <2>2, <2>3, <2>10, <2>9, <3>1 DEF Fail
  <2>12. CASE WriteRaises(c)
    BY <2>1, <2>11, <2>3, <2>10, <2>12, <1>4 DEF WriteRaises, Lose
  <2>13. CASE LimitsRaise(c)
    BY <2>1, <2>11, <2>3, <2>10, <2>13, <1>4 DEF LimitsRaise, Lose
  <2> QED BY <2>4, <2>5, <2>6, <2>7, <2>8, <2>9, <2>12, <2>13
<1> DEFINE s == [r EXCEPT ![Len(r)] = row]
<1>7. Good(c, s, q, "none", m)
  BY <1>1, <1>2, <1>3, <1>6, GoodWrites
<1>8. rows' = [rows EXCEPT ![c] = s]
  BY <1>6 DEF Write
<1>9. Leaves(c, s, q, "none", m)
  BY <1>3, <1>6, <1>8, GoodBefore DEF Leaves, GoTo
<1> QED BY <1>7, <1>9, GoodLeaves

LEMMA ApprovedStep ==
  ASSUME VInv, NEW c \in Callers, OwnerSeesApproved(c)
  PROVE  VInv'
<1> USE VolatileAssumption
<1> DEFINE r == rows[c]  n == ran[c]
<1>1. Good(c, r, "approval", late[c], n) /\ Len(r) \in Nat /\ n \in Nat
  BY GoodBefore DEF Good, OwnerSeesApproved
<1>2. late[c] = "none"
  BY <1>1 DEF Good, Counted
<1>3. Counted(r, "function", "none", n + 1)
  BY <1>1, <1>2 DEF Good, Counted, Attempting
<1>4. Slotted(c, r, "function", "none") /\ Succeeded(r, "function", "none")
  BY <1>1, <1>2 DEF Good, Slotted, Succeeded
<1>5. Traced(c, r, "function", "none")
  BY <1>1, <1>2 DEF Good, Traced
<1>6. Good(c, r, "function", "none", n + 1)
  BY <1>1, <1>3, <1>4, <1>5 DEF Good, Places
<1>7. Leaves(c, r, "function", "none", n + 1)
  BY <1>2, GoodBefore DEF Leaves, GoTo, OwnerSeesApproved
<1> QED BY <1>6, <1>7, GoodLeaves

LEMMA AcquireStep ==
  ASSUME VInv, NEW c \in Callers, Acquire(c)
  PROVE  VInv'
<1> DEFINE s == Append(rows[c], NewRow)
<1>1. Good(c, rows[c], at[c], late[c], ran[c]) /\ at[c] = "acquire"
  BY GoodBefore DEF Acquire
<1>2. late[c] = "none"
  BY <1>1 DEF Good, Counted
<1>3. Good(c, s, "owner", "none", ran[c])
  BY <1>1, GoodAppends
<1>4. Leaves(c, s, "owner", "none", ran[c])
  BY <1>2, GoodBefore DEF Leaves, GoTo, Acquire
<1> QED BY <1>3, <1>4, GoodLeaves

LEMMA LateStep ==
  ASSUME VInv, NEW c \in Callers, LateCall(c)
  PROVE  VInv'
<1> USE VolatileAssumption
<1> DEFINE r == rows[c]  p == at[c]  l == late[c]  n == ran[c]
<1>1. Good(c, r, p, l, n)
  BY GoodBefore
<1>2. late' = [late EXCEPT ![c] = "none"] /\ UNCHANGED <<at, ran>>
  BY DEF LateCall
<1>3. ASSUME NEW s, rows' = [rows EXCEPT ![c] = s], Good(c, s, p, "none", n)
      PROVE  VInv'
  <2>1. Leaves(c, s, p, "none", n)
    BY <1>2, <1>3, GoodBefore DEF Leaves
  <2> QED BY <1>3, <2>1, GoodLeaves
<1>4. CASE LateAcquire(c)
  <2>1. CASE SlotFree
    <3>1. rows' = [rows EXCEPT ![c] = Append(r, NewRow)]
      BY <1>4, <2>1 DEF LateAcquire
    <3>2. Good(c, Append(r, NewRow), p, "none", n)
      BY <1>1, <1>4, GoodAppends DEF LateAcquire
    <3> QED BY <1>3, <3>1, <3>2
  <2>2. CASE ~SlotFree
    <3>1. rows' = [rows EXCEPT ![c] = r]
      BY <1>4, <2>2, GoodBefore DEF LateAcquire
    <3>2. Good(c, r, p, "none", n)
      BY <1>1 DEF Good, Counted, Slotted, Succeeded, Traced
    <3> QED BY <1>3, <3>1, <3>2
  <2> QED BY <2>1, <2>2
<1>5. CASE LateMark(c) \/ LateComplete(c) \/ LateFail(c)
  <2>1. l \notin {"none", "acquire_or_get"}
    BY <1>5 DEF LateMark, LateComplete, LateFail
  <2>2. Last(c) \in Row /\ Last(c) = r[Len(r)]
    BY <1>1, <2>1 DEF Good, Counted, Last
  <2>3. PICK row \in Row :
          /\ Write(c, row) /\ row.span = Last(c).span
          /\ row.status \in {"WAITING_APPROVAL", "SUCCEEDED", "FAILED"}
    <3> DEFINE marked == Waiting(Last(c))
               completed == [Last(c) EXCEPT !.status = "SUCCEEDED"]
               failed == [Last(c) EXCEPT !.status = "FAILED"]
    <3>1. /\ marked \in Row /\ marked.status = "WAITING_APPROVAL" /\ marked.span = Last(c).span
          /\ completed \in Row /\ completed.status = "SUCCEEDED"
          /\ completed.span = Last(c).span
          /\ failed \in Row /\ failed.status = "FAILED" /\ failed.span = Last(c).span
      BY <2>2 DEF Row, Statuses, Waiting
    <3> QED BY <1>5, <3>1 DEF LateMark, LateComplete, LateFail
  <2>4. Good(c, [r EXCEPT ![Len(r)] = row], p, "none", n)
    BY <1>1, <2>1, <2>2, <2>3, GoodWritesLate
  <2>5. rows' = [rows EXCEPT ![c] = [r EXCEPT ![Len(r)] = row]]
    BY <2>3 DEF Write
  <2> QED BY <1>3, <2>4, <2>5
<1> QED BY <1>4, <1>5 DEF LateCall

LEMMA ResolveStep ==
  ASSUME VInv, NEW c \in Callers, NEW decision \in {"approved", "rejected"},
         Resolve(c, decision)
  PROVE  VInv'
<1> DEFINE r == rows[c]
<1>1. Good(c, r, at[c], late[c], ran[c]) /\ r \in Seq(Row)
  BY GoodBefore DEF Good
<1>2. PICK i \in DOMAIN r : rows' = [rows EXCEPT ![c] = [r EXCEPT ![i].approval = decision]]
  BY DEF Resolve
<1> DEFINE s == [r EXCEPT ![i].approval = decision]
<1>3. /\ s \in Seq(Row) /\ Len(s) = Len(r)
      /\ \A j \in 1..Len(r) :
           s[j].status = r[j].status /\ s[j].span = r[j].span /\ s[j].lost = r[j].lost
  <2>1. r[i] \in Row
    BY <1>1, <1>2
  <2>2. [r[i] EXCEPT !.approval = decision] \in Row
    BY <2>1, RowChanges
  <2> QED BY <1>1, <1>2, <2>1, <2>2 DEF Row
<1>4. Good(c, s, at[c], late[c], ran[c])
  BY <1>1, <1>3, GoodDecided
<1>5. Leaves(c, s, at[c], late[c], ran[c])
  BY <1>2, GoodBefore DEF Leaves, Resolve
<1> QED BY <1>4, <1>5, GoodLeaves

LEMMA GoodStep == VInv /\ [Next]_vars => VInv'
<1> SUFFICES ASSUME VInv, [Next]_vars PROVE VInv'
  OBVIOUS
<1>1. CASE UNCHANGED vars
  BY <1>1 DEF vars, VInv, TypeOK
<1>2. ASSUME NEW c \in Callers, Progress(c) PROVE VInv'
  BY <1>2, AcquireStep, MoveStep, WriteStep, ApprovedStep DEF Progress
<1>3. ASSUME NEW c \in Callers,
             \/ Run(c) \/ LimitsRefuse(c) \/ FunctionReturns(c) \/ FunctionRaises(c)
             \/ LimitsRaise(c) \/ WriteRaises(c)
             \/ CompleteRaises(c) \/ AsyncFunctionRaisesTimeout(c)
             \/ Die(c) \/ Cancel(c) \/ LateCall(c)
      PROVE  VInv'
  BY <1>3, MoveStep, WriteStep, CancelStep, LateStep
<1> QED BY <1>1, <1>2, <1>3, ResolveStep DEF Next

LEMMA GoodAlways == Spec => []VInv
BY GoodInit, GoodStep, PTL DEF Spec
-----------------------------------------------------------------------------
\* However the function, an approval, the limits, the store or a cancellation end
\* an attempt, and whatever the threads of a cancelled task still do, a call has no
\* more than max_retries + 1 attempts, and no more starts.
THEOREM AttemptsBoundedAlways == Spec => []AttemptsBounded
<1>1. VInv => AttemptsBounded
  BY DEF VInv, Good, Counted, AttemptsBounded
<1> QED BY <1>1, GoodAlways, PTL

\* No attempt follows one that succeeded, and the value of a call is that of its
\* last attempt.
THEOREM SuccessEndsTheLoopAlways == Spec => []SuccessEndsTheLoop
<1>1. ASSUME VInv, NEW c \in Callers
      PROVE  /\ \A i \in 1..Len(rows[c]) - 1 : rows[c][i].status # "SUCCEEDED"
             /\ at[c] = "value" => Last(c).status = "SUCCEEDED"
             /\ rows[c] # <<>> /\ Last(c).status = "SUCCEEDED" => at[c] \in {"value", "cancelled"}
  <2>1. Good(c, rows[c], at[c], late[c], ran[c]) /\ rows[c] \in Seq(Row)
    BY <1>1 DEF VInv, Good
  <2>2. Succeeded(rows[c], at[c], late[c])
    BY <2>1 DEF Good
  <2>3. rows[c] # <<>> => Len(rows[c]) \in 1..Len(rows[c])
    BY <2>1
  <2> QED BY <2>1, <2>2, <2>3 DEF Succeeded, Last
<1>2. VInv => SuccessEndsTheLoop
  BY <1>1 DEF SuccessEndsTheLoop
<1> QED BY <1>2, GoodAlways, PTL

\* Whatever raises, a call that has returned has left no row that holds a slot, but
\* those whose end the store itself refused to record.
THEOREM NoSlotLeftAlways == Spec => []NoSlotLeft
<1>1. ASSUME VInv, NEW c \in Callers PROVE DOMAIN rows[c] = 1..Len(rows[c])
  BY <1>1 DEF VInv, Good
<1>2. VInv => NoSlotLeft
  BY <1>1 DEF VInv, Good, Slotted, NoSlotLeft
<1> QED BY <1>2, GoodAlways, PTL

\* Spans end as their attempts do, and of a call that has returned only those are
\* open whose rows wait for approval or were refused their end by the store.
THEOREM SpansTellOutcomesAlways == Spec => []SpansTellOutcomes
<1>1. ASSUME VInv, NEW c \in Callers PROVE DOMAIN rows[c] = 1..Len(rows[c])
  BY <1>1 DEF VInv, Good
<1>2. VInv => SpansTellOutcomes
  BY <1>1 DEF VInv, Good, Traced, SpansTellOutcomes
<1> QED BY <1>2, GoodAlways, PTL
-----------------------------------------------------------------------------
(* The cap: a step either passes the comparison and adds one row, or makes *)
(* no row RUNNING.                                                         *)

Adds(c) == SlotFree /\ rows' = [rows EXCEPT ![c] = Append(@, NewRow)]

AddsNone ==
  \A d \in Callers :
    /\ Len(rows'[d]) = Len(rows[d])
    /\ \A i \in 1..Len(rows[d]) : rows'[d][i].status = "RUNNING" => rows[d][i].status = "RUNNING"

LEMMA WriteAddsNone ==
  ASSUME VInv, NEW c \in Callers, Len(rows[c]) > 0, NEW row \in Row, Write(c, row),
         row.status = "RUNNING" => Last(c).status = "RUNNING"
  PROVE  AddsNone
<1>1. rows \in [Callers -> Seq(Row)]
  BY DEF VInv, TypeOK
<1> DEFINE s == [rows[c] EXCEPT ![Len(rows[c])] = row]
<1>2. /\ Len(s) = Len(rows[c]) /\ s[Len(s)] = row
      /\ \A i \in 1..Len(s) : i # Len(s) => s[i] = rows[c][i]
  BY <1>1, WriteFacts
<1>3. rows' = [rows EXCEPT ![c] = s]
  BY DEF Write
<1>4. ASSUME NEW d \in Callers
      PROVE  /\ Len(rows'[d]) = Len(rows[d])
             /\ \A i \in 1..Len(rows[d]) :
                  rows'[d][i].status = "RUNNING" => rows[d][i].status = "RUNNING"
  <2>1. CASE d = c
    BY <1>1, <1>2, <1>3, <2>1 DEF Last
  <2>2. CASE d # c
    BY <1>1, <1>3, <2>2
  <2> QED BY <2>1, <2>2
<1> QED BY <1>4 DEF AddsNone

LEMMA WrittenFacts ==
  ASSUME VInv, NEW c \in Callers,
         at[c] \in Attempting \/ late[c] \notin {"none", "acquire_or_get"}
  PROVE  Len(rows[c]) > 0 /\ Last(c) \in Row
BY DEF VInv, Good, Counted, Last

LEMMA AddsOneOrNone ==
  ASSUME VInv, [Next]_vars
  PROVE  AddsNone \/ \E c \in Callers : Adds(c)
<1>1. CASE UNCHANGED rows
  BY <1>1 DEF AddsNone
<1>2. ASSUME NEW c \in Callers, Acquire(c) \/ LateAcquire(c) PROVE UNCHANGED rows \/ Adds(c)
  BY <1>2 DEF Acquire, LateAcquire, Adds
<1>3. ASSUME NEW c \in Callers,
             \/ LimitsRefuse(c) \/ LimitsRaise(c) \/ StartFunction(c) \/ StartGated(c)
             \/ MarkWaiting(c) \/ Complete(c) \/ Fail(c) \/ WriteRaises(c) \/ LateMark(c) \/ LateComplete(c) \/ LateFail(c)
      PROVE  AddsNone
  <2>1. at[c] \in Attempting \/ late[c] \notin {"none", "acquire_or_get"}
    BY <1>3 DEF LimitsRefuse, LimitsRaise, StartFunction, StartGated, MarkWaiting, Complete,
       Fail, WriteRaises, LateMark, LateComplete, LateFail, Attempting
  <2>2. Len(rows[c]) > 0 /\ Last(c) \in Row
    BY <2>1, WrittenFacts
  <2>3. PICK row \in Row : Write(c, row) /\ (row.status = "RUNNING" => Last(c).status = "RUNNING")
    <3> DEFINE failed == [Last(c) EXCEPT !.status = "FAILED"]
               opened == [Last(c) EXCEPT !.span = "open"]
               completed == [Last(c) EXCEPT !.status = "SUCCEEDED", !.span = "ok"]
               succeeded == [Last(c) EXCEPT !.status = "SUCCEEDED"]
               kept == [Last(c) EXCEPT !.lost = TRUE]
    <3>1. /\ failed \in Row /\ opened \in Row /\ kept \in Row
          /\ completed \in Row /\ succeeded \in Row
      BY <2>2, RowChanges DEF Statuses
    <3>2. Waiting(Last(c)) \in Row /\ Failed(Last(c)) \in Row
      BY <2>2 DEF Row, Statuses, Failed, Waiting
    <3>3. /\ failed.status = "FAILED"
          /\ opened.status = Last(c).status /\ kept.status = Last(c).status
          /\ completed.status = "SUCCEEDED" /\ succeeded.status = "SUCCEEDED"
      BY <2>2 DEF Row
    <3>4. /\ Waiting(Last(c)).status = "WAITING_APPROVAL"
          /\ Failed(Last(c)).status = "FAILED"
      BY <2>2 DEF Row, Failed, Waiting
    <3>5. \E row \in {failed, opened, kept, Waiting(Last(c)), completed, succeeded,
                     Failed(Last(c))} : Write(c, row)
      <4> HIDE DEF failed, opened, kept, completed, succeeded
      <4>1. CASE LimitsRefuse(c) \/ LateFail(c)
        BY <4>1 DEF LimitsRefuse, LateFail, failed
      <4>2. CASE StartFunction(c) \/ StartGated(c) \/ MarkWaiting(c) \/ LateMark(c)
        BY <4>2 DEF StartFunction, StartGated, MarkWaiting, LateMark, opened
      <4>3. CASE Complete(c) \/ LateComplete(c) \/ Fail(c)
        BY <4>3 DEF Complete, LateComplete, Fail, completed, succeeded
      <4>4. CASE WriteRaises(c) \/ LimitsRaise(c)
        BY <4>4 DEF WriteRaises, LimitsRaise, Lose, kept
      <4> QED BY <1>3, <4>1, <4>2, <4>3, <4>4
    <3> HIDE DEF failed, opened, kept, completed, succeeded
    <3> QED BY <3>1, <3>2, <3>3, <3>4, <3>5
  <2> QED BY <2>2, <2>3, WriteAddsNone
<1>4. ASSUME NEW c \in Callers, NEW decision \in {"approved", "rejected"}, Resolve(c, decision)
      PROVE  AddsNone
  <2>1. rows \in [Callers -> Seq(Row)]
    BY DEF VInv, TypeOK
  <2>2. PICK i \in DOMAIN rows[c] : rows' = [rows EXCEPT ![c][i].approval = decision]
    BY <1>4 DEF Resolve
  <2>3. rows[c][i] \in Row
    BY <2>1, <2>2
  <2> QED BY <2>1, <2>2, <2>3 DEF AddsNone, Row
<1>5. ASSUME NEW c \in Callers,
             \/ Run(c) \/ AcquireGivesUp(c) \/ OwnerSeesApproved(c) \/ OwnerSeesRejected(c)
             \/ OwnerGivesUpApproval(c)
             \/ FunctionReturns(c) \/ FunctionRaises(c) \/ AsyncFunctionRaisesTimeout(c)
             \/ CompleteRaises(c) \/ Retry(c) \/ Die(c) \/ Cancel(c)
      PROVE  UNCHANGED rows
  BY <1>5 DEF Run, AcquireGivesUp, OwnerSeesApproved, OwnerSeesRejected, OwnerGivesUpApproval,
     FunctionReturns, FunctionRaises, AsyncFunctionRaisesTimeout, CompleteRaises, Retry, Die, Cancel
<1>6. CASE UNCHANGED vars
  BY <1>1, <1>6 DEF vars
<1>7. CASE Next
  BY <1>1, <1>2, <1>3, <1>4, <1>5, <1>7 DEF Next, Progress, LateCall
<1> QED BY <1>6, <1>7

LEMMA RunningIsFinite == ASSUME VInv PROVE IsFiniteSet(RunningRows)
<1>1. IsFiniteSet(Callers) /\ MaxRetries + 2 \in Nat
  BY VolatileAssumption
<1>2. IsFiniteSet(1..MaxRetries + 2)
  BY <1>1, FS_Interval
<1>3. IsFiniteSet(Callers \X (1..MaxRetries + 2))
  BY <1>1, <1>2, FS_Product
<1> QED BY <1>3, FS_Subset DEF RunningRows

LEMMA OneMore ==
  ASSUME NEW S, IsFiniteSet(S), Cardinality(S) \in Nat, NEW x
  PROVE  /\ IsFiniteSet(S \cup {x})
         /\ Cardinality(S \cup {x}) <= Cardinality(S) + 1
         /\ Cardinality(S \cup {x}) \in Nat
<1>1. CASE x \in S
  <2>1. S \cup {x} = S
    BY <1>1
  <2>2. IsFiniteSet(S \cup {x}) /\ Cardinality(S \cup {x}) = Cardinality(S)
    BY <2>1, Zenon
  <2> QED BY <2>2
<1>2. CASE x \notin S
  <2>1. IsFiniteSet(S \cup {x}) /\ Cardinality(S \cup {x}) = Cardinality(S) + 1
    BY <1>2, FS_AddElement
  <2> QED BY <2>1
<1> QED BY <1>1, <1>2

LEMMA CapStep == VInv /\ CapHolds /\ [Next]_vars => CapHolds'
<1> SUFFICES ASSUME VInv, CapHolds, [Next]_vars PROVE CapHolds'
  OBVIOUS
<1>1. VInv'
  BY GoodStep
<1>2. IsFiniteSet(RunningRows) /\ Cardinality(RunningRows) \in Nat
  BY RunningIsFinite, FS_CardinalityType
<1>3. rows \in [Callers -> Seq(Row)] /\ rows' \in [Callers -> Seq(Row)]
  BY <1>1 DEF VInv, TypeOK
<1>4. CASE AddsNone
  <2>1. RunningRows' \subseteq RunningRows
    BY <1>3, <1>4 DEF RunningRows, AddsNone
  <2>2. Cardinality(RunningRows') <= Cardinality(RunningRows)
    BY <1>2, <2>1, FS_Subset
  <2>3. Cardinality(RunningRows') \in Nat
    BY <1>2, <2>1, FS_Subset, FS_CardinalityType
  <2> QED BY <1>2, <2>2, <2>3, VolatileAssumption DEF CapHolds
<1>5. ASSUME NEW c \in Callers, Adds(c) PROVE CapHolds'
  <2> DEFINE new == <<c, Len(rows[c]) + 1>>
  <2>1. RunningRows' \subseteq RunningRows \cup {new}
    BY <1>3, <1>5 DEF RunningRows, Adds
  <2>2. /\ IsFiniteSet(RunningRows \cup {new})
        /\ Cardinality(RunningRows \cup {new}) <= Cardinality(RunningRows) + 1
        /\ Cardinality(RunningRows \cup {new}) \in Nat
    BY <1>2, OneMore
  <2>3. /\ Cardinality(RunningRows') <= Cardinality(RunningRows \cup {new})
        /\ Cardinality(RunningRows') \in Nat
    BY <2>1, <2>2, FS_Subset, FS_CardinalityType
  <2>4. Cardinality(RunningRows) < MaxConcurrent
    BY <1>5 DEF Adds, SlotFree
  <2> QED BY <1>2, <2>2, <2>3, <2>4, VolatileAssumption DEF CapHolds
<1> QED BY <1>4, <1>5, AddsOneOrNone

LEMMA CapInit == Init => CapHolds
<1> SUFFICES ASSUME Init PROVE CapHolds
  OBVIOUS
<1>1. RunningRows = {}
  BY DEF Init, RunningRows
<1> QED BY <1>1, FS_EmptySet, VolatileAssumption DEF CapHolds

\* The RUNNING rows of all volatile calls never exceed max_concurrent, those that
\* an abandoned thread wins for nobody included.
THEOREM CapHoldsAlways == Spec => []CapHolds
<1>1. VInv /\ CapHolds /\ [Next]_vars => (VInv /\ CapHolds)'
  BY GoodStep, CapStep
<1> QED BY <1>1, GoodInit, CapInit, PTL DEF Spec
=============================================================================
