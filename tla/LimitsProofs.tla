---------------------------- MODULE LimitsProofs ----------------------------
(* Proofs about Limits, for any number of rows, any limit and window.      *)
EXTENDS Limits, FiniteSetTheorems, WellFoundedInduction, TLAPS

\* Rows whose rate limit was checked in a window from t, when they were counted in
\* it, and which have started or may still start.
Passed(t) ==
  Rated(t) \cup {k \in Keys : At(k, "budget") /\ call[k].created >= t /\ call[k].rated <= t + Window}

\* No row is from the future.
Dated == \A k \in Keys : call[k].created <= clock

\* A row that has started is in the store, and its created_at is only ever renewed.
Renewed == \A s \in starts : s.key \in Inserted /\ s.created <= call[s.key].created

RInv ==
  /\ TypeOK /\ Dated /\ Renewed
  /\ RateLimited => \A t \in Nat : Cardinality(Passed(t)) <= RateMax

LEMMA PassedFacts ==
  ASSUME TypeOK, Renewed, NEW t \in Nat
  PROVE  /\ Passed(t) \subseteq Inserted /\ Inserted \subseteq Keys /\ IsFiniteSet(Passed(t))
         /\ \A k \in Passed(t) : call[k].created >= t
<1>1. Inserted \subseteq Keys
  BY DEF Inserted
<1>2. \A k \in Keys : call[k].created \in Nat
  BY DEF TypeOK, Call
<1>3. ASSUME NEW k \in Rated(t) PROVE k \in Inserted /\ call[k].created >= t
  <2>1. PICK s \in starts : s.key = k /\ s.created >= t
    BY <1>3 DEF Rated
  <2>2. s \in Start /\ s.created \in Nat
    BY DEF TypeOK, Start
  <2> QED BY <1>1, <1>2, <2>1, <2>2 DEF Renewed
<1>4. ASSUME NEW k \in Keys, At(k, "budget") PROVE k \in Inserted
  BY <1>4 DEF At, Inserted
<1>5. Passed(t) \subseteq Inserted
  BY <1>3, <1>4 DEF Passed
<1>6. IsFiniteSet(Passed(t))
  BY <1>1, <1>5, LimitsAssumption, FS_Subset
<1> QED BY <1>1, <1>3, <1>5, <1>6 DEF Passed

LEMMA NoMorePassed ==
  ASSUME RInv, RateLimited, NEW t \in Nat, Passed(t)' \subseteq Passed(t)
  PROVE  Cardinality(Passed(t)') <= RateMax
<1>1. IsFiniteSet(Passed(t)) /\ Cardinality(Passed(t)) <= RateMax
  BY PassedFacts DEF RInv
<1>2. /\ Cardinality(Passed(t)') <= Cardinality(Passed(t))
      /\ Cardinality(Passed(t)') \in Nat /\ Cardinality(Passed(t)) \in Nat
  BY <1>1, FS_Subset, FS_CardinalityType
<1> QED BY <1>1, <1>2, LimitsAssumption DEF RateLimited

LEMMA RateInit == Init => RInv
<1> SUFFICES ASSUME Init PROVE RInv
  OBVIOUS
<1>1. TypeOK /\ Dated /\ Renewed
  BY LimitsAssumption DEF Init, TypeOK, Call, Start, Dated, Renewed
<1>2. ASSUME NEW t \in Nat PROVE Passed(t) = {}
  BY DEF Init, Passed, Rated, At
<1>3. Cardinality({}) = 0
  BY FS_EmptySet
<1> QED BY <1>1, <1>2, <1>3, LimitsAssumption DEF RInv, RateLimited

LEMMA TypeStep == RInv /\ [Next]_vars => TypeOK'
<1> SUFFICES ASSUME TypeOK, [Next]_vars PROVE TypeOK'
  BY DEF RInv
<1> USE DEF TypeOK, Call
<1>1. CASE UNCHANGED vars
  BY <1>1 DEF vars
<1>2. ASSUME NEW k \in Keys, Stamp(k) \/ Insert(k) \/ Reacquire(k) PROVE TypeOK'
  BY <1>2 DEF Stamp, Insert, Reacquire, GoTo, At
<1>3. ASSUME NEW k \in Keys, RatePasses(k) \/ RateRefuses(k) \/ BudgetRefuses(k) PROVE TypeOK'
  BY <1>3 DEF RatePasses, RateRefuses, BudgetRefuses, GoTo
<1>4. ASSUME NEW k \in Keys, BudgetPasses(k) PROVE TypeOK'
  <2>1. call' \in [Keys -> Call]
    BY <1>4 DEF BudgetPasses
  <2>2. starts' \subseteq Start
    BY <1>4 DEF BudgetPasses, Start
  <2> QED BY <1>4, <2>1, <2>2 DEF BudgetPasses
<1>5. ASSUME NEW k \in Keys, Succeed(k) \/ Fail(k) PROVE TypeOK'
  BY <1>5 DEF Succeed, Fail, GoTo
<1>6. CASE Tick
  BY <1>6 DEF Tick
<1> QED BY <1>1, <1>2, <1>3, <1>4, <1>5, <1>6 DEF Next

(***************************************************************************)
(* A step starts a row, passes the check of one, or moves one that does    *)
(* not pass it.                                                            *)
(***************************************************************************)

MovesOn(k, new) ==
  /\ new.created <= clock
  /\ call[k].at = "absent" \/ (call[k].created <= new.created /\ new.at \notin {"absent", "insert"})
  /\ new.at = "budget" => call[k].at = "budget" /\ new = call[k]
  /\ call' = [call EXCEPT ![k] = new]
  /\ UNCHANGED <<clock, starts>>

Rests == UNCHANGED <<call, starts>> /\ clock' \in Nat /\ clock <= clock'

LEMMA StepKinds ==
  ASSUME RInv, [Next]_vars
  PROVE  \/ \E k \in Keys, new \in Call : MovesOn(k, new)
         \/ \E k \in Keys : RatePasses(k) \/ BudgetPasses(k)
         \/ Rests
<1>1. /\ clock \in Nat /\ call \in [Keys -> Call] /\ \A k \in Keys : call[k] \in Call
      /\ \A k \in Keys : call[k].created \in Nat /\ call[k].created <= clock
  BY DEF RInv, TypeOK, Dated, Call
<1> DEFINE Goal == \E k \in Keys, new \in Call : MovesOn(k, new)
<1>2. CASE UNCHANGED vars
  BY <1>1, <1>2 DEF vars, Rests
<1>3. ASSUME NEW k \in Keys, Stamp(k) PROVE Goal
  <2> DEFINE new == [at |-> "insert", created |-> clock, rated |-> 0, retries |-> 0]
  <2>1. new \in Call
    BY <1>1 DEF Call
  <2>2. MovesOn(k, new)
    BY <1>1, <1>3 DEF Stamp, MovesOn, At
  <2> QED BY <2>1, <2>2
<1>4. ASSUME NEW k \in Keys, call[k].at \notin {"absent", "budget"}, UNCHANGED <<clock, starts>>,
             NEW place \in {"rate", "refused", "done", "failed"}, GoTo(k, place)
      PROVE  Goal
  <2> DEFINE new == [call[k] EXCEPT !.at = place]
  <2>1. new \in Call /\ new.at = place /\ new.created = call[k].created
    BY <1>1 DEF Call
  <2>2. call' = [call EXCEPT ![k] = new]
    BY <1>1, <1>4 DEF GoTo
  <2> HIDE DEF new
  <2>3. MovesOn(k, new)
    BY <1>1, <1>4, <2>1, <2>2 DEF MovesOn
  <2> QED BY <2>1, <2>3
<1>5. ASSUME NEW k \in Keys, Reacquire(k) PROVE Goal
  <2> DEFINE new == [call[k] EXCEPT !.at = "rate", !.created = clock,
                              !.retries = call[k].retries + 1]
  <2>1. new \in Call /\ new.at = "rate" /\ new.created = clock
    <3>1. call[k] \in Call /\ call[k].retries + 1 \in Nat
      BY <1>1 DEF Call
    <3> DEFINE more == call[k].retries + 1
    <3> HIDE DEF more
    <3>2. [call[k] EXCEPT !.at = "rate", !.created = clock, !.retries = more] \in Call
      BY <1>1, <3>1 DEF Call, more
    <3> QED BY <1>1, <3>1, <3>2 DEF Call, more
  <2>2. call' = [call EXCEPT ![k] = new] /\ UNCHANGED <<clock, starts>>
    BY <1>1, <1>5 DEF Reacquire
  <2> HIDE DEF new
  <2>3. MovesOn(k, new)
    BY <1>1, <2>1, <2>2 DEF MovesOn
  <2> QED BY <2>1, <2>3
<1>6. ASSUME NEW k \in Keys, BudgetRefuses(k) PROVE Goal
  <2> DEFINE new == [call[k] EXCEPT !.at = "refused", !.rated = 0]
  <2>1. new \in Call /\ new.at = "refused" /\ new.created = call[k].created
    BY <1>1 DEF Call
  <2>2. call' = [call EXCEPT ![k] = new] /\ UNCHANGED <<clock, starts>>
    BY <1>1, <1>6 DEF BudgetRefuses
  <2> HIDE DEF new
  <2>3. MovesOn(k, new)
    BY <1>1, <2>1, <2>2 DEF MovesOn
  <2> QED BY <2>1, <2>3
<1>7. ASSUME NEW k \in Keys, Insert(k) \/ RateRefuses(k) \/ Succeed(k) \/ Fail(k) PROVE Goal
  BY <1>4, <1>7 DEF Insert, RateRefuses, Succeed, Fail, At
<1>8. CASE Tick
  BY <1>1, <1>8 DEF Tick, Rests
<1> QED BY <1>2, <1>3, <1>5, <1>6, <1>7, <1>8 DEF Next

LEMMA DatedStep == RInv /\ [Next]_vars => (Dated /\ Renewed)'
<1> SUFFICES ASSUME RInv, [Next]_vars PROVE (Dated /\ Renewed)'
  OBVIOUS
<1>1. /\ clock \in Nat /\ call \in [Keys -> Call] /\ Dated /\ Renewed
      /\ \A k \in Keys : call[k].created \in Nat /\ call[k].created <= clock
      /\ \A s \in starts : s.created \in Nat
  BY DEF RInv, TypeOK, Dated, Call, Start
<1>2. ASSUME NEW k \in Keys, NEW new \in Call, MovesOn(k, new) PROVE (Dated /\ Renewed)'
  <2>1. Dated'
    BY <1>1, <1>2 DEF MovesOn, Dated
  <2>2. new.created \in Nat
    BY DEF Call
  <2>3. ASSUME NEW s \in starts' PROVE s.key \in Inserted' /\ s.created <= call'[s.key].created
    BY <1>1, <1>2, <2>2, <2>3 DEF MovesOn, Renewed, Inserted, At
  <2> QED BY <2>1, <2>3 DEF Renewed
<1>3. ASSUME NEW k \in Keys, RatePasses(k) PROVE (Dated /\ Renewed)'
  <2>1. /\ \A l \in Keys : call'[l].created = call[l].created
        /\ Inserted' = Inserted /\ starts' = starts /\ clock' = clock
    BY <1>1, <1>3 DEF RatePasses, Inserted, At, Call
  <2> QED BY <1>1, <2>1 DEF Dated, Renewed, Inserted
<1>4. ASSUME NEW k \in Keys, BudgetPasses(k) PROVE (Dated /\ Renewed)'
  <2>1. /\ \A l \in Keys : call'[l].created = call[l].created
        /\ Inserted' = Inserted /\ k \in Inserted /\ clock' = clock
    BY <1>1, <1>4 DEF BudgetPasses, Inserted, At, Call
  <2>2. \A s \in starts' : s \in starts \/ (s.key = k /\ s.created = call[k].created)
    BY <1>4 DEF BudgetPasses
  <2> QED BY <1>1, <2>1, <2>2 DEF Dated, Renewed, Inserted
<1>5. CASE Rests
  BY <1>1, <1>5 DEF Rests, Dated, Renewed, Inserted, At
<1> QED BY <1>2, <1>3, <1>4, <1>5, StepKinds

\* The last of a window to be counted counts all that passed before it, whatever
\* became of them and even if they were acquired again.
LEMMA RateStep ==
  ASSUME RInv, [Next]_vars, RateLimited, NEW t \in Nat
  PROVE  Cardinality(Passed(t)') <= RateMax
<1>1. /\ clock \in Nat /\ call \in [Keys -> Call] /\ Window \in Nat
      /\ \A k \in Keys : call[k].created \in Nat /\ call[k].rated \in Nat
  BY LimitsAssumption DEF RInv, TypeOK, Call
<1>2. ASSUME NEW k \in Keys, NEW new \in Call, MovesOn(k, new)
      PROVE  Cardinality(Passed(t)') <= RateMax
  <2>1. Passed(t)' \subseteq Passed(t)
    BY <1>1, <1>2 DEF MovesOn, Passed, Rated, At
  <2> QED BY <2>1, NoMorePassed
<1>3. ASSUME NEW k \in Keys, BudgetPasses(k) PROVE Cardinality(Passed(t)') <= RateMax
  <2> DEFINE s == [key |-> k, retries |-> call[k].retries, created |-> call[k].created,
                   rated |-> call[k].rated, budgeted |-> clock]
  <2>1. starts' = starts \cup {s} /\ call[k].at = "budget"
    BY <1>3 DEF BudgetPasses, At
  <2>2. \A l \in Keys : call'[l].at = "budget" => l # k /\ call'[l] = call[l]
    BY <1>1, <1>3 DEF BudgetPasses, Call
  <2>3. ASSUME NEW l \in Rated(t)' PROVE l \in Passed(t)
    <3>1. PICK x \in starts' : x.key = l /\ x.created >= t /\ x.rated <= t + Window
      BY <2>3 DEF Rated
    <3>2. CASE x \in starts
      BY <3>1, <3>2 DEF Passed, Rated
    <3>3. CASE x = s
      BY <2>1, <3>1, <3>3 DEF Passed, At
    <3> QED BY <2>1, <3>2, <3>3
  <2>4. Passed(t)' \subseteq Passed(t)
    BY <2>2, <2>3 DEF Passed, At
  <2> QED BY <2>4, NoMorePassed
<1>4. ASSUME NEW k \in Keys, RatePasses(k) PROVE Cardinality(Passed(t)') <= RateMax
  <2>1. /\ call[k].at = "rate" /\ Cardinality(Counted) <= RateMax /\ starts' = starts
        /\ \A l \in Keys : l # k => call'[l] = call[l]
        /\ call'[k].created = call[k].created /\ call'[k].rated = clock
    BY <1>1, <1>4 DEF RatePasses, At, Call
  <2>2. Passed(t)' \subseteq Passed(t) \cup {k} /\ (k \in Passed(t)' \ Passed(t) => clock <= t + Window)
    BY <2>1 DEF Passed, Rated, At
  <2>3. CASE clock > t + Window
    <3>1. Passed(t)' \subseteq Passed(t)
      BY <1>1, <2>2, <2>3
    <3> QED BY <3>1, NoMorePassed
  <2>4. CASE clock <= t + Window /\ Passed(t)' \subseteq Passed(t)
    BY <2>4, NoMorePassed
  <2>5. CASE clock <= t + Window /\ k \in Passed(t)' \ Passed(t)
    <3>1. call[k].created >= t
      BY <2>1, <2>5 DEF Passed, Rated
    <3>2. ASSUME NEW l \in Passed(t)' PROVE l \in Inserted /\ call[l].created >= t
      BY <2>1, <2>2, <3>1, <3>2, PassedFacts DEF RInv, Inserted, At
    <3>3. Passed(t)' \subseteq Counted
      BY <1>1, <2>5, <3>2 DEF Counted, Inserted
    <3>4. IsFiniteSet(Counted)
      BY LimitsAssumption, FS_Subset DEF Counted, Inserted
    <3>5. /\ Cardinality(Passed(t)') <= Cardinality(Counted)
          /\ Cardinality(Passed(t)') \in Nat /\ Cardinality(Counted) \in Nat
      BY <3>3, <3>4, FS_Subset, FS_CardinalityType
    <3> QED BY <2>1, <3>5, LimitsAssumption DEF RateLimited
  <2> QED BY <1>1, <2>2, <2>3, <2>4, <2>5
<1>5. CASE Rests
  <2>1. Passed(t)' \subseteq Passed(t)
    BY <1>5 DEF Rests, Passed, Rated, At
  <2> QED BY <2>1, NoMorePassed
<1> QED BY <1>2, <1>3, <1>4, <1>5, StepKinds

LEMMA RateAlways == Spec => []RInv
<1>1. RInv /\ [Next]_vars => RInv'
  BY TypeStep, DatedStep, RateStep DEF RInv
<1> QED BY <1>1, RateInit, PTL DEF Spec

\* However inserts, checks and retries of concurrent owners interleave, in no
\* window do more than rate_limit_max_calls rows get past the check.
THEOREM RateHoldsAlways == Spec => []RateHolds
<1>1. ASSUME RInv, RateLimited, NEW t \in 0..MaxTime PROVE Cardinality(Rated(t)) <= RateMax
  <2>1. t \in Nat
    BY LimitsAssumption
  <2>2. IsFiniteSet(Passed(t)) /\ Cardinality(Passed(t)) <= RateMax /\ Rated(t) \subseteq Passed(t)
    BY <1>1, <2>1, PassedFacts DEF RInv, Passed
  <2>3. /\ Cardinality(Rated(t)) <= Cardinality(Passed(t))
        /\ Cardinality(Rated(t)) \in Nat /\ Cardinality(Passed(t)) \in Nat
    BY <2>2, FS_Subset, FS_CardinalityType
  <2> QED BY <1>1, <2>2, <2>3, LimitsAssumption DEF RateLimited
<1>2. RInv => RateHolds
  BY <1>1 DEF RateHolds
<1> QED BY <1>2, RateAlways, PTL
-----------------------------------------------------------------------------
(***************************************************************************)
(* Sums.  Total is a fold over a finite set, by a recursive function on    *)
(* its subsets; what a sum is follows by induction on subsets, which here  *)
(* takes the form of a smallest counterexample (Minimal).                  *)
(***************************************************************************)

Some(s) == CHOOSE x \in s : TRUE

Sums(f, T) == f = [s \in SUBSET T |-> IF s = {} THEN 0 ELSE Amount[Some(s)] + f[s \ {Some(s)}]]

LEMMA TotalDef == \A T : Total(T) = (CHOOSE f : Sums(f, T))[T]
BY DEF Total, MapThenSumSet, MapThenFoldSet, Sums, Some

\* A set of sets of rows that is not empty has a smallest member: what is not so of
\* some set is not so of a smallest one.
LEMMA Minimal ==
  ASSUME NEW Bad, Bad \subseteq SUBSET Keys, Bad # {}
  PROVE  \E T \in Bad : \A U \in Bad : U \subseteq T => U = T
<1> DEFINE R == StrictSubsetOrdering(Keys)
<1>1. IsWellFoundedOn(R, SUBSET Keys)
  BY LimitsAssumption, FS_FiniteSubsetsOfFinite, FS_StrictSubsetOrderingWellFounded
<1> HIDE DEF R
<1>2. PICK T \in Bad : \A U \in Bad : <<U, T>> \notin R
  BY <1>1, WFMin
<1>3. ASSUME NEW U \in Bad, U \subseteq T, U # T PROVE FALSE
  <2>1. <<U, T>> \in R
    BY <1>3 DEF R, StrictSubsetOrdering
  <2> QED BY <1>2, <2>1
<1> QED BY <1>3

LEMMA SomeIn == \A s : s # {} => Some(s) \in s
BY DEF Some

LEMMA SumsNat ==
  ASSUME NEW T \in SUBSET Keys, NEW f, Sums(f, T), NEW s \in SUBSET T
  PROVE  f[s] \in Nat
<1> DEFINE Bad == {u \in SUBSET T : f[u] \notin Nat}
<1> SUFFICES ASSUME Bad # {} PROVE FALSE
  OBVIOUS
<1>0. Bad \subseteq SUBSET Keys
  OBVIOUS
<1> HIDE DEF Bad
<1>1. PICK u \in Bad : \A v \in Bad : v \subseteq u => v = u
  BY <1>0, Minimal
<1> USE DEF Bad
<1>2. u # {} /\ f[u] = Amount[Some(u)] + f[u \ {Some(u)}]
  <2>1. f[u] = IF u = {} THEN 0 ELSE Amount[Some(u)] + f[u \ {Some(u)}]
    BY <1>1 DEF Sums
  <2> QED BY <1>1, <2>1
<1>3. Some(u) \in u /\ u \ {Some(u)} \subseteq u /\ u \ {Some(u)} # u
  BY <1>2, SomeIn
<1>4. f[u \ {Some(u)}] \in Nat
  BY <1>1, <1>3
<1>5. Amount[Some(u)] \in Nat
  BY <1>3, LimitsAssumption
<1> QED BY <1>1, <1>2, <1>4, <1>5

\* There is only one.
LEMMA SumsAgree ==
  ASSUME NEW T \in SUBSET Keys, NEW f, Sums(f, T), NEW U \in SUBSET Keys, NEW g, Sums(g, U),
         NEW s \in SUBSET T, s \in SUBSET U
  PROVE  f[s] = g[s]
<1> DEFINE Bad == {u \in SUBSET T : u \in SUBSET U /\ f[u] # g[u]}
<1> SUFFICES ASSUME Bad # {} PROVE FALSE
  OBVIOUS
<1>0. Bad \subseteq SUBSET Keys
  OBVIOUS
<1> HIDE DEF Bad
<1>1. PICK u \in Bad : \A v \in Bad : v \subseteq u => v = u
  BY <1>0, Minimal
<1> USE DEF Bad
<1>2. /\ u # {} /\ f[u] = Amount[Some(u)] + f[u \ {Some(u)}]
      /\ g[u] = Amount[Some(u)] + g[u \ {Some(u)}]
  BY <1>1 DEF Sums
<1>3. Some(u) \in u /\ u \ {Some(u)} \subseteq u /\ u \ {Some(u)} # u
  BY <1>2, SomeIn
<1>4. f[u \ {Some(u)}] = g[u \ {Some(u)}]
  BY <1>1, <1>3
<1> QED BY <1>1, <1>2, <1>4

\* The recursion is sound: for every set of rows there is such a function.
LEMMA SumsExist ==
  ASSUME NEW T \in SUBSET Keys
  PROVE  \E f : Sums(f, T)
<1> DEFINE Bad == {U \in SUBSET Keys : ~\E f : Sums(f, U)}
<1> SUFFICES ASSUME Bad # {} PROVE FALSE
  OBVIOUS
<1>0. Bad \subseteq SUBSET Keys
  OBVIOUS
<1> HIDE DEF Bad
<1>1. PICK U \in Bad : \A V \in Bad : V \subseteq U => V = U
  BY <1>0, Minimal
<1> USE DEF Bad
<1> DEFINE of[V \in SUBSET U] == CHOOSE f : Sums(f, V)
           sum == [s \in SUBSET U |-> IF s = {} THEN 0
                     ELSE Amount[Some(s)] + of[s \ {Some(s)}][s \ {Some(s)}]]
<1>2. \A V \in SUBSET U : V # U => Sums(of[V], V)
  BY <1>1
<1>3. ASSUME NEW s \in SUBSET U, s # {}
      PROVE  sum[s \ {Some(s)}] = of[s \ {Some(s)}][s \ {Some(s)}]
  <2> DEFINE V == s \ {Some(s)}
  <2>1. V \in SUBSET U /\ V # U /\ V \in SUBSET Keys
    BY <1>3, SomeIn
  <2>2. Sums(of[V], V)
    BY <1>2, <2>1
  <2> HIDE DEF V, of
  <2>3. CASE V = {}
    <3>1. of[V][V] = 0
      BY <2>2, <2>3 DEF Sums
    <3>2. sum[V] = 0
      BY <2>1, <2>3
    <3> QED BY <3>1, <3>2 DEF V
  <2>4. CASE V # {}
    <3> DEFINE W == V \ {Some(V)}
    <3>1. W \in SUBSET U /\ W # U /\ W \in SUBSET V /\ W \in SUBSET Keys
      BY <2>1, <2>4, SomeIn
    <3>2. Sums(of[W], W)
      BY <1>2, <3>1
    <3>3. of[V][W] = of[W][W]
      BY <2>1, <2>2, <3>1, <3>2, SumsAgree
    <3>4. of[V][V] = Amount[Some(V)] + of[V][W]
      BY <2>2, <2>4 DEF Sums
    <3>5. sum[V] = Amount[Some(V)] + of[W][W]
      BY <2>1, <2>4
    <3> QED BY <3>3, <3>4, <3>5 DEF V
  <2> QED BY <2>3, <2>4 DEF V
<1>4. Sums(sum, U)
  <2> HIDE DEF of
  <2>1. \A s \in SUBSET U : sum[s] = IF s = {} THEN 0 ELSE Amount[Some(s)] + sum[s \ {Some(s)}]
    BY <1>3
  <2> QED BY <2>1 DEF Sums
<1> QED BY <1>1, <1>4

LEMMA TotalSplits ==
  ASSUME NEW T \in SUBSET Keys
  PROVE  /\ Total(T) \in Nat
         /\ T = {} => Total(T) = 0
         /\ T # {} => \E x \in T : Total(T) = Amount[x] + Total(T \ {x})
<1> DEFINE f == CHOOSE f : Sums(f, T)
<1>1. Sums(f, T) /\ Total(T) = f[T]
  BY SumsExist, TotalDef
<1> HIDE DEF f
<1>2. ASSUME T # {} PROVE \E x \in T : Total(T) = Amount[x] + Total(T \ {x})
  <2> DEFINE x == Some(T)  U == T \ {x}  g == CHOOSE g : Sums(g, U)
  <2>1. x \in T /\ U \in SUBSET Keys /\ U \in SUBSET T
    BY <1>2, SomeIn
  <2>2. Sums(g, U) /\ Total(U) = g[U]
    BY <2>1, SumsExist, TotalDef
  <2> HIDE DEF g
  <2>3. f[U] = g[U]
    BY <1>1, <2>1, <2>2, SumsAgree
  <2>4. f[T] = Amount[x] + f[U]
    BY <1>1, <1>2 DEF Sums
  <2> QED BY <1>1, <2>1, <2>2, <2>3, <2>4
<1>3. T = {} => Total(T) = 0
  BY <1>1 DEF Sums
<1> QED BY <1>1, <1>2, <1>3, SumsNat

\* The order of the rows does not matter.
LEMMA TotalWithout ==
  ASSUME NEW T \in SUBSET Keys, NEW x \in T
  PROVE  Total(T) = Amount[x] + Total(T \ {x})
<1> DEFINE Bad == {U \in SUBSET Keys : \E y \in U : Total(U) # Amount[y] + Total(U \ {y})}
<1> SUFFICES ASSUME Bad # {} PROVE FALSE
  OBVIOUS
<1>0. Bad \subseteq SUBSET Keys
  OBVIOUS
<1> HIDE DEF Bad
<1>1. PICK U \in Bad : \A V \in Bad : V \subseteq U => V = U
  BY <1>0, Minimal
<1> USE DEF Bad
<1>2. PICK y \in U : Total(U) # Amount[y] + Total(U \ {y})
  BY <1>1
<1>3. PICK z \in U : Total(U) = Amount[z] + Total(U \ {z})
  BY <1>2, TotalSplits
<1>4. z # y
  BY <1>2, <1>3
<1> DEFINE both == (U \ {y}) \ {z}
<1>5. Total(U \ {y}) = Amount[z] + Total(both)
  <2>1. U \ {y} \notin Bad
    <3> HIDE DEF Bad
    <3> QED BY <1>1, <1>2
  <2>2. U \ {y} \in SUBSET Keys /\ z \in U \ {y}
    BY <1>1, <1>3, <1>4
  <2> QED BY <2>1, <2>2
<1>6. (U \ {z}) \ {y} = both
  OBVIOUS
<1>7. Total(U \ {z}) = Amount[y] + Total(both)
  <2>1. U \ {z} \notin Bad
    <3> HIDE DEF Bad
    <3> QED BY <1>1, <1>3
  <2>2. U \ {z} \in SUBSET Keys /\ y \in U \ {z}
    BY <1>1, <1>2, <1>4
  <2> QED BY <1>6, <2>1, <2>2
<1>8. Amount[y] \in Nat /\ Amount[z] \in Nat /\ Total(both) \in Nat
  BY LimitsAssumption, TotalSplits
<1> HIDE DEF both
<1> QED BY <1>2, <1>3, <1>5, <1>7, <1>8

\* More rows do not meter less.
LEMMA TotalMonotone ==
  ASSUME NEW T \in SUBSET Keys, NEW S \in SUBSET T
  PROVE  Total(S) <= Total(T)
<1> DEFINE Bad == {U \in SUBSET Keys : \E V \in SUBSET U : ~(Total(V) <= Total(U))}
<1> SUFFICES ASSUME Bad # {} PROVE FALSE
  OBVIOUS
<1>0. Bad \subseteq SUBSET Keys
  OBVIOUS
<1> HIDE DEF Bad
<1>1. PICK U \in Bad : \A V \in Bad : V \subseteq U => V = U
  BY <1>0, Minimal
<1> USE DEF Bad
<1>2. PICK V \in SUBSET U : ~(Total(V) <= Total(U))
  BY <1>1
<1>3. Total(U) \in Nat /\ Total(V) \in Nat
  BY TotalSplits
<1>4. PICK x \in U : x \notin V
  BY <1>2, <1>3
<1>5. Total(V) <= Total(U \ {x})
  BY <1>1, <1>4
<1>6. Total(U) = Amount[x] + Total(U \ {x}) /\ Total(U \ {x}) \in Nat /\ Amount[x] \in Nat
  BY TotalWithout, TotalSplits, LimitsAssumption
<1> QED BY <1>2, <1>3, <1>5, <1>6
-----------------------------------------------------------------------------
(* The budget.                                                             *)

Spent(t) == {s.key : s \in Budgeted(t)}

BInv ==
  RInv /\ (BudgetMax # None => \A t \in Nat : Total(Spent(t)) <= BudgetMax)

LEMMA BudgetInit == Init => BInv
<1> SUFFICES ASSUME Init PROVE BInv
  OBVIOUS
<1>1. ASSUME NEW t \in Nat PROVE Spent(t) = {}
  BY DEF Init, Spent, Budgeted
<1>2. Total({}) = 0
  BY TotalSplits
<1> QED BY <1>1, <1>2, RateInit, LimitsAssumption DEF BInv

\* The last of a window to be summed sums all that started in it before.
LEMMA SpentIsMetered ==
  ASSUME RInv, NEW t \in Nat, NEW k \in Keys, BudgetPasses(k)
  PROVE  Spent(t)' = Spent(t) \/ Spent(t)' \subseteq Metered
<1> DEFINE s == [key |-> k, retries |-> call[k].retries, created |-> call[k].created,
                 rated |-> call[k].rated, budgeted |-> clock]
<1>1. starts' = starts \cup {s} /\ call[k].at = "budget"
  BY DEF BudgetPasses, At
<1>2. /\ s.key = k /\ s.created = call[k].created /\ s.budgeted = clock
      /\ clock \in Nat /\ Window \in Nat /\ k \in Inserted
      /\ \A l \in Keys : call[l].created \in Nat
  BY <1>1, LimitsAssumption DEF RInv, TypeOK, Call, Inserted, At
<1> HIDE DEF s
<1>3. CASE ~(s.created >= t /\ s.budgeted <= t + Window)
  BY <1>1, <1>3 DEF Spent, Budgeted
<1>4. CASE s.created >= t /\ s.budgeted <= t + Window
  <2>1. ASSUME NEW x \in starts, x.created >= t
        PROVE  x.key \in Inserted /\ call[x.key].created >= t
    <3>1. x.key \in Inserted /\ x.created <= call[x.key].created /\ x.created \in Nat
      BY DEF RInv, Renewed, TypeOK, Start
    <3>2. call[x.key].created \in Nat
      BY <1>2, <3>1 DEF Inserted
    <3> QED BY <2>1, <3>1, <3>2
  <2>2. \A l \in Spent(t)' : l \in Inserted /\ call[l].created >= t
    BY <1>1, <1>2, <1>4, <2>1 DEF Spent, Budgeted
  <2>3. \A l \in Inserted : call[l].created >= t => call[l].created >= clock - Window
    BY <1>2, <1>4 DEF Inserted
  <2> QED BY <2>2, <2>3 DEF Metered
<1> QED BY <1>3, <1>4

LEMMA BudgetStep == BInv /\ [Next]_vars => BInv'
<1> SUFFICES ASSUME BInv, [Next]_vars, BudgetMax # None, NEW t \in Nat
             PROVE  Total(Spent(t)') <= BudgetMax
  BY TypeStep, DatedStep, RateStep DEF BInv, RInv
<1>1. RInv /\ Total(Spent(t)) <= BudgetMax
  BY DEF BInv
<1>2. CASE starts' = starts
  <2>1. Spent(t)' = Spent(t)
    BY <1>2 DEF Spent, Budgeted
  <2> QED BY <1>1, <2>1
<1>3. ASSUME NEW k \in Keys, BudgetPasses(k) PROVE Total(Spent(t)') <= BudgetMax
  <2>1. CASE Spent(t)' = Spent(t)
    BY <1>1, <2>1
  <2>2. CASE Spent(t)' \subseteq Metered
    <3>1. Metered \in SUBSET Keys /\ Spent(t)' \in SUBSET Keys
      BY <2>2 DEF Metered, Inserted
    <3>2. Total(Spent(t)') <= Total(Metered)
      BY <2>2, <3>1, TotalMonotone
    <3>3. Total(Metered) <= BudgetMax
      BY <1>3 DEF BudgetPasses
    <3>4. Total(Spent(t)') \in Nat /\ Total(Metered) \in Nat
      BY <3>1, TotalSplits
    <3> QED BY <3>2, <3>3, <3>4, LimitsAssumption
  <2> QED BY <1>1, <1>3, <2>1, <2>2, SpentIsMetered
<1> QED BY <1>1, <1>2, <1>3, StepKinds DEF MovesOn, RatePasses, Rests

\* However inserts, checks and retries of concurrent owners interleave, in no window do
\* the rows whose function starts meter more than budget_max, each row taken once.
THEOREM BudgetHoldsAlways == Spec => []BudgetHolds
<1>1. BInv => BudgetHolds
  <2>1. 0..MaxTime \subseteq Nat
    BY LimitsAssumption
  <2> QED BY <2>1 DEF BInv, BudgetHolds, Spent
<1> QED BY <1>1, BudgetInit, BudgetStep, PTL DEF Spec
=============================================================================
