---------------------------- MODULE InputsProofs ----------------------------
(* Proofs about Inputs and the modules of its algorithms, for whatever a    *)
(* file says, however deep the arguments are, however many earlier calls    *)
(* and stores there are and however many of their rows are read.            *)
EXTENDS Inputs, FiniteSetTheorems, SequenceTheorems, WellFoundedInduction, TLAPS
-----------------------------------------------------------------------------
(* The policy of a call.                                                    *)

\* A policy in force is what the file that was not refused says, and a verdict is about
\* the value of one call under it.
LoadedInv ==
  /\ cfg \in Configs
  /\ policy # None => policy = Build(cfg) /\ ~Refused(cfg)
  /\ \/ verdict \in {"none", "load error"}
     \/ policy # None /\ value \in Values /\ verdict = Verdict(policy, value)

\* A fresh process has loaded nothing.
LEMMA LoadedInit == Init => LoadedInv
BY DEF Init, LoadedInv

\* Loading and calling keep what is in force the file's.
LEMMA LoadedStep == LoadedInv /\ [Next]_vars => LoadedInv'
<1> SUFFICES ASSUME LoadedInv, [Next]_vars PROVE LoadedInv'
  OBVIOUS
<1>1. CASE Load
  BY <1>1 DEF Load, LoadedInv
<1>2. ASSUME NEW v \in Values, Call(v) PROVE LoadedInv'
  BY <1>2 DEF Call, LoadedInv, Verdict
<1>3. CASE UNCHANGED vars
  BY <1>3 DEF vars, LoadedInv
<1> QED BY <1>1, <1>2, <1>3 DEF Next

\* What each entry of a file may be.
LEMMA ConfigFacts ==
  ASSUME cfg \in Configs
  PROVE  /\ cfg.max_calls \in Optional(Numbers) /\ cfg.per \in Optional(Durations \cup {Bad})
         /\ cfg.arg \in Optional({"amount"}) /\ cfg.max \in Optional(Numbers)
         /\ cfg.window \in Optional(Durations \cup {Bad})
         /\ cfg.bypass_arg \in Optional({"amount"}) /\ cfg.bypass_max \in Optional(Numbers)
         /\ DOMAIN cfg = {"max_calls", "per", "arg", "max", "window", "approval_required",
                          "bypass_arg", "bypass_max"}
BY DEF Configs

\* A duration that loads and is positive is so many seconds; what is not given is no
\* duration.
LEMMA ParseTtlFacts ==
  ASSUME NEW v \in Optional(Durations \cup {Bad}), ParseTtl(v) # Bad
  PROVE  /\ ~Given(v) => ParseTtl(v) = None
         /\ Given(v) /\ PositiveDuration(v) =>
              /\ ParseTtl(v) = v.amount * Units[v.unit] /\ ParseTtl(v) # None
<1>1. CASE ~Given(v)
  BY <1>1 DEF Given, ParseTtl, Get
<1>2. CASE Given(v) /\ PositiveDuration(v)
  <2>1. v \in Durations /\ v # Bad /\ Get(v) = v /\ v # None
    BY <1>2, NoValueAssumption DEF Given, ParseTtl, Get, Optional
  <2> DEFINE n == v.amount  u == Units[v.unit]
  <2>2. n \in Nat /\ n > 0 /\ u \in Nat /\ u # 0
    BY <1>2, <2>1, PoliciesAssumption DEF PositiveDuration, Durations
  <2>3. ParseTtl(v) = OrNone(n * u)
    BY <2>1 DEF ParseTtl
  <2> HIDE DEF n, u
  <2>4. n * u \in Nat /\ n * u # 0
    BY <2>2
  <2>5. OrNone(n * u) = n * u /\ n * u # None
    BY <2>4, NoValueAssumption DEF OrNone
  <2> QED BY <1>2, <2>3, <2>5 DEF n, u
<1> QED BY <1>1, <1>2

\* Whatever a file with positive numbers and no empty keys says is in force once it has
\* loaded, in the seconds its units say, and no call under it raises ValueError.
LEMMA LoadedIsInForce == LoadedInv => WrittenIsInForce
<1> SUFFICES ASSUME LoadedInv, policy # None, \A f \in DOMAIN cfg : cfg[f] # None,
                    Positive(cfg.max_calls), PositiveDuration(cfg.per), PositiveDuration(cfg.window)
             PROVE  /\ Given(cfg.max_calls) \/ Given(cfg.per) =>
                         /\ policy.rate_limit_max_calls = cfg.max_calls
                         /\ policy.rate_limit_window = cfg.per.amount * Units[cfg.per.unit]
                    /\ Given(cfg.arg) \/ Given(cfg.max) \/ Given(cfg.window) =>
                         /\ policy.budget_arg = cfg.arg /\ policy.budget_max = cfg.max
                         /\ policy.budget_window = cfg.window.amount * Units[cfg.window.unit]
                    /\ verdict # "ValueError"
  BY DEF WrittenIsInForce
<1>1. cfg \in Configs /\ policy = Build(cfg) /\ ~Refused(cfg)
  BY DEF LoadedInv
<1>2. /\ policy.rate_limit_max_calls = OrNone(Get(cfg.max_calls))
      /\ policy.rate_limit_window = ParseTtl(cfg.per)
      /\ policy.budget_arg = Get(cfg.arg) /\ policy.budget_max = Get(cfg.max)
      /\ policy.budget_window = ParseTtl(cfg.window)
  BY <1>1 DEF Build
<1>3. /\ cfg.max_calls # None /\ cfg.per # None /\ cfg.arg # None /\ cfg.max # None
      /\ cfg.window # None
  BY <1>1, ConfigFacts
<1>4. /\ (cfg.max_calls = Missing) <=> (cfg.per = Missing)
      /\ ParseTtl(cfg.per) # Bad /\ ParseTtl(cfg.window) # Bad
      /\ ~HalfBudget(cfg)
  BY <1>1 DEF Refused, HalfRateLimit
<1>5. /\ (cfg.arg = Missing) <=> (cfg.max = Missing)
      /\ (cfg.max = Missing) <=> (cfg.window = Missing)
  BY <1>4 DEF HalfBudget
<1>6. /\ Given(cfg.max_calls) <=> Given(cfg.per)
      /\ (Given(cfg.arg) <=> Given(cfg.max)) /\ (Given(cfg.max) <=> Given(cfg.window))
  BY <1>3, <1>4, <1>5 DEF Given
<1>7. Given(cfg.max_calls) => OrNone(Get(cfg.max_calls)) = cfg.max_calls
  <2> SUFFICES ASSUME Given(cfg.max_calls) PROVE OrNone(Get(cfg.max_calls)) = cfg.max_calls
    OBVIOUS
  <2>1. cfg.max_calls \in Nat /\ cfg.max_calls > 0
    BY <1>1, ConfigFacts, PoliciesAssumption DEF Given, Optional, Positive
  <2> QED BY <2>1 DEF Given, Get, OrNone
<1>8. ~Given(cfg.max_calls) => OrNone(Get(cfg.max_calls)) = None
  BY NoValueAssumption DEF Given, Get, OrNone
<1>9. /\ Given(cfg.per) =>
           ParseTtl(cfg.per) = cfg.per.amount * Units[cfg.per.unit] /\ ParseTtl(cfg.per) # None
      /\ Given(cfg.window) =>
           /\ ParseTtl(cfg.window) = cfg.window.amount * Units[cfg.window.unit]
           /\ ParseTtl(cfg.window) # None
  BY <1>1, <1>4, ConfigFacts, ParseTtlFacts
<1>10. ~HalfAtCall(policy)
  BY <1>2, <1>3, <1>6, <1>8, <1>9 DEF HalfAtCall, Given, Get
<1>11. verdict # "ValueError"
  BY <1>10 DEF LoadedInv, Verdict
<1> QED BY <1>2, <1>6, <1>7, <1>9, <1>11 DEF Given, Get

\* What runs without a human, or under a budget, was measured and is small enough,
\* whatever the file leaves out and whatever the call gives for the argument.
LEMMA LoadedIsMeasured == LoadedInv => RunsOnlyIfMeasured
<1> SUFFICES ASSUME LoadedInv, verdict = "runs"
             PROVE  /\ cfg.approval_required =>
                         Given(cfg.bypass_max) /\ Numeric(value) /\ value <= cfg.bypass_max
                    /\ Given(cfg.arg) /\ Given(cfg.max) => Numeric(value) /\ value <= cfg.max
  BY DEF RunsOnlyIfMeasured
<1>1. /\ cfg \in Configs /\ policy = Build(cfg) /\ ~Refused(cfg) /\ value \in Values
      /\ Verdict(policy, value) = "runs"
  BY DEF LoadedInv
<1>2. ~Unmeterable(policy, value) /\ ~OverBudget(policy, value) /\ ~NeedsApproval(policy, value)
  BY <1>1 DEF Verdict
<1>3. /\ policy.budget_arg = Get(cfg.arg) /\ policy.budget_max = Get(cfg.max)
      /\ policy.approval_required = cfg.approval_required
      /\ policy.approval_bypass_arg = Get(cfg.bypass_arg)
      /\ policy.approval_bypass_max = Get(cfg.bypass_max)
  BY <1>1 DEF Build
<1>4. Numeric(value) => value \in Nat
  BY <1>1, PoliciesAssumption DEF Values, Numeric
<1>5. ASSUME cfg.approval_required
      PROVE  Given(cfg.bypass_max) /\ Numeric(value) /\ value <= cfg.bypass_max
  <2>1. /\ Get(cfg.bypass_arg) # None /\ Numeric(value)
        /\ ~(value > Get(cfg.bypass_max))
    BY <1>2, <1>3, <1>5 DEF NeedsApproval
  <2>2. Get(cfg.bypass_max) # None
    BY <1>1, <2>1 DEF Refused, HalfBypass
  <2>3. Given(cfg.bypass_max) /\ Get(cfg.bypass_max) = cfg.bypass_max
    BY <2>2 DEF Get, Given
  <2>4. cfg.bypass_max \in Nat
    BY <1>1, <2>3, ConfigFacts, PoliciesAssumption DEF Optional, Given
  <2> QED BY <1>4, <2>1, <2>3, <2>4
<1>6. ASSUME Given(cfg.arg), Given(cfg.max) PROVE Numeric(value) /\ value <= cfg.max
  <2>1. policy.budget_arg # None /\ policy.budget_max = cfg.max /\ policy.budget_max # None
    BY <1>3, <1>6 DEF Given, Get
  <2>2. Numeric(value) /\ ~(value > cfg.max)
    BY <1>2, <2>1 DEF Unmeterable, OverBudget
  <2>3. cfg.max \in Nat
    BY <1>1, <1>6, ConfigFacts, PoliciesAssumption DEF Optional, Given
  <2> QED BY <1>4, <2>2, <2>3
<1> QED BY <1>5, <1>6
-----------------------------------------------------------------------------
(* Recursive functions over an interval of naturals.                       *)

\* A set that holds 0 and, with each number below n, the next, holds all up to n.
LEMMA Climb ==
  ASSUME NEW n \in Nat, NEW S, 0 \in S, \A i \in 0..n : i < n /\ i \in S => i + 1 \in S
  PROVE  0..n \subseteq S
<1> DEFINE R == OpToRel(<, Nat)  T == (0..n) \ S
<1> SUFFICES ASSUME T # {} PROVE FALSE
  OBVIOUS
<1>1. T \subseteq Nat
  OBVIOUS
<1>2. PICK i \in T : \A j \in T : ~(<<j, i>> \in R)
  <2> HIDE DEF T, R
  <2>1. IsWellFoundedOn(R, Nat)
    BY NatLessThanWellFounded DEF R
  <2> QED BY <1>1, <2>1, WFMin
<1>3. i \in 1..n /\ i \notin S
  <2>1. i \in 0..n /\ i \notin S
    BY <1>2
  <2>2. i # 0
    BY <2>1
  <2> QED BY <2>1, <2>2
<1>4. i - 1 \in S
  <2>1. i - 1 \in Nat /\ i \in Nat /\ i - 1 < i /\ i - 1 \in 0..n
    BY <1>3
  <2>2. <<i - 1, i>> \in R
    BY <2>1 DEF OpToRel
  <2> QED BY <1>2, <2>1, <2>2
<1>5. i = (i - 1) + 1 /\ i - 1 \in 0..n /\ i - 1 < n
  BY <1>3
<1> HIDE DEF T
<1> QED BY <1>3, <1>4, <1>5

\* f starts with base and goes on, step by step, as G says.
Unfolds(f, n, base, G) ==
  /\ f[0] = base
  /\ \A i \in 1..n : f[i] = G[i][f[i - 1]]

\* There is such a function, of the steps' type.
LEMMA Recursion ==
  ASSUME NEW n \in Nat, NEW V, NEW base \in V, NEW G, \A i \in 1..n, v \in V : G[i][v] \in V
  PROVE  \E f \in [0..n -> V] : Unfolds(f, n, base, G)
<1> DEFINE S == {k \in 0..n : \E f \in [0..k -> V] : Unfolds(f, k, base, G)}
<1>1. 0 \in S
  <2> DEFINE f == [i \in 0..0 |-> base]
  <2>1. f \in [0..0 -> V] /\ f[0] = base /\ 0 \in 0..n /\ 1..0 = {}
    OBVIOUS
  <2> QED BY <2>1 DEF Unfolds
<1>2. ASSUME NEW k \in 0..n, k < n, k \in S PROVE k + 1 \in S
  <2>1. PICK f \in [0..k -> V] : Unfolds(f, k, base, G)
    BY <1>2
  <2> DEFINE g == [i \in 0..(k + 1) |-> IF i <= k THEN f[i] ELSE G[k + 1][f[k]]]
  <2>2. G[k + 1][f[k]] \in V
    BY <1>2
  <2>3. g \in [0..(k + 1) -> V]
    BY <2>2
  <2>4. g[0] = base
    BY <2>1 DEF Unfolds
  <2>5. ASSUME NEW i \in 1..(k + 1) PROVE g[i] = G[i][g[i - 1]]
    <3>1. i - 1 \in 0..k /\ g[i - 1] = f[i - 1]
      BY <2>5
    <3>2. CASE i <= k
      <4>1. i \in 1..k /\ g[i] = f[i]
        BY <2>5, <3>2
      <4> QED BY <2>1, <3>1, <4>1 DEF Unfolds
    <3>3. CASE i = k + 1
      BY <3>1, <3>3
    <3> QED BY <2>5, <3>2, <3>3
  <2> HIDE DEF g
  <2>6. Unfolds(g, k + 1, base, G)
    BY <2>4, <2>5 DEF Unfolds
  <2> QED BY <1>2, <2>3, <2>6
<1> HIDE DEF S
<1>3. 0..n \subseteq S
  BY <1>1, <1>2, Climb
<1>4. n \in S
  BY <1>3
<1> QED BY <1>4 DEF S
-----------------------------------------------------------------------------
(* Keys of calls.                                                          *)

\* What a call that binds is a key of: the parameters, each with what it receives.
LEMMA BoundArguments ==
  ASSUME NEW call \in Calls, Bound(call)
  PROVE  BindArgs(Params, Defaults, call) =
           [p \in ToSet(Params) |->
              Received(call, CHOOSE i \in DOMAIN Params : Params[i] = p)]
<1> DEFINE spelled == Spelled(Params, call)
           D == {Params[i] : i \in DOMAIN call.args} \cup DOMAIN call.kwargs
           place(p) == CHOOSE i \in DOMAIN Params : Params[i] = p
<1>1. /\ Len(call.args) \in Nat /\ DOMAIN call.args = 1..Len(call.args)
      /\ Len(Params) \in Nat /\ DOMAIN Params = 1..Len(Params)
      /\ ToSet(Params) = {Params[i] : i \in DOMAIN Params}
      /\ \A i, j \in DOMAIN Params : Params[i] = Params[j] => i = j
      /\ DOMAIN Defaults \subseteq ToSet(Params)
  BY SignatureAssumption, LenProperties DEF ToSet
<1>2. /\ ~(Len(call.args) > Len(Params))
      /\ \A i \in DOMAIN call.args : i \in DOMAIN Params => Params[i] \notin DOMAIN call.kwargs
      /\ DOMAIN call.kwargs \subseteq ToSet(Params)
      /\ \A i \in DOMAIN Params :
           i > Len(call.args) => Params[i] \in DOMAIN call.kwargs \cup DOMAIN Defaults
  BY DEF Bound, Unbound
<1>3. DOMAIN call.args \subseteq DOMAIN Params
  BY <1>1, <1>2
<1>4. D \cup DOMAIN Defaults = ToSet(Params)
  <2>1. D \cup DOMAIN Defaults \subseteq ToSet(Params)
    BY <1>1, <1>2, <1>3
  <2>2. ASSUME NEW i \in DOMAIN Params PROVE Params[i] \in D \cup DOMAIN Defaults
    BY <1>1, <1>2
  <2> QED BY <1>1, <2>1, <2>2
<1>5. BindArgs(Params, Defaults, call) = Over(spelled, Defaults)
  BY DEF Bound, BindArgs
<1>6. DOMAIN spelled = D
  BY DEF Spelled
<1>7. Over(spelled, Defaults) =
        [p \in ToSet(Params) |-> IF p \in D THEN spelled[p] ELSE Defaults[p]]
  BY <1>4, <1>6 DEF Over
<1>8. ASSUME NEW p \in ToSet(Params)
      PROVE  (IF p \in D THEN spelled[p] ELSE Defaults[p]) = Received(call, place(p))
  <2>1. place(p) \in DOMAIN Params /\ Params[place(p)] = p
    BY <1>1
  <2> DEFINE i == place(p)
  <2>2. i \in DOMAIN Params /\ Params[i] = p
    BY <2>1
  <2> HIDE DEF i
  <2>3. CASE i \in DOMAIN call.args
    <3>1. p \in D /\ p \notin DOMAIN call.kwargs /\ i <= Len(call.args)
      BY <1>1, <1>2, <2>2, <2>3
    <3>2. (CHOOSE k \in DOMAIN call.args : Params[k] = p) = i
      BY <1>1, <1>3, <2>2, <2>3
    <3>3. spelled[p] = call.args[i]
      BY <3>1, <3>2 DEF Spelled
    <3> QED BY <3>1, <3>3 DEF Received, i
  <2>4. CASE i \notin DOMAIN call.args
    <3>1. ~(i <= Len(call.args)) /\ i > Len(call.args)
      BY <1>1, <2>2, <2>4
    <3>2. ~\E k \in DOMAIN call.args : Params[k] = p
      BY <1>1, <1>3, <2>2, <2>4
    <3>3. p \in D <=> p \in DOMAIN call.kwargs
      BY <3>2
    <3>4. p \in D => spelled[p] = call.kwargs[p]
      BY <3>3 DEF Spelled
    <3> QED BY <2>2, <3>1, <3>3, <3>4 DEF Received, i
  <2> QED BY <2>3, <2>4
<1> QED BY <1>5, <1>7, <1>8

\* Two calls that bind have one key exactly if they receive the same, up to JSON.
LEMMA KeysCompare ==
  ASSUME NEW c \in Calls, NEW d \in Calls, Bound(c), Bound(d)
  PROVE  KeyOf(c) = KeyOf(d) <=>
           \A i \in DOMAIN Params : ToJson(Received(c, i)) = ToJson(Received(d, i))
<1> DEFINE place(p) == CHOOSE i \in DOMAIN Params : Params[i] = p
           args(e) == [p \in ToSet(Params) |-> ToJson(Received(e, place(p)))]
<1>1. ASSUME NEW e \in Calls, Bound(e)
      PROVE  KeyOf(e) = [tool |-> "tool", tenant |-> "tenant", args |-> args(e)]
  <2> DEFINE bound == [p \in ToSet(Params) |-> Received(e, place(p))]
  <2>1. BindArgs(Params, Defaults, e) = bound
    BY <1>1, BoundArguments
  <2>2. KeyOf(e) = [tool |-> "tool", tenant |-> "tenant",
                    args |-> [p \in DOMAIN bound |-> ToJson(bound[p])]]
    BY <2>1 DEF KeyOf, DefaultKey
  <2>3. [p \in DOMAIN bound |-> ToJson(bound[p])] = args(e)
    OBVIOUS
  <2> QED BY <2>2, <2>3
<1>2. KeyOf(c) = KeyOf(d) <=> args(c) = args(d)
  <2> HIDE DEF args
  <2>1. KeyOf(c).args = args(c) /\ KeyOf(d).args = args(d)
    BY <1>1
  <2> QED BY <1>1, <2>1
<1>3. /\ ToSet(Params) = {Params[i] : i \in DOMAIN Params}
      /\ \A i, j \in DOMAIN Params : Params[i] = Params[j] => i = j
  BY SignatureAssumption DEF ToSet
<1>4. ASSUME NEW i \in DOMAIN Params PROVE Params[i] \in ToSet(Params) /\ place(Params[i]) = i
  BY <1>3
<1>5. ASSUME NEW p \in ToSet(Params) PROVE place(p) \in DOMAIN Params
  BY <1>3
<1>6. ASSUME args(c) = args(d), NEW i \in DOMAIN Params
      PROVE  ToJson(Received(c, i)) = ToJson(Received(d, i))
  <2>1. args(c)[Params[i]] = args(d)[Params[i]]
    BY <1>6
  <2>2. Params[i] \in ToSet(Params) /\ place(Params[i]) = i
    BY <1>4
  <2> HIDE DEF place
  <2>3. /\ args(c)[Params[i]] = ToJson(Received(c, place(Params[i])))
        /\ args(d)[Params[i]] = ToJson(Received(d, place(Params[i])))
    BY <2>2
  <2> QED BY <2>1, <2>2, <2>3
<1>7. ASSUME \A i \in DOMAIN Params : ToJson(Received(c, i)) = ToJson(Received(d, i))
      PROVE  args(c) = args(d)
  <2>1. ASSUME NEW p \in ToSet(Params)
        PROVE  ToJson(Received(c, place(p))) = ToJson(Received(d, place(p)))
    BY <1>5, <1>7
  <2> QED BY <2>1
<1> QED BY <1>2, <1>6, <1>7
-----------------------------------------------------------------------------
(* The semantic lookup.                                                    *)

\* How many of the first i rows are candidates.
ServableUpTo(rows, i) == Cardinality({j \in 1..i : Servable(rows[j], Now, None)})

\* It is a number, and each row counts for one or for nothing.
LEMMA ServableCounts ==
  ASSUME NEW rows, NEW i \in Nat
  PROVE  /\ ServableUpTo(rows, i) \in Nat /\ ServableUpTo(rows, 0) = 0
         /\ ServableUpTo(rows, i + 1) =
              IF Servable(rows[i + 1], Now, None) THEN ServableUpTo(rows, i) + 1
              ELSE ServableUpTo(rows, i)
<1> DEFINE A == {j \in 1..i : Servable(rows[j], Now, None)}
           B == {j \in 1..(i + 1) : Servable(rows[j], Now, None)}
<1>1. IsFiniteSet(A)
  <2>1. IsFiniteSet(1..i)
    BY FS_Interval
  <2> QED BY <2>1, FS_Subset
<1>2. B = IF Servable(rows[i + 1], Now, None) THEN A \cup {i + 1} ELSE A
  <2>1. 1..(i + 1) = 1..i \cup {i + 1}
    OBVIOUS
  <2> QED BY <2>1
<1>3. i + 1 \notin A
  OBVIOUS
<1>4. {j \in 1..0 : Servable(rows[j], Now, None)} = {}
  OBVIOUS
<1>5. ServableUpTo(rows, 0) = 0
  BY <1>4, FS_EmptySet DEF ServableUpTo
<1>6. ServableUpTo(rows, i) = Cardinality(A) /\ ServableUpTo(rows, i + 1) = Cardinality(B)
  BY DEF ServableUpTo
<1> HIDE DEF A, B
<1>7. Cardinality(A) \in Nat
  BY <1>1, FS_CardinalityType
<1>8. Cardinality(A \cup {i + 1}) = Cardinality(A) + 1
  BY <1>1, <1>3, FS_AddElement
<1> QED BY <1>2, <1>5, <1>6, <1>7, <1>8

\* The rows that a backend looks at.
LastSeen(backend, rows) ==
  IF backend = "redis" /\ Scan < Len(rows) THEN Scan ELSE Len(rows)

\* The candidates are the first Limit servable rows of those that are looked at.
LEMMA CandidatesListed ==
  ASSUME NEW rows \in Histories, NEW backend
  PROVE  LET list == ListSemanticCandidates(backend, rows, Now, Limit, Scan, None)
             Listed == {i \in 1..LastSeen(backend, rows) :
                          Servable(rows[i], Now, None) /\ ServableUpTo(rows, i) <= Limit}
         IN  /\ list \in Seq(ToSet(rows))
             /\ \A k \in DOMAIN list : \E i \in Listed : list[k] = rows[i]
             /\ \A i \in Listed : \E k \in DOMAIN list : list[k] = rows[i]
<1> DEFINE last == LastSeen(backend, rows)
           X == ToSet(rows)
           V == Seq(X)
           fits(i) == Servable(rows[i], Now, None)
           G == [i \in 1..last |->
                   [v \in V |-> IF fits(i) /\ Len(v) < Limit THEN Append(v, rows[i]) ELSE v]]
           is(f) == f = [n \in 0..last |->
                           IF n = 0 THEN <<>>
                           ELSE IF fits(n) /\ Len(f[n - 1]) < Limit
                                THEN Append(f[n - 1], rows[n]) ELSE f[n - 1]]
           results == CHOOSE f : is(f)
           count(i) == ServableUpTo(rows, i)
<1>1. /\ Limit \in Nat /\ Scan \in Nat /\ rows \in Seq(X) /\ Len(rows) \in Nat
      /\ DOMAIN rows = 1..Len(rows)
  BY HistoriesAssumption, LenProperties
<1>2. last \in Nat /\ last <= Len(rows)
  BY <1>1 DEF LastSeen
<1>3. \A i \in 1..last : rows[i] \in X
  BY <1>1, <1>2, ElementOfSeq
<1>4. ListSemanticCandidates(backend, rows, Now, Limit, Scan, None) = results[last]
  BY DEF ListSemanticCandidates, LastSeen
<1> HIDE DEF last, X
<1>5. \E f \in [0..last -> V] : is(f)
  <2>1. <<>> \in V
    BY EmptySeq
  <2>2. \A i \in 1..last, v \in V : G[i][v] \in V
    BY <1>3, AppendProperties
  <2> HIDE DEF G
  <2>3. PICK f \in [0..last -> V] : Unfolds(f, last, <<>>, G)
    <3> HIDE DEF V
    <3> QED BY <1>2, <2>1, <2>2, Recursion
  <2>4. ASSUME NEW i \in 0..last
        PROVE  f[i] = IF i = 0 THEN <<>>
                      ELSE IF fits(i) /\ Len(f[i - 1]) < Limit
                           THEN Append(f[i - 1], rows[i]) ELSE f[i - 1]
    <3>1. CASE i = 0
      BY <2>3, <3>1 DEF Unfolds
    <3>2. CASE i # 0
      <4>1. i \in 1..last /\ f[i - 1] \in V
        BY <1>2, <2>4, <3>2
      <4>2. f[i] = G[i][f[i - 1]]
        BY <2>3, <4>1 DEF Unfolds
      <4> QED BY <3>2, <4>1, <4>2 DEF G
    <3> QED BY <3>1, <3>2
  <2>5. is(f)
    <3> HIDE DEF fits
    <3> QED BY <2>4
  <2> QED BY <2>5
<1>6. is(results)
  BY <1>5
<1> HIDE DEF results
<1>7. /\ results[0] = <<>>
      /\ \A n \in 1..last : results[n] =
           IF fits(n) /\ Len(results[n - 1]) < Limit
           THEN Append(results[n - 1], rows[n]) ELSE results[n - 1]
  <2> HIDE DEF fits
  <2>1. \A n \in 1..last : n \in 0..last /\ n # 0
    BY <1>2
  <2>2. 0 \in 0..last
    BY <1>2
  <2> QED BY <1>6, <2>1, <2>2
<1> DEFINE I(n) ==
             /\ results[n] \in V
             /\ Len(results[n]) = IF count(n) <= Limit THEN count(n) ELSE Limit
             /\ \A k \in DOMAIN results[n] : \E i \in 1..n :
                  fits(i) /\ count(i) <= Limit /\ results[n][k] = rows[i]
             /\ \A i \in 1..n : fits(i) /\ count(i) <= Limit =>
                  \E k \in DOMAIN results[n] : results[n][k] = rows[i]
<1>8. I(0)
  <2>1. <<>> \in V /\ Len(<<>>) = 0 /\ DOMAIN <<>> = {} /\ 1..0 = {}
    BY EmptySeq
  <2> QED BY <1>1, <1>7, <2>1, ServableCounts
<1>9. ASSUME NEW n \in 0..last, n < last, I(n) PROVE I(n + 1)
  <2> DEFINE r == results[n]  m == n + 1
  <2>1. m \in 1..last /\ m - 1 = n /\ n \in Nat /\ m \in Nat
    BY <1>2, <1>9
  <2>2. /\ count(n) \in Nat /\ count(m) = IF fits(m) THEN count(n) + 1 ELSE count(n)
    BY <2>1, ServableCounts
  <2>3. 1..m = 1..n \cup {m}
    BY <2>1
  <2>4. r \in V /\ Len(r) \in Nat /\ DOMAIN r = 1..Len(r)
    BY <1>9, LenProperties
  <2>5. results[m] = IF fits(m) /\ Len(r) < Limit THEN Append(r, rows[m]) ELSE r
    BY <1>7, <2>1
  <2>6. /\ Len(r) = IF count(n) <= Limit THEN count(n) ELSE Limit
        /\ \A k \in DOMAIN r : \E i \in 1..n : fits(i) /\ count(i) <= Limit /\ r[k] = rows[i]
        /\ \A i \in 1..n : fits(i) /\ count(i) <= Limit => \E k \in DOMAIN r : r[k] = rows[i]
    BY <1>9
  <2> HIDE DEF m, r
  <2> HIDE DEF fits, count
  <2>7. CASE fits(m) /\ Len(r) < Limit
    <3> DEFINE s == Append(r, rows[m])
    <3>1. rows[m] \in X
      BY <1>3, <2>1
    <3>2. /\ s \in V /\ Len(s) = Len(r) + 1 /\ s[Len(r) + 1] = rows[m]
          /\ \A k \in 1..Len(r) : s[k] = r[k]
      BY <2>4, <3>1, AppendProperties
    <3>3. DOMAIN s = 1..(Len(r) + 1)
      BY <3>2, LenProperties
    <3>4. results[m] = s
      BY <2>5, <2>7
    <3>5. Len(r) = count(n) /\ count(m) = count(n) + 1 /\ count(m) <= Limit
      BY <1>1, <2>2, <2>4, <2>6, <2>7
    <3> HIDE DEF s
    <3>6. ASSUME NEW k \in DOMAIN s
          PROVE  \E i \in 1..m : fits(i) /\ count(i) <= Limit /\ s[k] = rows[i]
      <4>1. CASE k \in 1..Len(r)
        <5>1. s[k] = r[k] /\ k \in DOMAIN r
          BY <2>4, <3>2, <4>1
        <5> QED BY <2>3, <2>6, <5>1
      <4>2. CASE k = Len(r) + 1
        BY <2>3, <2>7, <3>2, <3>5, <4>2
      <4> QED BY <2>4, <3>3, <3>6, <4>1, <4>2
    <3>7. ASSUME NEW i \in 1..m, fits(i), count(i) <= Limit PROVE \E k \in DOMAIN s : s[k] = rows[i]
      <4>1. CASE i \in 1..n
        <5>1. PICK k \in DOMAIN r : r[k] = rows[i]
          BY <2>6, <3>7, <4>1
        <5> QED BY <2>4, <3>2, <3>3, <5>1
      <4>2. CASE i = m
        BY <2>4, <3>2, <3>3, <4>2
      <4> QED BY <2>3, <3>7, <4>1, <4>2
    <3>8. I(m)
      BY <3>2, <3>4, <3>5, <3>6, <3>7
    <3> QED BY <3>8 DEF m
  <2>8. CASE ~(fits(m) /\ Len(r) < Limit)
    <3>1. results[m] = r
      BY <2>5, <2>8
    <3>2. CASE ~fits(m)
      <4>1. count(m) = count(n)
        BY <2>2, <3>2
      <4>2. I(m)
        BY <2>3, <2>4, <2>6, <3>1, <3>2, <4>1
      <4> QED BY <4>2 DEF m
    <3>3. CASE fits(m)
      <4>1. ~(Len(r) < Limit)
        BY <2>8, <3>3
      <4>2. count(n) >= Limit /\ count(m) = count(n) + 1
        BY <1>1, <2>2, <2>4, <2>6, <3>3, <4>1
      <4>3. ~(count(m) <= Limit) /\ Len(r) = Limit
        BY <1>1, <2>2, <2>6, <4>2
      <4>4. I(m)
        BY <2>3, <2>4, <2>6, <3>1, <4>3
      <4> QED BY <4>4 DEF m
    <3> QED BY <3>2, <3>3
  <2> QED BY <2>7, <2>8
<1> DEFINE S == {n \in 0..last : I(n)}
<1> HIDE DEF I
<1>10. 0..last \subseteq S
  <2>1. 0 \in S
    BY <1>2, <1>8
  <2>2. \A n \in 0..last : n < last /\ n \in S => n + 1 \in S
    BY <1>2, <1>9
  <2> HIDE DEF S
  <2> QED BY <1>2, <2>1, <2>2, Climb
<1>11. I(last)
  BY <1>2, <1>10
<1> QED BY <1>4, <1>11 DEF I, last, X

\* The product of two vectors of integers is an integer, and that of one with itself is
\* not negative.
LEMMA DotFacts ==
  ASSUME NEW a \in Seq(Int), NEW b \in Seq(Int), Len(a) = Len(b)
  PROVE  Dot(a, b) \in Int /\ (a = b => Dot(a, b) >= 0)
<1> DEFINE n == Len(a)
           is(f) == f = [i \in 0..n |-> IF i = 0 THEN 0 ELSE f[i - 1] + a[i] * b[i]]
           sum == CHOOSE f : is(f)
           V == IF a = b THEN Nat ELSE Int
           G == [i \in 1..n |-> [v \in V |-> v + a[i] * b[i]]]
<1>1. n \in Nat /\ \A i \in 1..n : a[i] \in Int /\ b[i] \in Int
  BY LenProperties, ElementOfSeq
<1>2. Dot(a, b) = sum[n]
  BY DEF Dot
<1> HIDE DEF n
<1>3. \A i \in 1..n, v \in V : v + a[i] * b[i] \in V
  <2>1. ASSUME NEW i \in 1..n, NEW v \in V PROVE v + a[i] * b[i] \in V
    <3>1. a[i] \in Int /\ b[i] \in Int
      BY <1>1
    <3> DEFINE x == a[i]  y == b[i]
    <3>2. CASE a = b
      <4>1. x \in Int /\ y = x /\ V = Nat /\ v \in Nat
        BY <2>1, <3>1, <3>2
      <4> HIDE DEF x, y, V
      <4>2. x * x >= 0 /\ x * x \in Int
        BY <4>1
      <4>3. v + x * y \in Nat
        <5> DEFINE z == x * x
        <5>1. z \in Int /\ z >= 0 /\ x * y = z
          BY <4>1, <4>2
        <5> HIDE DEF z
        <5> QED BY <4>1, <5>1
      <4> QED BY <4>1, <4>3 DEF x, y
    <3>3. CASE a # b
      <4>1. x \in Int /\ y \in Int /\ V = Int /\ v \in Int
        BY <2>1, <3>1, <3>3
      <4> HIDE DEF x, y, V
      <4>2. v + x * y \in Int
        BY <4>1
      <4> QED BY <4>1, <4>2 DEF x, y
    <3> QED BY <3>2, <3>3
  <2> QED BY <2>1
<1>4. 0 \in V
  OBVIOUS
<1>5. V \subseteq Int /\ (a = b => V = Nat)
  OBVIOUS
<1> HIDE DEF V
<1>6. \E f \in [0..n -> V] : is(f)
  <2>1. \A i \in 1..n, v \in V : G[i][v] \in V
    BY <1>3
  <2> HIDE DEF G
  <2>2. PICK f \in [0..n -> V] : Unfolds(f, n, 0, G)
    BY <1>1, <1>4, <2>1, Recursion
  <2>3. ASSUME NEW i \in 0..n PROVE f[i] = IF i = 0 THEN 0 ELSE f[i - 1] + a[i] * b[i]
    <3>1. CASE i = 0
      BY <2>2, <3>1 DEF Unfolds
    <3>2. CASE i # 0
      <4>1. i \in 1..n /\ f[i - 1] \in V
        BY <1>1, <2>3, <3>2
      <4>2. f[i] = G[i][f[i - 1]]
        BY <2>2, <4>1 DEF Unfolds
      <4> QED BY <3>2, <4>1, <4>2 DEF G
    <3> QED BY <3>1, <3>2
  <2> QED BY <2>3
<1>7. is(sum)
  BY <1>6
<1> HIDE DEF sum
<1> DEFINE S == {i \in 0..n : sum[i] \in V}
<1>8. 0..n \subseteq S
  <2>1. 0 \in S
    BY <1>1, <1>4, <1>7
  <2>2. ASSUME NEW i \in 0..n, i < n, i \in S PROVE i + 1 \in S
    <3>1. i + 1 \in 1..n /\ i + 1 \in 0..n /\ i + 1 # 0 /\ (i + 1) - 1 = i
      BY <1>1, <2>2
    <3>2. sum[i + 1] = sum[i] + a[i + 1] * b[i + 1]
      BY <1>7, <3>1
    <3> QED BY <1>3, <2>2, <3>1, <3>2
  <2> HIDE DEF S
  <2> QED BY <1>1, <2>1, <2>2, Climb
<1>9. sum[n] \in V
  BY <1>1, <1>8
<1>10. sum[n] \in Int /\ (a = b => sum[n] \in Nat)
  BY <1>5, <1>9
<1>11. a = b => sum[n] >= 0
  BY <1>10
<1> QED BY <1>2, <1>10, <1>11

\* A score is a fraction.
Fraction(s) == s.num \in Int /\ s.den \in Nat \ {0}

\* Whatever the vectors, even of different lengths or all zero, cosine_similarity divides
\* by no zero.
LEMMA ScoreIsFraction ==
  ASSUME NEW a \in Seq(Int), NEW b \in Seq(Int)
  PROVE  Fraction(CosineSimilarity(a, b))
<1>1. Fraction(Zero)
  BY DEF Fraction, Zero
<1>2. CASE Len(a) # Len(b)
  BY <1>1, <1>2 DEF CosineSimilarity
<1>3. CASE Len(a) = Len(b)
  <2> DEFINE x == Dot(a, a)  y == Dot(b, b)  dot == Dot(a, b)
  <2>1. x \in Nat /\ y \in Nat /\ dot \in Int
    BY <1>3, DotFacts
  <2>2. CosineSimilarity(a, b) =
          IF x * y = 0 THEN Zero
          ELSE [num |-> IF dot < 0 THEN -(dot * dot) ELSE dot * dot, den |-> x * y]
    BY <1>3 DEF CosineSimilarity
  <2> HIDE DEF x, y, dot
  <2> DEFINE norms == x * y  num == IF dot < 0 THEN -(dot * dot) ELSE dot * dot
  <2>3. norms \in Nat /\ num \in Int
    BY <2>1
  <2>4. CosineSimilarity(a, b) = IF norms = 0 THEN Zero ELSE [num |-> num, den |-> norms]
    BY <2>2
  <2> HIDE DEF norms, num
  <2> QED BY <1>1, <2>3, <2>4 DEF Fraction
<1> QED BY <1>2, <1>3

\* Comparing fractions is transitive, and none is above itself.
LEMMA AboveTransitive ==
  ASSUME NEW s, NEW t, NEW u, Fraction(s), Fraction(t), Fraction(u), Above(s, t), Above(t, u)
  PROVE  Above(s, u)
<1> DEFINE a == s.num  b == s.den  c == t.num  d == t.den  e == u.num  f == u.den
<1>1. a \in Int /\ c \in Int /\ e \in Int /\ b \in Nat /\ d \in Nat /\ f \in Nat
  BY DEF Fraction
<1>2. b > 0 /\ d > 0 /\ f > 0
  BY <1>1 DEF Fraction
<1>3. a * d > c * b /\ c * f > e * d
  BY DEF Above
<1> HIDE DEF a, b, c, d, e, f
<1>4. (a * d) * f > (c * b) * f
  <2> DEFINE x == a * d  y == c * b
  <2>1. x \in Int /\ y \in Int /\ x > y
    BY <1>1, <1>3
  <2> HIDE DEF x, y
  <2>2. x * f > y * f
    BY <1>1, <1>2, <2>1
  <2> QED BY <2>2 DEF x, y
<1>5. (c * f) * b > (e * d) * b
  <2> DEFINE x == c * f  y == e * d
  <2>1. x \in Int /\ y \in Int /\ x > y
    BY <1>1, <1>3
  <2> HIDE DEF x, y
  <2>2. x * b > y * b
    BY <1>1, <1>2, <2>1
  <2> QED BY <2>2 DEF x, y
<1>6. (a * d) * f = (a * f) * d /\ (c * b) * f = (c * f) * b /\ (e * d) * b = (e * b) * d
  BY <1>1
<1>7. a * f > e * b
  <2> DEFINE x == a * f  y == e * b  z == (c * f) * b
  <2>1. x \in Int /\ y \in Int /\ z \in Int
    BY <1>1
  <2>2. x * d > z /\ z > y * d
    BY <1>4, <1>5, <1>6
  <2> HIDE DEF x, y, z
  <2>3. x * d \in Int /\ y * d \in Int
    BY <1>1, <2>1
  <2>4. x * d > y * d
    <3> DEFINE v == x * d  w == y * d
    <3>1. v \in Int /\ w \in Int /\ v > z /\ z > w
      BY <2>2, <2>3
    <3> HIDE DEF v, w
    <3>2. v > w
      BY <2>1, <3>1
    <3> QED BY <3>2 DEF v, w
  <2>5. x > y
    BY <1>1, <1>2, <2>1, <2>4
  <2> QED BY <2>5 DEF x, y
<1> QED BY <1>7 DEF Above, a, b, e, f

\* A candidate does not replace one of its own score.
LEMMA AboveIrreflexive ==
  ASSUME NEW s, Fraction(s)
  PROVE  ~Above(s, s)
<1> DEFINE n == s.num  d == s.den
<1>1. n \in Int /\ d \in Int
  BY DEF Fraction
<1> HIDE DEF n, d
<1>2. ~(n * d > n * d)
  BY <1>1
<1> QED BY <1>2 DEF Above, n, d

\* What is close enough to be served.
Serves(embedding, row) ==
  Close(embedding, row, Threshold, Bad) /\ Above(Score(embedding, row), Zero)

\* None of the candidates that could be served is closer than the one that is.
LEMMA BestIsNearest ==
  ASSUME NEW embedding \in Seq(Int), NEW X, NEW list \in Seq(X),
         \A k \in 1..Len(list) : /\ list[k] # None
                                 /\ list[k].vector # Bad => list[k].vector \in Seq(Int)
  PROVE  LET hit == Best(embedding, list, Threshold, None, Bad)
             Fits == {k \in 1..Len(list) : Serves(embedding, list[k])}
         IN  \/ Fits = {} /\ hit = None
             \/ \E k \in Fits : /\ hit = list[k]
                                /\ \A j \in Fits : ~Above(Score(embedding, list[j]),
                                                          Score(embedding, list[k]))
<1> DEFINE n == Len(list)
           V == X \cup {None}
           better(i, v) == Better(embedding, list[i], v, Threshold, None, Bad)
           is(f) == f = [i \in 0..n |->
                           IF i = 0 THEN None
                           ELSE LET before == f[i - 1]
                                IN  IF better(i, before) THEN list[i] ELSE before]
           best == CHOOSE f : is(f)
           G == [i \in 1..n |-> [v \in V |-> IF better(i, v) THEN list[i] ELSE v]]
           score(k) == Score(embedding, list[k])
           fit(k) == Serves(embedding, list[k])
<1>1. n \in Nat /\ \A i \in 1..n : list[i] \in X
  BY LenProperties, ElementOfSeq
<1>2. Best(embedding, list, Threshold, None, Bad) = best[n]
  BY DEF Best
<1>3. \A k \in 1..n : fit(k) => Fraction(score(k))
  BY ScoreIsFraction DEF Serves, Close, Score
<1>4. Fraction(Zero)
  BY DEF Fraction, Zero
<1>5. \A k \in 1..n : list[k] # None
  OBVIOUS
<1>6. \A i \in 1..n, v \in V :
        better(i, v) <=> /\ Close(embedding, list[i], Threshold, Bad)
                         /\ Above(score(i), IF v = None THEN Zero ELSE Score(embedding, v))
  BY DEF Better
<1> HIDE DEF n, better
<1>7. \E f \in [0..n -> V] : is(f)
  <2>1. \A i \in 1..n, v \in V : G[i][v] \in V
    BY <1>1
  <2>2. None \in V
    OBVIOUS
  <2> HIDE DEF G, V
  <2>3. PICK f \in [0..n -> V] : Unfolds(f, n, None, G)
    BY <1>1, <2>1, <2>2, Recursion
  <2>4. ASSUME NEW i \in 0..n
        PROVE  f[i] = IF i = 0 THEN None ELSE IF better(i, f[i - 1]) THEN list[i] ELSE f[i - 1]
    <3>1. CASE i = 0
      BY <2>3, <3>1 DEF Unfolds
    <3>2. CASE i # 0
      <4>1. i \in 1..n /\ f[i - 1] \in V
        BY <1>1, <2>4, <3>2
      <4>2. f[i] = G[i][f[i - 1]]
        BY <2>3, <4>1 DEF Unfolds
      <4> QED BY <3>2, <4>1, <4>2 DEF G
    <3> QED BY <3>1, <3>2
  <2> QED BY <2>4
<1>8. is(best)
  BY <1>7
<1> HIDE DEF best
<1> DEFINE None0(i) == best[i] = None /\ \A j \in 1..i : ~fit(j)
           Hit(i) == \E k \in 1..i : /\ best[i] = list[k] /\ fit(k)
                                     /\ \A j \in 1..i : fit(j) => ~Above(score(j), score(k))
           S == {i \in 0..n : None0(i) \/ Hit(i)}
<1>9. 0 \in S
  <2>1. best[0] = None /\ 1..0 = {} /\ 0 \in 0..n
    BY <1>1, <1>8
  <2> QED BY <2>1
<1>10. ASSUME NEW i \in 0..n, i < n, i \in S PROVE i + 1 \in S
  <2> DEFINE m == i + 1
  <2>1. m \in 1..n /\ m \in 0..n /\ m # 0 /\ m - 1 = i /\ 1..m = 1..i \cup {m}
    BY <1>1, <1>10
  <2>2. 1..m \subseteq 1..n
    BY <1>1, <2>1
  <2> HIDE DEF m, score, fit
  <2>3. best[m] = IF better(m, best[i]) THEN list[m] ELSE best[i]
    BY <1>8, <2>1
  <2>4. fit(m) <=> Close(embedding, list[m], Threshold, Bad) /\ Above(score(m), Zero)
    BY DEF fit, Serves, score
  <2>5. CASE None0(i)
    <3>1. better(m, best[i]) <=> fit(m)
      BY <1>6, <2>1, <2>4, <2>5
    <3>2. CASE fit(m)
      <4>1. best[m] = list[m]
        BY <2>3, <3>1, <3>2
      <4>2. ~Above(score(m), score(m))
        BY <1>3, <2>1, <3>2, AboveIrreflexive
      <4>3. Hit(m)
        BY <2>1, <2>5, <3>2, <4>1, <4>2
      <4> QED BY <2>1, <4>3 DEF m
    <3>3. CASE ~fit(m)
      <4>1. None0(m)
        BY <2>1, <2>3, <2>5, <3>1, <3>3
      <4> QED BY <2>1, <4>1 DEF m
    <3> QED BY <3>2, <3>3
  <2>6. CASE Hit(i)
    <3>1. PICK k \in 1..i : /\ best[i] = list[k] /\ fit(k)
                            /\ \A j \in 1..i : fit(j) => ~Above(score(j), score(k))
      BY <2>6
    <3>2. k \in 1..n /\ k \in 1..m /\ list[k] # None /\ list[k] \in V
      BY <1>1, <1>5, <2>1, <2>2, <3>1
    <3>3. Fraction(score(k)) /\ Above(score(k), Zero)
      BY <1>3, <3>1, <3>2 DEF fit, Serves, score
    <3>4. better(m, best[i]) <=> /\ Close(embedding, list[m], Threshold, Bad)
                                 /\ Above(score(m), score(k))
      <4>1. better(m, list[k]) <=> /\ Close(embedding, list[m], Threshold, Bad)
                                   /\ Above(score(m), Score(embedding, list[k]))
        BY <1>6, <2>1, <3>2
      <4> QED BY <3>1, <4>1 DEF score
    <3>5. CASE better(m, best[i])
      <4>1. Close(embedding, list[m], Threshold, Bad) /\ Above(score(m), score(k))
        BY <3>4, <3>5
      <4>2. Fraction(score(m))
        <5>1. list[m].vector \in Seq(Int)
          BY <2>1, <4>1 DEF Close, n
        <5> QED BY <5>1, ScoreIsFraction DEF score, Score
      <4>3. fit(m)
        BY <1>4, <2>4, <3>3, <4>1, <4>2, AboveTransitive
      <4>4. ASSUME NEW j \in 1..m, fit(j) PROVE ~Above(score(j), score(m))
        <5>1. CASE j \in 1..i
          <6>1. ~Above(score(j), score(k)) /\ Fraction(score(j))
            BY <1>3, <2>2, <3>1, <4>4, <5>1
          <6> QED BY <3>3, <4>1, <4>2, <6>1, AboveTransitive
        <5>2. CASE j = m
          BY <4>2, <5>2, AboveIrreflexive
        <5> QED BY <2>1, <4>4, <5>1, <5>2
      <4>5. best[m] = list[m] /\ m \in 1..m
        BY <2>1, <2>3, <3>5
      <4>6. Hit(m)
        BY <4>3, <4>4, <4>5
      <4> QED BY <2>1, <4>6 DEF m
    <3>6. CASE ~better(m, best[i])
      <4>1. best[m] = list[k]
        BY <2>3, <3>1, <3>6
      <4>2. fit(m) => ~Above(score(m), score(k))
        BY <2>4, <3>4, <3>6
      <4>3. Hit(m)
        BY <2>1, <3>1, <3>2, <4>1, <4>2
      <4> QED BY <2>1, <4>3 DEF m
    <3> QED BY <3>5, <3>6
  <2> QED BY <1>10, <2>5, <2>6
<1>11. n \in S
  <2> HIDE DEF S
  <2>1. 0..n \subseteq S
    BY <1>1, <1>9, <1>10, Climb
  <2> QED BY <1>1, <2>1
<1>12. None0(n) \/ Hit(n)
  BY <1>11
<1> QED BY <1>2, <1>12 DEF n

\* A lookup's result is what the property asks for.
LEMMA LookupIsNearest ==
  ASSUME input \in [backend : {"sqlite", "redis"}, rows : Histories, embedding : Embeddings],
         output = [hit |-> Best(input.embedding, Candidates, Threshold, None, Bad)]
  PROVE  NearestIsServed
<1> DEFINE rows == input.rows  embedding == input.embedding  backend == input.backend
           list == ListSemanticCandidates(backend, rows, Now, Limit, Scan, None)
           last == LastSeen(backend, rows)
           Found == {i \in 1..last : Servable(rows[i], Now, None) /\ ServableUpTo(rows, i) <= Limit}
           Fit(row) == Servable(row, Now, None) /\ Serves(embedding, row)
           Listed == {i \in DOMAIN rows : ServableUpTo(rows, i) <= Limit
                                            /\ (backend = "redis" => i <= Scan)}
           Fits == {i \in Listed : Fit(rows[i])}
           hit == Best(embedding, list, Threshold, None, Bad)
<1>1. rows \in Histories /\ embedding \in Embeddings /\ Candidates = list /\ output.hit = hit
  BY DEF Candidates
<1>2. /\ rows \in Seq(ToSet(rows)) /\ embedding \in Seq(Int) /\ Scan \in Nat
      /\ \A i \in DOMAIN rows : /\ rows[i] # None
                                /\ rows[i].vector \notin {None, Bad} => rows[i].vector \in Seq(Int)
  <2> HIDE DEF rows, embedding
  <2> QED BY <1>1, HistoriesAssumption
<1>3. DOMAIN rows = 1..Len(rows) /\ Len(rows) \in Nat
  BY <1>2, LenProperties
<1>4. Fits = {i \in Found : Serves(embedding, rows[i])}
  <2>1. ASSUME NEW i PROVE i \in 1..last <=> i \in DOMAIN rows /\ (backend = "redis" => i <= Scan)
    BY <1>2, <1>3 DEF LastSeen
  <2> HIDE DEF last, rows, backend, embedding
  <2> QED BY <2>1
<1>5. /\ list \in Seq(ToSet(rows))
      /\ \A k \in DOMAIN list : \E i \in Found : list[k] = rows[i]
      /\ \A i \in Found : \E k \in DOMAIN list : list[k] = rows[i]
  BY <1>1, CandidatesListed
<1>6. DOMAIN list = 1..Len(list)
  BY <1>5, LenProperties
<1>7. Found \subseteq DOMAIN rows
  BY <1>2, <1>3 DEF LastSeen
<1>8. \A i \in Found : rows[i] # None /\ (rows[i].vector # Bad => rows[i].vector \in Seq(Int))
  BY <1>2, <1>7 DEF Servable
<1> HIDE DEF list, hit, Found, Fits
<1>9. \A k \in 1..Len(list) : /\ list[k] # None
                              /\ list[k].vector # Bad => list[k].vector \in Seq(Int)
  BY <1>5, <1>6, <1>8
<1> DEFINE Served == {k \in 1..Len(list) : Serves(embedding, list[k])}
<1>10. \/ Served = {} /\ hit = None
       \/ \E k \in Served : /\ hit = list[k]
                            /\ \A j \in Served : ~Above(Score(embedding, list[j]),
                                                        Score(embedding, list[k]))
  <2> HIDE DEF embedding
  <2> QED BY <1>2, <1>5, <1>9, BestIsNearest DEF hit
<1>11. \A k \in Served : \E i \in Fits : list[k] = rows[i]
  BY <1>4, <1>5, <1>6
<1>12. \A i \in Fits : \E k \in Served : list[k] = rows[i]
  BY <1>4, <1>5, <1>6
<1>13. IF Fits = {} THEN output.hit = None
       ELSE \E i \in Fits : /\ output.hit = rows[i]
                            /\ \A j \in Fits : ~Above(Score(embedding, rows[j]),
                                                      Score(embedding, rows[i]))
  <2> HIDE DEF Served, rows, embedding
  <2>1. CASE Fits = {}
    BY <1>1, <1>10, <1>11, <2>1
  <2>2. CASE Fits # {}
    <3>1. PICK k \in Served : /\ hit = list[k]
                              /\ \A j \in Served : ~Above(Score(embedding, list[j]),
                                                          Score(embedding, list[k]))
      BY <1>10, <1>12, <2>2
    <3>2. PICK i \in Fits : list[k] = rows[i]
      BY <1>11
    <3>3. ASSUME NEW j \in Fits PROVE ~Above(Score(embedding, rows[j]), Score(embedding, rows[i]))
      BY <1>12, <3>1, <3>2
    <3> QED BY <1>1, <2>2, <3>1, <3>2, <3>3
  <2> QED BY <2>1, <2>2
<1> QED BY <1>13 DEF Fits, NearestIsServed, Serves, ServableUpTo
-----------------------------------------------------------------------------
(* The lists that people read.                                             *)

\* In a finite set that is not empty, there is a row none of the others is later than.
LEMMA LatestIsIn ==
  ASSUME NEW rows, IsFiniteSet(rows), rows # {}, NEW time, \A row \in rows : row[time] \in Int
  PROVE  /\ Latest(rows, time) \in rows
         /\ \A other \in rows : Latest(rows, time)[time] >= other[time]
<1> DEFINE n == Cardinality(rows)
<1>1. n \in Nat /\ \E f : f \in Bijection(1..n, rows)
  BY FS_CardinalityType DEF ExistsBijection
<1>2. PICK f : f \in Bijection(1..n, rows)
  BY <1>1
<1>3. f \in [1..n -> rows] /\ \A row \in rows : \E i \in 1..n : f[i] = row
  BY <1>2 DEF Bijection, Surjection
<1> HIDE DEF n
<1> DEFINE best(k, m) == m \in 1..k /\ \A j \in 1..k : f[m][time] >= f[j][time]
           S == {k \in 0..n : k = 0 \/ \E m : best(k, m)}
<1>4. \A i \in 1..n : f[i] \in rows /\ f[i][time] \in Int
  BY <1>3
<1>5. 0 \in S
  BY <1>1
<1>6. ASSUME NEW k \in 0..n, k < n, k \in S PROVE k + 1 \in S
  <2> DEFINE l == k + 1
  <2>1. l \in 1..n /\ l \in 0..n /\ 1..l = 1..k \cup {l} /\ 1..l \subseteq 1..n
    BY <1>1, <1>6
  <2>2. k = 0 => 1..k = {}
    OBVIOUS
  <2> HIDE DEF l
  <2>3. \E m : best(l, m)
    <3>1. CASE k = 0
      <4>1. best(l, l)
        BY <1>4, <2>1, <2>2, <3>1
      <4> QED BY <4>1
    <3>2. CASE k # 0
      <4>1. PICK m : best(k, m)
        BY <1>6, <3>2
      <4>2. CASE f[m][time] >= f[l][time]
        <5>1. best(l, m)
          BY <2>1, <4>1, <4>2
        <5> QED BY <5>1
      <4>3. CASE ~(f[m][time] >= f[l][time])
        <5>1. \A j \in 1..k : f[j][time] \in Int /\ f[m][time] >= f[j][time]
          BY <1>4, <2>1, <4>1
        <5>2. f[m][time] \in Int /\ f[l][time] \in Int
          BY <1>4, <2>1, <4>1
        <5>3. \A j \in 1..k : f[l][time] >= f[j][time]
          BY <4>3, <5>1, <5>2
        <5>4. best(l, l)
          BY <2>1, <5>2, <5>3
        <5> QED BY <5>4
      <4> QED BY <4>2, <4>3
    <3> QED BY <3>1, <3>2
  <2> QED BY <2>1, <2>3 DEF l
<1>7. n \in S
  <2> HIDE DEF S
  <2>1. 0..n \subseteq S
    BY <1>1, <1>5, <1>6, Climb
  <2> QED BY <1>1, <2>1
<1>8. n # 0
  BY <1>1, <1>3
<1>9. PICK m : best(n, m)
  BY <1>7, <1>8
<1>10. f[m] \in rows /\ \A other \in rows : f[m][time] >= other[time]
  BY <1>3, <1>9
<1> QED BY <1>10 DEF Latest

\* A list of rows, each once and in order, that leaves out something only if it is full,
\* and nothing later than what it has.
Newest(list, rows, time, limit) ==
  /\ list \in Seq(rows) /\ Len(list) <= limit
  /\ \A i, j \in 1..Len(list) :
       /\ list[i] = list[j] => i = j
       /\ i < j => list[i][time] >= list[j][time]
  /\ \A row \in rows \ ToSet(list) :
       Len(list) = limit /\ \A i \in 1..Len(list) : list[i][time] >= row[time]

\* ORDER BY ... DESC LIMIT makes one.
LEMMA LatestFirstFacts ==
  ASSUME NEW rows, IsFiniteSet(rows), NEW time, \A row \in rows : row[time] \in Int,
         NEW limit \in Nat
  PROVE  Newest(LatestFirst(rows, time, limit), rows, time, limit)
<1> DEFINE V == Seq(rows)
           rest(v) == rows \ ToSet(v)
           next(v) == IF rest(v) = {} THEN v ELSE Append(v, Latest(rest(v), time))
           is(f) == f = [n \in 0..limit |->
                           IF n = 0 THEN <<>>
                           ELSE LET others == rows \ ToSet(f[n - 1])
                                IN  IF others = {} THEN f[n - 1]
                                    ELSE Append(f[n - 1], Latest(others, time))]
           lists == CHOOSE f : is(f)
           G == [i \in 1..limit |-> [v \in V |-> next(v)]]
<1>1. LatestFirst(rows, time, limit) = lists[limit]
  BY DEF LatestFirst
<1>2. ASSUME NEW v \in V, rest(v) # {}
      PROVE  /\ Latest(rest(v), time) \in rest(v)
             /\ \A row \in rest(v) : Latest(rest(v), time)[time] >= row[time]
  <2> DEFINE R == rest(v)
  <2>1. IsFiniteSet(R) /\ R # {} /\ \A row \in R : row[time] \in Int
    BY <1>2, FS_Difference
  <2> HIDE DEF R
  <2>2. /\ Latest(R, time) \in R
        /\ \A other \in R : Latest(R, time)[time] >= other[time]
    BY <2>1, LatestIsIn
  <2> QED BY <2>2 DEF R
<1>3. \A v \in V : next(v) \in V
  BY <1>2, AppendProperties
<1>4. <<>> \in V
  BY EmptySeq
<1>5. \E f \in [0..limit -> V] : is(f)
  <2>1. \A i \in 1..limit, v \in V : G[i][v] \in V
    BY <1>3
  <2>2. PICK f \in [0..limit -> V] : Unfolds(f, limit, <<>>, G)
    <3> HIDE DEF G, V
    <3> QED BY <1>4, <2>1, Recursion
  <2>3. ASSUME NEW i \in 0..limit PROVE f[i] = IF i = 0 THEN <<>> ELSE next(f[i - 1])
    <3>1. CASE i = 0
      BY <2>2, <3>1 DEF Unfolds
    <3>2. CASE i # 0
      <4>1. i \in 1..limit /\ f[i - 1] \in V
        BY <2>3, <3>2
      <4>2. f[i] = G[i][f[i - 1]]
        BY <2>2, <4>1 DEF Unfolds
      <4> HIDE DEF next
      <4> QED BY <3>2, <4>1, <4>2
    <3> QED BY <3>1, <3>2
  <2> HIDE DEF V
  <2> QED BY <2>3
<1>6. is(lists)
  BY <1>5
<1> HIDE DEF lists
<1>7. lists[0] = <<>> /\ \A n \in 1..limit : lists[n] = next(lists[n - 1])
  <2>1. 0 \in 0..limit /\ \A n \in 1..limit : n \in 0..limit /\ n # 0
    OBVIOUS
  <2> QED BY <1>6, <2>1
<1> DEFINE Sorted(n) == \A i, j \in 1..Len(lists[n]) :
                          /\ lists[n][i] = lists[n][j] => i = j
                          /\ i < j => lists[n][i][time] >= lists[n][j][time]
           Full(n) == \A row \in rest(lists[n]) :
                        /\ Len(lists[n]) = n
                        /\ \A i \in 1..Len(lists[n]) : lists[n][i][time] >= row[time]
           I(n) == lists[n] \in V /\ Len(lists[n]) <= n /\ Sorted(n) /\ Full(n)
           S == {n \in 0..limit : I(n)}
<1>8. 0 \in S
  <2>1. Len(<<>>) = 0 /\ 1..0 = {}
    OBVIOUS
  <2>2. lists[0] \in V /\ Len(lists[0]) = 0 /\ 1..Len(lists[0]) = {}
    BY <1>4, <1>7, <2>1
  <2> HIDE DEF rest, V
  <2>3. Sorted(0) /\ Full(0)
    BY <2>2
  <2> QED BY <2>2, <2>3
<1>9. ASSUME NEW n \in 0..limit, n < limit, n \in S PROVE n + 1 \in S
  <2> DEFINE m == n + 1  v == lists[n]  w == lists[m]
  <2>1. m \in 1..limit /\ m \in 0..limit /\ m - 1 = n /\ n \in Nat
    BY <1>9
  <2>2. w = next(v)
    BY <1>7, <2>1
  <2>3. v \in V /\ Len(v) <= n /\ Sorted(n) /\ Full(n)
    BY <1>9
  <2>4. Len(v) \in Nat /\ DOMAIN v = 1..Len(v) /\ \A i \in 1..Len(v) : v[i] \in rows
    BY <2>3, LenProperties, ElementOfSeq
  <2>5. CASE rest(v) = {}
    <3>1. w = v
      BY <2>2, <2>5
    <3> HIDE DEF rest
    <3>2. I(m)
      <4>1. Len(w) <= m
        BY <2>1, <2>3, <2>4, <3>1
      <4>2. Sorted(m) /\ Full(m)
        BY <2>3, <2>5, <3>1
      <4> QED BY <2>3, <3>1, <4>1, <4>2
    <3> QED BY <2>1, <3>2
  <2>6. CASE rest(v) # {}
    <3> DEFINE r == Latest(rest(v), time)  l == Len(v)
    <3>1. r \in rest(v) /\ \A row \in rest(v) : r[time] >= row[time]
      BY <1>2, <2>3, <2>6
    <3>2. l = n
      BY <2>3, <2>6
    <3>3. w = Append(v, r)
      BY <2>2, <2>6
    <3> HIDE DEF r
    <3>4. r \in rows /\ \A i \in 1..l : v[i] # r
      BY <2>4, <3>1 DEF ToSet
    <3>5. /\ w \in V /\ Len(w) = l + 1 /\ w[l + 1] = r
          /\ \A i \in 1..l : w[i] = v[i]
      BY <2>3, <3>3, <3>4, AppendProperties
    <3>6. \A i \in 1..l : v[i][time] >= r[time]
      BY <2>3, <3>1
    <3>7. 1..Len(w) = 1..l \cup {l + 1} /\ DOMAIN w = 1..Len(w)
      BY <2>4, <3>5, LenProperties
    <3>8. Sorted(m)
      <4>1. ASSUME NEW i \in 1..Len(w), NEW j \in 1..Len(w), w[i] = w[j] PROVE i = j
        <5>1. CASE i \in 1..l /\ j \in 1..l
          <6>1. v[i] = v[j]
            BY <3>5, <4>1, <5>1
          <6> QED BY <2>3, <5>1, <6>1
        <5>2. CASE i = l + 1 \/ j = l + 1
          BY <3>4, <3>5, <3>7, <4>1, <5>2
        <5> QED BY <3>7, <4>1, <5>1, <5>2
      <4>2. ASSUME NEW i \in 1..Len(w), NEW j \in 1..Len(w), i < j PROVE w[i][time] >= w[j][time]
        <5>1. CASE j \in 1..l
          <6>1. i \in 1..l
            BY <3>7, <4>2, <5>1
          <6>2. v[i][time] >= v[j][time]
            BY <2>3, <4>2, <5>1, <6>1
          <6> QED BY <3>5, <5>1, <6>1, <6>2
        <5>2. CASE j = l + 1
          <6>1. i \in 1..l
            BY <2>4, <3>7, <4>2, <5>2
          <6> QED BY <3>5, <3>6, <5>2, <6>1
        <5> QED BY <3>7, <4>2, <5>1, <5>2
      <4> QED BY <4>1, <4>2
    <3>9. rest(w) \subseteq rest(v)
      <4>1. ToSet(v) \subseteq ToSet(w)
        BY <2>4, <3>5, <3>7 DEF ToSet
      <4> QED BY <4>1
    <3>10. Full(m)
      <4>1. ASSUME NEW row \in rest(w), NEW i \in 1..Len(w) PROVE w[i][time] >= row[time]
        <5>1. row \in rest(v)
          BY <3>9, <4>1
        <5>2. CASE i \in 1..l
          BY <2>3, <3>5, <5>1, <5>2
        <5>3. CASE i = l + 1
          BY <3>1, <3>5, <5>1, <5>3
        <5> QED BY <3>7, <4>1, <5>2, <5>3
      <4>2. Len(w) = m
        BY <3>2, <3>5
      <4> QED BY <4>1, <4>2
    <3>11. Len(w) <= m
      BY <3>2, <3>5, <2>1
    <3>12. I(m)
      BY <3>5, <3>8, <3>10, <3>11
    <3> QED BY <2>1, <3>12
  <2> QED BY <2>5, <2>6
<1>10. I(limit)
  <2> HIDE DEF I
  <2>1. 0 \in S /\ \A n \in 0..limit : n < limit /\ n \in S => n + 1 \in S
    BY <1>8, <1>9
  <2>2. 0..limit \subseteq S
    <3> HIDE DEF S
    <3> QED BY <2>1, Climb
  <2> QED BY <2>2
<1> QED BY <1>1, <1>10 DEF Newest

\* It has as many rows as it is long.
LEMMA ListedRows ==
  ASSUME NEW rows, NEW list \in Seq(rows),
         \A i, j \in 1..Len(list) : list[i] = list[j] => i = j
  PROVE  /\ ToSet(list) \subseteq rows /\ Len(list) \in Nat
         /\ ToSet(list) = {list[i] : i \in 1..Len(list)}
         /\ IsFiniteSet(ToSet(list)) /\ Cardinality(ToSet(list)) = Len(list)
<1> DEFINE n == Len(list)  T == ToSet(list)
<1>1. n \in Nat /\ DOMAIN list = 1..n /\ list \in [1..n -> rows]
  BY LenProperties
<1>2. T = {list[i] : i \in 1..n} /\ T \subseteq rows
  BY <1>1 DEF ToSet
<1> HIDE DEF n, T
<1>3. IsFiniteSet(1..n) /\ Cardinality(1..n) = n
  BY <1>1, FS_Interval
<1>4. list \in Bijection(1..n, T)
  <2>1. list \in [1..n -> T]
    BY <1>1, <1>2
  <2>2. IsInjective(list)
    BY <1>1 DEF IsInjective, n
  <2>3. \A t \in T : \E i \in 1..n : list[i] = t
    BY <1>2
  <2> QED BY <2>1, <2>2, <2>3 DEF Bijection, Injection, Surjection
<1>5. ExistsBijection(1..n, T)
  BY <1>4 DEF ExistsBijection
<1>6. IsFiniteSet(T) /\ Cardinality(T) = Cardinality(1..n)
  BY <1>3, <1>5, FS_Bijection
<1> QED BY <1>1, <1>2, <1>3, <1>6 DEF n, T

\* What can be sorted: finitely many rows with their times.
Timed(rows) ==
  IsFiniteSet(rows) /\ \A row \in rows : row.created \in Int /\ row.born \in Int

\* What list_executions may return for a store: rows that match, each once; of the others,
\* Redis does not reach those, or they are not newer than any of as many as there may be.
ListOf(list, store, status) ==
  LET Listable == {row \in store.rows : Matches(row, status, None)}
  IN  /\ list \in Seq(Listable) /\ Len(list) <= Limit
      /\ \A i, j \in 1..Len(list) : list[i] = list[j] => i = j
      /\ \A row \in Listable \ ToSet(list) :
           \/ OutOfReach(store, row, status)
           \/ Len(list) = Limit /\ \A shown \in ToSet(list) : shown.created >= row.created

\* It returns one.
LEMMA ListExecutionsFacts ==
  ASSUME NEW store, Timed(store.rows), NEW status
  PROVE  ListOf(ListExecutions(store, status, Limit, LogScan, None), store, status)
<1> DEFINE rows == store.rows
           Listable == {row \in rows : Matches(row, status, None)}
<1>1. Limit \in Nat /\ LogScan \in Nat /\ LogScan + 1 \in Nat
  BY HistoriesAssumption
<1>2. IsFiniteSet(rows) /\ \A row \in rows : row.created \in Int /\ row.born \in Int
  BY DEF Timed
<1>3. CASE store.backend # "redis"
  <2> DEFINE list == LatestFirst(Listable, "created", Limit)
  <2>1. ListExecutions(store, status, Limit, LogScan, None) = list
    BY <1>3 DEF ListExecutions, SelectExecutions
  <2>2. IsFiniteSet(Listable)
    BY <1>2, FS_Subset
  <2>3. \A row \in Listable : row["created"] \in Int
    BY <1>2
  <2> HIDE DEF Listable
  <2>4. Newest(list, Listable, "created", Limit)
    BY <1>1, <2>2, <2>3, LatestFirstFacts
  <2> HIDE DEF list
  <2>5. ToSet(list) = {list[i] : i \in 1..Len(list)}
    BY <2>4, ListedRows DEF Newest
  <2>6. ASSUME NEW row \in Listable \ ToSet(list)
        PROVE  Len(list) = Limit /\ \A shown \in ToSet(list) : shown.created >= row.created
    BY <2>4, <2>5 DEF Newest
  <2> QED BY <2>1, <2>4, <2>6 DEF ListOf, Newest, Listable
<1>4. CASE store.backend = "redis"
  <2> DEFINE log == LatestFirst(rows, "born", LogScan + 1)
             seen == ToSet(log)
             Found == {row \in seen : Matches(row, status, None)}
             list == LatestFirst(Found, "born", Limit)
  <2>1. ListExecutions(store, status, Limit, LogScan, None) = list
    BY <1>4 DEF ListExecutions, ScanLog
  <2>2. Newest(log, rows, "born", LogScan + 1)
    <3> HIDE DEF rows
    <3>1. \A row \in rows : row["born"] \in Int
      BY <1>2
    <3> QED BY <1>1, <1>2, <3>1, LatestFirstFacts
  <2> HIDE DEF log
  <2>3. /\ seen \subseteq rows /\ seen = {log[i] : i \in 1..Len(log)}
        /\ IsFiniteSet(seen) /\ Cardinality(seen) = Len(log)
    BY <2>2, ListedRows DEF Newest
  <2> HIDE DEF seen
  <2>4. IsFiniteSet(Found) /\ Found \subseteq Listable
    BY <2>3, FS_Subset
  <2>5. \A row \in Found : row["born"] \in Int
    BY <1>2, <2>4
  <2> HIDE DEF Found
  <2>6. Newest(list, Found, "born", Limit)
    BY <1>1, <2>4, <2>5, LatestFirstFacts
  <2> HIDE DEF list
  <2>7. /\ ToSet(list) \subseteq Found /\ ToSet(list) = {list[i] : i \in 1..Len(list)}
        /\ IsFiniteSet(ToSet(list)) /\ Cardinality(ToSet(list)) = Len(list)
    BY <2>6, ListedRows DEF Newest
  <2>8. list \in Seq(Listable)
    <3> HIDE DEF Listable
    <3> QED BY <2>4, <2>6, SeqMonotonic DEF Newest
  <2>9. ASSUME NEW row \in Listable \ ToSet(list) PROVE OutOfReach(store, row, status)
    <3> DEFINE later == {r \in rows : r # row /\ r.born >= row.born}
               matching == {r \in later : Matches(r, status, None)}
    <3>1. IsFiniteSet(later) /\ IsFiniteSet(matching)
      BY <1>2, FS_Subset
    <3>2. Cardinality(later) \in Nat /\ Cardinality(matching) \in Nat
      BY <3>1, FS_CardinalityType
    <3>3. CASE row \notin seen
      <4>1. Len(log) = LogScan + 1 /\ \A i \in 1..Len(log) : log[i]["born"] >= row["born"]
        BY <2>2, <2>9, <3>3 DEF Newest, seen
      <4>2. seen \subseteq later
        BY <2>3, <3>3, <4>1
      <4>3. Cardinality(seen) <= Cardinality(later)
        <5> HIDE DEF later
        <5> QED BY <3>1, <4>2, FS_Subset
      <4>4. Cardinality(later) > LogScan
        <5> HIDE DEF later
        <5> QED BY <1>1, <2>3, <3>2, <4>1, <4>3
      <4> QED BY <1>4, <4>4 DEF OutOfReach
    <3>4. CASE row \in seen
      <4>1. row \in Found \ ToSet(list)
        BY <2>9, <3>4 DEF Found
      <4>2. Len(list) = Limit /\ \A i \in 1..Len(list) : list[i]["born"] >= row["born"]
        BY <2>6, <4>1 DEF Newest
      <4>3. ToSet(list) \subseteq matching
        <5>1. ASSUME NEW r \in ToSet(list) PROVE r \in matching
          <6>1. r.born >= row.born /\ r # row
            BY <2>7, <2>9, <4>2, <5>1
          <6>2. r \in Listable
            BY <2>4, <2>7, <5>1
          <6> QED BY <6>1, <6>2
        <5> QED BY <5>1
      <4>4. Cardinality(ToSet(list)) <= Cardinality(matching)
        <5> HIDE DEF matching
        <5> QED BY <3>1, <4>3, FS_Subset
      <4>5. Cardinality(matching) >= Limit
        <5> HIDE DEF matching
        <5> QED BY <1>1, <2>7, <3>2, <4>2, <4>4
      <4> QED BY <1>4, <4>5 DEF OutOfReach
    <3> QED BY <3>3, <3>4
  <2>10. Len(list) <= Limit /\ \A i, j \in 1..Len(list) : list[i] = list[j] => i = j
    BY <2>6 DEF Newest
  <2> QED BY <2>1, <2>8, <2>9, <2>10 DEF ListOf
<1> QED BY <1>3, <1>4

\* A store of a dashboard holds finitely many rows with their times.
LEMMA StoresTimed ==
  ASSUME NEW stores \in Stores
  PROVE  /\ DOMAIN stores = 1..Len(stores) /\ 1 \in DOMAIN stores
         /\ ToSet(stores) = {stores[s] : s \in DOMAIN stores}
         /\ IsFiniteSet(DOMAIN stores)
         /\ \A s \in DOMAIN stores : Timed(stores[s].rows)
<1>1. /\ stores \in Seq(ToSet(stores)) /\ stores # <<>>
      /\ \A s \in DOMAIN stores : Timed(stores[s].rows)
  BY StoresAssumption DEF Timed
<1>2. Len(stores) \in Nat \ {0} /\ DOMAIN stores = 1..Len(stores)
  BY <1>1, EmptySeq, LenProperties
<1>3. IsFiniteSet(1..Len(stores))
  BY <1>2, FS_Interval
<1> QED BY <1>1, <1>2, <1>3 DEF ToSet

\* The rows of the page come from finitely many lists.
LEMMA MergedFacts ==
  ASSUME NEW stores \in Stores, NEW status
  PROVE  LET rows == Merged(stores, status, Limit, LogScan, None)
             List(s) == ListExecutions(stores[s], status, Limit, LogScan, None)
             Up == {s \in DOMAIN stores : stores[s].up}
         IN  /\ rows = UNION {ToSet(List(s)) : s \in Up}
             /\ IsFiniteSet(rows) /\ \A row \in rows : row.created \in Int
             /\ \A s \in DOMAIN stores : ListOf(List(s), stores[s], status)
<1> DEFINE rows == Merged(stores, status, Limit, LogScan, None)
           List(s) == ListExecutions(stores[s], status, Limit, LogScan, None)
           Up == {s \in DOMAIN stores : stores[s].up}
           all == UNION {stores[s].rows : s \in DOMAIN stores}
           n == Len(stores)
           U(k) == UNION {stores[s].rows : s \in 1..k}
           S == {k \in 0..n : IsFiniteSet(U(k))}
<1>1. /\ DOMAIN stores = 1..n /\ n \in Nat
      /\ \A s \in DOMAIN stores : Timed(stores[s].rows)
  BY StoresTimed, StoresAssumption, LenProperties
<1>2. \A s \in DOMAIN stores : ListOf(List(s), stores[s], status)
  BY <1>1, ListExecutionsFacts
<1>3. rows = UNION {ToSet(List(s)) : s \in Up}
  BY DEF Merged
<1> HIDE DEF List, n
<1>4. ASSUME NEW s \in DOMAIN stores PROVE ToSet(List(s)) \subseteq stores[s].rows
  <2> DEFINE Listable == {row \in stores[s].rows : Matches(row, status, None)}  list == List(s)
  <2>1. list \in Seq(Listable) /\ \A i, j \in 1..Len(list) : list[i] = list[j] => i = j
    BY <1>2 DEF ListOf
  <2>2. Listable \subseteq stores[s].rows
    OBVIOUS
  <2> HIDE DEF Listable, list
  <2>3. ToSet(list) \subseteq Listable
    BY <2>1, ListedRows
  <2> QED BY <2>2, <2>3 DEF list
<1>5. IsFiniteSet(U(n))
  <2>1. 0 \in S
    <3>1. U(0) = {} /\ 0 \in 0..n
      BY <1>1
    <3> QED BY <3>1, FS_EmptySet
  <2>2. ASSUME NEW k \in 0..n, k < n, k \in S PROVE k + 1 \in S
    <3>1. k + 1 \in DOMAIN stores /\ k + 1 \in 0..n /\ 1..(k + 1) = 1..k \cup {k + 1}
      BY <1>1, <2>2
    <3>2. U(k + 1) = U(k) \cup stores[k + 1].rows
      BY <3>1
    <3>3. IsFiniteSet(stores[k + 1].rows) /\ IsFiniteSet(U(k))
      BY <1>1, <2>2, <3>1 DEF Timed
    <3> HIDE DEF U
    <3>4. IsFiniteSet(U(k) \cup stores[k + 1].rows)
      BY <3>3, FS_Union
    <3> QED BY <3>1, <3>2, <3>4
  <2> HIDE DEF S
  <2>3. 0..n \subseteq S
    BY <1>1, <2>1, <2>2, Climb
  <2> QED BY <1>1, <2>3 DEF S
<1>6. rows \subseteq U(n)
  <2>1. ASSUME NEW row \in rows PROVE row \in U(n)
    <3>1. PICK s \in Up : row \in ToSet(List(s))
      BY <1>3, <2>1
    <3>2. s \in 1..n /\ row \in stores[s].rows
      BY <1>1, <1>4, <3>1
    <3> QED BY <3>2
  <2> QED BY <2>1
<1>7. IsFiniteSet(rows)
  <2> HIDE DEF U, rows
  <2> QED BY <1>5, <1>6, FS_Subset
<1>8. \A row \in rows : row.created \in Int
  BY <1>1, <1>6 DEF Timed
<1> HIDE DEF rows
<1> QED BY <1>2, <1>3, <1>7, <1>8 DEF rows, List

\* The dashboard's page is what the property asks for.
LEMMA PageShowsNewest ==
  ASSUME kind = "page", NEW stores \in Stores, NEW status,
         input.stores = stores, input.status = status,
         output = FetchExecutions(stores, status, Limit, LogScan, None)
  PROVE  ListsShowNewest
<1> DEFINE rows == Merged(stores, status, Limit, LogScan, None)
           List(s) == ListExecutions(stores[s], status, Limit, LogScan, None)
           Up == {s \in DOMAIN stores : stores[s].up}
           page == LatestFirst(rows, "created", Limit)
           Listable(store) == {row \in store.rows : Matches(row, status, None)}
<1>1. output = page /\ Limit \in Nat
  BY HistoriesAssumption DEF FetchExecutions
<1>2. /\ rows = UNION {ToSet(List(s)) : s \in Up}
      /\ IsFiniteSet(rows) /\ \A row \in rows : row.created \in Int
      /\ \A s \in DOMAIN stores : ListOf(List(s), stores[s], status)
  BY MergedFacts
<1> HIDE DEF rows, List
<1>3. Newest(page, rows, "created", Limit)
  <2>1. \A row \in rows : row["created"] \in Int
    BY <1>2
  <2> QED BY <1>1, <1>2, <2>1, LatestFirstFacts
<1> HIDE DEF page
<1>4. /\ ToSet(page) \subseteq rows /\ Len(page) \in Nat /\ DOMAIN page = 1..Len(page)
      /\ ToSet(page) = {page[i] : i \in 1..Len(page)}
      /\ IsFiniteSet(ToSet(page)) /\ Cardinality(ToSet(page)) = Len(page)
  BY <1>3, ListedRows, LenProperties DEF Newest
<1>5. /\ Len(page) <= Limit
      /\ \A i, j \in 1..Len(page) : i < j => page[i]["created"] >= page[j]["created"]
      /\ \A row \in rows \ ToSet(page) :
           Len(page) = Limit /\ \A i \in 1..Len(page) : page[i]["created"] >= row["created"]
  BY <1>3 DEF Newest
<1>6. \A row \in rows \ ToSet(page) :
        Len(page) = Limit /\ \A shown \in ToSet(page) : shown.created >= row.created
  BY <1>4, <1>5
<1>7. ASSUME NEW s \in Up
      PROVE  LET list == List(s)
             IN  /\ ToSet(list) \subseteq Listable(stores[s]) /\ ToSet(list) \subseteq rows
                 /\ IsFiniteSet(ToSet(list)) /\ Cardinality(ToSet(list)) = Len(list)
                 /\ \A row \in Listable(stores[s]) \ ToSet(list) :
                      \/ OutOfReach(stores[s], row, status)
                      \/ Len(list) = Limit /\ \A shown \in ToSet(list) : shown.created >= row.created
  <2> DEFINE list == List(s)  Rows == Listable(stores[s])
  <2>1. /\ list \in Seq(Rows) /\ \A i, j \in 1..Len(list) : list[i] = list[j] => i = j
        /\ \A row \in Rows \ ToSet(list) :
             \/ OutOfReach(stores[s], row, status)
             \/ Len(list) = Limit /\ \A shown \in ToSet(list) : shown.created >= row.created
    BY <1>2 DEF ListOf
  <2>2. ToSet(list) \subseteq rows
    BY <1>2, <1>7
  <2> HIDE DEF list, Rows
  <2>3. /\ ToSet(list) \subseteq Rows
        /\ IsFiniteSet(ToSet(list)) /\ Cardinality(ToSet(list)) = Len(list)
    BY <2>1, ListedRows
  <2> QED BY <2>1, <2>2, <2>3 DEF list, Rows
<1>8. ASSUME NEW s \in Up, NEW row \in Listable(stores[s]) \ ToSet(page)
      PROVE  \/ OutOfReach(stores[s], row, status)
             \/ Len(page) = Limit /\ \A shown \in ToSet(page) : shown.created >= row.created
  <2> DEFINE list == List(s)
  <2>1. /\ ToSet(list) \subseteq rows /\ IsFiniteSet(ToSet(list))
        /\ Cardinality(ToSet(list)) = Len(list)
    BY <1>7
  <2>2. \/ row \in ToSet(list)
        \/ OutOfReach(stores[s], row, status)
        \/ Len(list) = Limit /\ \A shown \in ToSet(list) : shown.created >= row.created
    BY <1>7, <1>8
  <2>3. row.created \in Int
    BY StoresTimed, <1>8 DEF Timed
  <2> HIDE DEF list, Listable
  <2>4. CASE row \in ToSet(list)
    BY <1>6, <1>8, <2>1, <2>4
  <2>5. CASE Len(list) = Limit /\ \A shown \in ToSet(list) : shown.created >= row.created
    <3>1. CASE ToSet(list) \subseteq ToSet(page)
      <4>1. Cardinality(ToSet(list)) <= Cardinality(ToSet(page))
        BY <1>4, <3>1, FS_Subset
      <4>2. Len(page) = Limit /\ Cardinality(ToSet(list)) = Cardinality(ToSet(page))
        <5>1. /\ Cardinality(ToSet(list)) = Limit /\ Limit \in Nat
              /\ Cardinality(ToSet(page)) = Len(page) /\ Len(page) \in Nat /\ Len(page) <= Limit
          BY <1>1, <1>4, <1>5, <2>1, <2>5
        <5> QED BY <4>1, <5>1
      <4>3. ToSet(list) = ToSet(page)
        BY <1>4, <3>1, <4>2, FS_Subset
      <4> QED BY <2>5, <4>2, <4>3
    <3>2. CASE ~(ToSet(list) \subseteq ToSet(page))
      <4>1. PICK other \in ToSet(list) : other \in rows \ ToSet(page)
        BY <2>1, <3>2
      <4>2. Len(page) = Limit /\ \A shown \in ToSet(page) : shown.created >= other.created
        BY <1>6, <4>1
      <4>3. other.created >= row.created /\ other.created \in Int
        BY <1>2, <2>5, <4>1
      <4>4. \A shown \in ToSet(page) : shown.created \in Int
        BY <1>2, <1>4
      <4> QED BY <2>3, <4>2, <4>3, <4>4
    <3> QED BY <3>1, <3>2
  <2> QED BY <2>2, <2>4, <2>5
<1>9. ToSet(page) \subseteq UNION {Listable(store) : store \in {s \in ToSet(stores) : s.up}}
  <2>1. ASSUME NEW row \in rows
        PROVE  \E store \in {s \in ToSet(stores) : s.up} : row \in Listable(store)
    <3>1. PICK s \in Up : row \in ToSet(List(s))
      BY <1>2, <2>1
    <3>2. stores[s] \in ToSet(stores) /\ stores[s].up
      BY <3>1, StoresTimed
    <3>3. row \in Listable(stores[s])
      BY <1>7, <3>1
    <3> QED BY <3>2, <3>3
  <2> QED BY <1>4, <2>1
<1>10. \A store \in {s \in ToSet(stores) : s.up} : \E s \in Up : store = stores[s]
  BY StoresTimed
<1>11. ShowsNewest(page, {s \in ToSet(stores) : s.up}, status)
  <2>1. {page[i] : i \in DOMAIN page} = ToSet(page)
    BY <1>4
  <2>2. ASSUME NEW store \in {s \in ToSet(stores) : s.up},
               NEW row \in Listable(store) \ ToSet(page)
        PROVE  \/ OutOfReach(store, row, status)
               \/ Len(page) = Limit /\ \A shown \in ToSet(page) : shown.created >= row.created
    BY <1>8, <1>10, <2>2
  <2> QED BY <1>4, <1>5, <1>9, <2>1, <2>2 DEF ShowsNewest
<1>12. \A i, j \in DOMAIN page : i < j => page[i].created >= page[j].created
  BY <1>4, <1>5
<1> QED BY <1>1, <1>11, <1>12 DEF ListsShowNewest

\* What tbay pending prints is what the property asks for.
LEMMA PendingShowsNewest ==
  ASSUME kind = "pending", NEW stores \in Stores, input.stores = stores,
         output = Pending(stores[1], Limit, LogScan, None)
  PROVE  ListsShowNewest
<1> DEFINE status == "WAITING_APPROVAL"
           store == stores[1]
           list == ListExecutions(store, status, Limit, LogScan, None)
           n == Len(list)
           sorted == LatestFirst(ToSet(list), "created", n)
           shown == Reverse(sorted)
           Listable == {row \in store.rows : Matches(row, status, None)}
<1>1. output = shown /\ Limit \in Nat
  BY HistoriesAssumption DEF Pending
<1>2. Timed(store.rows)
  BY StoresTimed
<1>3. ListOf(list, store, status)
  BY <1>2, ListExecutionsFacts
<1> HIDE DEF list, store, status
<1>4. /\ list \in Seq(Listable) /\ n <= Limit
      /\ \A i, j \in 1..n : list[i] = list[j] => i = j
      /\ \A row \in Listable \ ToSet(list) :
           \/ OutOfReach(store, row, status)
           \/ n = Limit /\ \A other \in ToSet(list) : other.created >= row.created
  BY <1>3 DEF ListOf
<1>5. \A row \in Listable : row.created \in Int
  BY <1>2 DEF Timed
<1>6. /\ ToSet(list) \subseteq Listable /\ n \in Nat
      /\ IsFiniteSet(ToSet(list)) /\ Cardinality(ToSet(list)) = n
  <2> HIDE DEF Listable
  <2> QED BY <1>4, ListedRows
<1>7. Newest(sorted, ToSet(list), "created", n)
  <2>1. \A row \in ToSet(list) : row["created"] \in Int
    BY <1>5, <1>6
  <2> HIDE DEF n
  <2> QED BY <1>6, <2>1, LatestFirstFacts
<1> HIDE DEF sorted, n, Listable
<1>8. /\ sorted \in Seq(ToSet(list)) /\ Len(sorted) <= n
      /\ \A i, j \in 1..Len(sorted) :
           /\ sorted[i] = sorted[j] => i = j
           /\ i < j => sorted[i]["created"] >= sorted[j]["created"]
      /\ \A row \in ToSet(list) \ ToSet(sorted) : Len(sorted) = n
  BY <1>7 DEF Newest
<1>9. /\ ToSet(sorted) \subseteq ToSet(list) /\ Len(sorted) \in Nat
      /\ ToSet(sorted) = {sorted[i] : i \in 1..Len(sorted)}
      /\ IsFiniteSet(ToSet(sorted)) /\ Cardinality(ToSet(sorted)) = Len(sorted)
  BY <1>8, ListedRows
<1>10. ToSet(sorted) = ToSet(list) /\ Len(sorted) = n
  <2>1. CASE ToSet(list) \ ToSet(sorted) # {}
    <3>1. Len(sorted) = n
      BY <1>8, <2>1
    <3> QED BY <1>6, <1>9, <3>1, FS_Subset
  <2>2. CASE ToSet(list) \ ToSet(sorted) = {}
    BY <1>6, <1>9, <2>2
  <2> QED BY <2>1, <2>2
<1>11. /\ DOMAIN shown = 1..n /\ Len(shown) = n
       /\ \A i \in 1..n : (n - i) + 1 \in 1..n /\ shown[i] = sorted[(n - i) + 1]
  BY <1>6, <1>10 DEF Reverse
<1> HIDE DEF shown
<1>12. {shown[i] : i \in DOMAIN shown} = ToSet(list)
  <2>1. \A i \in 1..n : shown[i] \in ToSet(list)
    BY <1>9, <1>10, <1>11
  <2>2. ASSUME NEW row \in ToSet(list) PROVE \E i \in 1..n : shown[i] = row
    <3>1. PICK j \in 1..n : sorted[j] = row
      BY <1>9, <1>10, <2>2
    <3>2. (n - j) + 1 \in 1..n /\ (n - ((n - j) + 1)) + 1 = j
      BY <1>6, <3>1
    <3> QED BY <1>11, <3>1, <3>2
  <2> QED BY <1>11, <2>1, <2>2
<1>13. \A i, j \in DOMAIN shown : i < j => shown[i].created <= shown[j].created
  <2>1. ASSUME NEW i \in 1..n, NEW j \in 1..n, i < j PROVE shown[i].created <= shown[j].created
    <3> DEFINE a == (n - j) + 1  b == (n - i) + 1
    <3>1. a \in 1..n /\ b \in 1..n /\ a < b
      BY <1>6, <2>1
    <3>2. shown[j] = sorted[a] /\ shown[i] = sorted[b]
      BY <1>11, <2>1
    <3> HIDE DEF a, b
    <3>3. sorted[a].created >= sorted[b].created
      BY <1>8, <1>10, <3>1
    <3>4. sorted[a].created \in Int /\ sorted[b].created \in Int
      BY <1>5, <1>6, <1>9, <1>10, <3>1
    <3> QED BY <3>2, <3>3, <3>4
  <2> QED BY <1>11, <2>1
<1>14. ShowsNewest(shown, {store}, status)
  BY <1>4, <1>6, <1>11, <1>12 DEF ShowsNewest, Listable
<1> QED BY <1>1, <1>13, <1>14 DEF ListsShowNewest, store, status
-----------------------------------------------------------------------------
(* Redaction.                                                              *)

\* An address without its last step.
LEMMA FrontFacts ==
  ASSUME NEW S, NEW a \in Seq(S), a # <<>>
  PROVE  /\ Front(a) \in Seq(S) /\ Len(a) \in Nat \ {0} /\ Len(Front(a)) = Len(a) - 1
         /\ \A i \in 1..(Len(a) - 1) : Front(a)[i] = a[i]
         /\ Last(a) = a[Len(a)] /\ SubSeq(a, 1, Len(a)) = a
         /\ SubSeq(a, 1, Len(a) - 1) = Front(a)
         /\ \A k \in 1..(Len(a) - 1) : SubSeq(Front(a), 1, k) = SubSeq(a, 1, k)
<1> DEFINE n == Len(a)  f == SubSeq(a, 1, n - 1)
<1>1. n \in Nat \ {0} /\ Front(a) = f /\ Last(a) = a[n] /\ SubSeq(a, 1, n) = a
  BY EmptySeq, SubSeqFull DEF Front, Last
<1>2. \A i \in 1..n : a[i] \in S
  BY ElementOfSeq
<1> HIDE DEF n
<1>3. \A i \in 1..(n - 1) : a[i] \in S
  BY <1>1, <1>2
<1>4. /\ f \in Seq(S) /\ Len(f) = n - 1
      /\ \A i \in 1..(n - 1) : f[i] = a[i]
  <2>1. 1 \in Int /\ n - 1 \in Int
    BY <1>1
  <2>2. /\ SubSeq(a, 1, n - 1) \in Seq(S)
        /\ Len(SubSeq(a, 1, n - 1)) = IF 1 <= n - 1 THEN (n - 1) - 1 + 1 ELSE 0
        /\ \A i \in 1..((n - 1) - 1 + 1) : SubSeq(a, 1, n - 1)[i] = a[1 + i - 1]
    BY <1>3, <2>1, SubSeqProperties
  <2>3. \A i \in 1..(n - 1) : i \in 1..((n - 1) - 1 + 1) /\ 1 + i - 1 = i
    BY <1>1
  <2>4. \A i \in 1..(n - 1) : SubSeq(a, 1, n - 1)[i] = a[i]
    BY <2>2, <2>3
  <2>5. Len(SubSeq(a, 1, n - 1)) = n - 1
    BY <1>1, <2>2
  <2> QED BY <2>2, <2>4, <2>5
<1> HIDE DEF f
<1>5. ASSUME NEW k \in 1..(n - 1) PROVE SubSeq(f, 1, k) = SubSeq(a, 1, k)
  <2>1. k \in Nat /\ k >= 1 /\ k - 1 + 1 = k
    BY <1>1, <1>5
  <2>2. \A i \in 1..k : f[i] \in S /\ a[i] \in S /\ f[i] = a[i]
    BY <1>1, <1>3, <1>4, <1>5
  <2>3. /\ SubSeq(f, 1, k) \in Seq(S) /\ Len(SubSeq(f, 1, k)) = k
        /\ \A i \in 1..k : SubSeq(f, 1, k)[i] = f[i]
    BY <2>1, <2>2, SubSeqProperties
  <2>4. /\ SubSeq(a, 1, k) \in Seq(S) /\ Len(SubSeq(a, 1, k)) = k
        /\ \A i \in 1..k : SubSeq(a, 1, k)[i] = a[i]
    BY <2>1, <2>2, SubSeqProperties
  <2>5. \A i \in 1..Len(SubSeq(f, 1, k)) : SubSeq(f, 1, k)[i] = SubSeq(a, 1, k)[i]
    BY <2>2, <2>3, <2>4
  <2> QED BY <2>3, <2>4, <2>5, SeqEqual
<1> QED BY <1>1, <1>4, <1>5 DEF n, f

\* The keys of an address, from the first on.
KeysUpTo(a) ==
  LET keys[n \in 0..Len(a)] ==
        IF n = 0 THEN <<>>
        ELSE IF IsKey(a[n]) THEN Append(keys[n - 1], a[n].key) ELSE keys[n - 1]
  IN  keys

\* They start empty and are extended step by step as walk() extends its path.
LEMMA KeysUpToFacts ==
  ASSUME NEW S, NEW a \in Seq(S)
  PROVE  /\ KeysOf(a) = KeysUpTo(a)[Len(a)] /\ KeysUpTo(a)[0] = <<>>
         /\ \A n \in 1..Len(a) : KeysUpTo(a)[n] = PathInto(KeysUpTo(a)[n - 1], a[n])
         /\ \A n \in 0..Len(a) : KeysUpTo(a)[n] \in Seq({a[i].key : i \in 1..Len(a)})
<1> DEFINE l == Len(a)
           K == {a[i].key : i \in 1..l}
           V == Seq(K)
           is(f) == f = [n \in 0..l |-> IF n = 0 THEN <<>>
                           ELSE IF IsKey(a[n]) THEN Append(f[n - 1], a[n].key) ELSE f[n - 1]]
           keys == CHOOSE f : is(f)
           G == [i \in 1..l |-> [v \in V |-> PathInto(v, a[i])]]
<1>1. KeysUpTo(a) = keys
  BY DEF KeysUpTo
<1>2. KeysOf(a) = keys[l]
  BY DEF KeysOf
<1>3. l \in Nat /\ \A i \in 1..l : a[i].key \in K
  BY LenProperties
<1> HIDE DEF K, l
<1>4. \A i \in 1..l, v \in V : PathInto(v, a[i]) \in V
  BY <1>3, AppendProperties DEF PathInto
<1>5. <<>> \in V
  BY EmptySeq
<1> HIDE DEF V
<1>6. \E f \in [0..l -> V] : is(f)
  <2>1. \A i \in 1..l, v \in V : G[i][v] \in V
    BY <1>4
  <2>2. PICK f \in [0..l -> V] : Unfolds(f, l, <<>>, G)
    <3> HIDE DEF G
    <3> QED BY <1>3, <1>5, <2>1, Recursion
  <2>3. ASSUME NEW i \in 0..l
        PROVE  f[i] = IF i = 0 THEN <<>>
                      ELSE IF IsKey(a[i]) THEN Append(f[i - 1], a[i].key) ELSE f[i - 1]
    <3>1. CASE i = 0
      BY <2>2, <3>1 DEF Unfolds
    <3>2. CASE i # 0
      <4>1. i \in 1..l /\ f[i - 1] \in V
        BY <1>3, <2>3, <3>2
      <4>2. f[i] = G[i][f[i - 1]]
        BY <2>2, <4>1 DEF Unfolds
      <4> QED BY <3>2, <4>1, <4>2 DEF PathInto
    <3> QED BY <3>1, <3>2
  <2> QED BY <2>3
<1>7. is(keys)
  BY <1>6
<1> HIDE DEF keys
<1>8. keys[0] = <<>> /\ \A n \in 1..l : keys[n] = PathInto(keys[n - 1], a[n])
  <2>1. 0 \in 0..l /\ \A n \in 1..l : n \in 0..l /\ n # 0
    BY <1>3
  <2> QED BY <1>7, <2>1 DEF PathInto
<1> DEFINE T == {n \in 0..l : keys[n] \in V}
<1>9. 0..l \subseteq T
  <2>1. 0 \in T
    BY <1>3, <1>5, <1>8
  <2>2. ASSUME NEW n \in 0..l, n < l, n \in T PROVE n + 1 \in T
    <3>1. n + 1 \in 1..l /\ n + 1 \in 0..l /\ (n + 1) - 1 = n
      BY <1>3, <2>2
    <3>2. keys[n + 1] = PathInto(keys[n], a[n + 1])
      BY <1>8, <3>1
    <3> QED BY <1>4, <2>2, <3>1, <3>2
  <2> HIDE DEF T
  <2> QED BY <1>3, <2>1, <2>2, Climb
<1> QED BY <1>1, <1>2, <1>8, <1>9 DEF V, K, l

\* The path of an address is that of the address before its last step, and that step.
LEMMA KeysOfFacts ==
  ASSUME NEW S, NEW a \in Seq(S)
  PROVE  /\ a = <<>> => KeysOf(a) = <<>>
         /\ a # <<>> => KeysOf(a) = PathInto(KeysOf(Front(a)), Last(a))
         /\ KeysOf(a) \in Seq({a[i].key : i \in 1..Len(a)})
<1> DEFINE l == Len(a)  f == KeysUpTo(a)
<1>1. /\ l \in Nat /\ KeysOf(a) = f[l] /\ f[0] = <<>>
      /\ \A n \in 1..l : f[n] = PathInto(f[n - 1], a[n])
      /\ f[l] \in Seq({a[i].key : i \in 1..Len(a)})
  <2>1. l \in Nat /\ l \in 0..l
    BY LenProperties
  <2>2. /\ KeysOf(a) = KeysUpTo(a)[Len(a)] /\ KeysUpTo(a)[0] = <<>>
        /\ \A n \in 1..Len(a) : KeysUpTo(a)[n] = PathInto(KeysUpTo(a)[n - 1], a[n])
        /\ \A n \in 0..Len(a) : KeysUpTo(a)[n] \in Seq({a[i].key : i \in 1..Len(a)})
    BY KeysUpToFacts
  <2> QED BY <2>1, <2>2
<1>2. a = <<>> => l = 0
  OBVIOUS
<1>3. ASSUME a # <<>> PROVE KeysOf(a) = PathInto(KeysOf(Front(a)), Last(a))
  <2> DEFINE b == Front(a)  g == KeysUpTo(b)  m == l - 1
  <2>1. /\ b \in Seq(S) /\ l \in Nat \ {0} /\ Len(b) = m
        /\ \A i \in 1..m : b[i] = a[i]
        /\ Last(a) = a[l]
    BY <1>3, FrontFacts
  <2> HIDE DEF b
  <2>2. /\ KeysOf(b) = g[m] /\ g[0] = <<>>
        /\ \A n \in 1..m : g[n] = PathInto(g[n - 1], b[n])
    BY <2>1, KeysUpToFacts
  <2> HIDE DEF f, g, l
  <2> DEFINE T == {n \in 0..m : f[n] = g[n]}
  <2>3. m \in Nat /\ 1..m \subseteq 1..l /\ m \in 0..m
    BY <2>1
  <2>4. 0 \in T
    BY <1>1, <2>2, <2>3
  <2>5. ASSUME NEW n \in 0..m, n < m, n \in T PROVE n + 1 \in T
    <3>1. n + 1 \in 1..m /\ n + 1 \in 0..m /\ (n + 1) - 1 = n /\ n + 1 \in 1..l
      BY <2>3, <2>5
    <3> HIDE DEF m
    <3>2. f[n + 1] = PathInto(f[n], a[n + 1]) /\ g[n + 1] = PathInto(g[n], b[n + 1])
      BY <1>1, <2>2, <3>1
    <3>3. f[n + 1] = g[n + 1]
      BY <2>1, <2>5, <3>1, <3>2
    <3> QED BY <3>1, <3>3
  <2>6. f[m] = g[m]
    <3> HIDE DEF T, m
    <3>1. 0..m \subseteq T
      BY <2>3, <2>4, <2>5, Climb
    <3> QED BY <2>3, <3>1 DEF T
  <2>7. f[l] = PathInto(f[m], a[l])
    BY <1>1, <2>1
  <2> QED BY <1>1, <2>1, <2>2, <2>6, <2>7 DEF b
<1> QED BY <1>1, <1>2, <1>3

\* The call of walk() for a part.
CallFor(a) == [address |-> a, path |-> KeysOf(a)]

\* It masks what the policy names.
LEMMA MaskedIsNamed ==
  ASSUME NEW setting, NEW S, NEW a \in Seq(S)
  PROVE  Masked(setting, CallFor(a)) <=> a # <<>> /\ Named(setting, a)
<1> DEFINE K == {a[i].key : i \in 1..Len(a)}  path == KeysOf(a)
<1>1. CallFor(a).address = a /\ CallFor(a).path = path
  BY DEF CallFor
<1>2. CASE a = <<>> \/ ~IsKey(Last(a))
  BY <1>1, <1>2 DEF Masked, Named
<1>3. CASE a # <<>> /\ IsKey(Last(a))
  <2> DEFINE front == KeysOf(Front(a))  key == Last(a).key
             F == {Front(a)[i].key : i \in 1..Len(Front(a))}
             T == F \cup {key}
  <2>1. Front(a) \in Seq(S)
    BY <1>3, FrontFacts
  <2>2. front \in Seq(F)
    BY <2>1, KeysOfFacts
  <2>3. path = Append(front, key)
    BY <1>3, KeysOfFacts DEF PathInto
  <2> HIDE DEF front, path, key, F
  <2>4. front \in Seq(T) /\ key \in T /\ Len(front) \in Nat
    <3>1. F \subseteq T
      OBVIOUS
    <3> QED BY <2>2, <3>1, SeqMonotonic, LenProperties
  <2> HIDE DEF T
  <2>5. /\ path \in Seq(T) /\ Len(path) = Len(front) + 1 /\ path[Len(front) + 1] = key
    BY <2>3, <2>4, AppendProperties
  <2>6. Last(path) = key
    BY <2>5 DEF Last
  <2>7. Len(path) > 1 \/ path = <<key>>
    <3>1. CASE Len(path) > 1
      BY <3>1
    <3>2. CASE ~(Len(path) > 1)
      <4>1. Len(path) = 1 /\ path[1] = key
        BY <2>4, <2>5, <3>2
      <4>2. <<key>> \in Seq(T) /\ Len(<<key>>) = 1 /\ <<key>>[1] = key
        BY <2>4
      <4>3. \A i \in 1..Len(path) : path[i] = <<key>>[i]
        BY <4>1, <4>2
      <4>4. path = <<key>>
        BY <2>5, <4>1, <4>2, <4>3, SeqEqual
      <4> QED BY <4>4
    <3> QED BY <3>1, <3>2
  <2>8. Masked(setting, CallFor(a)) <=> ShouldMask(setting, path)
    BY <1>1, <1>3 DEF Masked
  <2>9. Named(setting, a) <=> \/ <<key>> \in setting.fields
                              \/ path \in setting.fields
                              \/ key \in setting.matched
    BY <1>3 DEF Named, key, path
  <2> QED BY <1>3, <2>6, <2>7, <2>8, <2>9 DEF ShouldMask
<1> QED BY <1>2, <1>3

\* What a structure's addresses are.
LEMMA StructureFacts ==
  ASSUME NEW structure \in Structures
  PROVE  /\ \E S : \A a \in DOMAIN structure : a \in Seq(S)
         /\ <<>> \in DOMAIN structure
         /\ \E a \in DOMAIN structure : \A b \in DOMAIN structure : Len(b) <= Len(a)
         /\ \A a \in DOMAIN structure : /\ structure[a] # "mask"
                                        /\ a # <<>> => Front(a) \in DOMAIN structure
<1> DEFINE S == UNION {ToSet(a) : a \in DOMAIN structure}
<1>1. ASSUME NEW a \in DOMAIN structure PROVE a \in Seq(S)
  <2>1. a \in Seq(ToSet(a)) /\ ToSet(a) \subseteq S
    BY StructuresAssumption
  <2> HIDE DEF S
  <2> QED BY <2>1, SeqMonotonic
<1>2. \E T : \A a \in DOMAIN structure : a \in Seq(T)
  BY <1>1
<1> QED BY <1>2, StructuresAssumption

\* walk() comes to the parts that no key on the way to them, their own last step apart,
\* is named by the policy.
Open(setting, a) == \A k \in 1..(Len(a) - 1) : ~Named(setting, SubSeq(a, 1, k))

\* Its calls are those of the open parts, each with the keys of its address as its path.
LEMMA WalkFacts ==
  ASSUME NEW setting, NEW structure \in Structures
  PROVE  Walk(setting, structure) =
           {CallFor(a) : a \in {b \in DOMAIN structure : Open(setting, b)}}
<1> DEFINE D == DOMAIN structure
           depths == 0..Max({Len(a) : a \in D})
           At(n) == {CallFor(a) : a \in {b \in D : Len(b) = n /\ Open(setting, b)}}
           levels == [n \in depths |-> At(n)]
           is(f) == f = [n \in depths |->
                           IF n = 0 THEN {[address |-> <<>>, path |-> <<>>]}
                           ELSE Children(setting, structure, f[n - 1])]
           calls == CHOOSE f : is(f)
<1>1. PICK S : \A a \in D : a \in Seq(S)
  BY StructureFacts
<1>2. /\ <<>> \in D
      /\ \E a \in D : \A b \in D : Len(b) <= Len(a)
      /\ \A a \in D : a # <<>> => Front(a) \in D
  BY StructureFacts
<1>3. Walk(setting, structure) = UNION {calls[n] : n \in depths}
  BY DEF Walk
<1> DEFINE deepest == Max({Len(a) : a \in D})
<1>4. \A a \in D : Len(a) \in Nat
  BY <1>1, LenProperties
<1>5. deepest \in Nat /\ \A a \in D : Len(a) <= deepest
  <2>1. \E x \in {Len(a) : a \in D} : \A y \in {Len(a) : a \in D} : x >= y
    BY <1>2, <1>4
  <2>2. /\ deepest \in {Len(a) : a \in D}
        /\ \A y \in {Len(a) : a \in D} : deepest >= y
    BY <2>1 DEF Max
  <2> HIDE DEF deepest
  <2> QED BY <1>4, <2>2
<1>6. At(0) = {[address |-> <<>>, path |-> <<>>]}
  <2>1. Open(setting, <<>>) /\ Len(<<>>) = 0
    BY DEF Open
  <2>2. CallFor(<<>>) = [address |-> <<>>, path |-> <<>>]
    <3>1. KeysOf(<<>>) = <<>>
      <4>1. <<>> \in Seq(S)
        BY EmptySeq
      <4> QED BY <4>1, KeysOfFacts
    <3> QED BY <3>1 DEF CallFor
  <2>3. {b \in D : Len(b) = 0 /\ Open(setting, b)} = {<<>>}
    <3>1. \A b \in D : Len(b) = 0 => b = <<>>
      BY <1>1, EmptySeq
    <3> QED BY <1>2, <2>1, <3>1
  <2> QED BY <2>2, <2>3
<1>7. ASSUME NEW n \in Nat PROVE Children(setting, structure, At(n)) = At(n + 1)
  <2> DEFINE next(a) == {b \in D : b # <<>> /\ Front(b) = a}
             entered == {c \in At(n) : ~Masked(setting, c)}
  <2>1. Children(setting, structure, At(n)) =
          UNION {{[address |-> b, path |-> PathInto(call.path, Last(b))] :
                    b \in next(call.address)} : call \in entered}
    BY DEF Children
  <2>2. ASSUME NEW b \in D, b # <<>>, Front(b) \in D, Open(setting, Front(b)),
               ~Masked(setting, CallFor(Front(b)))
        PROVE  Open(setting, b)
    <3> DEFINE a == Front(b)
    <3>1. /\ a \in Seq(S) /\ Len(b) \in Nat \ {0} /\ Len(a) = Len(b) - 1
          /\ SubSeq(b, 1, Len(b) - 1) = a
          /\ \A k \in 1..(Len(b) - 1) : SubSeq(a, 1, k) = SubSeq(b, 1, k)
      BY <1>1, <2>2, FrontFacts
    <3> HIDE DEF a
    <3>2. a = <<>> \/ ~Named(setting, a)
      BY <2>2, <3>1, MaskedIsNamed DEF a
    <3>3. ASSUME NEW k \in 1..(Len(b) - 1) PROVE ~Named(setting, SubSeq(b, 1, k))
      <4>1. CASE k = Len(b) - 1
        <5>1. Len(a) # 0 /\ a # <<>>
          BY <3>1, <3>3, <4>1, EmptySeq
        <5> QED BY <3>1, <3>2, <4>1, <5>1
      <4>2. CASE k # Len(b) - 1
        <5>1. k \in 1..(Len(a) - 1)
          BY <3>1, <3>3, <4>2
        <5>2. ~Named(setting, SubSeq(a, 1, k))
          BY <2>2, <5>1 DEF Open, a
        <5> QED BY <3>1, <3>3, <5>2
      <4> QED BY <4>1, <4>2
    <3> QED BY <3>3 DEF Open
  <2>3. ASSUME NEW b \in D, b # <<>>, Open(setting, b)
        PROVE  /\ Front(b) \in D /\ Open(setting, Front(b))
               /\ ~Masked(setting, CallFor(Front(b)))
    <3> DEFINE a == Front(b)
    <3>1. /\ a \in Seq(S) /\ Len(b) \in Nat \ {0} /\ Len(a) = Len(b) - 1
          /\ SubSeq(b, 1, Len(b) - 1) = a
          /\ \A k \in 1..(Len(b) - 1) : SubSeq(a, 1, k) = SubSeq(b, 1, k)
      BY <1>1, <2>3, FrontFacts
    <3> HIDE DEF a
    <3>2. ASSUME NEW k \in 1..(Len(a) - 1) PROVE ~Named(setting, SubSeq(a, 1, k))
      <4>1. k \in 1..(Len(b) - 1)
        BY <3>1, <3>2
      <4> QED BY <2>3, <3>1, <4>1 DEF Open
    <3>3. a = <<>> \/ ~Named(setting, a)
      <4>1. CASE Len(a) = 0
        BY <3>1, <4>1, EmptySeq
      <4>2. CASE Len(a) # 0
        <5>1. Len(b) - 1 \in 1..(Len(b) - 1)
          BY <3>1, <4>2
        <5> QED BY <2>3, <3>1, <5>1 DEF Open
      <4> QED BY <4>1, <4>2
    <3>4. ~Masked(setting, CallFor(a))
      BY <3>1, <3>3, MaskedIsNamed
    <3>5. Open(setting, a)
      BY <3>2 DEF Open
    <3> QED BY <1>2, <2>3, <3>4, <3>5 DEF a
  <2>4. ASSUME NEW b \in D, b # <<>>
        PROVE  /\ Len(b) = n + 1 <=> Len(Front(b)) = n
               /\ CallFor(b) = [address |-> b,
                                path |-> PathInto(CallFor(Front(b)).path, Last(b))]
    <3>1. b \in Seq(S)
      BY <1>1
    <3>2. Len(b) \in Nat \ {0} /\ Len(Front(b)) = Len(b) - 1
      BY <2>4, <3>1, FrontFacts
    <3>3. KeysOf(b) = PathInto(KeysOf(Front(b)), Last(b))
      BY <2>4, <3>1, KeysOfFacts
    <3> QED BY <3>2, <3>3 DEF CallFor
  <2>5. ASSUME NEW c \in Children(setting, structure, At(n)) PROVE c \in At(n + 1)
    <3>1. PICK call \in entered : \E b \in next(call.address) :
            c = [address |-> b, path |-> PathInto(call.path, Last(b))]
      BY <2>1, <2>5
    <3>2. PICK b \in next(call.address) :
            c = [address |-> b, path |-> PathInto(call.path, Last(b))]
      BY <3>1
    <3>3. PICK a \in D : Len(a) = n /\ Open(setting, a) /\ call = CallFor(a)
      BY <3>1
    <3>4. b \in D /\ b # <<>> /\ Front(b) = a
      BY <3>2, <3>3 DEF CallFor
    <3>5. Len(b) = n + 1 /\ c = CallFor(b)
      BY <2>4, <3>2, <3>3, <3>4
    <3>6. Open(setting, b)
      BY <2>2, <3>1, <3>3, <3>4
    <3> QED BY <3>4, <3>5, <3>6
  <2>6. ASSUME NEW c \in At(n + 1) PROVE c \in Children(setting, structure, At(n))
    <3>1. PICK b \in D : Len(b) = n + 1 /\ Open(setting, b) /\ c = CallFor(b)
      BY <2>6
    <3>2. b # <<>>
      BY <3>1
    <3> DEFINE call == CallFor(Front(b))
    <3>3. /\ Front(b) \in D /\ Open(setting, Front(b)) /\ Len(Front(b)) = n
          /\ ~Masked(setting, call)
          /\ c = [address |-> b, path |-> PathInto(call.path, Last(b))]
      BY <2>3, <2>4, <3>1, <3>2
    <3>4. call.address = Front(b)
      BY DEF CallFor
    <3> HIDE DEF call
    <3>5. call \in entered
      BY <3>3 DEF call
    <3>6. b \in next(call.address)
      BY <3>2, <3>4
    <3> HIDE DEF entered, next
    <3> QED BY <2>1, <3>3, <3>5, <3>6
  <2> QED BY <2>5, <2>6
<1> HIDE DEF At, deepest
<1>8. depths = 0..deepest
  BY DEF deepest
<1> HIDE DEF depths
<1>9. is(levels)
  <2>1. ASSUME NEW n \in depths
        PROVE  At(n) = IF n = 0 THEN {[address |-> <<>>, path |-> <<>>]}
                       ELSE Children(setting, structure, levels[n - 1])
    <3>1. CASE n = 0
      BY <1>6, <3>1
    <3>2. CASE n # 0
      <4>1. n - 1 \in Nat /\ n - 1 \in depths /\ (n - 1) + 1 = n
        BY <1>5, <1>8, <2>1, <3>2
      <4>2. Children(setting, structure, At(n - 1)) = At((n - 1) + 1)
        BY <1>7, <4>1
      <4>3. levels[n - 1] = At(n - 1)
        BY <4>1
      <4> QED BY <3>2, <4>1, <4>2, <4>3
    <3> QED BY <3>1, <3>2
  <2> QED BY <2>1
<1>10. is(calls)
  <2> HIDE DEF levels
  <2> QED BY <1>9
<1> HIDE DEF calls
<1> DEFINE T == {n \in depths : calls[n] = At(n)}
<1>11. depths \subseteq T
  <2>1. 0 \in T
    BY <1>5, <1>6, <1>8, <1>10
  <2>2. ASSUME NEW n \in 0..deepest, n < deepest, n \in T PROVE n + 1 \in T
    <3>1. n \in Nat /\ n + 1 \in depths /\ n + 1 # 0 /\ (n + 1) - 1 = n
      BY <1>5, <1>8, <2>2
    <3>2. calls[n + 1] = Children(setting, structure, calls[n])
      BY <1>10, <3>1
    <3> QED BY <1>7, <2>2, <3>1, <3>2
  <2> HIDE DEF T
  <2>3. 0..deepest \subseteq T
    BY <1>5, <2>1, <2>2, Climb
  <2> QED BY <1>8, <2>3
<1>12. UNION {calls[n] : n \in depths} = UNION {At(n) : n \in depths}
  BY <1>11
<1>13. UNION {At(n) : n \in depths} = {CallFor(a) : a \in {b \in D : Open(setting, b)}}
  <2>1. \A a \in D : Len(a) \in depths
    BY <1>4, <1>5, <1>8
  <2> QED BY <2>1 DEF At
<1> QED BY <1>3, <1>12, <1>13

\* The copy that people read is what the property asks for.
LEMMA RedactedIffNamed ==
  ASSUME NEW setting, NEW structure \in Structures,
         input.policy = setting, input.value = structure,
         output = RedactStructure(setting, structure)
  PROVE  HiddenIffNamed
<1> DEFINE D == DOMAIN structure
           O == {a \in D : Open(setting, a)}
           named(a) == a # <<>> /\ Named(setting, a)
           hidden(a) == \E n \in DOMAIN a : Named(setting, SubSeq(a, 1, n))
<1>1. PICK S : \A a \in D : a \in Seq(S)
  BY StructureFacts
<1>2. Walk(setting, structure) = {CallFor(a) : a \in O}
  BY WalkFacts
<1>3. output = [a \in O |-> IF named(a) THEN "mask" ELSE structure[a]]
  <2> DEFINE calls == Walk(setting, structure)
  <2>1. output = [a \in {call.address : call \in calls} |->
                    IF \E call \in calls : call.address = a /\ Masked(setting, call)
                    THEN "mask" ELSE structure[a]]
    BY DEF RedactStructure
  <2>2. {call.address : call \in calls} = O
    <3>1. \A a \in O : CallFor(a).address = a
      BY DEF CallFor
    <3> HIDE DEF O
    <3> QED BY <1>2, <3>1
  <2>3. ASSUME NEW a \in O
        PROVE  (\E call \in calls : call.address = a /\ Masked(setting, call)) <=> named(a)
    <3>1. \A b \in O : CallFor(b).address = b
      BY DEF CallFor
    <3>2. (\E call \in calls : call.address = a /\ Masked(setting, call))
            <=> Masked(setting, CallFor(a))
      <4> HIDE DEF O
      <4> QED BY <1>2, <2>3, <3>1
    <3> QED BY <1>1, <2>3, <3>2, MaskedIsNamed
  <2> HIDE DEF calls, O, named
  <2> QED BY <2>1, <2>2, <2>3
<1>4. \A a \in D : structure[a] # "mask"
  BY StructureFacts
<1>5. ASSUME NEW a \in D PROVE a \in O /\ ~named(a) <=> ~hidden(a)
  <2>1. a \in Seq(S)
    BY <1>1
  <2>2. Len(a) \in Nat /\ DOMAIN a = 1..Len(a)
    BY <2>1, LenProperties
  <2>3. CASE a = <<>>
    <3>1. Len(a) = 0 /\ DOMAIN a = {}
      BY <2>3, <2>2
    <3>2. Open(setting, a)
      BY <3>1 DEF Open
    <3> QED BY <2>3, <3>1, <3>2
  <2>4. CASE a # <<>>
    <3>1. Len(a) \in Nat \ {0} /\ SubSeq(a, 1, Len(a)) = a
      BY <2>1, <2>4, FrontFacts
    <3>2. DOMAIN a = 1..(Len(a) - 1) \cup {Len(a)}
      BY <2>2, <3>1
    <3>3. hidden(a) <=> ~Open(setting, a) \/ Named(setting, a)
      BY <3>1, <3>2 DEF Open
    <3> QED BY <2>4, <3>3
  <2> QED BY <2>3, <2>4
<1>6. Leaves(output) = {a \in O : ~named(a) /\ structure[a] = "leaf"}
  <2>1. DOMAIN output = O /\ \A a \in O : output[a] = IF named(a) THEN "mask" ELSE structure[a]
    <3> HIDE DEF named, O
    <3> QED BY <1>3
  <2> HIDE DEF named, O
  <2> QED BY <2>1 DEF Leaves
<1>7. Leaves(output) = {a \in Leaves(structure) : ~hidden(a)}
  <2>1. O \subseteq D
    OBVIOUS
  <2> HIDE DEF O, named, hidden
  <2> QED BY <1>5, <1>6, <2>1 DEF Leaves
<1> QED BY <1>7 DEF HiddenIffNamed
-----------------------------------------------------------------------------
(* The specification.                                                      *)

\* A behaviour keeps the input that it has taken, and its output is what is computed of
\* that; under "policy", it goes on as module Policies says.
ComputedInv ==
  /\ kind = "policy" => LoadedInv
  /\ kind # "policy" => policy = None /\ verdict = "none"
  /\ kind = "key" =>
       /\ input \in [first : Calls, second : Calls]
       /\ \/ output = None
          \/ /\ Bound(input.first) /\ Bound(input.second)
             /\ output = <<KeyOf(input.first), KeyOf(input.second)>>
  /\ kind = "redaction" =>
       /\ input \in [policy : Redactions, value : Structures]
       /\ output = None \/ output = RedactStructure(input.policy, input.value)
  /\ kind = "lookup" =>
       /\ input \in [backend : {"sqlite", "redis"}, rows : Histories, embedding : Embeddings]
       /\ \/ output = None
          \/ output = [hit |-> Best(input.embedding, Candidates, Threshold, None, Bad)]
  /\ kind = "page" =>
       /\ input \in [stores : Stores, status : {None, "WAITING_APPROVAL"}]
       /\ \/ output = None
          \/ output = FetchExecutions(input.stores, input.status, Limit, LogScan, None)
  /\ kind = "pending" =>
       /\ input \in [stores : Stores]
       /\ output = None \/ output = Pending(input.stores[1], Limit, LogScan, None)

\* Nothing is computed at first.
LEMMA ComputedInit == InputsInit => ComputedInv
<1> SUFFICES ASSUME InputsInit PROVE ComputedInv
  OBVIOUS
<1>1. output = None /\ (kind # "policy" => policy = None /\ verdict = "none")
  BY DEF InputsInit
<1>2. CASE kind = "policy" /\ Init
  BY <1>1, <1>2, LoadedInit DEF ComputedInv
<1>3. CASE kind = "key" /\ input \in [first : Calls, second : Calls]
  BY <1>1, <1>3 DEF ComputedInv
<1>4. CASE kind = "redaction" /\ input \in [policy : Redactions, value : Structures]
  BY <1>1, <1>4 DEF ComputedInv
<1>5. CASE /\ kind = "lookup"
           /\ input \in [backend : {"sqlite", "redis"}, rows : Histories, embedding : Embeddings]
  BY <1>1, <1>5 DEF ComputedInv
<1>6. CASE kind = "page" /\ input \in [stores : Stores, status : {None, "WAITING_APPROVAL"}]
  BY <1>1, <1>6 DEF ComputedInv
<1>7. CASE kind = "pending" /\ input \in [stores : Stores]
  BY <1>1, <1>7 DEF ComputedInv
<1> QED BY <1>2, <1>3, <1>4, <1>5, <1>6, <1>7 DEF InputsInit

\* Each step computes its result, or takes a step of a policy.
LEMMA ComputedStep == ComputedInv /\ [InputsNext]_inputVars => ComputedInv'
<1> SUFFICES ASSUME ComputedInv, [InputsNext]_inputVars PROVE ComputedInv'
  OBVIOUS
<1>1. CASE kind = "policy" /\ Next /\ UNCHANGED <<kind, input, output>>
  <2>1. LoadedInv'
    BY <1>1, LoadedStep DEF ComputedInv
  <2>2. kind' = "policy"
    BY <1>1
  <2> QED BY <2>1, <2>2 DEF ComputedInv
<1>2. CASE ComputeKeys
  <2>1. kind = "key" /\ kind' = kind /\ input' = input
    BY <1>2 DEF ComputeKeys
  <2>2. /\ Bound(input.first) /\ Bound(input.second)
        /\ output' = <<KeyOf(input.first), KeyOf(input.second)>>
        /\ policy' = policy /\ verdict' = verdict
    BY <1>2 DEF ComputeKeys, vars
  <2> QED BY <2>1, <2>2 DEF ComputedInv
<1>3. CASE Redact
  BY <1>3 DEF Redact, ComputedInv, vars
<1>4. CASE SemanticLookup
  <2>1. kind = "lookup" /\ kind' = kind /\ input' = input
    BY <1>4 DEF SemanticLookup
  <2>2. Candidates' = Candidates
    BY <2>1 DEF Candidates
  <2>3. /\ output' = [hit |-> Best(input.embedding, Candidates, Threshold, None, Bad)]
        /\ policy' = policy /\ verdict' = verdict
    BY <1>4 DEF SemanticLookup, vars
  <2> QED BY <2>1, <2>2, <2>3 DEF ComputedInv
<1>5. CASE ShowPage
  BY <1>5 DEF ShowPage, ComputedInv, vars
<1>6. CASE ShowPending
  BY <1>6 DEF ShowPending, ComputedInv, vars
<1>7. CASE UNCHANGED inputVars
  <2>1. UNCHANGED vars /\ kind' = kind /\ input' = input /\ output' = output
    BY <1>7 DEF inputVars
  <2>2. kind = "policy" => LoadedInv'
    BY <2>1, LoadedStep DEF ComputedInv
  <2>3. Candidates' = Candidates /\ policy' = policy /\ verdict' = verdict
    BY <2>1 DEF Candidates, vars
  <2> QED BY <2>1, <2>2, <2>3 DEF ComputedInv
<1> QED BY <1>1, <1>2, <1>3, <1>4, <1>5, <1>6, <1>7 DEF InputsNext

\* So it is at every moment.
LEMMA ComputedAlways == InputsSpec => []ComputedInv
BY ComputedInit, ComputedStep, PTL DEF InputsSpec

\* Whatever a file with positive numbers and no empty keys says is in force once it has
\* loaded, in the seconds its units say, and no call under it raises ValueError.
THEOREM WrittenIsInForceAlways == InputsSpec => []WrittenIsInForce
<1>1. ComputedInv => WrittenIsInForce
  <2>1. CASE kind = "policy"
    BY <2>1, LoadedIsInForce DEF ComputedInv
  <2>2. CASE kind # "policy"
    BY <2>2 DEF ComputedInv, WrittenIsInForce
  <2> QED BY <2>1, <2>2
<1> QED BY <1>1, ComputedAlways, PTL

\* What runs without a human, or under a budget, was measured and is small enough,
\* whatever the file leaves out and whatever the call gives for the argument.
THEOREM RunsOnlyIfMeasuredAlways == InputsSpec => []RunsOnlyIfMeasured
<1>1. ComputedInv => RunsOnlyIfMeasured
  <2>1. CASE kind = "policy"
    BY <2>1, LoadedIsMeasured DEF ComputedInv
  <2>2. CASE kind # "policy"
    BY <2>2 DEF ComputedInv, RunsOnlyIfMeasured
  <2> QED BY <2>1, <2>2
<1> QED BY <1>1, ComputedAlways, PTL

\* Whatever the signature, two calls that bind have one key exactly if the function is
\* given the same by both, up to what JSON does not tell apart.
THEOREM SameCallSameKeyAlways == InputsSpec => []SameCallSameKey
<1>1. ComputedInv => SameCallSameKey
  <2> SUFFICES ASSUME ComputedInv, kind = "key", output # None
               PROVE  output[1] = output[2] <=>
                        \A i \in DOMAIN Params :
                          ToJson(Received(input.first, i)) = ToJson(Received(input.second, i))
    BY DEF SameCallSameKey
  <2>1. /\ input.first \in Calls /\ input.second \in Calls
        /\ Bound(input.first) /\ Bound(input.second)
        /\ output = <<KeyOf(input.first), KeyOf(input.second)>>
    BY DEF ComputedInv
  <2>2. output[1] = KeyOf(input.first) /\ output[2] = KeyOf(input.second)
    BY <2>1
  <2> QED BY <2>1, <2>2, KeysCompare
<1> QED BY <1>1, ComputedAlways, PTL

\* Whatever the arguments and however deep, the copy that people read has all of them
\* but those that a key on the way to them hides, and of those nothing.
THEOREM HiddenIffNamedAlways == InputsSpec => []HiddenIffNamed
<1>1. ComputedInv => HiddenIffNamed
  <2> SUFFICES ASSUME ComputedInv, kind = "redaction", output # None PROVE HiddenIffNamed
    BY DEF HiddenIffNamed
  <2>1. input.value \in Structures /\ output = RedactStructure(input.policy, input.value)
    BY DEF ComputedInv
  <2> QED BY <2>1, RedactedIffNamed
<1> QED BY <1>1, ComputedAlways, PTL

\* However many earlier calls there are and whatever their vectors, the result that a
\* lookup serves is fit to be served and the nearest that the backend lists.
THEOREM NearestIsServedAlways == InputsSpec => []NearestIsServed
<1>1. ComputedInv => NearestIsServed
  <2> SUFFICES ASSUME ComputedInv, kind = "lookup", output # None PROVE NearestIsServed
    BY DEF NearestIsServed
  <2>1. /\ input \in [backend : {"sqlite", "redis"}, rows : Histories, embedding : Embeddings]
        /\ output = [hit |-> Best(input.embedding, Candidates, Threshold, None, Bad)]
    BY DEF ComputedInv
  <2> QED BY <2>1, LookupIsNearest
<1> QED BY <1>1, ComputedAlways, PTL

\* However many stores and rows there are, the audit log, tbay pending and the dashboard
\* are in order and leave out nothing newer than what they show, Redis's reach apart.
THEOREM ListsShowNewestAlways == InputsSpec => []ListsShowNewest
<1>1. ComputedInv => ListsShowNewest
  <2> SUFFICES ASSUME ComputedInv PROVE ListsShowNewest
    OBVIOUS
  <2>1. CASE kind = "page" /\ output # None
    <3>1. /\ input.stores \in Stores
          /\ output = FetchExecutions(input.stores, input.status, Limit, LogScan, None)
      BY <2>1 DEF ComputedInv
    <3> QED BY <2>1, <3>1, PageShowsNewest
  <2>2. CASE kind = "pending" /\ output # None
    <3>1. /\ input.stores \in Stores
          /\ output = Pending(input.stores[1], Limit, LogScan, None)
      BY <2>2 DEF ComputedInv
    <3> QED BY <2>2, <3>1, PendingShowsNewest
  <2>3. CASE ~(kind = "page" /\ output # None) /\ ~(kind = "pending" /\ output # None)
    BY <2>3 DEF ListsShowNewest
  <2> QED BY <2>1, <2>2, <2>3
<1> QED BY <1>1, ComputedAlways, PTL
=============================================================================
