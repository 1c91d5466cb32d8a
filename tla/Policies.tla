------------------------------ MODULE Policies ------------------------------
(***************************************************************************)
(* From a policy's YAML to what a call is let do: _build_policy and        *)
(* parse_ttl at load time, then, for the first call under that policy, the *)
(* metering of its argument, the rate limit, the budget and the approval   *)
(* gate, in the order run() takes them.                                    *)
(***************************************************************************)
EXTENDS Naturals

CONSTANTS
  None,      \* YAML's null, Python's None
  Missing,   \* a key that is not there
  Bad,       \* a value the conversion refuses
  Numbers,   \* the numbers a file or a call may use
  Units      \* the units of durations, each with its seconds

ASSUME PoliciesAssumption ==
  Numbers \subseteq Nat /\ Units \in [DOMAIN Units -> Nat \ {0}]

VARIABLES cfg, policy, value, verdict

vars == <<cfg, policy, value, verdict>>

Optional(S) == S \cup {None, Missing}
Durations == [amount : Numbers, unit : DOMAIN Units]

\* No number, name or duration is taken for one of these.
ASSUME NoValueAssumption ==
  /\ None # Missing /\ None # Bad /\ Missing # Bad
  /\ {None, Missing, Bad} \cap (Nat \cup {"amount"} \cup Durations) = {}

Configs ==
  [max_calls : Optional(Numbers), per : Optional(Durations \cup {Bad}),   \* rate_limit
   arg : Optional({"amount"}), max : Optional(Numbers), window : Optional(Durations \cup {Bad}),  \* budget
   approval_required : BOOLEAN,
   bypass_arg : Optional({"amount"}), bypass_max : Optional(Numbers)]

\* cfg.get(...)
Get(v) == IF v = Missing THEN None ELSE v
OrNone(n) == IF n = 0 THEN None ELSE n

\* parse_ttl: no duration and a duration of zero are both no expiry.
ParseTtl(v) ==
  IF Get(v) = None \/ v = Bad THEN Get(v) ELSE OrNone(v.amount * Units[v.unit])
-----------------------------------------------------------------------------
(* _build_policy: what it refuses to load, and what it loads.              *)

\* (A mutant: a window alone is accepted.)
HalfRateLimitUnpaired(c) == c.max_calls # Missing /\ c.per = Missing

HalfRateLimit(c) == (c.max_calls = Missing) # (c.per = Missing)

HalfBudget(c) ==
  /\ \E f \in {"arg", "max", "window"} : c[f] # Missing
  /\ \E f \in {"arg", "max", "window"} : c[f] = Missing

HalfBypass(c) == (Get(c.bypass_arg) = None) # (Get(c.bypass_max) = None)

Refused(c) ==
  \/ HalfRateLimit(c) \/ HalfBudget(c) \/ HalfBypass(c)
  \/ ParseTtl(c.per) = Bad \/ ParseTtl(c.window) = Bad

Build(c) ==
  [rate_limit_max_calls |-> OrNone(Get(c.max_calls)),
   rate_limit_window |-> ParseTtl(c.per),
   budget_arg |-> Get(c.arg), budget_max |-> Get(c.max), budget_window |-> ParseTtl(c.window),
   approval_required |-> c.approval_required,
   approval_bypass_arg |-> Get(c.bypass_arg), approval_bypass_max |-> Get(c.bypass_max)]

Init ==
  /\ cfg \in Configs
  /\ policy = None /\ value = None /\ verdict = "none"

Load ==
  /\ verdict = "none" /\ policy = None
  /\ IF Refused(cfg) THEN verdict' = "load error" /\ policy' = None
                     ELSE verdict' = "none" /\ policy' = Build(cfg)
  /\ UNCHANGED <<cfg, value>>
-----------------------------------------------------------------------------
(* The first call under the policy, with this value of the argument: None, *)
(* a value float() refuses, or a number.                                   *)

Values == Numbers \cup {None, Bad}
Numeric(v) == v # None /\ v # Bad

\* _budget_value
Unmeterable(p, v) == p.budget_arg # None /\ ~Numeric(v)

HalfAtCall(p) ==
  \/ p.rate_limit_max_calls # None /\ p.rate_limit_window = None
  \/ p.budget_max # None /\ p.budget_window = None

\* _enforce_budget, when this call's row is the only one; a row without a
\* budget_value adds nothing.
OverBudget(p, v) == p.budget_max # None /\ p.budget_arg # None /\ v > p.budget_max

\* (A mutant: what cannot be compared is small.)
NeedsApprovalIfLarge(p, v) ==
  p.approval_required /\ (p.approval_bypass_arg # None => Numeric(v) /\ v > p.approval_bypass_max)

NeedsApproval(p, v) ==
  p.approval_required /\ (p.approval_bypass_arg # None => ~Numeric(v) \/ v > p.approval_bypass_max)

Verdict(p, v) ==
  IF Unmeterable(p, v) THEN "unmeterable"
  ELSE IF HalfAtCall(p) THEN "ValueError"
  ELSE IF OverBudget(p, v) THEN "over budget"
  ELSE IF NeedsApproval(p, v) THEN "approval"
  ELSE "runs"

Call(v) ==
  /\ policy # None /\ verdict = "none"
  /\ verdict' = Verdict(policy, v) /\ value' = v
  /\ UNCHANGED <<cfg, policy>>

Next == Load \/ \E v \in Values : Call(v)

Spec == Init /\ [][Next]_vars
-----------------------------------------------------------------------------
Given(v) == v \notin {None, Missing}
Positive(v) == Given(v) => v > 0
PositiveDuration(v) == Given(v) /\ v # Bad => v.amount > 0

\* A file whose numbers are positive and whose keys have values: what is written
\* in it and loads is in force, complete and with the seconds its units say, and
\* no call crashes on it.
WrittenIsInForce ==
  /\ policy # None
  /\ \A f \in DOMAIN cfg : cfg[f] # None
  /\ Positive(cfg.max_calls) /\ PositiveDuration(cfg.per) /\ PositiveDuration(cfg.window)
  => /\ Given(cfg.max_calls) \/ Given(cfg.per) =>
          /\ policy.rate_limit_max_calls = cfg.max_calls
          /\ policy.rate_limit_window = cfg.per.amount * Units[cfg.per.unit]
     /\ Given(cfg.arg) \/ Given(cfg.max) \/ Given(cfg.window) =>
          /\ policy.budget_arg = cfg.arg /\ policy.budget_max = cfg.max
          /\ policy.budget_window = cfg.window.amount * Units[cfg.window.unit]
     /\ verdict # "ValueError"

\* A call that runs without a human under a policy that asks for one has a number
\* for the bypass argument, and it is small enough; one that runs under a budget
\* has a number that fits in it.
RunsOnlyIfMeasured ==
  verdict = "runs" =>
    /\ cfg.approval_required => Given(cfg.bypass_max) /\ Numeric(value) /\ value <= cfg.bypass_max
    /\ Given(cfg.arg) /\ Given(cfg.max) => Numeric(value) /\ value <= cfg.max
=============================================================================
