----------------------------- MODULE Arguments ------------------------------
(***************************************************************************)
(* What run() makes of a call's arguments before it acquires: the bound    *)
(* arguments that its idempotency key is a hash of (_bind_args and         *)
(* _default_key), and the copy that people get to read (redaction.py).     *)
(***************************************************************************)
EXTENDS Naturals, Sequences, SequencesExt

(* Binding.  The function has parameters Params, in this order, of which   *)
(* Defaults has those with a default.  A call is spelled with positional   *)
(* arguments and keywords.                                                 *)

\* inspect.signature(fn).bind raises TypeError.
Unbound(params, defaults, call) ==
  \/ Len(call.args) > Len(params)
  \/ \E i \in DOMAIN call.args : i \in DOMAIN params /\ params[i] \in DOMAIN call.kwargs
  \/ \E p \in DOMAIN call.kwargs : p \notin ToSet(params)
  \/ \E i \in DOMAIN params : /\ i > Len(call.args)
                              /\ params[i] \notin DOMAIN call.kwargs \cup DOMAIN defaults

Spelled(params, call) ==
  [p \in {params[i] : i \in DOMAIN call.args} \cup DOMAIN call.kwargs |->
     IF p \in DOMAIN call.kwargs THEN call.kwargs[p]
     ELSE call.args[CHOOSE i \in DOMAIN call.args : params[i] = p]]

\* (A mutant: without apply_defaults().)
BindGiven(params, defaults, call) ==
  IF Unbound(params, defaults, call) THEN [args |-> call.args, kwargs |-> call.kwargs]
  ELSE Spelled(params, call)

\* f, and what only g has.
Over(f, g) ==
  [p \in DOMAIN f \cup DOMAIN g |-> IF p \in DOMAIN f THEN f[p] ELSE g[p]]

\* bind(), then apply_defaults().
BindArgs(params, defaults, call) ==
  IF Unbound(params, defaults, call) THEN [args |-> call.args, kwargs |-> call.kwargs]
  ELSE Over(Spelled(params, call), defaults)

\* json.dumps of a value: str() of what JSON does not know, lists for tuples.
ToJson(v) == [type |-> IF v.type = "tuple" THEN "list"
                       ELSE IF v.type = "other" THEN "str" ELSE v.type,
              text |-> v.text]

\* The SHA-256 of the JSON: as good as the JSON itself.
DefaultKey(tool, bound, tenant) ==
  [tool |-> tool, tenant |-> tenant,
   args |-> [p \in DOMAIN bound |-> ToJson(bound[p])]]
-----------------------------------------------------------------------------
(* redact_structure.  A structure maps the addresses of its parts, each of  *)
(* them the keys and list positions on the way to it, to what is there: a  *)
(* dict, a list or a leaf.  A field of redact_args is split at its dots.   *)

Key(k) == [key |-> k]
Item(i) == [item |-> i]
IsKey(step) == "key" \in DOMAIN step

\* "matched" are the key names that redact_patterns, or AUTO_PATTERN, match.
ShouldMask(policy, path) ==
  \/ <<Last(path)>> \in policy.fields
  \/ Len(path) > 1 /\ path \in policy.fields
  \/ Last(path) \in policy.matched

\* (A mutant: a list ends the path.)
PathAnew(path, step) == IF IsKey(step) THEN Append(path, step.key) ELSE <<>>

\* The path that walk() passes on: lists are transparent to it.
PathInto(path, step) == IF IsKey(step) THEN Append(path, step.key) ELSE path

\* What walk() does not enter.
Masked(policy, call) ==
  call.address # <<>> /\ IsKey(Last(call.address)) /\ ShouldMask(policy, call.path)

\* The calls of walk() that these calls of it make, masked keys among them.
Children(policy, value, calls) ==
  UNION {{[address |-> a, path |-> PathInto(call.path, Last(a))] :
            a \in {b \in DOMAIN value : b # <<>> /\ Front(b) = call.address}} :
         call \in {c \in calls : ~Masked(policy, c)}}

\* The parts that walk() comes to, depth by depth.
Walk(policy, value) ==
  LET depths == 0..Max({Len(a) : a \in DOMAIN value})
      calls[n \in depths] == IF n = 0 THEN {[address |-> <<>>, path |-> <<>>]}
                             ELSE Children(policy, value, calls[n - 1])
  IN  UNION {calls[n] : n \in depths}

RedactStructure(policy, value) ==
  LET calls == Walk(policy, value)
  IN  [a \in {call.address : call \in calls} |->
         IF \E call \in calls : call.address = a /\ Masked(policy, call) THEN "mask" ELSE value[a]]
=============================================================================
