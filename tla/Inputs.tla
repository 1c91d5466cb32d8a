------------------------------- MODULE Inputs -------------------------------
(***************************************************************************)
(* What happens to the inputs of a call before anything is acquired, one   *)
(* algorithm at a time: the policy it is under (module Policies), the key  *)
(* of two spellings of it, the copy of its arguments that people read      *)
(* (module Arguments), and the lookup of a similar call's result (module   *)
(* SemanticCache); and what people are shown of the calls that were made   *)
(* (module Listings).  A behaviour takes one input and computes one        *)
(* result, which is compared with what the documents say the result is.    *)
(***************************************************************************)
EXTENDS Policies, Arguments, SemanticCache, Listings

CONSTANTS
  Params, Defaults,    \* the signature of the function
  Calls,               \* spellings of calls
  Structures,          \* arguments
  Redactions,          \* redact_args, and what its patterns match
  Histories,           \* rows of earlier calls, newest first
  Embeddings,          \* of the call
  Threshold,           \* Policy.semantic_threshold, squared
  Limit, Scan, Now,
  Stores,              \* pairs of stores that the dashboard is connected to
  LogScan              \* the last entry of its log that Redis looks at, from 0

\* No two parameters have one name; only parameters have defaults.
ASSUME SignatureAssumption ==
  /\ Params \in Seq(ToSet(Params))
  /\ \A i, j \in DOMAIN Params : Params[i] = Params[j] => i = j
  /\ DOMAIN Defaults \subseteq ToSet(Params)
  /\ \A call \in Calls : call.args \in Seq(ToSet(call.args))

\* A structure has a depth, and each part of it is part of one.
ASSUME StructuresAssumption ==
  \A structure \in Structures :
    /\ <<>> \in DOMAIN structure
    /\ \E a \in DOMAIN structure : \A b \in DOMAIN structure : Len(b) <= Len(a)
    /\ \A a \in DOMAIN structure :
         /\ a \in Seq(ToSet(a)) /\ structure[a] \in {"dict", "list", "leaf"}
         /\ a # <<>> => Front(a) \in DOMAIN structure

\* Vectors are of integers.
ASSUME HistoriesAssumption ==
  /\ Limit \in Nat \ {0} /\ Scan \in Nat /\ LogScan \in Nat
  /\ Threshold.num \in Nat /\ Threshold.den \in Nat \ {0}
  /\ \A embedding \in Embeddings : embedding \in Seq(Int)
  /\ \A rows \in Histories :
       /\ rows \in Seq(ToSet(rows))
       /\ \A i \in DOMAIN rows :
            /\ rows[i] # None
            /\ rows[i].vector \notin {None, Bad} => rows[i].vector \in Seq(Int)

\* No two stores hold the same row.
ASSUME StoresAssumption ==
  \A stores \in Stores :
    /\ stores \in Seq(ToSet(stores)) /\ stores # <<>>
    /\ \A s, t \in DOMAIN stores : s # t => stores[s].rows \cap stores[t].rows = {}
    /\ \A s \in DOMAIN stores :
         /\ IsFiniteSet(stores[s].rows)
         /\ \A row \in stores[s].rows : row.created \in Int /\ row.born \in Int

VARIABLES
  kind,    \* what is computed
  input,
  output

inputVars == <<vars, kind, input, output>>

InputsInit ==
  /\ output = None
  /\ \/ kind = "policy" /\ Init /\ input = None
     \/ /\ cfg = None /\ policy = None /\ value = None /\ verdict = "none"
        /\ \/ kind = "key" /\ input \in [first : Calls, second : Calls]
           \/ kind = "redaction" /\ input \in [policy : Redactions, value : Structures]
           \/ kind = "lookup" /\ input \in [backend : {"sqlite", "redis"}, rows : Histories,
                                            embedding : Embeddings]
           \/ kind = "page" /\ input \in [stores : Stores, status : {None, "WAITING_APPROVAL"}]
           \/ kind = "pending" /\ input \in [stores : Stores]

Bound(call) == ~Unbound(Params, Defaults, call)
KeyOf(call) == DefaultKey("tool", BindArgs(Params, Defaults, call), "tenant")

ComputeKeys ==
  /\ kind = "key" /\ output = None /\ Bound(input.first) /\ Bound(input.second)
  /\ output' = <<KeyOf(input.first), KeyOf(input.second)>>
  /\ UNCHANGED <<vars, kind, input>>

Redact ==
  /\ kind = "redaction" /\ output = None
  /\ output' = RedactStructure(input.policy, input.value)
  /\ UNCHANGED <<vars, kind, input>>

Candidates == ListSemanticCandidates(input.backend, input.rows, Now, Limit, Scan, None)

SemanticLookup ==
  /\ kind = "lookup" /\ output = None
  /\ output' = [hit |-> Best(input.embedding, Candidates, Threshold, None, Bad)]
  /\ UNCHANGED <<vars, kind, input>>

ShowPage ==
  /\ kind = "page" /\ output = None
  /\ output' = FetchExecutions(input.stores, input.status, Limit, LogScan, None)
  /\ UNCHANGED <<vars, kind, input>>

ShowPending ==
  /\ kind = "pending" /\ output = None /\ input.stores[1].up
  /\ output' = Pending(input.stores[1], Limit, LogScan, None)
  /\ UNCHANGED <<vars, kind, input>>

InputsNext ==
  \/ kind = "policy" /\ Next /\ UNCHANGED <<kind, input, output>>
  \/ ComputeKeys
  \/ Redact
  \/ SemanticLookup
  \/ ShowPage
  \/ ShowPending

InputsSpec == InputsInit /\ [][InputsNext]_inputVars
-----------------------------------------------------------------------------
\* What the function is given for its i-th parameter.
Received(call, i) ==
  IF i <= Len(call.args) THEN call.args[i]
  ELSE IF Params[i] \in DOMAIN call.kwargs THEN call.kwargs[Params[i]] ELSE Defaults[Params[i]]

\* Two calls share a key, and so a result, exactly if the function would be given
\* the same arguments, however they are spelled, up to what JSON does not tell
\* apart: f(1, 2) is f(a=1, b=2), is f(1) if 2 is the default, and is not f(1, "2").
SameCallSameKey ==
  kind = "key" /\ output # None =>
    (output[1] = output[2] <=>
       \A i \in DOMAIN Params :
         ToJson(Received(input.first, i)) = ToJson(Received(input.second, i)))

Leaves(structure) == {a \in DOMAIN structure : structure[a] = "leaf"}

\* The keys of an address: lists are transparent to paths.
KeysOf(address) ==
  LET keys[n \in 0..Len(address)] ==
        IF n = 0 THEN <<>>
        ELSE IF IsKey(address[n]) THEN Append(keys[n - 1], address[n].key) ELSE keys[n - 1]
  IN  keys[Len(address)]

\* What the docstring of redaction.py says a setting matches.
Named(setting, address) ==
  /\ IsKey(Last(address))
  /\ \/ <<Last(address).key>> \in setting.fields
     \/ KeysOf(address) \in setting.fields
     \/ Last(address).key \in setting.matched

\* An argument is hidden from the audit log and from who approves the call exactly
\* if a key on the way to it, at any depth and inside lists too, is named by the
\* policy; the others are all there.
HiddenIffNamed ==
  kind = "redaction" /\ output # None =>
    Leaves(output) =
      {a \in Leaves(input.value) :
         ~\E n \in DOMAIN a : Named(input.policy, SubSeq(a, 1, n))}

\* A lookup serves a result that has not expired and is close enough, and none of
\* those that the backend lists, or a later one as close, is closer; if there is
\* one to serve among the newest, it does not miss.  What Redis may overlook is
\* behind its last "scan" calls.
NearestIsServed ==
  kind = "lookup" /\ output # None =>
    LET rows == input.rows
        Fit(row) == Servable(row, Now, None) /\ Close(input.embedding, row, Threshold, Bad)
                      /\ Above(Score(input.embedding, row), Zero)
        Newer(i) == Cardinality({j \in 1..i : Servable(rows[j], Now, None)})
        Listed == {i \in DOMAIN rows :
                     Newer(i) <= Limit /\ (input.backend = "redis" => i <= Scan)}
        Fits == {i \in Listed : Fit(rows[i])}
    IN  IF Fits = {} THEN output.hit = None
        ELSE \E i \in Fits :
               /\ output.hit = rows[i]
               /\ \A j \in Fits : ~Above(Score(input.embedding, rows[j]),
                                         Score(input.embedding, rows[i]))

\* A row is out of a list's reach if its Redis log has "Limit" others to list that
\* were born no earlier, or does not get as far as its birth.
OutOfReach(store, row, status) ==
  LET later == {r \in store.rows : r # row /\ r.born >= row.born}
  IN  /\ store.backend = "redis"
      /\ \/ Cardinality(later) > LogScan
         \/ Cardinality({r \in later : Matches(r, status, None)}) >= Limit

\* list shows, of the rows that match in the stores that are up, the newest.
ShowsNewest(list, stores, status) ==
  LET Shown == {list[i] : i \in DOMAIN list}
      Listable(store) == {row \in store.rows : Matches(row, status, None)}
  IN  /\ Shown \subseteq UNION {Listable(s) : s \in stores}
      /\ Len(list) <= Limit /\ Len(list) = Cardinality(Shown)
      /\ \A s \in stores : \A row \in Listable(s) \ Shown :
           \/ OutOfReach(s, row, status)
           \/ Len(list) = Limit /\ \A shown \in Shown : shown.created >= row.created

\* What the audit log, tbay pending and the dashboard show is in order, the log
\* newest first and who waits oldest first, and what they leave out is not newer
\* than any they show, whichever stores are down; Redis may besides leave out what was
\* born long before it was retried.
ListsShowNewest ==
  /\ kind = "page" /\ output # None =>
       /\ ShowsNewest(output, {s \in ToSet(input.stores) : s.up}, input.status)
       /\ \A i, j \in DOMAIN output : i < j => output[i].created >= output[j].created
  /\ kind = "pending" /\ output # None =>
       /\ ShowsNewest(output, {input.stores[1]}, "WAITING_APPROVAL")
       /\ \A i, j \in DOMAIN output : i < j => output[i].created <= output[j].created
=============================================================================
