------------------------------ MODULE MCInputs ------------------------------
(* Values for the run of Inputs.                                           *)
EXTENDS Inputs

SomeUnits == [s |-> 1, m |-> 60]

\* def f(x, y=1), called with 1, "1" and an object whose str() is "1".
SomeParams == <<"x", "y">>
SomeDefaults == [y |-> [type |-> "int", text |-> "1"]]
SomeArgs == {[type |-> t, text |-> "1"] : t \in {"int", "str", "other"}}
SomeCalls ==
  [args : UNION {[1..n -> SomeArgs] : n \in 0..2},
   kwargs : UNION {[S -> SomeArgs] : S \in SUBSET {"x", "y"}}]

\* Structures of a dict of dicts and lists, and settings that name them.
Names == {"card", "number"}
Leaf == [a \in {<<>>} |-> "leaf"]
Made(what, parts) ==
  [a \in {<<>>} \cup UNION {{<<s>> \o b : b \in DOMAIN parts[s]} : s \in DOMAIN parts} |->
     IF a = <<>> THEN what ELSE parts[Head(a)][Tail(a)]]
Dicts(S) ==
  {Made("dict", f) : f \in UNION {[{Key(k) : k \in D} -> S] : D \in SUBSET Names \ {{}}}}
Lists(S) == {Made("list", f) : f \in UNION {[{Item(i) : i \in 1..n} -> S] : n \in 1..2}}
Flat == {Leaf} \cup Dicts({Leaf}) \cup {Made("list", [s \in {Item(1)} |-> Leaf])}
Nested == {Leaf} \cup Dicts(Flat) \cup Lists(Flat)
SomeStructures == Dicts(Nested)
SomeRedactions ==
  [fields : {{}, {<<"number">>}, {<<"card", "number">>}, {<<"card">>, <<"number", "card">>}},
   matched : {{}, {"number"}}]

\* Earlier calls: one that failed, one whose vector does not parse, and those with
\* a vector that have expired, expire now, later or never.
Vectors == {<<1, 0>>, <<1, 1>>, <<0, 0>>, <<1>>}
SomeRows ==
  {[status |-> "FAILED", vector |-> <<1, 0>>, expires |-> None],
   [status |-> "SUCCEEDED", vector |-> Bad, expires |-> None],
   [status |-> "SUCCEEDED", vector |-> None, expires |-> None]}
    \cup [status : {"SUCCEEDED"}, vector : Vectors, expires : {2, 3, None}]
SomeHistories == [1..4 -> SomeRows]
SomeEmbeddings == {<<1, 0>>, <<2, 1>>}
Half == [num |-> 1, den |-> 2]

\* Four rows of one store and two of another, some retried after all of them were
\* born, at times that rows of the two may share; one may have been deleted from under the log of Redis.
Statuses == {"WAITING_APPROVAL", "FAILED"}
RowsBorn(births) ==
  {{[born |-> b, created |-> IF f[b].retried THEN 10 + b \div 2 ELSE b, status |-> f[b].status] :
      b \in births} :
     f \in [births -> [retried : BOOLEAN, status : Statuses]]}
Deleted(rows) ==
  {{IF row = gone THEN [gone EXCEPT !.status = None] ELSE row : row \in rows} : gone \in rows}
FirstStores ==
  [backend : {"sqlite", "redis"}, up : BOOLEAN, rows : RowsBorn({1, 3, 5, 7})]
    \cup [backend : {"redis"}, up : {TRUE},
          rows : UNION {Deleted(rows) : rows \in RowsBorn({1, 3, 5, 7})}]
SomeStores == FirstStores \X [backend : {"postgres"}, up : BOOLEAN, rows : RowsBorn({2, 4})]
=============================================================================
