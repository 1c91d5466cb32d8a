--------------------------- MODULE SemanticCache ----------------------------
(***************************************************************************)
(* _semantic_lookup: the stored results whose arguments have an embedding, *)
(* as the backends list them, and the one that is served for a call whose  *)
(* embedding is close to it.  Rows are listed newest first.                *)
(***************************************************************************)
EXTENDS Integers, Sequences

\* A row that is not SUCCEEDED, has no embedding, or whose result has expired is
\* no candidate.
Servable(row, now, None) ==
  /\ row.status = "SUCCEEDED" /\ row.vector # None
  /\ row.expires = None \/ row.expires > now

\* WHERE ... ORDER BY created_at DESC LIMIT limit; Redis looks at no more than the
\* last "scan" calls for them.
ListSemanticCandidates(backend, rows, now, limit, scan, None) ==
  LET last == IF backend = "redis" /\ scan < Len(rows) THEN scan ELSE Len(rows)
      results[n \in 0..last] ==
        IF n = 0 THEN <<>>
        ELSE IF Servable(rows[n], now, None) /\ Len(results[n - 1]) < limit
             THEN Append(results[n - 1], rows[n]) ELSE results[n - 1]
  IN  results[last]
-----------------------------------------------------------------------------
(* Scores are cosines, kept as the squares of fractions with their sign.   *)

Dot(a, b) ==
  LET sum[n \in 0..Len(a)] == IF n = 0 THEN 0 ELSE sum[n - 1] + a[n] * b[n] IN sum[Len(a)]

Zero == [num |-> 0, den |-> 1]

CosineSimilarity(a, b) ==
  IF Len(a) # Len(b) THEN Zero
  ELSE LET dot == Dot(a, b)  norms == Dot(a, a) * Dot(b, b)
       IN  IF norms = 0 THEN Zero
           ELSE [num |-> IF dot < 0 THEN -(dot * dot) ELSE dot * dot, den |-> norms]

AtLeast(s, t) == s.num * t.den >= t.num * s.den
Above(s, t) == s.num * t.den > t.num * s.den

Score(embedding, row) == CosineSimilarity(embedding, row.vector)

\* A vector that does not parse is passed over.
Close(embedding, row, threshold, Bad) ==
  row.vector # Bad /\ AtLeast(Score(embedding, row), threshold)

\* (A mutant: the first that is close enough.)
BetterFirst(embedding, row, best, threshold, None, Bad) ==
  Close(embedding, row, threshold, Bad) /\ best = None

\* best_score starts at 0.0.
Better(embedding, row, best, threshold, None, Bad) ==
  /\ Close(embedding, row, threshold, Bad)
  /\ Above(Score(embedding, row), IF best = None THEN Zero ELSE Score(embedding, best))

Best(embedding, candidates, threshold, None, Bad) ==
  LET best[n \in 0..Len(candidates)] ==
        IF n = 0 THEN None
        ELSE LET before == best[n - 1]
             IN  IF Better(embedding, candidates[n], before, threshold, None, Bad)
                 THEN candidates[n] ELSE before
  IN  best[Len(candidates)]
=============================================================================
