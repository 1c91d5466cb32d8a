-------------------------- MODULE MCAsyncExecutions --------------------------
(* Model values for the runs of AsyncExecutions.                           *)
EXTENDS AsyncExecutions, TLC

Symmetry ==
  Permutations(Async) \cup Permutations(Callers \ Async) \cup Permutations(Keys)
=============================================================================
