---------------------------- MODULE MCExecutions ----------------------------
(* Model values for the runs of Executions.                                *)
EXTENDS ExecutionsSingleFlight, TLC

Symmetry == Permutations(Callers) \cup Permutations(Keys)
=============================================================================
