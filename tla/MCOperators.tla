---------------------------- MODULE MCOperators -----------------------------
(* Model values for the runs of Operators.                                 *)
EXTENDS Operators, TLC
CONSTANTS t1, t2, a1

Plain == [backend |-> "sqlite", tools |-> {t1}, gated |-> {t1}, retries |-> 1, pauses |-> FALSE,
          clears |-> FALSE, dashboard |-> FALSE, reasons |-> FALSE]

\* People who decide, over each backend; the same with clear() instead of retries;
\* the kill switch and clear(), with pauses of another tool.
Deciding ==
  {[Plain EXCEPT !.backend = b, !.dashboard = TRUE, !.reasons = TRUE] :
     b \in {"sqlite", "postgres", "redis"}}
Clearing ==
  {[Plain EXCEPT !.backend = b, !.clears = TRUE, !.retries = 0] :
     b \in {"sqlite", "postgres", "redis"}}
Pausing ==
  {[Plain EXCEPT !.backend = b, !.clears = TRUE, !.retries = 0, !.gated = {}, !.pauses = TRUE] :
     b \in {"sqlite", "redis"}}

AllSettings == Deciding \cup Clearing \cup Pausing
OnePlain == {Plain}

SameArgs == [c \in Callers |-> a1]
OwnArgs == [c \in Callers |-> c]
Symmetry == Permutations(Callers)
=============================================================================
