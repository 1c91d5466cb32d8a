----------------------------- MODULE MCCasStore -----------------------------
(* Model values for the runs of CasStore.                                  *)
EXTENDS CasStoreSingleFlight, TLC

CONSTANTS c1, c2, c3

Backends == {"postgres", "redis"}

\* Everybody after one key, under a policy without TTL, lease and cap.
Contention ==
  {[backend |-> b, cache_ttl |-> None, lease_timeout |-> None, max_concurrent |-> None,
    callers |-> {c1, c2, c3}, keys |-> {k}, until |-> 1] : b \in Backends, k \in Keys}

\* Two processes under a policy with all three: all keys at once, and one of them
\* for longer.
Capped ==
  {[backend |-> b, cache_ttl |-> 1, lease_timeout |-> 1, max_concurrent |-> 1,
    callers |-> {c1, c2}, keys |-> Keys, until |-> 1] : b \in Backends}
  \cup
  {[backend |-> b, cache_ttl |-> 1, lease_timeout |-> 1, max_concurrent |-> 1,
    callers |-> {c1, c2}, keys |-> {k}, until |-> 3] : b \in Backends, k \in Keys}

BothLoads == Contention \cup Capped

\* All processes and keys over Redis, under a cap alone.
RedisCap ==
  {[backend |-> "redis", cache_ttl |-> None, lease_timeout |-> None, max_concurrent |-> 1,
    callers |-> {c1, c2, c3}, keys |-> Keys, until |-> 1]}

\* No load tells c1 from c2, or a key from another.
Symmetry == Permutations({c1, c2}) \cup Permutations(Keys)
=============================================================================
