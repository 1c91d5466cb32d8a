---------------------------- MODULE SingleFlight ----------------------------
(***************************************************************************)
(* What an idempotent policy without TTL and lease promises, with no word  *)
(* of tables, polling, approvals or clocks: a key is claimed by one        *)
(* process at a time and at most MaxRetries + 1 times; a claim ends with a *)
(* result or without; a result is forever, and whoever is handed a value   *)
(* of the key is handed that one.                                          *)
(***************************************************************************)
EXTENDS Naturals

CONSTANTS Callers, Keys, MaxRetries, NoValue

VARIABLES
  claim,   \* per key: who may be at it, how often it was claimed, its result
  handed   \* the value each process was handed last

States == {"open", "claimed", "settled"}

Init ==
  /\ claim = [k \in Keys |-> [state |-> "open", claims |-> 0, value |-> 0]]
  /\ handed = [c \in Callers |-> NoValue]

Claim(k) ==
  /\ claim[k].state = "open" /\ claim[k].claims <= MaxRetries
  /\ claim' = [claim EXCEPT ![k] = [state |-> "claimed", claims |-> claim[k].claims + 1,
                                    value |-> 0]]
  /\ handed' = handed

\* The claimant's own answer is the value it settled the key with.
Settle(c, k) ==
  /\ claim[k].state = "claimed"
  /\ claim' = [claim EXCEPT ![k] = [state |-> "settled", claims |-> claim[k].claims,
                                    value |-> claim[k].claims]]
  /\ handed' = [handed EXCEPT ![c] = [key |-> k, value |-> claim[k].claims]]

\* The claimant failed, was refused, or gave up.
Release(c, k) ==
  /\ claim[k].state = "claimed"
  /\ claim' = [claim EXCEPT ![k] = [state |-> "open", claims |-> claim[k].claims,
                                    value |-> 0]]
  /\ handed' = [handed EXCEPT ![c] = NoValue]

\* The claimant stopped listening before its claim was settled or released.
SettleUnheard(k) ==
  /\ claim[k].state = "claimed"
  /\ claim' = [claim EXCEPT ![k] = [state |-> "settled", claims |-> claim[k].claims,
                                    value |-> claim[k].claims]]
  /\ handed' = handed

ReleaseUnheard(k) ==
  /\ claim[k].state = "claimed"
  /\ claim' = [claim EXCEPT ![k] = [state |-> "open", claims |-> claim[k].claims,
                                    value |-> 0]]
  /\ handed' = handed

Hand(c, k) ==
  /\ claim[k].state = "settled"
  /\ handed' = [handed EXCEPT ![c] = [key |-> k, value |-> claim[k].value]]
  /\ claim' = claim

Forget(c) ==
  /\ handed' = [handed EXCEPT ![c] = NoValue]
  /\ claim' = claim

Next ==
  \/ \E k \in Keys : Claim(k) \/ SettleUnheard(k) \/ ReleaseUnheard(k)
  \/ \E c \in Callers, k \in Keys : Settle(c, k) \/ Release(c, k) \/ Hand(c, k)
  \/ \E c \in Callers : Forget(c)

Spec == Init /\ [][Next]_<<claim, handed>>
=============================================================================
