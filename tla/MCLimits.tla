------------------------------ MODULE MCLimits ------------------------------
(* Model values for the runs of Limits.                                    *)
EXTENDS Limits, TLC

CONSTANTS k1, k2, k3

Amounts == (k1 :> 1) @@ (k2 :> 2) @@ (k3 :> 2)
=============================================================================
