------------------------------- MODULE MCBlink -------------------------------
(***************************************************************************)
(* Instances of BlinkRunner for TLC.                                       *)
(***************************************************************************)
EXTENDS BlinkProperties

CONSTANTS k1, k2, m1

\* The same command twice, and a retry with another root.
SameOrFresh ==
    {[r \in Runners |-> k1]} \cup
    {CHOOSE f \in [Runners -> {k1, k2}] : \A k \in {k1, k2} : \E r \in Runners : f[r] = k}

\* Every runner evaluates the same model: a retry.
OneModel == [r \in Runners |-> m1]
=============================================================================
