------------------------------- MODULE MCQueue -------------------------------
(***************************************************************************)
(* Instances of FourBenchQueue for TLC.                                    *)
(***************************************************************************)
EXTENDS QueueProperties, TLC

CONSTANTS t1, t2

\* Every execution evaluates the same single target: resume.
Resumed == [e \in Executions |-> <<t1>>]

Symmetric == Permutations(Executions)
=============================================================================
