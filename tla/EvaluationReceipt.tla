-------------------------- MODULE EvaluationReceipt --------------------------
(***************************************************************************)
(* What an observer of an evaluation's files may rely on: the receipt (the *)
(* lifecycle status together with the result file, which the queue reads   *)
(* as one) is published only when every benchmark was scored, it may be    *)
(* withdrawn or turned into a failure only by the running evaluation, and  *)
(* it never changes once the evaluation is over.                           *)
(***************************************************************************)
CONSTANTS Evaluations, Benchmarks

VARIABLES
    scored,    \* the benchmarks with a validated authority and no samples left
    receipt,   \* what the files say
    over       \* the evaluations whose process has ended

vars == <<scored, receipt, over>>

Init ==
    /\ scored = [e \in Evaluations |-> {}]
    /\ receipt = [e \in Evaluations |-> "none"]
    /\ over = {}

Score(e, b) ==
    /\ e \notin over
    /\ receipt[e] = "running"
    /\ scored' = [scored EXCEPT ![e] = @ \cup {b}]
    /\ UNCHANGED <<receipt, over>>

Write(e, from, to) ==
    /\ e \notin over
    /\ receipt[e] \in from
    /\ receipt' = [receipt EXCEPT ![e] = to]
    /\ UNCHANGED <<scored, over>>

Begin(e) == Write(e, {"none"}, "running")

Publish(e) == scored[e] = Benchmarks /\ Write(e, {"running"}, "published")

\* The result file is removed: the status alone publishes nothing.
Withdraw(e) == Write(e, {"published"}, "running")

MarkFailed(e) == Write(e, {"none", "running", "published"}, "failed")

End(e) ==
    /\ e \notin over
    /\ over' = over \cup {e}
    /\ UNCHANGED <<scored, receipt>>

Next ==
    \E e \in Evaluations :
        \/ Begin(e) \/ Publish(e) \/ Withdraw(e) \/ MarkFailed(e) \/ End(e)
        \/ \E b \in Benchmarks : Score(e, b)

Spec == Init /\ [][Next]_vars

=============================================================================
