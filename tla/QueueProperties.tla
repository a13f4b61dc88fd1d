--------------------------- MODULE QueueProperties ---------------------------
(***************************************************************************)
(* What the four-benchmark queue promises.                                 *)
(***************************************************************************)
EXTENDS FourBenchQueue, FiniteSets

Disturbed(e) == signals[e] > 0 \/ At(e, "killed")

(***************************************************************************)
(* Safety.                                                                 *)
(***************************************************************************)
\* A target is recorded on evidence that is on disk, and only the child of
\* another execution can take it back: the root was found complete while that
\* child was still running.
RowsAreEvidence ==
    \A e \in Executions : \A n \in DOMAIN rows[e] : \A c \in Components :
        LET r == rows[e][n]
        IN  \/ roots[r.target][c][r.root[c]] = "complete"
            \/ \E d \in Executions \ {e} :
                   IsRootOf(d, r.target, c, r.root[c]) /\ life[d] = "nonzero"

\* A component is evaluated to the end once: a second complete root takes a
\* signal or a kill that left a child running beside its successor.
ReevaluationNeedsOrphan ==
    \A t \in Targets : \A c \in Components :
        Cardinality(RootsIn(t, c, "complete")) > 1 => \E e \in Executions : Disturbed(e)

Closed(t, c, k) ==
    /\ roots[t][c][k] # "absent"
    /\ \A e \in Executions : Writing(e) => ~IsRootOf(e, t, c, k)

\* "Failed/partial component roots are preserved": a root that was written to
\* and has no writer left keeps what it holds, over all later executions.
RootsArePreserved ==
    [][\A t \in Targets : \A c \in Components : \A k \in Indices :
        Closed(t, c, k) => Closed(t, c, k)' /\ roots'[t][c][k] = roots[t][c][k]]_vars

(***************************************************************************)
(* Liveness.                                                               *)
(***************************************************************************)
\* A signal ends the queue, however long its child would have run, also when
\* a second signal meets the stop, the failure handler or the cleanup.
SignalEndsQueue == \A e \in Executions : signals[e] > 0 ~> Over(e)

=============================================================================
