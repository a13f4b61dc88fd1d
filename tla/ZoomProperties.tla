--------------------------- MODULE ZoomProperties ---------------------------
(***************************************************************************)
(* What a ZoomBench authority file stands for, and what becomes of the     *)
(* GPUs, whatever is killed, signalled or changed on the way.              *)
(***************************************************************************)
EXTENDS ZoomBench

(* The shape of the state: known steps and status values, verdicts for     *)
(* every sample, and a counted number of passes.                           *)
TypeOK ==
    /\ \A r \in Roots :
        /\ answers[r] = None \/ answers[r] \in [Rows -> {None, Error} \cup Nat]
        /\ verdicts[r] = None \/ verdicts[r].says \in [Rows -> {"yes", "no", "outage"}]
        /\ protocol[r] = None \/ protocol[r] \in [judge : Nat, controls : BOOLEAN]
    /\ status \in [{"candidate", "judge"} -> [Roots -> [Runs ->
           {None, "running", "initialized", "starting", "judging", "complete", "failed"}]]]
    /\ pc \in [Runs -> Own \cup Candidate \cup Matrix \cup Ended]
    /\ server \in [Runs -> {None} \cup Nat]
    /\ pass \in [Runs -> 0..Passes]

(* One model server at a time has the GPUs, of the candidate or of the     *)
(* judge (run_zoombench_formal_aggregate_v1.sh: "one GPU0-7 lease"), also  *)
(* when an orchestrator or a child was killed and left its server behind.  *)
OneServer == \A p, q \in Runs : server[p] # None /\ server[q] # None => p = q

(* "server stopped" in a status is true, unless a signal was taken after   *)
(* the matrix had started its server and before it knew its process id.    *)
StatusTellsServer ==
    \A r \in Roots, p \in Runs :
        status["judge"][r][p] \in {"complete", "failed"} /\ server[p] # None => ~known[p]

(* The version used has the identity that was taken before the lifecycle   *)
(* and at the seal, or it came after the one and had gone again at the     *)
(* other, which two equal digests cannot tell.                             *)
Named(m, taken, used) ==
    /\ Identity(m, taken[1]) = Identity(m, taken[2])
    /\ Identity(m, used) = Identity(m, taken[1]) \/ (taken[1] < used /\ used < taken[2])

(* An authority of an execution names the checkpoint that gave every       *)
(* answer and the one that judged them, although checkpoints may be        *)
(* replaced at any time.  All that escapes it is a checkpoint replaced     *)
(* after it was identified and put back before the seal; and another       *)
(* execution that had looked at the roots before they were made, and got   *)
(* the lease afterwards.                                                   *)
IdentityIsOfLifecycle ==
    \A r \in Roots :
        LET a == aggregate[r] IN
        a # None /\ a.mode = "execute" /\ Cardinality(Attempts("candidate", r)) = 1 =>
            /\ \A row \in Rows : Named(r, a.candidate, a.answers[row])
            /\ a.verdicts.judge = None \/ Named("judge", a.judge, a.verdicts.judge)
            /\ a.controls

(* An authority counts the verdicts that are on the disk, on answers that  *)
(* are all there, of one invocation whose two lifecycles ended well:       *)
(* sealed at once or after a crash, and with the same exception.           *)
AuthorityIsWhole ==
    \A r \in Roots :
        aggregate[r] # None /\ Cardinality(Attempts("candidate", r)) = 1 =>
            /\ \E p \in Runs : \A k \in {"candidate", "judge"} : status[k][r][p] = "complete"
            /\ \A row \in Rows : aggregate[r].answers[row] \notin {None, Error}
            /\ aggregate[r].answers = answers[r] /\ aggregate[r].verdicts = verdicts[r]

(* "an outage is then indistinguishable from an incorrect model answer"    *)
(* (judge_qwenlm_fail_closed.py) and must not be in a formal result.       *)
OutageIsNotAVerdict ==
    \A r \in Roots : aggregate[r] # None =>
        \A row \in Rows : aggregate[r].verdicts.says[row] # "outage"
=============================================================================
