------------------------ MODULE ReferenceProperties ------------------------
(***************************************************************************)
(* What the create-once contracts of the reference evaluation are for: a   *)
(* number in the final matrix stands for one set of data, one set of       *)
(* answers and one judge, whatever ran beside it, was killed, was edited   *)
(* or was run again.                                                       *)
(***************************************************************************)
EXTENDS ReferenceCampaign

Commands == Gates \cup {"verify", "prepare", "chooseInfer", "partial", "resume", "chooseJudge",
                        "callJudge", "stagedGate", "publish", "callScore"}

(* The shape of the state: every invocation runs known commands under a    *)
(* known mode, and every file outside the receipts has a known form.       *)
TypeOK ==
    /\ sources \in BOOLEAN
    /\ weights \in [Targets \cup {"judge"} -> {"pinned", "changed"}]
    /\ tree = None \/ tree \in [attempt : 1..MaxAttempts, changed : SUBSET Parts]
    /\ staging \subseteq 1..MaxAttempts
    /\ DOMAIN rows = Targets /\ DOMAIN pub = Names
    /\ todo \in [Runs -> Seq(Commands)]
    /\ DOMAIN job = Runs /\ DOMAIN held = Runs
    /\ exit \in [Runs -> {"none", "ok", "failed", "killed"}]
    /\ spent \in [jobs : 0..MaxJobs, faults : 0..MaxFaults, attempts : 0..MaxAttempts,
                 restored : SUBSET Parts]

(* The receipts form one chain (build_*_payload, _load_*_lineage): what a  *)
(* receipt says it was made from is the receipt that is on the disk, also  *)
(* when two invocations built competing ones.                              *)
LineageAgrees ==
    /\ \A t \in Targets :
        /\ pub[RunOf(t)] # None => pub[RunOf(t)].data = pub[Data]
        /\ pub[Answers(t)] # None => pub[Answers(t)].run = pub[RunOf(t)]
        /\ pub[Judge(t)] # None => /\ pub[Judge(t)].answers = pub[Answers(t)]
                                   /\ pub[Judge(t)].model = pub[Model]
                                   /\ pub[Judge(t)].runtime \in {None, pub[Runtime]}
        /\ pub[Gate] # None => pub[Gate].answers[t] = pub[Answers(t)]
    /\ pub[Runtime] # None => pub[Runtime].gate = pub[Gate]

\* The contents a and b differ in the given parts of the tree at most.
AlikeBut(a, b, parts) ==
    /\ a.preparation = b.preparation
    /\ a.json \ parts = b.json \ parts
    /\ a.images \ parts = b.images \ parts

(* The answers that are certified were all given on the images of the one  *)
(* data receipt: "downstream receipts cannot be mixed with another         *)
(* preparation" (validate_preparation_binding), although preparing does    *)
(* not wait for the inference of another target.  The digests are taken    *)
(* before and after the inference: only what was changed in between and    *)
(* put back escapes them.                                                  *)
AnswersOnFrozenData ==
    \A t \in Targets : pub[Answers(t)] # None =>
        \A r \in Rows :
            AlikeBut(pub[Answers(t)].file.lines[r].on, pub[Data], spent.restored)

(* "A published receipt makes the output immutable": the inferencer is     *)
(* never let at answers that have a receipt, not by a rerun after they     *)
(* were edited and not by what a killed run has left behind.               *)
CertifiedRowsAreFinal ==
    [][\A p \in Runs : Resume(p) => pub[Answers(Target(p))] = None]_vars

(* A score that was published is the number in the judge's receipt, also   *)
(* when the verdicts changed between the judge and the score.              *)
ScoreMatchesReceipt ==
    \A t \in Targets : pub[Score(t)] # None =>
        pub[Judge(t)] # None /\ pub[Score(t)].correct = pub[Judge(t)].correct

(* The comparable result matrix: its pairs were judged under its runtime   *)
(* contract, on the answers the context gate covers and on one data set.   *)
MatrixIsUniform ==
    pub[Matrix] # None =>
        \A t \in Targets :
            LET j == pub[Matrix].judges[t] IN
            /\ j.runtime = pub[Matrix].runtime
            /\ j.model = pub[Matrix].runtime.model
            /\ j.answers = pub[Matrix].runtime.gate.answers[t]
            /\ j.answers.run.data = pub[Data]

=============================================================================
