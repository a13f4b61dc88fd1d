------------------------- MODULE ReferenceContract -------------------------
(***************************************************************************)
(* The files of the reference evaluation and what its contract helper      *)
(* makes of them: the prepared data tree, the resumable answers of each    *)
(* target (a model under a tag and a run root), and the create-once        *)
(* publications: the receipts, the judge's output and the score.  A        *)
(* receipt holds what it was made from, so that equal contents stand for   *)
(* equal digests.                                                          *)
(***************************************************************************)
EXTENDS Naturals, FiniteSets

CONSTANTS Targets,  \* the models to evaluate
          Rows,     \* samples of the benchmark
          None      \* no file

VARIABLES sources,  \* the reference sources have their pinned digests
          weights,  \* weights[t]: the bytes in the model directory of t
          tree,     \* the published data tree: the attempt it is from, its images
          staging,  \* attempts whose staging directory exists
          rows,     \* rows[t]: the answer JSONL, written by the upstream inferencer
          pub       \* pub[n]: the publication with the name n

files == <<sources, weights, tree, staging, rows, pub>>
----------------------------------------------------------------------------
(* Names *)
Data == <<"data", "all">>
Model == <<"model", "all">>
Gate == <<"gate", "all">>
Runtime == <<"runtime", "all">>
Matrix == <<"matrix", "all">>
RunOf(t) == <<"run", t>>
Answers(t) == <<"answers", t>>
Verdicts(t) == <<"verdicts", t>>
Judge(t) == <<"judge", t>>
Score(t) == <<"score", t>>
Names == {Data, Model, Gate, Runtime, Matrix}
         \cup ({"run", "answers", "verdicts", "judge", "score"} \X Targets)

(* Contents *)
\* The tree of an attempt, and what in it is no longer as it was prepared.
Parts == {"json", "image", "source", "layout"}

\* Seeded fault: the tree appears before its images have been checked.
PreparedUnchecked(n) == [attempt |-> n, changed |-> {"unchecked"}]

Prepared(n) == [attempt |-> n, changed |-> {}]

\* A line of the answers: what it says, and the tree its image came from.
Line(said, from) == [said |-> said, on |-> from]
Fresh == [lines |-> [r \in Rows |-> None], torn |-> FALSE]
----------------------------------------------------------------------------
(* verify_published: modes and inventory, the origin of the data, and each *)
(* dataset with its images, as the tree's own receipt describes them.      *)
VerifyLayout == "layout" \notin tree.changed
VerifyProvenance == "source" \notin tree.changed
VerifyDatasets == tree.changed \cap {"json", "image"} = {}
VerifyPublished == tree # None /\ VerifyLayout /\ VerifyProvenance /\ VerifyDatasets

ReferencePinned == sources

(* validate_preparation_binding: the tree's receipt, which names the       *)
(* attempt; the rows, and the images if they are hashed.                   *)
Preparation == tree.attempt
BenchmarkRows == tree.changed \cap {"json"}
BenchmarkImages == tree.changed \cap {"image"}

CanFreezeData == ReferencePinned /\ tree # None
DataPayload == [preparation |-> Preparation, json |-> BenchmarkRows, images |-> BenchmarkImages]

(* _load_data_lineage: the same preparation and rows, and the same images  *)
(* if they are hashed again.                                               *)
DataLineage(rehash) ==
    /\ pub[Data] # None /\ tree # None
    /\ Preparation = pub[Data].preparation
    /\ BenchmarkRows = pub[Data].json
    /\ rehash => BenchmarkImages = pub[Data].images

Inventory(m) == weights[m]

CanFreezeRun(t) == ReferencePinned /\ DataLineage(TRUE)
RunPayload(t) == [data |-> pub[Data], weights |-> Inventory(t)]

RunLineage(t, verify) ==
    /\ pub[RunOf(t)] # None
    /\ DataLineage(verify)
    /\ pub[RunOf(t)].data = pub[Data]
    /\ verify => Inventory(t) = pub[RunOf(t)].weights

(* _inspect_answers: every sample once, and no error among them. *)
Complete(t) ==
    /\ rows[t] # None /\ ~rows[t].torn
    /\ \A r \in Rows : rows[t].lines[r] # None /\ rows[t].lines[r].said = "text"

(* inspect_partial_answers: what is there belongs to the benchmark. *)
Resumable(t) ==
    /\ ReferencePinned /\ RunLineage(t, TRUE)
    /\ rows[t] # None /\ ~rows[t].torn
    /\ \A r \in Rows : rows[t].lines[r] = None \/ rows[t].lines[r].said # "foreign"

\* Seeded fault: neither model nor images are hashed again.
CanFreezeAnswersUnhashed(t) == ReferencePinned /\ RunLineage(t, FALSE) /\ Complete(t)

CanFreezeAnswers(t) == ReferencePinned /\ RunLineage(t, TRUE) /\ Complete(t)
AnswersPayload(t) == [run |-> pub[RunOf(t)], file |-> rows[t]]

AnswersLineage(t) ==
    /\ pub[Answers(t)] # None
    /\ RunLineage(t, FALSE)
    /\ pub[Answers(t)].run = pub[RunOf(t)]
    /\ Complete(t) /\ rows[t] = pub[Answers(t)].file

(* The judge's weights, frozen once for all targets. *)
CanFreezeModel == ReferencePinned
ModelPayload == [weights |-> Inventory("judge")]
ModelLineage == pub[Model] # None

(* The context gate is the file of another tool: it covers the answers of  *)
(* every target under one judge model.                                     *)
GatePayload == [model |-> pub[Model], answers |-> [t \in Targets |-> pub[Answers(t)]]]
GateHasModel == pub[Gate] # None /\ ModelLineage /\ pub[Gate].model = pub[Model]
GateHasAnswers(t) == AnswersLineage(t) /\ pub[Gate].answers[t] = pub[Answers(t)]
GateLineage == GateHasModel /\ \A t \in Targets : GateHasAnswers(t)

CanFreezeRuntime == ReferencePinned /\ GateLineage
RuntimePayload == [model |-> pub[Model], gate |-> pub[Gate]]
RuntimeLineage ==
    /\ pub[Runtime] # None /\ GateLineage
    /\ pub[Runtime].model = pub[Model] /\ pub[Runtime].gate = pub[Gate]

(* stage_file: what the judge is given. *)
Staged(t) == rows[t].lines

\* hardened_judge_via_api: a reply to every prompt, be it empty, or no output.
Replies == [Rows -> {"yes", "no", "empty"}]

(* _inspect_judge: the answers, in their order, each with a verdict. *)
Judged(t, v) ==
    /\ v # None /\ v.lines = pub[Answers(t)].file.lines
    /\ \A r \in Rows : v.says[r] # "empty"
Correct(v) == Cardinality({r \in Rows : v.says[r] = "yes"})

(* build_judge_payload; under a runtime contract the answers must be those *)
(* the context gate covers.                                                *)
CanFreezeJudge(t, v, bound) ==
    /\ ReferencePinned /\ AnswersLineage(t) /\ ModelLineage
    /\ bound => /\ RuntimeLineage /\ pub[Runtime].gate.answers[t] = pub[Answers(t)]
    /\ Judged(t, v)
JudgePayload(t, v, bound) ==
    [answers |-> pub[Answers(t)], model |-> pub[Model],
     runtime |-> IF bound THEN pub[Runtime] ELSE None, file |-> v, correct |-> Correct(v)]

\* Seeded fault: any runtime will do.
JudgeLineageOfAnyRuntime(t) ==
    LET j == pub[Judge(t)] IN
    /\ j # None /\ j.model = pub[Runtime].model
    /\ AnswersLineage(t) /\ j.answers = pub[Answers(t)]
    /\ Judged(t, pub[Verdicts(t)]) /\ j.file = pub[Verdicts(t)]

(* _load_judge_lineage *)
JudgeLineage(t) ==
    LET j == pub[Judge(t)] IN
    /\ j # None /\ j.model = pub[Runtime].model /\ j.runtime = pub[Runtime]
    /\ AnswersLineage(t) /\ j.answers = pub[Answers(t)]
    /\ Judged(t, pub[Verdicts(t)]) /\ j.file = pub[Verdicts(t)]

CanFreezeMatrix ==
    /\ ReferencePinned /\ RuntimeLineage
    /\ \A t \in Targets : JudgeLineage(t) /\ pub[Judge(t)].answers = pub[Gate].answers[t]
MatrixPayload == [runtime |-> pub[Runtime], judges |-> [t \in Targets |-> pub[Judge(t)]]]
=============================================================================
