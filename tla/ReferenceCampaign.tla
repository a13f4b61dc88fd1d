------------------------- MODULE ReferenceCampaign -------------------------
(***************************************************************************)
(* Invocations of run_vision_opd_reference_eval.sh, of the preparer it     *)
(* calls and of the contract helper, on the files of ReferenceContract.    *)
(* An invocation is the list of commands it has still to run; it holds the *)
(* artifact lock of its target until the last of them has ended, for the   *)
(* commands inherit the descriptor.  Between the start and the end of a    *)
(* command a campaign can be killed and other invocations run.             *)
(***************************************************************************)
EXTENDS ReferenceContract, Sequences

CONSTANTS Runs,         \* invocation slots
          Modes,        \* what the operator asks for
          MaxJobs,      \* bound: invocations in all
          Changes,      \* what may be changed from outside
          MaxFaults,    \* bound: kills and such changes, which may be put back
          MaxAttempts   \* bound: preparations begun

VARIABLES job,      \* job[p]: mode, target and whether a runtime contract was given
          todo,     \* todo[p]: the commands p has still to run
          held,     \* held[p]: what the current command has made and not yet published
          exit,     \* exit[p]: how p ended
          spent     \* jobs, faults and attempts so far, parts of the tree put back

control == <<job, todo, held, exit>>
vars == <<files, control, spent>>

ASSUME BoundsAssumption == {MaxJobs, MaxFaults, MaxAttempts} \subseteq Nat
ASSUME NoFileAssumption == None \notin Targets /\ "judge" \notin Targets
----------------------------------------------------------------------------
Freeze == <<"verify", "data", "run">>

\* Seeded fault: the score is taken without a look at the judge's receipt.
ScorePlanUngated == <<"answers", "callScore", "publish">>

ScorePlan == <<"answers", "judge", "callScore", "publish">>

Plan(m) ==
    CASE m = "preflight" -> Freeze
      [] m = "answers" -> Freeze \o <<"answers">>
      [] m = "prepare" -> <<"prepare">> \o Freeze
      [] m = "infer" -> Freeze \o <<"chooseInfer">>
      [] m = "judge" -> Freeze \o <<"answers", "chooseJudge">>
      [] m = "score" -> Freeze \o ScorePlan
      [] m = "judge-score" -> Freeze \o <<"answers", "chooseJudge">> \o ScorePlan
      [] OTHER -> <<m>>

Lifecycles == {"preflight", "answers", "prepare", "infer", "judge", "score", "judge-score"}

ASSUME ModesAssumption == Modes \subseteq Lifecycles \cup {"model", "runtime", "matrix"}
Gates == {"data", "run", "answers", "tryAnswers", "judge", "model", "runtime", "matrix"}

Doing(p, c) == todo[p] # <<>> /\ Head(todo[p]) = c
Target(p) == job[p].target

\* Seeded fault: the lock goes with the shell, not with its last child.
BusyWhileShellLives(t) ==
    \E p \in Runs : todo[p] # <<>> /\ job[p].target = t /\ exit[p] # "killed"

(* flock -n 9 *)
Busy(t) == \E p \in Runs : todo[p] # <<>> /\ job[p].target = t

NameOf(c, t) ==
    CASE c = "data" -> Data [] c = "run" -> RunOf(t)
      [] c \in {"answers", "tryAnswers"} -> Answers(t) [] c = "judge" -> Judge(t)
      [] c = "model" -> Model [] c = "runtime" -> Runtime [] c = "matrix" -> Matrix

Admits(c, t, bound) ==
    CASE c = "data" -> CanFreezeData [] c = "run" -> CanFreezeRun(t)
      [] c \in {"answers", "tryAnswers"} -> CanFreezeAnswers(t)
      [] c = "judge" -> CanFreezeJudge(t, pub[Verdicts(t)], bound)
      [] c = "model" -> CanFreezeModel [] c = "runtime" -> CanFreezeRuntime
      [] c = "matrix" -> CanFreezeMatrix

Payload(c, t, bound) ==
    CASE c = "data" -> DataPayload [] c = "run" -> RunPayload(t)
      [] c \in {"answers", "tryAnswers"} -> AnswersPayload(t)
      [] c = "judge" -> JudgePayload(t, pub[Verdicts(t)], bound)
      [] c = "model" -> ModelPayload [] c = "runtime" -> RuntimePayload
      [] c = "matrix" -> MatrixPayload
----------------------------------------------------------------------------
Init ==
    /\ sources = TRUE
    /\ weights = [m \in Targets \cup {"judge"} |-> "pinned"]
    /\ tree = None /\ staging = {}
    /\ rows = [t \in Targets |-> None]
    /\ pub = [n \in Names |-> None]
    /\ job = [p \in Runs |-> None]
    /\ todo = [p \in Runs |-> <<>>]
    /\ held = [p \in Runs |-> None]
    /\ exit = [p \in Runs |-> "none"]
    /\ spent = [jobs |-> 0, faults |-> 0, attempts |-> 0, restored |-> {}]

(* The operator starts a mode, or a command of the helper. *)
Start(p, m, t, bound) ==
    /\ todo[p] = <<>> /\ spent.jobs < MaxJobs
    /\ m \in Lifecycles <=> t # None
    /\ bound => m \in {"judge", "score", "judge-score"}
    /\ sources
    /\ t # None => ~Busy(t)
    /\ job' = [job EXCEPT ![p] = [mode |-> m, target |-> t, bound |-> bound]]
    /\ todo' = [todo EXCEPT ![p] = Plan(m)]
    /\ exit' = [exit EXCEPT ![p] = "none"]
    /\ spent' = [spent EXCEPT !.jobs = @ + 1]
    /\ UNCHANGED <<files, held>>

\* A command has ended well: p goes on, and has succeeded after the last one.
Advance(p, next, made) ==
    /\ todo' = [todo EXCEPT ![p] = next]
    /\ held' = [held EXCEPT ![p] = IF next = <<>> THEN None ELSE made]
    /\ exit' = [exit EXCEPT ![p] = IF next = <<>> /\ @ = "none" THEN "ok" ELSE @]
    /\ UNCHANGED <<job, spent>>

\* set -e: the first command that fails ends the invocation.
Abort(p) ==
    /\ todo' = [todo EXCEPT ![p] = <<>>]
    /\ held' = [held EXCEPT ![p] = None]
    /\ exit' = [exit EXCEPT ![p] = IF @ = "none" THEN "failed" ELSE @]
    /\ UNCHANGED <<job, spent>>

\* A gate has failed: the shell goes on only after the first look at the answers.
Refuse(p) ==
    IF Doing(p, "tryAnswers") /\ exit[p] = "none"
    THEN /\ todo' = [todo EXCEPT ![p] = <<"partial", "resume", "answers">>]
         /\ held' = [held EXCEPT ![p] = None]
         /\ UNCHANGED <<job, exit, spent>>
    ELSE Abort(p)

(* --verify-only *)
Verify(p) ==
    /\ Doing(p, "verify")
    /\ IF VerifyPublished THEN Advance(p, Tail(todo[p]), held[p]) ELSE Abort(p)
    /\ UNCHANGED files

(* main: a payload is built from the files as they are now.  Where a       *)
(* receipt is published already, what becomes of the command is settled:   *)
(* receipts stay, and only the same may be there (ReceiptConflict) ...     *)
Build(p) ==
    LET c == Head(todo[p])
        t == Target(p)
        made == Payload(c, t, job[p].bound) IN
    /\ todo[p] # <<>> /\ c \in Gates /\ held[p] = None
    /\ IF ~Admits(c, t, job[p].bound) THEN Refuse(p)
       ELSE IF pub[NameOf(c, t)] # None
            THEN IF pub[NameOf(c, t)] = made THEN Advance(p, Tail(todo[p]), None) ELSE Refuse(p)
       ELSE /\ held' = [held EXCEPT ![p] = made]
            /\ UNCHANGED <<job, todo, exit, spent>>
    /\ UNCHANGED files

\* Seeded fault: rename() in place of renameat2(RENAME_NOREPLACE).
PublishReplacing(p, n, refused) ==
    /\ pub' = [pub EXCEPT ![n] = held[p]]
    /\ Advance(p, Tail(todo[p]), None)

(* ... or else it is published, unless another invocation has come first.  *)
PublishOnce(p, n, refused) ==
    IF pub[n] \in {None, held[p]}
    THEN /\ pub' = [pub EXCEPT ![n] = held[p]]
         /\ Advance(p, Tail(todo[p]), None)
    ELSE refused /\ UNCHANGED pub

Publish(p) ==
    /\ todo[p] # <<>> /\ Head(todo[p]) \in Gates /\ held[p] # None
    /\ PublishOnce(p, NameOf(Head(todo[p]), Target(p)), Refuse(p))
    /\ UNCHANGED <<sources, weights, tree, staging, rows>>
----------------------------------------------------------------------------
(* Preparation *)
Preparing(q) == Doing(q, "prepare") /\ held[q] # None

PreparationLocked == \E q \in Runs : Preparing(q)

(* The published tree is verified again; what an attempt has left blocks   *)
(* the next one; or else a new attempt gets a staging root of its own.     *)
BeginPreparation(p) ==
    /\ Doing(p, "prepare") /\ held[p] = None
    /\ IF PreparationLocked THEN Abort(p) /\ UNCHANGED files
       ELSE IF tree # None
       THEN /\ IF VerifyPublished THEN Advance(p, Tail(todo[p]), None) ELSE Abort(p)
            /\ UNCHANGED files
       ELSE IF staging # {} THEN Abort(p) /\ UNCHANGED files
       ELSE /\ spent.attempts < MaxAttempts
            /\ spent' = [spent EXCEPT !.attempts = @ + 1]
            /\ staging' = {spent'.attempts}
            /\ held' = [held EXCEPT ![p] = [attempt |-> spent'.attempts, stage |-> "empty"]]
            /\ UNCHANGED <<job, todo, exit, sources, weights, tree, rows, pub>>

Stage(p, from, to) ==
    /\ Preparing(p) /\ held[p].stage = from
    /\ held' = [held EXCEPT ![p].stage = to]
    /\ UNCHANGED <<files, job, todo, exit, spent>>

\* The pinned snapshots are downloaded, or copied from the shared cache.
Acquire(p) == sources /\ Stage(p, "empty", "acquired")
\* Rows and images are validated and the rows rewritten for the final root.
Convert(p) == Stage(p, "acquired", "converted")
\* Tool and receipt are added, the inventory is compared, all of it read again.
Seal(p) == Stage(p, "converted", "sealed")

(* renameat2 without replacement; what fails after it leaves the tree.     *)
PublishTree(p) ==
    /\ Preparing(p) /\ held[p].stage = "sealed" /\ tree = None
    /\ tree' = Prepared(held[p].attempt)
    /\ staging' = staging \ {held[p].attempt}
    /\ \/ Advance(p, Tail(todo[p]), None)
       \/ Abort(p)
    /\ UNCHANGED <<sources, weights, rows, pub>>

(* What fails before the rename leaves its staging as evidence.            *)
FailPreparation(p) == Preparing(p) /\ Abort(p) /\ UNCHANGED files
----------------------------------------------------------------------------
(* Inference *)
\* Seeded fault: the receipt is not looked for first.
ChooseInferByRows(p) ==
    /\ Doing(p, "chooseInfer")
    /\ Advance(p, IF rows[Target(p)] # None THEN <<"tryAnswers">> ELSE <<"resume", "answers">>, None)
    /\ UNCHANGED files

ChooseInfer(p) ==
    LET t == Target(p) IN
    /\ Doing(p, "chooseInfer")
    /\ Advance(p, CASE pub[Answers(t)] # None -> <<"answers">>
                    [] pub[Answers(t)] = None /\ rows[t] # None -> <<"tryAnswers">>
                    [] OTHER -> <<"resume", "answers">>, None)
    /\ UNCHANGED files

AcceptPartial(p) ==
    /\ Doing(p, "partial")
    /\ IF Resumable(Target(p)) THEN Advance(p, Tail(todo[p]), held[p]) ELSE Abort(p)
    /\ UNCHANGED files

(* infer.py answers the samples that are missing or were errors.           *)
Resume(p) ==
    LET t == Target(p) IN
    /\ Doing(p, "resume") /\ tree # None
    /\ \E r \in Rows, said \in {"text", "error"} :
           LET old == IF rows[t] = None THEN Fresh ELSE rows[t] IN
           /\ old.lines[r] # None => old.lines[r].said = "error"
           /\ rows' = [rows EXCEPT ![t] = [old EXCEPT !.lines[r] = Line(said, DataPayload)]]
    /\ UNCHANGED <<sources, weights, tree, staging, pub, control, spent>>

EndResume(p) ==
    LET t == Target(p) IN
    /\ Doing(p, "resume")
    /\ \/ /\ rows[t] # None /\ \A r \in Rows : rows[t].lines[r] # None
          /\ Advance(p, Tail(todo[p]), held[p])
       \/ Abort(p)
    /\ UNCHANGED files
----------------------------------------------------------------------------
(* Judge and score *)
ChooseJudge(p) ==
    LET t == Target(p) IN
    /\ Doing(p, "chooseJudge")
    /\ Advance(p, (IF pub[Judge(t)] # None \/ pub[Verdicts(t)] # None THEN <<"judge">>
                   ELSE <<"callJudge", "stagedGate", "publish", "judge">>) \o Tail(todo[p]), None)
    /\ UNCHANGED files

(* The answers are staged and the hardened driver judges all of them, or   *)
(* fails without an output.                                                *)
CallJudge(p) ==
    /\ Doing(p, "callJudge")
    /\ \/ /\ rows[Target(p)] # None
          /\ \E says \in Replies :
                 Advance(p, Tail(todo[p]), [lines |-> Staged(Target(p)), says |-> says])
       \/ Abort(p)
    /\ UNCHANGED files

StagedGate(p) ==
    /\ Doing(p, "stagedGate")
    /\ IF CanFreezeJudge(Target(p), held[p], job[p].bound)
       THEN Advance(p, Tail(todo[p]), held[p]) ELSE Abort(p)
    /\ UNCHANGED files

(* cal_acc.py on the published verdicts. *)
CallScore(p) ==
    LET v == pub[Verdicts(Target(p))] IN
    /\ Doing(p, "callScore")
    /\ \/ /\ v # None
          /\ Advance(p, Tail(todo[p]), [correct |-> Correct(v)])
       \/ Abort(p)
    /\ UNCHANGED files

(* publish-file: verdicts before their gate, a score at the end. *)
PublishFile(p) ==
    /\ Doing(p, "publish")
    /\ PublishOnce(p, IF "says" \in DOMAIN held[p] THEN Verdicts(Target(p)) ELSE Score(Target(p)),
                   Abort(p))
    /\ UNCHANGED <<sources, weights, tree, staging, rows>>
----------------------------------------------------------------------------
(* The tool behind the context gate runs once all answers are certified.   *)
MakeGate ==
    /\ pub[Gate] = None /\ pub[Model] # None /\ sources
    /\ \A t \in Targets : AnswersLineage(t)
    /\ pub' = [pub EXCEPT ![Gate] = GatePayload]
    /\ UNCHANGED <<sources, weights, tree, staging, rows, control, spent>>

(* A kill takes the shell and its command, or the shell alone.             *)
Kill(p, all) ==
    /\ todo[p] # <<>> /\ exit[p] = "none" /\ spent.faults < MaxFaults
    /\ exit' = [exit EXCEPT ![p] = "killed"]
    /\ spent' = [spent EXCEPT !.faults = @ + 1]
    /\ IF all \/ Head(todo[p]) \in {"chooseInfer", "chooseJudge"}
       THEN /\ todo' = [todo EXCEPT ![p] = <<>>]
            /\ held' = [held EXCEPT ![p] = None]
            /\ \/ UNCHANGED rows
               \/ /\ Doing(p, "resume") /\ rows[Target(p)] # None
                  /\ rows' = [rows EXCEPT ![Target(p)].torn = TRUE]
       ELSE /\ todo' = [todo EXCEPT ![p] = <<Head(todo[p])>>]
            /\ UNCHANGED <<held, rows>>
    /\ UNCHANGED <<job, sources, weights, tree, staging, pub>>

(* Files change from outside the campaign: while no lock is held for what  *)
(* belongs to a target, at any time for what is shared.                    *)
Drift(kind) ==
    /\ kind \in Changes /\ spent.faults < MaxFaults
    /\ spent' = [spent EXCEPT !.faults = @ + 1]
    /\ UNCHANGED control

EditRows(t) ==
    /\ Drift("answers") /\ ~Busy(t) /\ rows[t] # None
    /\ \E r \in Rows, said \in {"edited", "error", "foreign"} :
           /\ rows[t].lines[r] # None
           /\ rows' = [rows EXCEPT ![t].lines[r].said = said]
    /\ UNCHANGED <<sources, weights, tree, staging, pub>>

EditVerdicts(t) ==
    /\ Drift("verdicts") /\ ~Busy(t) /\ pub[Verdicts(t)] # None
    /\ \E r \in Rows : pub' = [pub EXCEPT ![Verdicts(t)].says[r] =
                                   IF @ = "yes" THEN "no" ELSE "yes"]
    /\ UNCHANGED <<sources, weights, tree, staging, rows>>

ChangeWeights(m) ==
    /\ Drift("weights") /\ weights' = [weights EXCEPT ![m] = "changed"]
    /\ UNCHANGED <<sources, tree, staging, rows, pub>>

ChangeTree ==
    /\ Drift("tree") /\ tree # None
    /\ \/ tree' = None
       \/ \E part \in Parts : tree' = [tree EXCEPT !.changed = @ \cup {part}]
    /\ UNCHANGED <<sources, weights, staging, rows, pub>>

ChangeSources ==
    /\ Drift("sources") /\ sources' = FALSE
    /\ UNCHANGED <<weights, tree, staging, rows, pub>>

(* What was changed is put back as it was, which no digest can tell.       *)
PutBackPart ==
    /\ tree # None
    /\ \E part \in tree.changed :
           /\ tree' = [tree EXCEPT !.changed = @ \ {part}]
           /\ spent' = [spent EXCEPT !.restored = @ \cup {part}]
    /\ UNCHANGED <<sources, weights, staging, rows, pub, control>>

PutBack ==
    /\ \/ sources' = TRUE /\ UNCHANGED weights
       \/ UNCHANGED sources /\ \E m \in DOMAIN weights : weights' = [weights EXCEPT ![m] = "pinned"]
    /\ UNCHANGED <<tree, staging, rows, pub, control, spent>>

(* The operator inspects and quarantines what an attempt left.             *)
Quarantine ==
    /\ staging # {} /\ ~PreparationLocked
    /\ staging' = {}
    /\ UNCHANGED <<sources, weights, tree, rows, pub, control, spent>>

Step(p) ==
    \/ Verify(p) \/ Build(p) \/ Publish(p)
    \/ BeginPreparation(p) \/ Acquire(p) \/ Convert(p) \/ Seal(p)
    \/ PublishTree(p) \/ FailPreparation(p)
    \/ ChooseInfer(p) \/ AcceptPartial(p) \/ Resume(p) \/ EndResume(p)
    \/ ChooseJudge(p) \/ CallJudge(p) \/ StagedGate(p) \/ PublishFile(p) \/ CallScore(p)

Environment ==
    \/ MakeGate \/ Quarantine \/ ChangeTree \/ ChangeSources \/ PutBackPart \/ PutBack
    \/ \E p \in Runs, all \in BOOLEAN : Kill(p, all)
    \/ \E t \in Targets : EditRows(t) \/ EditVerdicts(t)
    \/ \E m \in DOMAIN weights : ChangeWeights(m)

Next ==
    \/ \E p \in Runs, m \in Modes, t \in Targets \cup {None}, bound \in BOOLEAN :
           Start(p, m, t, bound)
    \/ \E p \in Runs : Step(p)
    \/ Environment

Spec == Init /\ [][Next]_vars
=============================================================================
