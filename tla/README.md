# Verification of the evaluation and training pipeline

This directory holds TLA+ specifications of the pipeline in this repository,
the TLC configurations that model-check them on small instances, and theorems
about them checked with the TLA+ proof system. `PROJECT.json` is the index: the
components, the runs, the seeded faults that show each property can fail, the
map from every definition to the lines of code it models, the disagreements
found between the code and its own comments, and the hazards the properties are
aimed at.

## 1. The system

The repository reproduces a vision-language training and evaluation campaign:
SFT of a student, on-policy distillation (OPD) from a teacher, and a formal
evaluation on four benchmarks. It is a set of cooperating *processes* that share
eight GPUs, a file lock, TCP ports and a tree of run directories. What one
process knows of another is what it reads from those files, so most of what can
go wrong lies in the order in which files are written, processes are started and
stopped, and locks are taken and released.

| component | code | state it keeps | operations | talks to |
|---|---|---|---|---|
| resident coordinator | `repro/eval_tools/run_threebench_resident_formal_v1.py` | its list of live process groups, the lease's descriptor, `lifecycle/status.json`, `<bench>/status.json`, the result file | take the lease, start the server, run VStar, MMStar, ZoomBench, stop the server, judge, publish; HUP/TERM/INT at any instant | candidate server, protocol and judge commands, lock file |
| four-benchmark queue | `repro/eval_tools/run_b57_dual4_models_fourbench_v1.py` | `summary.json`, `status.json`, the component roots of every target | wait for models, reuse or reserve a root, run a child, record; resume | resident coordinator, BLINK runner, trainers (through their status files) |
| BLINK-v5 runner | `repro/eval_tools/run_blink_checkpoint_comparison_v5.sh` | the lock's descriptor (inherited by its server), `lifecycle/status.json` | lock, serve, evaluate, publish, clean up on EXIT | vLLM server, aggregator, lock file |
| multiple-choice aggregators, format audit | `mcq_choice_formal_aggregate_v{1,2}.py`, `mcq_blink_official_aggregate_v{3,4}.py`, `mcq_blink_checkpoint_comparison_aggregate_v5.py`, `mmstar_qwen35_modelcard_aggregate_v2.py`, `mcq_blink_format_audit_v1.py` | a pool of threads with a future per row, the create-once receipt, the audit's private sidecar | check arguments and server, read the data set, ask every row, parse, reduce, create the receipt | model server; BLINK runner, coordinator |
| reference contract | `vision_opd_reference_contract.py` | create-once receipts: data, run, answers, model, gate, runtime, judge, matrix | freeze or revalidate a receipt, publish a file | the reference runner |
| reference data preparation | `prepare_vision_opd_reference_data.py` | lock, staging attempt, published tree | acquire, convert, seal, publish, verify | the reference runner |
| reference runner and judge | `run_vision_opd_reference_eval.sh`, `judge_qwenlm_fail_closed.py` | artifact lock of a target, answers, verdicts | prepare, infer and resume, judge, score, freeze | contract, preparer, upstream inferencer and scorer |
| ZoomBench runners and judge | `run_zoombench_formal_aggregate_v1.sh`, `run_zoombench.sh`, `run_zoombench_judge_matrix.sh`, `verify_zoombench_inference.py`, `zoombench_formal_aggregate_v1.py` | GPU lease, `status.env` of both lifecycles, answers, verdicts, protocol, authority | execute, infer in passes, judge, seal, resume and seal | model servers, official judge |
| SFT target runner | `repro/train/run_sft_one_epoch_target_v1.py` | run root, staging export, `completion.json` | lock, train, export, publish once | trainer |
| OPD launchers | `repro/train/run_b57_vision6k_crop_{dual4,sequential8}_v1.py` | arm processes, `artifacts/status.json` | start arms, merge checkpoints, summarise | trainer, merge tools |
| LoRA merges | `repro/train/merge_*` | staging directory | merge and publish a model directory | trainers, queue |
| OPD training loop | `patches/verl-qwen35-opd.patch` | GPU role partition, teacher alignment, losses | partition, roll out, score with the teacher, update | Ray workers |
| launch scripts | `scripts/` | log and output directories | prepare, train, evaluate, publish | all of the above |
| data and evaluation library | `src/hw_bjtu_opd/` | none beyond the samples it reads | sample selection, evaluation protocol, CLI | scripts |
| data tools | `repro/data_tools/` | data sets | build, validate | none |

### What is hard about it

* **Processes outlive their parents.** Every child is started in a session of
  its own. A parent that is killed, or interrupted between `Popen` and the
  registration of the process, leaves the child running with the GPUs, the port
  and its run root.
* **Signals are exceptions.** HUP, TERM and INT raise at any bytecode: before a
  process is registered, between two writes, in the cleanup of the previous
  signal (the queue) or after the work has been published (the coordinator).
* **Two files are never written at once.** Receipt and status, summary and
  status: a crash or a signal separates each pair.
* **The lock and what it protects have different lifetimes.** The coordinator
  drops the lease before it stops its server when it fails; the BLINK runner's
  server inherits the lock and keeps it when the runner dies.
* **Probes cannot tell whose server answers.** Readiness compares a port and a
  model id, both of which a retry shares with the attempt before it.
* **Resume decides from what it finds on disk**, while the process that is
  writing it may still be alive.
* **Evidence is gathered over hours and compared at the end.** Checkpoints,
  images, data trees and answers may be replaced between the first digest and
  the receipt, and two invocations build competing receipts of one name.
* **One answer among thousands decides what the parser returns**, and what it
  returns decides whether there is a receipt at all.

### What makes each part correct

* *Coordinator*: what is published is certified, whatever interrupted it; the
  judge never meets the candidate on the GPUs; healthy runs exclude each other;
  a taken signal ends the run.
* *Queue*: a target is recorded on evidence that is on disk; a completed
  component is reused and a root that was written to is preserved; a signal
  ends the queue.
* *BLINK runner*: the lock is held while its server lives, by whoever survives;
  `complete` is written only over an aggregate; who waits for the lock gets it.
* *Trainers*: a model directory that looks complete is complete; an export is
  published once; an interrupt ends the launch whose trainers were waited for,
  and one that returns leaves no trainer. (The sequential launcher handles the
  interrupt inside one arm and goes on to the next if that arm still completed.)
* *Aggregators*: the counts cover every row once; only failures of the provider
  are scored as wrong; exit 0 stands for one's own whole receipt; no answer
  keeps an evaluation from its receipt, but for the ones the code cannot digest
  (section 5).
* *Reference evaluation*: the receipts form one chain; answers and verdicts that
  have a receipt do not change under it; the matrix compares what was judged
  alike.
* *ZoomBench*: one model server at a time; an authority names the checkpoints
  that answered and judged, as far as digests before and after can tell, and
  stands for one whole lifecycle of each.

## 2. The modules

```
EvaluationReceipt             SftTarget
      ^ refined by                ^ extended by
ResidentCoordinator           TrainingArms
      ^                           ^
ResidentProperties            TrainingProperties
   ^          ^                   ^          ^
MCResident  ResidentProofs    MCTraining  TrainingProofs
              ^
        ResidentRefinement

FourBenchQueue                BlinkRunner
      ^                           ^
QueueProperties               BlinkProperties
   ^          ^                   ^          ^
MCQueue     QueueProofs       MCBlink     BlinkProofs

 ChoiceParsers             ReferenceContract
      ^ extended by              ^ extended by
 FormalScorer              ReferenceCampaign        ZoomBench
      ^                          ^                      ^
 ScorerProperties          ReferenceProperties     ZoomProperties
   ^         ^               ^         ^                ^        ^
MCScorer  ScorerProofs  MCReference  ReferenceProofs  MCZoom  ZoomProofs
```

A specification module holds the constants with their assumption, the state,
one action per step of the program, the fairness and, before some definitions,
*seeded faults*: variants of the next definition that a plausible bug would
produce. No action uses them; each shows that one property can be violated
(`mutants` in `PROJECT.json`). A `...Properties` module states what the program
promises and, at its end, what the program's own text promises and does not
keep. An `MC...` module gives the constants their values for TLC. A `...Proofs`
module holds the theorems.

All the specifications use the same conventions. `pc` is the place a process
has reached; an action runs from one point at which a signal, a failure, a
crash or another process can make a difference to the next. Files are
variables that survive the processes. A process that was started is a variable
of its own, because it can outlive its parent. Numbers and texts that nothing
decides on (digests, accuracies, log lines) are left out.

### `ResidentCoordinator`: run_threebench_resident_formal_v1.py

State: per coordinator its place, the `_ExecutionState` (`signalled`,
`cleaning`, `registered`), whether an exception is propagating (`failing`), its
candidate server (`cand`) and current command (`cmd`), the coordinator whose
server answered its probe (`endpoint`), the authorities read so far; the lease;
a process group may lose its leader and live on (`headless`), and what a command
leaves behind when its leader has ended is forgotten by the coordinator (`left`);
the files `status`, `benchStatus`, `samples`, `result`.

| code | actions |
|---|---|
| `_execute` / `_execute_impl`, up to the lease | `Setup`, `WriteStarting`, `EnterTry`, `AcquireLease`, `LeaseBusy` |
| candidate server: `Popen`, append, `_wait_ready` | `SpawnCandidate`, `RegisterCandidate`, `Ready` |
| `_run_protocol_benchmark`, `_run_command` | `OpenBenchmark`, `SpawnCommand`, `RegisterCommand`, `EnterWait`, `CommandSucceeds`, `CommandFails`, `ReadAuthority`, `RemoveSamples`, `CloseBenchmark` |
| end of the candidate, judge stage | `CandidateComplete`, `StopCandidate`, `MarkStopped`, `PrepareJudge` |
| publication | `OpenResult`, `WriteResult`, `WriteComplete`, `ReleaseLease`, `Return` |
| `except`/`finally`, `_ExecutionState.cleanup` | `StopCommand`, `Unwind`, `BeginCleanup`, `StopRegistered`, `EndCleanup`, `SkipCleanup`, `UnlinkResult`, `MarkFailed` |
| `_resident_signal_handler` | `Signal`, which is ignored while `Finalizing` or cleaning |
| everything that raises | `Fail`; the places where it can happen are `Fallible` |
| SIGKILL; servers and commands that end, or their leaders alone | `Kill`, `CandidateExits`, `CommandExits`, `LeftEnd` |

`EvaluationReceipt` is the abstract specification: what an observer of the
status and the result file may rely on. `Receipt` in `ResidentProperties` is the
refinement mapping; `ImplementsReceipt` is checked by TLC and proved.

### `FourBenchQueue`: run_b57_dual4_models_fourbench_v1.py

State: per execution its place and loop indices, `chosen` roots, `rows` in
memory, what it reports, whether its child is registered; `life` of its child;
the files `summary`, `status`, `roots[target][component][index]` (absent,
writing, complete, partial), and `model[target]`, written by the trainings.

| code | actions |
|---|---|
| `execute` up to the loop | `Launch`, `ReturnPrevious`, `LoadSummary`, `WaitModels`, `GiveUp`, `ResetSummary`, `ResetStatus`, `InstallHandlers` |
| `find_complete_root`, `reserve_root` | `FindRoots`, `SkipComplete`, `Reserve`, `RetriesExhausted` |
| `run_child` | `SpawnChild`, `RegisterChild`, `ChildSucceeds`, `ChildIsNoUse` |
| the record of a target | `Record`, `RecordNotEligible` |
| the end, with or without an exception | `FinishSummary`, `FinishStatus`, `Return`, `Fail`, `StopChild`, `WriteFailedSummary`, `WriteFailedStatus`, `FailureIsNotWritten`, `Cleanup` |
| signals and kills | `Signal`, `KillChild`, `Kill` |
| the runners it starts, by what the queue can see of them | `ChildOpens`, `ChildPublishes`, `ChildReturns`, `ChildFails` |
| the trainings, and how `_model_status` reads them | `TrainingEnds`, `ModelReady` |

What a child publishes is not always accepted: `_resident_complete` rejects a
result with failed API calls or with too few parsed answers, and then the root
does not become complete although the child returns zero (`ChildIsNoUse`). The
summary is written without a look at how much was written, so that on a full
disk a torn one takes its place (`WriteSummary`), which the next execution reads
as none.

`run_b57_full8_models_fourbench_v1.py` calls the same functions with other
targets, so the model stands for it too.

### `BlinkRunner`: run_blink_checkpoint_comparison_v5.sh and its scorer

State: per runner its place, the shell variables (`named` is "SERVER_PID is
set", `completed`), whether its description of the lock file is locked, the
signal that waits for a foreground command; its server as `server` (a session
that is not yet made, a leader, a group without its leader) with `termed`; the
scorer with `asked` and `kinds`; who is bound to the `port`; per root the files
`status` and `receipt`. Every line of the script from line 55 on is part of an
action in the table of `PROJECT.json`. What deserves a comment:

* the lock belongs to an open file description, which the server and the
  scorer inherit (`HasDescriptor`): it is free when nobody has it open any more
  *or* when the EXIT trap unlocks it, for all of them;
* `bash` runs a trap between two commands, and only at the end of a foreground
  command: `Signal` sets `pending` while the scorer runs;
* a signal to a process group does nothing before `setsid` made the group
  (`HitGroup`, `Detach`);
* any server on the port answers, whoever started it (`Bind`, `Answers`).

`scripts/run_blink_v5_portable.sh` has the same commands from the lock on.

### `SftTarget`: run_sft_one_epoch_target_v1.py and the LoRA merge

State: per run its place, target, current command (`job`), the command's `life`
and, for a merge, its `progress`; the lock; per target the files `root`,
`checkpoint`, `staging`, `merged`, `completion`. Actions follow `execute`
(`Validate`, `TakeLock`, `Audit`, `MakeRoot`, `WritePlan`, `Train`, `Trained`,
`Unlock`), `export_checkpoint` (`ExportFsdp`, `Exported`, `ExportMerge`,
`Sweep`), `write_json_create_once` (`CreateCompletion`, `SealCompletion`) and
the commands (`TrainingEnds`, `WorkersEnd`, `FsdpEnds`, `MergeSaves`,
`MergePublishes`, `MergeEnds`). An `Interrupt` is answered by `subprocess.run`,
which kills its child; a `Kill` is TERM or KILL, which no handler meets.

### `TrainingArms`: the dual4 and sequential8 launchers

Extends `SftTarget`, whose models its trainers load. Launches follow each other
and their processes overlap: `trainer[n][a]` and `merger[n][a]` are the
processes launch `n` started for arm `a`. `mode` says which launcher the run directories belong to. `Launch`
is the checks and the reset of the files, `ReuseArm` the sequential launcher's
`run_arm` up to its reuse check, `Spawn`/`Note` start and record a trainer,
`TrainersReturned`, `Terminate` and `Reap` the wait and its interrupt (after
which the dual launcher goes on to its summary and the sequential one to the
result of the arm, and perhaps to the next arm),
`MergeArm`/`MergeReturned` `merge_arm`, `Record` and `Summarise` the files at
the end. `MergerSaves` writes the files of a model in the order `SaveOrder`,
straight into the directory that `Reusable` looks at.

### `ChoiceParsers` and `FormalScorer`: the multiple-choice aggregators

`ChoiceParsers` are the parsers as operators. An answer is a record of what the
regular expressions find in it: whether there is text, the JSON object and its
member, the letters after the answer markers, the last line, the option letters
that occur, the option texts, and so on. `ParseV1`, `CanInferV3`, `CanInferV4`,
`UnionParse` (v5), `ParseMMStar` and `Supplement` (the audit) say what each
makes of it.

`FormalScorer` has one process per invocation and one flow of phases per
program (`FlowV1` ... `FlowAudit`): the checks (`AdmitV1` ...), the preflight,
the data set, the pool (`Ask`, `Answered`, at most `Workers` rows at a time, in
any order), the reduction (`Reduce`, with each program's rule of what a reply,
a malformed response, a failed call and a local error become) and the
create-once file (`Create`, `Exists`, `Finish`, `WriteFails`, `ShortWrite`).
The server may vanish or be replaced (`Serve`), an image may become unreadable
(`LoseImage`), and every process may be killed.

### `ReferenceContract` and `ReferenceCampaign`: the reference evaluation

`ReferenceContract` has the files and, for every `build_*`, `_load_*_lineage`
and `_inspect_*` of the contract helper, a predicate or a record on them. A
receipt holds what it was made from: equal contents stand for equal digests.
`ReferenceCampaign` runs invocations: an invocation is the list of commands it
has still to run (`Plan`), under the artifact lock of its target, which its
commands inherit (`Busy`). A gate command reads the files at its start
(`Build`) and publishes at its end (`PublishOnce`), with anything in between;
preparing has its stages (`Acquire`, `Convert`, `Seal`, `PublishTree`);
inferring and judging choose between revalidation and work (`ChooseInfer`,
`ChooseJudge`). `Kill` kills the shell or the whole group; the command of a
killed shell goes on. `Drift` changes weights, images, sources, answers or
verdicts from outside; `PutBackPart` and `PutBack` undo such a change of the
tree, the weights or the sources at any later time. The gate lineage of the code
hashes more files than the model's (the tokenizer's assets and the judge's
sources, 1686-1711): the model refuses less and so shows more.

### `ZoomBench`: the formal ZoomBench evaluation

One process per invocation of the orchestrator: it executes (`LookFresh`,
`TakeLease`, `Identify`, the candidate's lifecycle, the judge's matrix,
`BindControls`, `Seal`, `Link`) or seals what an earlier one left
(`LookComplete`, then the same `Identify`, `Seal`, `Link`, without the lease).
The candidate's lifecycle is `Launch`, passes of `Verify` and `Infer`,
`EndCandidate`; the matrix is `BeginMatrix`, `Spawn`, `NoteServer`,
`AwaitReady`, `JudgeRows`, `WriteProtocol` and the EXIT trap `Cleanup`. The
lease is a descriptor that children and model servers inherit (`Holds`). A kill
of a child takes its shell and its foreground command and leaves its server,
which has a session of its own; an orchestrator that is killed or signalled
while a child runs takes that up when the child has ended, so that the child
goes on and nobody follows it. The versions of a checkpoint are counted, and two
versions may have one identity (`Identity`) or one digest of `config.json`
(`Config`), so that `Change` covers a checkpoint that is replaced and one that is
put back; the benchmark may be changed and restored.

## 3. The runs

Deadlock is not checked in any run: every process ends, and so do all
behaviours in which all have ended.

| run | instance | distinct states | what it shows |
|---|---|---|---|
| `resident_single` | one coordinator, the code's numbers of commands (3, 1, 2, 4), kills, failing writes, signals without bound, leaders that end before their group | 5,777 | publication, refinement of `EvaluationReceipt`, a signal ends the run |
| `resident_pair` | two coordinators on one port and model id, one command per stage, kills | 1,536,270 | exclusion, foreign servers |
| `resident_lease` | two coordinators, no kills | violation | finding 1 |
| `queue_resume` | three executions in a row of one target, two retry roots, failing and torn writes, rejected results, two signals each | 1,890,752 | evidence, no second evaluation |
| `queue_overlap` | two overlapping executions of one target, one root, kills, two signals each | 339,121 | roots are preserved, a signal ends the queue |
| `blink_retry` | two runners of the same or of two roots, one row, kills, crashes of servers and requests, every write may fail but that of the last status, one signal each | 286,356 | exclusion, answers, verdicts, the lock is granted |
| `training_campaign` | two SFT targets, two arms, both launchers; two processes of either kind, one signal, one failure | 322,256 | exclusion, publication, launches, an interrupted launch ends |
| `scorer_all` | seven aggregators, two processes with one output, two rows, eight kinds of answers to the first | 1,718,865 | counts, failures, receipts, the sidecar, which answers block a receipt |
| `reference_campaign` | one target, two rows, up to five invocations on two slots, two preparations, one kill or change from outside, which may be put back | 1,116,896 | the chain of receipts, answers and verdicts under them |
| `reference_matrix` | two targets, one row, up to eight invocations of any mode on two slots, no faults | 654,353 | the matrix is uniform |
| `zoom_all` | two invocations, two roots, two samples, two passes, one fault, two changes of which one may undo the other | 4,785,934 | one server, the status, what an authority stands for |
| `zoom_outage` | the same | violation | finding 2 |

Why these bounds are enough for the cases that matter:

* *Two of each process.* Every interaction is between one process and whatever
  one predecessor left: a lock, a server, a child, a file. The resume chain of
  the queue has three executions because a root can be found complete by the
  third after the second reserved the next one.
* *`MaxSignals`.* The coordinator needs no bound: it ignores signals once it
  is cleaning. The queue does not, so two runs have a second signal, which
  meets the stop, the failure handler or the cleanup of the first, and a third
  one finds nothing new there. In the BLINK runner a second signal meets the
  EXIT trap, which has reset the traps, and does what a kill there does.
  `training_campaign` shares one signal among all processes.
* *`MaxFaults`* bounds the failures of commands and writes in the training
  modules, *`MaxLaunches`* and *`MaxProcesses`* the processes of a history. An
  earlier history is not lost: `SftInit` starts from every state in which
  targets were or were not exported before.
* *`Requests = 1`* row: rows are answered independently and the scorer stops
  at the first failed preflight; one row is answered by the runner's own
  server, by another one, or by none.
* *`MaxRetries`* is 2 and 0: first, next and no root.
* *`Workers = 1`* thread of the pool: rows are independent and outcomes are
  reduced only when all futures are done, so that the order in which two
  threads finish is the order in which one thread asks. The second row is there
  to be unlike the first: one may fail, be refused or be rescued while the other
  is not.
* *`MaxJobs`* is 5 for one target, which is one more than an evaluation needs
  (prepare, infer, model, judge-score) and so allows a repetition of each, and 8
  for the matrix, which is what two targets need. `MaxFaults` is 1 for the
  reference evaluation, and putting back what was changed is free; `MaxChanges`
  is 2 for ZoomBench: the code compares digests at fixed places, and what it can
  tell is whether a change lies before, between or after them and whether it was
  undone in between.
* *`MayOutlive`* (leaders that end before their group) is TRUE in the run of one
  coordinator and FALSE in those of two, whose states it would multiply; the
  theorems about both hold with either value.

The runs that declare symmetry (`resident_pair`, `queue_resume`, `scorer_all`,
both of the reference evaluation and of ZoomBench) check no liveness.

### Fairness

Fairness is assumed only of what the code runs or bounds itself:

* *Coordinator, queue*: a single thread takes its next step (`WF(Step)`); of
  the readiness probe only that its deadline passes. Nothing is assumed of
  servers, commands, children and trainings, which the code waits for without
  a deadline: `SignalEndsRun` and `SignalEndsQueue` say that a signal ends that
  wait.
* *BLINK*: `bash` takes its next step; the scorer's requests have a timeout of
  3,600 s; a forked server reaches `setsid`; a server that was told to stop
  does, and workers end after their leader. Nothing says that another server
  ends, so `WaiterGetsLock` excepts a server that a signal or a kill left behind.
* *Training*: launchers and runners take their next step, a killed trainer
  ends, an SFT training ends (one epoch). Exports, merges and OPD trainers may
  go on for ever.
* *Aggregators, reference evaluation, ZoomBench*: none, and no liveness is
  claimed: their servers and upstream commands may take for ever.

## 4. What is proved

The theorems hold for every value of the constants that satisfies the module's
assumption: any number of processes, targets, arms, launches, rows, retries.

**Coordinator** (`ResidentProofs`, `ResidentRefinement`). The inductive
invariant `IInv` is the type invariant with, for every coordinator,
`LeaseFollowsPlace` (who is between acquisition and release holds the lease,
and nobody else), `Flow` (what may be alive, by place), `Custody` (a live
process is in the list of processes, or the place is between `Popen` and the
append, or a signal was taken), `Roll` (the list has nothing else), `Progress`
(which authorities and samples exist at which place of the loop) and
`StatusFlow` (what the files say, by place). None of them is inductive alone:
that the lease protects a server needs that servers live only where the lease
is held, which needs what the cleanup does with the list. A group counts as live
as long as any of it lives, with its leader or without; what a command leaves
behind when its leader ends is taken off the list unlooked-for (`left`), and the
theorems say nothing of it.
From it follow `TypeCorrect`, `PublicationCertified`, `JudgeRunsAlone`,
`LeaseExcludes`, `OrphansNeedSignals`, `ForeignServersAreLeftOver`, and
`ReceiptImplemented`: `Spec => Receipt!Spec`, by the initial states and one
case per action, each a step or a stutter of `EvaluationReceipt`.

**Queue** (`QueueProofs`). `IInv` is the type invariant, `Attached` (which
child is bound to the root of its execution), `Settled` and `RowsBacked` (every
root that was found, evaluated or recorded has its evidence, which only a child
that was bound to it and failed can have taken back) and `OwnRootIsNew` (a child
never writes to a root that its own execution has recorded). A root that the
queue rejects simply never becomes complete (`RootMoves`). None is inductive
alone: the evidence of one execution is in danger from the children of the
others, so `Backed` names the executions whose children may be to blame. From it
follow `TypeCorrect`, `RecordsHaveEvidence` and `ClosedRootsAreKept` (an action
property). `SecondEvaluationNeedsOrphan` has the hypothesis that executions do
not overlap, which is what its run assumes too (two that overlap may both find
no root); it rests on `Tidy`: one execution is active, and as long as nobody was
signalled or killed, it found every complete root of the components ahead and no
component has two. That `reserve_root` takes the least free index is a lemma by
the well-foundedness of the naturals (`WFMin`).

**BLINK runner** (`BlinkProofs`). `IInv` is the type invariant, `ServerFlow`
(which server states are possible at which place), `LockFlow` (where the
description is locked) and `LockExcludes` (two descriptions are never held at
once, whichever of the three processes has one open). `LockIsExclusive` and
`ServersAreExclusive` follow: a server that is alive and not stray has the
descriptor of a locked description open. `AnswersAreOwn` needs `Answering` as
well: who is bound to the port serves (`PortFlow`), and a scorer runs in the
foreground of a runner that has started a server (`ScorerFlow`), so that the
server of another runner can only answer when that runner has left it behind.
`RootsTellTheirEnd` rests on `Telling` (whose root it is, which aggregate and
status go with which place, and that a status which still has to change has a
runner on its way to the verdict) and has the hypothesis that the write of the last status
does not fail: that write is the promise itself, and nothing after it could
report its failure.

**Training** (`TrainingProofs`). `IInv` is `SftInv` with the types of the
launches, `Loaded`, `RecordFlow` and `LaunchFlow`. `SftInv` says that the run
that made a root owns the target (`Ownership`: the creation is the atomic step
that decides, not the lock), where the lock is held, which command runs and which
files exist by place, that a target with a `completion.json` is not touched any
more (`Completed`), and that no merged model is ever partial (`MergedIsWhole`:
the rename). `Loaded` says that a launch beyond its checks only has whole inputs,
which is stable because nothing ever removes a merged model. `LaunchFlow` is
about the arms: the loop index is one of the selection (`InLoop`), which trainers
have ended at which place of the loop, of the interrupt and of its deadline
(`Stilled`), which merges were started and ended (`MergeFlow`), and that the
files of a model that no earlier launch merged are those that this launch's
merge has written so far, in `SaveOrder` (`FilesFlow`), and that what a merge
wrote stays (`Kept`). It needs `SelectionAssumption`: a selection is not
empty and names no arm twice, as `ARMS` and the choices of `--arm` have it. From
`IInv` follow `TypeCorrect`, `TrainingsAreExclusive`, `RootsHaveOneRun`,
`CompletionComesLast`, `LoadedInputsAreWhole`, `ReturnedLaunchesAreQuiet` and
`FirstMergesAreWhole`, which excepts an arm only when an earlier launch's merge
of it was cut short or is still writing.

**Aggregators** (`ScorerProofs`). `UnionContradictsNobody`,
`SupplementIsUnopposed` and `CategoryTellsLetter` are about the parsers alone,
for every answer and every set of options. `json.loads` is not total: on
brackets nested beyond the recursion limit it raises `RecursionError`, which is
an outcome of the parsers that use it (`Raised`), and `RepliesAreScored` says
that nothing else in an answer stops an aggregator. The inductive invariant says which
phases have which files and tasks (`Writing`, `Recorded`, `EndsAtZero`), that a
whole file was made from the outcomes its writer still has (`Whole`), and who
left half a file (`TornByWriter`). That outcomes do not change once they are
reduced is what makes the counts of a receipt facts about the rows; the counts
themselves follow from the cardinalities of disjoint sets of rows. From it
follow `TypeCorrect`, `NothingTornIsLeft`, `FilesAreCreatedOnce` (an action
property), `RepliesAreScored`, `ZeroIsPublished`, `FailuresAreProviders`,
`CountsCoverRows` and `SidecarTellsReceipt`, for any numbers of processes, rows
and threads.

**Reference evaluation** (`ReferenceProofs`). `IInv` is the type invariant and
five parts. `Linked`: every published receipt is `Grounded` in the receipts it
was made from, as they are published now. `Orderly`: the commands an invocation
still owes come in the order in which each finds what it needs (`Follows`,
`Owes`), and what a command holds between its start and its publication would
still be grounded. `Locked`: the commands of a target run under its artifact
lock, one at a time. `OnePreparation`: the preparation under way is the last one
and the only one. `Aged`: what was answered, built or published on a tree is not
younger than the tree (`Before`), which is how an answer is known to be on the
data of its receipt (`Alike`), for preparations are numbered and a part of the
tree is as prepared, or changed, or one of those that were changed and put back
(`spent.restored`), of which nothing can be said. It is stated for what is
published (`PublishedIn`), held (`ReadIn`) and answered (`SheetsIn`). A command
reads at its start and publishes hours later, so no part is inductive alone: that
the digests it holds are still those of the files needs the lock, that the lock
suffices needs the order of the commands, and the verdicts, which alone are
replaced, are excepted from what stays (`Fixed`). From it follow `TypeCorrect`,
`ReceiptsAreOneChain`, `CertifiedAnswersAreOnTheData`, `ScoreIsTheJudges`,
`MatrixComparesLikeWithLike` and, as an action property,
`CertifiedAnswersAreFinal`, for any numbers of targets, rows, invocations and
preparations. `ModesAssumption` says that the modes are those of the runner.

**ZoomBench** (`ZoomProofs`). `IInv` is `Shape` (the types), `Phase` (who
launches and judges is an execution with a root and, at the end, a protocol),
`OneHolder` (the descriptor of the lease has one holder), `Untold` (no status
says that the judge has ended before the trap ran) and `StatusTellsServer`.
`OneServer` is not inductive: that a second server is never started needs that
its launcher still holds the lease, which needs that executions alone launch.
From it follow `TypeCorrect`, `ServersExclude` and `StatusIsTrue`.
`AuthoritiesNameTheirModels` and `AuthoritiesAreWhole` need `AInv` beside it: an
attempt belongs to the execution that launched it on its root (`Attempted`),
which lifecycles have ended well by place (`Finished`), that the version that was
loaded lies `Between` the one that was identified and the one of now
(`Identified`; versions are counted, whatever their contents), that a root
with one attempt has the work of that attempt alone (`Sole`, `SoleWork`), that a
root without one has none (`Untried`), and that a receipt, in memory or linked,
is `Whole` (`Sealed`). The heart is `EndedRests`: when both lifecycles of the one
attempt are complete nobody may write any more, so that what was sealed stays
what is on the disk. Nothing is assumed of how contents recur: a checkpoint may
be replaced any number of times and put back. Equal identities before and after
therefore leave two cases, which are those of `Named`: the version that answered
has that identity, or it came after the first look and had gone at the second.

**Only model-checked**: the liveness properties `SignalEndsRun`, `SignalEndsQueue`,
`WaiterGetsLock` and `InterruptEndsLaunch` (fairness and `ENABLED` are out of the
prover's reach). Every invariant and every action property of the passing runs is
stated by a theorem. `CandidateStoppedBeforeJudge`, `OnlySignalsOrphan`,
`RootHasOneRun`, `TornHasCause` and `CreateOnce` are proved and in no run.

## 5. Findings

1. *The lease does not serialize its users* (`LeaseSerializesUsers`, run
   `resident_lease`). On every failure the `with _gpu_lease()` block is left
   before the `except` clause stops the candidate; for up to 120 s another
   coordinator can take the lease and start its own server on the same GPUs and
   kernel cache. `HealthyRunsExclusive` says how far the promise does hold.
2. *An outage of the ZoomBench judge is scored as wrong answers*
   (`OutageIsNotAVerdict`, run `zoom_outage`). The matrix calls the official
   judge, which makes a `No` of a call that failed three times, and does not
   look at its server again; the authority is sealed. The reference evaluation
   has a judge driver of its own against exactly that.

Seven smaller disagreements were met while modelling and are stated here without
a run of their own. A signal between the return of `_execute_impl` and the
start of the coordinator's cleanup leaves the result published although the
run exits with an error (lines 2192-2194 promise otherwise). The queue returns
the complete summary of a previous execution for another `--target` of the same
number of targets (line 637 against the help at 739). The reuse check of the
OPD launchers takes the configuration and one shard of an interrupted merge for
a merged model. And v2 refuses a whole evaluation over one answer whose last
line is a lower-case letter, because the terminal expression of v1's parser is
compiled without regard to case. The strict JSON step of v5 and of the audit
(145-148) catches `TypeError` and `ValueError` only, and their `main` does not
catch `RecursionError` either: one answer of deeply nested brackets ends them
without a receipt (v2 exits with 2, v1 counts the answer as a failed call);
`parse_content` of mmstar (329-340) guards against exactly that and says why. The
sequential launcher swallows an interrupt inside `run_arm` (154-169): when the
trainer returns zero after TERM it merges, trains the next arm, and in the end
writes "complete". And the coordinator unregisters a command when its leader
exits (1366-1371) without a look at the rest of the group, although its own
comment at 1426 knows that descendants may live on.

## 6. What is not modelled

* *Data.* Digests, schemas, images, tensors, accuracies: the validation chains
  are single steps that succeed or fail. They are sequential and their content
  is the data.
* *Environment.* vLLM, Ray, veRL, the kernel. They are modelled by what the code
  here can observe: a process lives or ends, a port answers or does not, a lock
  is granted or not. The order in which an OPD merge saves the files of a model
  (`SaveOrder`) is that of the external command `verl.model_merger`.
* *What comes back between two looks.* Digests are taken before and after. A
  checkpoint replaced after the first and put back before the second
  (`IdentityIsOfLifecycle`), and a part of the data tree likewise
  (`AnswersOnFrozenData`), are in the models and are exceptions of those
  properties: the code cannot see them. The ZoomBench benchmark may be swapped
  and restored in the model as well, but an answer does not record which
  benchmark it was given on, so that no property speaks of it.
* *Descendants of ended commands* (`left` in `ResidentCoordinator`): the code does
  not look for them, and no property speaks of them.
* *The VERBOSE environment variable*, with which v4's option inference returns
  nothing for some answers that contain "A" (v4:183): it is taken to be unset.
* *Environments and command lines*, and the dry runs, which change nothing.
* *The format audit inside the BLINK runner* (`--format-audit`): the runner's
  model has the scorer's requests and the aggregate; the sidecar is in
  `FormalScorer`.
* *Schemas and single fields* of receipts and protocols, prompts, request
  fields and telemetry: a receipt is what it was made from.
* *The VStar and v4-comparable aggregators*: the coordinator's model has them as
  commands that fail or write their certificate.
* The components with status `not_modelled` in `PROJECT.json`, each with its
  reason.

## 7. Plan

In order of importance.

1. Coordinator, its receipt, and their proofs. *Done.*
2. Queue and BLINK runner; proofs. *Done.*
3. Training: SFT targets, launchers, publication of models; proofs. *Done.*
4. The aggregators, their parsers and receipts; proofs. *Done.*
5. The reference evaluation: contract, preparation, campaign; proofs. *Done.*
6. ZoomBench; proofs. *Done.*
7. Proofs still worth having: an abstract authority that ZoomBench implements,
   and an abstract model directory for the launchers' merges, as
   `EvaluationReceipt` is for the coordinator.
8. `QueueSupervision`: the queue's two-second KILL against the coordinator's
   120 s stop, as the composition of the two specifications; and the three
   disciplines with which one lock file is used (non-blocking, inherited, closed
   on exec) as instances of one abstract lock.
9. Role partition and teacher alignment of the OPD patch.
