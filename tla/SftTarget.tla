------------------------------ MODULE SftTarget ------------------------------
(***************************************************************************)
(* The one-epoch SFT runner of                                             *)
(* repro/train/run_sft_one_epoch_target_v1.py, as processes, with the LoRA *)
(* merge (merge_qwen35_sharded_lora_to_hf_v1.py over                       *)
(* merge_b24_lora_to_hf_v1.py) it ends with.                               *)
(*                                                                         *)
(* A runner checks its target, waits for the GPU lock, makes the run root, *)
(* trains in a child, gives the lock back and then exports: an FSDP export *)
(* to a staging directory, a merge that publishes the model directory by   *)
(* one rename, the removal of the staging directory, completion.json.  The *)
(* lock's descriptor is not inherited by the children.                     *)
(*                                                                         *)
(* A signal is either an interrupt, which subprocess.run answers by        *)
(* killing its child, or one that ends the runner at once (TERM, KILL).    *)
(***************************************************************************)
EXTENDS Naturals

CONSTANTS
    Runs,        \* the processes started with --execute
    Targets,     \* the members of TARGETS; each has one run root
    NoRun,       \* nobody holds the lock
    MaxSignals,  \* bound on the signals, over all processes
    MaxFaults    \* bound on the failures, of commands and of writes

ASSUME SftAssumption ==
    /\ NoRun \notin Runs
    /\ Targets # {}
    /\ {MaxSignals, MaxFaults} \subseteq Nat

VARIABLES
    pc,          \* where the runner is
    target,      \* --target
    lock,        \* the holder of the GPU 0-7 lock
    job,         \* the command the runner started last
    life,        \* the process of that command
    progress,    \* how far a merge is
    root,        \* the run root of every target was made
    checkpoint,  \* its terminal checkpoint
    staging,     \* .fsdp_export_final.incomplete
    merged,      \* merged/final_hf_official_chat_v1
    completion,  \* artifacts/completion.json
    signals,     \* signals sent
    faults       \* failures met

runner  == <<pc, target, lock>>
command == <<job, life, progress>>
sftFiles == <<root, checkpoint, staging, merged, completion>>
budget  == <<signals, faults>>
sftVars == <<runner, command, sftFiles, budget>>

\* The places where the lock is held.
Locked == {"audit", "root", "plan", "train", "training", "unlock", "unlock_failed"}

Exporting == {"fsdp", "exporting", "merge", "merging", "sweep", "complete", "seal"}

Terminal == {"done", "failed", "killed"}

At(r, l) == pc[r] = l
Goto(r, l) == pc' = [pc EXCEPT ![r] = l]
Over(r) == pc[r] \in Terminal

SftTypeOK ==
    /\ pc \in [Runs -> {"idle", "lock"} \cup Locked \cup Exporting \cup Terminal]
    /\ target \in [Runs -> Targets]
    /\ lock \in Runs \cup {NoRun}
    /\ job \in [Runs -> {"none", "train", "fsdp", "merge"}]
    /\ life \in [Runs -> {"none", "live", "workers", "zero", "nonzero"}]
    /\ progress \in [Runs -> {"none", "saving", "saved", "published"}]
    /\ root \in [Targets -> BOOLEAN]
    /\ checkpoint \in [Targets -> BOOLEAN]
    /\ staging \in [Targets -> {"absent", "partial", "whole"}]
    /\ merged \in [Targets -> {"absent", "partial", "whole"}]
    /\ completion \in [Targets -> {"absent", "partial", "whole"}]
    /\ signals \in 0 .. MaxSignals
    /\ faults \in 0 .. MaxFaults

\* Some targets were exported by earlier runs.
SftInit ==
    /\ pc = [r \in Runs |-> "idle"]
    /\ target = [r \in Runs |-> CHOOSE t \in Targets : TRUE]
    /\ lock = NoRun
    /\ job = [r \in Runs |-> "none"]
    /\ life = [r \in Runs |-> "none"]
    /\ progress = [r \in Runs |-> "none"]
    /\ root \in [Targets -> BOOLEAN]
    /\ checkpoint = root
    /\ staging = [t \in Targets |-> "absent"]
    /\ merged = [t \in Targets |-> IF root[t] THEN "whole" ELSE "absent"]
    /\ completion = merged
    /\ signals = 0
    /\ faults = 0

Set(f, r, value) == [f EXCEPT ![target[r]] = value]

\* One more of the failures the bound allows.
Fault ==
    /\ faults < MaxFaults
    /\ faults' = faults + 1
    /\ UNCHANGED signals

Start(r, kind) ==
    /\ job' = [job EXCEPT ![r] = kind]
    /\ life' = [life EXCEPT ![r] = "live"]

(***************************************************************************)
(* Under the lock.                                                         *)
(***************************************************************************)
\* validate: the run root of the target must be new.  The lock is not held yet.
Validate(r) ==
    /\ At(r, "idle")
    /\ \E t \in Targets :
        /\ target' = [target EXCEPT ![r] = t]
        /\ Goto(r, IF root[t] THEN "failed" ELSE "lock")
    /\ UNCHANGED <<lock, command, sftFiles, budget>>

\* Seeded fault: LOCK_SH.
TakeSharedLock(r) ==
    /\ At(r, "lock")
    /\ lock' = r
    /\ Goto(r, "audit")
    /\ UNCHANGED <<target, command, sftFiles, budget>>

\* flock(LOCK_EX) blocks.
TakeLock(r) ==
    /\ At(r, "lock")
    /\ lock = NoRun
    /\ lock' = r
    /\ Goto(r, "audit")
    /\ UNCHANGED <<target, command, sftFiles, budget>>

\* gpu_audit and gpu_backend_audit.
Audit(r) ==
    /\ At(r, "audit")
    /\ \/ Goto(r, "root") /\ UNCHANGED budget
       \/ Fault /\ Goto(r, "unlock_failed")
    /\ UNCHANGED <<target, lock, command, sftFiles>>

\* run_root.mkdir: fails when another run of the target made it while r waited.
MakeRoot(r) ==
    /\ At(r, "root")
    /\ Goto(r, IF root[target[r]] THEN "unlock_failed" ELSE "plan")
    /\ root' = Set(root, r, TRUE)
    /\ UNCHANGED <<target, lock, command, checkpoint, staging, merged, completion, budget>>

\* artifacts/, and launch_plan.json written once.
WritePlan(r) ==
    /\ At(r, "plan")
    /\ \/ Goto(r, "train") /\ UNCHANGED budget
       \/ Fault /\ Goto(r, "unlock_failed")
    /\ UNCHANGED <<target, lock, command, sftFiles>>

\* run_logged: torchrun and its eight workers.
Train(r) ==
    /\ At(r, "train")
    /\ Start(r, "train")
    /\ Goto(r, "training")
    /\ UNCHANGED <<target, lock, progress, sftFiles, budget>>

Trained(r) ==
    /\ At(r, "training")
    /\ life[r] \in {"zero", "nonzero"}
    /\ Goto(r, IF life[r] = "zero" THEN "unlock" ELSE "unlock_failed")
    /\ UNCHANGED <<target, lock, command, sftFiles, budget>>

\* The finally block: LOCK_UN and close, before the export.
Unlock(r) ==
    /\ pc[r] \in {"unlock", "unlock_failed"}
    /\ lock' = NoRun
    /\ Goto(r, IF At(r, "unlock") THEN "fsdp" ELSE "failed")
    /\ UNCHANGED <<target, command, sftFiles, budget>>

(***************************************************************************)
(* The export.                                                             *)
(***************************************************************************)
Fail(r) == Goto(r, "failed") /\ UNCHANGED <<command, sftFiles>>

\* The model merger is started on a staging directory that does not exist.
ExportFsdp(r) ==
    /\ At(r, "fsdp")
    /\ \/ /\ checkpoint[target[r]]
          /\ staging[target[r]] = "absent" /\ merged[target[r]] = "absent"
          /\ Start(r, "fsdp")
          /\ staging' = Set(staging, r, "partial")
          /\ Goto(r, "exporting")
          /\ UNCHANGED <<progress, root, checkpoint, merged, completion, budget>>
       \/ Fault /\ Fail(r)
    /\ UNCHANGED <<target, lock>>

\* A command of the export returned: the next step, or an exception.
Exported(r) ==
    /\ \E here \in {<<"exporting", "merge">>, <<"merging", "sweep">>} :
        /\ At(r, here[1])
        /\ life[r] \in {"zero", "nonzero"}
        /\ Goto(r, IF life[r] = "zero" THEN here[2] ELSE "failed")
    /\ UNCHANGED <<target, lock, command, sftFiles, budget>>

\* The LoRA merge is started on the exported adapter.
ExportMerge(r) ==
    /\ At(r, "merge")
    /\ Start(r, "merge")
    /\ progress' = [progress EXCEPT ![r] = "saving"]
    /\ Goto(r, "merging")
    /\ UNCHANGED <<target, lock, sftFiles, budget>>

\* Seeded fault: the staging directory is kept for a later inspection.
SweepNot(r) ==
    /\ At(r, "sweep")
    /\ Goto(r, "complete")
    /\ UNCHANGED <<target, lock, command, sftFiles, budget>>

\* The inventory of the model is taken, and rmtree removes the staging: either
\* may fail.
Sweep(r) ==
    /\ At(r, "sweep")
    /\ \/ /\ staging' = Set(staging, r, "absent")
          /\ Goto(r, "complete")
          /\ UNCHANGED budget
       \/ /\ Fault
          /\ staging' \in {staging, Set(staging, r, "partial")}
          /\ Goto(r, "failed")
    /\ UNCHANGED <<target, lock, command, root, checkpoint, merged, completion>>

\* completion.json is created, then written with one write: what a failure in
\* between leaves is not removed.
CreateCompletion(r) ==
    /\ At(r, "complete")
    /\ completion' = Set(completion, r, "partial")
    /\ Goto(r, "seal")
    /\ UNCHANGED <<target, lock, command, root, checkpoint, staging, merged, budget>>

SealCompletion(r) ==
    /\ At(r, "seal")
    /\ \/ /\ completion' = Set(completion, r, "whole")
          /\ Goto(r, "done")
          /\ UNCHANGED budget
       \/ Fault /\ Goto(r, "failed") /\ UNCHANGED completion
    /\ UNCHANGED <<target, lock, command, root, checkpoint, staging, merged>>

(***************************************************************************)
(* The commands.                                                           *)
(***************************************************************************)
Running(r, kind) == job[r] = kind /\ life[r] = "live"

End(r, how) == life' = [life EXCEPT ![r] = how]

\* torchrun ends: with zero once global_step_<steps> is saved.
TrainingEnds(r) ==
    /\ Running(r, "train")
    /\ \/ End(r, "zero") /\ checkpoint' = Set(checkpoint, r, TRUE) /\ UNCHANGED budget
       \/ Fault /\ End(r, "nonzero") /\ UNCHANGED checkpoint
    /\ UNCHANGED <<runner, job, progress, root, staging, merged, completion>>

\* Workers whose torchrun was killed end by themselves.
WorkersEnd(r) ==
    /\ life[r] = "workers"
    /\ End(r, "nonzero")
    /\ UNCHANGED <<runner, job, progress, sftFiles, budget>>

FsdpEnds(r) ==
    /\ Running(r, "fsdp")
    /\ \/ End(r, "zero") /\ staging' = Set(staging, r, "whole") /\ UNCHANGED budget
       \/ Fault /\ End(r, "nonzero") /\ UNCHANGED staging
    /\ UNCHANGED <<runner, job, progress, root, checkpoint, merged, completion>>

Advance(r, l) == progress' = [progress EXCEPT ![r] = l]

\* Seeded fault: save_pretrained writes into the published directory.
MergeSavesInPlace(r) ==
    /\ Running(r, "merge") /\ progress[r] = "saving"
    /\ Advance(r, "saved")
    /\ merged' = Set(merged, r, "partial")
    /\ UNCHANGED <<runner, job, life, root, checkpoint, staging, completion, budget>>

\* save_pretrained, the other files, the receipt and fsync, in a directory
\* with a name of its own.
MergeSaves(r) ==
    /\ Running(r, "merge") /\ progress[r] = "saving"
    /\ Advance(r, "saved")
    /\ UNCHANGED <<runner, job, life, sftFiles, budget>>

\* renameat2(RENAME_NOREPLACE).
MergePublishes(r) ==
    /\ Running(r, "merge") /\ progress[r] = "saved"
    /\ Advance(r, "published")
    /\ merged' = Set(merged, r, "whole")
    /\ UNCHANGED <<runner, job, life, root, checkpoint, staging, completion, budget>>

\* The merge fails anywhere; before the rename it removes its directory.
MergeEnds(r) ==
    /\ Running(r, "merge")
    /\ \/ progress[r] = "published" /\ End(r, "zero") /\ UNCHANGED budget
       \/ Fault /\ End(r, "nonzero")
    /\ UNCHANGED <<runner, job, progress, sftFiles>>

(***************************************************************************)
(* Signals.                                                                *)
(***************************************************************************)
Signal ==
    /\ signals < MaxSignals
    /\ signals' = signals + 1
    /\ UNCHANGED faults

\* KeyboardInterrupt: subprocess.run kills and reaps its child, which is the
\* leader of the training only; the finally block gives the lock back.
Interrupt(r) ==
    /\ ~Over(r) /\ ~At(r, "idle")
    /\ Signal
    /\ \E how \in IF job[r] = "train" THEN {"workers", "nonzero"} ELSE {"nonzero"} :
        life' = [life EXCEPT ![r] = IF @ = "live" THEN how ELSE @]
    /\ Goto(r, IF lock = r THEN "unlock_failed" ELSE "failed")
    /\ UNCHANGED <<target, lock, job, progress, sftFiles>>

\* TERM and KILL end the runner: its lock is closed, its child goes on.
Kill(r) ==
    /\ ~Over(r) /\ ~At(r, "idle")
    /\ Signal
    /\ lock' = IF lock = r THEN NoRun ELSE lock
    /\ Goto(r, "killed")
    /\ UNCHANGED <<target, command, sftFiles>>

(***************************************************************************)
(* The specification.                                                      *)
(***************************************************************************)
RunnerStep(r) ==
    \/ TakeLock(r) \/ Audit(r) \/ MakeRoot(r) \/ WritePlan(r)
    \/ Train(r) \/ Trained(r) \/ Unlock(r)
    \/ ExportFsdp(r) \/ Exported(r) \/ ExportMerge(r) \/ Sweep(r)
    \/ CreateCompletion(r) \/ SealCompletion(r)

CommandStep(r) ==
    \/ TrainingEnds(r) \/ WorkersEnd(r) \/ FsdpEnds(r)
    \/ MergeSaves(r) \/ MergePublishes(r) \/ MergeEnds(r)

RunStep(r) == RunnerStep(r) \/ CommandStep(r) \/ Interrupt(r) \/ Kill(r)

SftNext == \E r \in Runs : Validate(r) \/ RunStep(r)

SftSpec == SftInit /\ [][SftNext]_sftVars
=============================================================================
