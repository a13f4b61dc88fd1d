--------------------------- MODULE TrainingProofs ---------------------------
(***************************************************************************)
(* Proofs about the SFT runs and the models the OPD launches load, for any *)
(* number of runs, targets, arms, launches, signals and failures.          *)
(***************************************************************************)
EXTENDS TrainingProperties, TLAPS

AnyStep(r) == Validate(r) \/ RunStep(r)

(***************************************************************************)
(* The inductive invariant.                                                *)
(***************************************************************************)
\* The run that made the root of its target.
Owns(r) ==
    \/ pc[r] \in {"plan", "train", "training", "unlock", "done"} \cup Exporting
    \/ job[r] # "none"

Ownership ==
    /\ \A r \in Runs : Owns(r) => root[target[r]]
    /\ \A r, s \in Runs : Owns(r) /\ Owns(s) /\ target[r] = target[s] => r = s

\* Where the lock is held.
LockFlow(r) == pc[r] \in Locked <=> lock = r

\* What is running, by place.
JobFlow(r) ==
    /\ job[r] = "none" => life[r] = "none"
    /\ pc[r] \in {"idle", "lock", "audit", "root", "plan", "train"} => job[r] = "none"
    /\ pc[r] \in {"training", "unlock", "fsdp"} => job[r] = "train"
    /\ pc[r] \in {"exporting", "merge"} => job[r] = "fsdp"
    /\ pc[r] \in {"merging", "sweep", "complete", "seal", "done"} => job[r] = "merge"
    /\ pc[r] \in {"unlock", "fsdp", "merge", "sweep", "complete", "seal", "done"} => life[r] = "zero"
    /\ job[r] = "train" /\ life[r] = "live" => pc[r] \in {"training", "killed"}

\* What is on disk, by place.
FileFlow(r) ==
    /\ pc[r] = "training" /\ life[r] = "zero" => checkpoint[target[r]]
    /\ pc[r] \in {"unlock"} \cup Exporting => checkpoint[target[r]]
    /\ job[r] = "merge" /\ (life[r] = "zero" \/ progress[r] = "published") => merged[target[r]] = "whole"
    /\ pc[r] \in {"complete", "seal"} => staging[target[r]] = "absent"

\* A completed target is not touched any more.
Completed(t) ==
    completion[t] # "absent" =>
        /\ root[t] /\ checkpoint[t] /\ merged[t] = "whole" /\ staging[t] = "absent"
        /\ \A r \in Runs : Owns(r) /\ target[r] = t =>
                pc[r] \in {"seal", "done", "failed", "killed"} /\ life[r] # "live"

MergedIsWhole == \A t \in Targets : merged[t] # "partial"

SftInv ==
    /\ SftTypeOK
    /\ Ownership
    /\ \A r \in Runs : LockFlow(r) /\ JobFlow(r) /\ FileFlow(r)
    /\ \A t \in Targets : Completed(t)
    /\ MergedIsWhole

(***************************************************************************)
(* Steps of the SFT runs.                                                  *)
(***************************************************************************)
LEMMA SftTypeStep ==
    ASSUME SftTypeOK, NEW r \in Runs, AnyStep(r)
    PROVE  SftTypeOK'
<1> USE SftAssumption DEF SftTypeOK, At, Goto, Set, runner, command, sftFiles, budget,
        Locked, Exporting, Terminal, Over
<1>1. CASE Validate(r)
  BY <1>1 DEF Validate
<1>2. CASE TakeLock(r)
  BY <1>2 DEF TakeLock
<1>3. CASE Audit(r)
  BY <1>3 DEF Audit, Fault
<1>4. CASE MakeRoot(r)
  BY <1>4 DEF MakeRoot
<1>5. CASE WritePlan(r)
  BY <1>5 DEF WritePlan, Fault
<1>6. CASE Train(r)
  BY <1>6 DEF Train, Start
<1>7. CASE Trained(r)
  BY <1>7 DEF Trained
<1>8. CASE Unlock(r)
  BY <1>8 DEF Unlock
<1>9. CASE ExportFsdp(r)
  BY <1>9 DEF ExportFsdp, Start, Fault, Fail
<1>10. CASE Exported(r)
  BY <1>10 DEF Exported
<1>11. CASE ExportMerge(r)
  BY <1>11 DEF ExportMerge, Start
<1>12. CASE Sweep(r)
  <2>1. staging' \in {staging, Set(staging, r, "absent"), Set(staging, r, "partial")}
    BY <1>12 DEF Sweep
  <2> QED
    BY <1>12, <2>1 DEF Sweep, Fault
<1>13. CASE CreateCompletion(r)
  BY <1>13 DEF CreateCompletion
<1>14. CASE SealCompletion(r)
  BY <1>14 DEF SealCompletion, Fault
<1>15. CASE TrainingEnds(r)
  <2>1. checkpoint' \in [Targets -> BOOLEAN]
    <3>1. CASE checkpoint' = checkpoint
      BY <3>1
    <3>2. CASE checkpoint' = [checkpoint EXCEPT ![target[r]] = TRUE]
      BY <3>2
    <3> QED
      BY <1>15, <3>1, <3>2 DEF TrainingEnds
  <2>2. life' \in [Runs -> {"none", "live", "workers", "zero", "nonzero"}]
    BY <1>15 DEF TrainingEnds, End
  <2>3. faults' \in 0 .. MaxFaults /\ signals' = signals
    BY <1>15 DEF TrainingEnds, Fault
  <2> QED
    BY <1>15, <2>1, <2>2, <2>3 DEF TrainingEnds
<1>16. CASE WorkersEnd(r)
  BY <1>16 DEF WorkersEnd, End
<1>17. CASE FsdpEnds(r)
  BY <1>17 DEF FsdpEnds, Fault, Running, End
<1>18. CASE MergeSaves(r)
  BY <1>18 DEF MergeSaves, Running, Advance
<1>19. CASE MergePublishes(r)
  BY <1>19 DEF MergePublishes, Running, Advance
<1>20. CASE MergeEnds(r)
  BY <1>20 DEF MergeEnds, Running, End, Fault
<1>21. CASE Interrupt(r)
  BY <1>21 DEF Interrupt, Signal
<1>22. CASE Kill(r)
  BY <1>22 DEF Kill, Signal
<1>q. QED
  BY <1>1, <1>2, <1>3, <1>4, <1>5, <1>6, <1>7, <1>8, <1>9, <1>10, <1>11, <1>12, <1>13, <1>14,
     <1>15, <1>16, <1>17, <1>18, <1>19, <1>20, <1>21, <1>22
  DEF AnyStep, RunStep, RunnerStep, CommandStep

LEMMA LockStep ==
    ASSUME SftTypeOK, NEW r \in Runs, AnyStep(r), \A s \in Runs : LockFlow(s)
    PROVE  \A s \in Runs : LockFlow(s)'
<1> SUFFICES ASSUME NEW s \in Runs PROVE LockFlow(s)'
  OBVIOUS
<1> USE SftAssumption DEF SftTypeOK, At, Goto, Set, runner, command, sftFiles, budget,
        Locked, Exporting, Terminal, Over, LockFlow
<1>1. CASE Validate(r)
  BY <1>1 DEF Validate
<1>2. CASE TakeLock(r)
  BY <1>2 DEF TakeLock
<1>3. CASE Audit(r)
  BY <1>3 DEF Audit, Fault
<1>4. CASE MakeRoot(r)
  BY <1>4 DEF MakeRoot
<1>5. CASE WritePlan(r)
  BY <1>5 DEF WritePlan, Fault
<1>6. CASE Train(r)
  BY <1>6 DEF Train, Start
<1>7. CASE Trained(r)
  BY <1>7 DEF Trained
<1>8. CASE Unlock(r)
  BY <1>8 DEF Unlock
<1>9. CASE ExportFsdp(r)
  BY <1>9 DEF ExportFsdp, Start, Fault, Fail
<1>10. CASE Exported(r)
  BY <1>10 DEF Exported
<1>11. CASE ExportMerge(r)
  BY <1>11 DEF ExportMerge, Start
<1>12. CASE Sweep(r)
  BY <1>12 DEF Sweep, Fault
<1>13. CASE CreateCompletion(r)
  BY <1>13 DEF CreateCompletion
<1>14. CASE SealCompletion(r)
  BY <1>14 DEF SealCompletion, Fault
<1>15. CASE TrainingEnds(r)
  BY <1>15 DEF TrainingEnds, Fault, Running, End
<1>16. CASE WorkersEnd(r)
  BY <1>16 DEF WorkersEnd, End
<1>17. CASE FsdpEnds(r)
  BY <1>17 DEF FsdpEnds, Fault, Running, End
<1>18. CASE MergeSaves(r)
  BY <1>18 DEF MergeSaves, Running, Advance
<1>19. CASE MergePublishes(r)
  BY <1>19 DEF MergePublishes, Running, Advance
<1>20. CASE MergeEnds(r)
  BY <1>20 DEF MergeEnds, Running, End, Fault
<1>21. CASE Interrupt(r)
  BY <1>21 DEF Interrupt, Signal
<1>22. CASE Kill(r)
  BY <1>22 DEF Kill, Signal
<1>q. QED
  BY <1>1, <1>2, <1>3, <1>4, <1>5, <1>6, <1>7, <1>8, <1>9, <1>10, <1>11, <1>12, <1>13, <1>14,
     <1>15, <1>16, <1>17, <1>18, <1>19, <1>20, <1>21, <1>22
  DEF AnyStep, RunStep, RunnerStep, CommandStep

LEMMA JobStep ==
    ASSUME SftTypeOK, NEW r \in Runs, AnyStep(r), NEW s \in Runs, JobFlow(s)
    PROVE  JobFlow(s)'
<1> USE SftAssumption DEF SftTypeOK, At, Goto, Set, runner, command, sftFiles, budget,
        Locked, Exporting, Terminal, Over, JobFlow
<1>1. CASE Validate(r)
  BY <1>1 DEF Validate
<1>2. CASE TakeLock(r)
  BY <1>2 DEF TakeLock
<1>3. CASE Audit(r)
  BY <1>3 DEF Audit, Fault
<1>4. CASE MakeRoot(r)
  BY <1>4 DEF MakeRoot
<1>5. CASE WritePlan(r)
  BY <1>5 DEF WritePlan, Fault
<1>6. CASE Train(r)
  BY <1>6 DEF Train, Start
<1>7. CASE Trained(r)
  BY <1>7 DEF Trained
<1>8. CASE Unlock(r)
  BY <1>8 DEF Unlock
<1>9. CASE ExportFsdp(r)
  BY <1>9 DEF ExportFsdp, Start, Fault, Fail
<1>10. CASE Exported(r)
  BY <1>10 DEF Exported
<1>11. CASE ExportMerge(r)
  BY <1>11 DEF ExportMerge, Start
<1>12. CASE Sweep(r)
  BY <1>12 DEF Sweep, Fault
<1>13. CASE CreateCompletion(r)
  BY <1>13 DEF CreateCompletion
<1>14. CASE SealCompletion(r)
  BY <1>14 DEF SealCompletion, Fault
<1>15. CASE TrainingEnds(r)
  BY <1>15 DEF TrainingEnds, Fault, Running, End
<1>16. CASE WorkersEnd(r)
  BY <1>16 DEF WorkersEnd, End
<1>17. CASE FsdpEnds(r)
  BY <1>17 DEF FsdpEnds, Fault, Running, End
<1>18. CASE MergeSaves(r)
  BY <1>18 DEF MergeSaves, Running, Advance
<1>19. CASE MergePublishes(r)
  BY <1>19 DEF MergePublishes, Running, Advance
<1>20. CASE MergeEnds(r)
  BY <1>20 DEF MergeEnds, Running, End, Fault
<1>21. CASE Interrupt(r)
  BY <1>21 DEF Interrupt, Signal
<1>22. CASE Kill(r)
  BY <1>22 DEF Kill, Signal
<1>q. QED
  BY <1>1, <1>2, <1>3, <1>4, <1>5, <1>6, <1>7, <1>8, <1>9, <1>10, <1>11, <1>12, <1>13, <1>14,
     <1>15, <1>16, <1>17, <1>18, <1>19, <1>20, <1>21, <1>22
  DEF AnyStep, RunStep, RunnerStep, CommandStep

\* Only MakeRoot makes a run an owner, and only when nobody owns the root.
LEMMA OwnsStep ==
    ASSUME SftTypeOK, NEW r \in Runs, AnyStep(r), NEW s \in Runs, JobFlow(s), Owns(s)'
    PROVE  /\ Owns(s) \/ (s = r /\ ~root[target[r]] /\ root'[target[r]])
           /\ target'[s] = target[s]
<1> USE SftAssumption DEF SftTypeOK, At, Goto, Set, runner, command, sftFiles, budget,
        Locked, Exporting, Terminal, Over, JobFlow, Owns
<1>1. CASE Validate(r)
  BY <1>1 DEF Validate
<1>2. CASE TakeLock(r)
  BY <1>2 DEF TakeLock
<1>3. CASE Audit(r)
  BY <1>3 DEF Audit, Fault
<1>4. CASE MakeRoot(r)
  BY <1>4 DEF MakeRoot
<1>5. CASE WritePlan(r)
  BY <1>5 DEF WritePlan, Fault
<1>6. CASE Train(r)
  BY <1>6 DEF Train, Start
<1>7. CASE Trained(r)
  BY <1>7 DEF Trained
<1>8. CASE Unlock(r)
  BY <1>8 DEF Unlock
<1>9. CASE ExportFsdp(r)
  BY <1>9 DEF ExportFsdp, Start, Fault, Fail
<1>10. CASE Exported(r)
  BY <1>10 DEF Exported
<1>11. CASE ExportMerge(r)
  BY <1>11 DEF ExportMerge, Start
<1>12. CASE Sweep(r)
  BY <1>12 DEF Sweep, Fault
<1>13. CASE CreateCompletion(r)
  BY <1>13 DEF CreateCompletion
<1>14. CASE SealCompletion(r)
  BY <1>14 DEF SealCompletion, Fault
<1>15. CASE TrainingEnds(r)
  BY <1>15 DEF TrainingEnds, Fault, Running, End
<1>16. CASE WorkersEnd(r)
  BY <1>16 DEF WorkersEnd, End
<1>17. CASE FsdpEnds(r)
  BY <1>17 DEF FsdpEnds, Fault, Running, End
<1>18. CASE MergeSaves(r)
  BY <1>18 DEF MergeSaves, Running, Advance
<1>19. CASE MergePublishes(r)
  BY <1>19 DEF MergePublishes, Running, Advance
<1>20. CASE MergeEnds(r)
  BY <1>20 DEF MergeEnds, Running, End, Fault
<1>21. CASE Interrupt(r)
  BY <1>21 DEF Interrupt, Signal
<1>22. CASE Kill(r)
  BY <1>22 DEF Kill, Signal
<1>q. QED
  BY <1>1, <1>2, <1>3, <1>4, <1>5, <1>6, <1>7, <1>8, <1>9, <1>10, <1>11, <1>12, <1>13, <1>14,
     <1>15, <1>16, <1>17, <1>18, <1>19, <1>20, <1>21, <1>22
  DEF AnyStep, RunStep, RunnerStep, CommandStep

LEMMA RootStep ==
    ASSUME SftTypeOK, NEW r \in Runs, AnyStep(r)
    PROVE  \A t \in Targets : root[t] => root'[t]
<1> USE SftAssumption DEF SftTypeOK, At, Goto, Set, runner, command, sftFiles, budget,
        Locked, Exporting, Terminal, Over
<1>1. CASE Validate(r)
  BY <1>1 DEF Validate
<1>2. CASE TakeLock(r)
  BY <1>2 DEF TakeLock
<1>3. CASE Audit(r)
  BY <1>3 DEF Audit, Fault
<1>4. CASE MakeRoot(r)
  BY <1>4 DEF MakeRoot
<1>5. CASE WritePlan(r)
  BY <1>5 DEF WritePlan, Fault
<1>6. CASE Train(r)
  BY <1>6 DEF Train, Start
<1>7. CASE Trained(r)
  BY <1>7 DEF Trained
<1>8. CASE Unlock(r)
  BY <1>8 DEF Unlock
<1>9. CASE ExportFsdp(r)
  BY <1>9 DEF ExportFsdp, Start, Fault, Fail
<1>10. CASE Exported(r)
  BY <1>10 DEF Exported
<1>11. CASE ExportMerge(r)
  BY <1>11 DEF ExportMerge, Start
<1>12. CASE Sweep(r)
  BY <1>12 DEF Sweep, Fault
<1>13. CASE CreateCompletion(r)
  BY <1>13 DEF CreateCompletion
<1>14. CASE SealCompletion(r)
  BY <1>14 DEF SealCompletion, Fault
<1>15. CASE TrainingEnds(r)
  BY <1>15 DEF TrainingEnds, Fault, Running, End
<1>16. CASE WorkersEnd(r)
  BY <1>16 DEF WorkersEnd, End
<1>17. CASE FsdpEnds(r)
  BY <1>17 DEF FsdpEnds, Fault, Running, End
<1>18. CASE MergeSaves(r)
  BY <1>18 DEF MergeSaves, Running, Advance
<1>19. CASE MergePublishes(r)
  BY <1>19 DEF MergePublishes, Running, Advance
<1>20. CASE MergeEnds(r)
  BY <1>20 DEF MergeEnds, Running, End, Fault
<1>21. CASE Interrupt(r)
  BY <1>21 DEF Interrupt, Signal
<1>22. CASE Kill(r)
  BY <1>22 DEF Kill, Signal
<1>q. QED
  BY <1>1, <1>2, <1>3, <1>4, <1>5, <1>6, <1>7, <1>8, <1>9, <1>10, <1>11, <1>12, <1>13, <1>14,
     <1>15, <1>16, <1>17, <1>18, <1>19, <1>20, <1>21, <1>22
  DEF AnyStep, RunStep, RunnerStep, CommandStep

LEMMA OwnershipStep ==
    ASSUME SftTypeOK, Ownership, NEW r \in Runs, AnyStep(r), \A s \in Runs : JobFlow(s)
    PROVE  Ownership'
<1>1. ASSUME NEW s \in Runs, Owns(s)' PROVE (root[target[s]])'
  <2>1. target'[s] = target[s] /\ target[s] \in Targets
    BY <1>1, OwnsStep DEF SftTypeOK
  <2> QED
    BY <1>1, <2>1, OwnsStep, RootStep DEF Ownership
<1>2. ASSUME NEW s \in Runs, NEW u \in Runs, Owns(s)', Owns(u)', target'[s] = target'[u]
      PROVE  s = u
  <2>1. target[s] = target[u]
    BY <1>2, OwnsStep
  <2>2. CASE Owns(s) /\ Owns(u)
    BY <2>1, <2>2 DEF Ownership
  <2>3. CASE ~(Owns(s) /\ Owns(u))
    <3>1. ~root[target[r]] /\ (s = r \/ u = r)
      BY <1>2, <2>3, OwnsStep
    <3>2. ~Owns(s) \/ ~(u = r)
      BY <2>1, <3>1 DEF Ownership
    <3>3. ~Owns(u) \/ ~(s = r)
      BY <2>1, <3>1 DEF Ownership
    <3> QED
      BY <1>2, <3>1, <3>2, <3>3, OwnsStep
  <2> QED
    BY <2>2, <2>3
<1> QED
  BY <1>1, <1>2 DEF Ownership

\* A run touches the files of its own target only, and only when it owns it.
LEMMA OthersStep ==
    ASSUME SftTypeOK, NEW r \in Runs, AnyStep(r), JobFlow(r), NEW t \in Targets,
           ~(Owns(r) /\ target[r] = t)
    PROVE  /\ checkpoint'[t] = checkpoint[t] /\ staging'[t] = staging[t]
           /\ merged'[t] = merged[t] /\ completion'[t] = completion[t]
<1> USE SftAssumption DEF SftTypeOK, At, Goto, Set, runner, command, sftFiles, budget,
        Locked, Exporting, Terminal, Over, JobFlow, Owns
<1>1. CASE Validate(r)
  BY <1>1 DEF Validate
<1>2. CASE TakeLock(r)
  BY <1>2 DEF TakeLock
<1>3. CASE Audit(r)
  BY <1>3 DEF Audit, Fault
<1>4. CASE MakeRoot(r)
  BY <1>4 DEF MakeRoot
<1>5. CASE WritePlan(r)
  BY <1>5 DEF WritePlan, Fault
<1>6. CASE Train(r)
  BY <1>6 DEF Train, Start
<1>7. CASE Trained(r)
  BY <1>7 DEF Trained
<1>8. CASE Unlock(r)
  BY <1>8 DEF Unlock
<1>9. CASE ExportFsdp(r)
  BY <1>9 DEF ExportFsdp, Start, Fault, Fail
<1>10. CASE Exported(r)
  BY <1>10 DEF Exported
<1>11. CASE ExportMerge(r)
  BY <1>11 DEF ExportMerge, Start
<1>12. CASE Sweep(r)
  BY <1>12 DEF Sweep, Fault
<1>13. CASE CreateCompletion(r)
  BY <1>13 DEF CreateCompletion
<1>14. CASE SealCompletion(r)
  BY <1>14 DEF SealCompletion, Fault
<1>15. CASE TrainingEnds(r)
  BY <1>15 DEF TrainingEnds, Fault, Running, End
<1>16. CASE WorkersEnd(r)
  BY <1>16 DEF WorkersEnd, End
<1>17. CASE FsdpEnds(r)
  BY <1>17 DEF FsdpEnds, Fault, Running, End
<1>18. CASE MergeSaves(r)
  BY <1>18 DEF MergeSaves, Running, Advance
<1>19. CASE MergePublishes(r)
  BY <1>19 DEF MergePublishes, Running, Advance
<1>20. CASE MergeEnds(r)
  BY <1>20 DEF MergeEnds, Running, End, Fault
<1>21. CASE Interrupt(r)
  BY <1>21 DEF Interrupt, Signal
<1>22. CASE Kill(r)
  BY <1>22 DEF Kill, Signal
<1>q. QED
  BY <1>1, <1>2, <1>3, <1>4, <1>5, <1>6, <1>7, <1>8, <1>9, <1>10, <1>11, <1>12, <1>13, <1>14,
     <1>15, <1>16, <1>17, <1>18, <1>19, <1>20, <1>21, <1>22
  DEF AnyStep, RunStep, RunnerStep, CommandStep

\* The step of a run leaves the other runs alone.
LEMMA FrameStep ==
    ASSUME SftTypeOK, NEW r \in Runs, AnyStep(r), NEW s \in Runs, s # r
    PROVE  /\ pc'[s] = pc[s] /\ target'[s] = target[s] /\ job'[s] = job[s]
           /\ life'[s] = life[s] /\ progress'[s] = progress[s]
<1> USE SftAssumption DEF SftTypeOK, At, Goto, Set, runner, command, sftFiles, budget,
        Locked, Exporting, Terminal, Over
<1>1. CASE Validate(r)
  BY <1>1 DEF Validate
<1>2. CASE TakeLock(r)
  BY <1>2 DEF TakeLock
<1>3. CASE Audit(r)
  BY <1>3 DEF Audit, Fault
<1>4. CASE MakeRoot(r)
  BY <1>4 DEF MakeRoot
<1>5. CASE WritePlan(r)
  BY <1>5 DEF WritePlan, Fault
<1>6. CASE Train(r)
  BY <1>6 DEF Train, Start
<1>7. CASE Trained(r)
  BY <1>7 DEF Trained
<1>8. CASE Unlock(r)
  BY <1>8 DEF Unlock
<1>9. CASE ExportFsdp(r)
  BY <1>9 DEF ExportFsdp, Start, Fault, Fail
<1>10. CASE Exported(r)
  BY <1>10 DEF Exported
<1>11. CASE ExportMerge(r)
  BY <1>11 DEF ExportMerge, Start
<1>12. CASE Sweep(r)
  BY <1>12 DEF Sweep, Fault
<1>13. CASE CreateCompletion(r)
  BY <1>13 DEF CreateCompletion
<1>14. CASE SealCompletion(r)
  BY <1>14 DEF SealCompletion, Fault
<1>15. CASE TrainingEnds(r)
  BY <1>15 DEF TrainingEnds, Fault, Running, End
<1>16. CASE WorkersEnd(r)
  BY <1>16 DEF WorkersEnd, End
<1>17. CASE FsdpEnds(r)
  BY <1>17 DEF FsdpEnds, Fault, Running, End
<1>18. CASE MergeSaves(r)
  BY <1>18 DEF MergeSaves, Running, Advance
<1>19. CASE MergePublishes(r)
  BY <1>19 DEF MergePublishes, Running, Advance
<1>20. CASE MergeEnds(r)
  BY <1>20 DEF MergeEnds, Running, End, Fault
<1>21. CASE Interrupt(r)
  BY <1>21 DEF Interrupt, Signal
<1>22. CASE Kill(r)
  BY <1>22 DEF Kill, Signal
<1>q. QED
  BY <1>1, <1>2, <1>3, <1>4, <1>5, <1>6, <1>7, <1>8, <1>9, <1>10, <1>11, <1>12, <1>13, <1>14,
     <1>15, <1>16, <1>17, <1>18, <1>19, <1>20, <1>21, <1>22
  DEF AnyStep, RunStep, RunnerStep, CommandStep

LEMMA OwnFileStep ==
    ASSUME SftTypeOK, NEW r \in Runs, AnyStep(r), JobFlow(r), FileFlow(r)
    PROVE  FileFlow(r)'
<1> USE SftAssumption DEF SftTypeOK, At, Goto, Set, runner, command, sftFiles, budget,
        Locked, Exporting, Terminal, Over, JobFlow, FileFlow
<1>1. CASE Validate(r)
  BY <1>1 DEF Validate
<1>2. CASE TakeLock(r)
  BY <1>2 DEF TakeLock
<1>3. CASE Audit(r)
  BY <1>3 DEF Audit, Fault
<1>4. CASE MakeRoot(r)
  BY <1>4 DEF MakeRoot
<1>5. CASE WritePlan(r)
  BY <1>5 DEF WritePlan, Fault
<1>6. CASE Train(r)
  BY <1>6 DEF Train, Start
<1>7. CASE Trained(r)
  BY <1>7 DEF Trained
<1>8. CASE Unlock(r)
  BY <1>8 DEF Unlock
<1>9. CASE ExportFsdp(r)
  BY <1>9 DEF ExportFsdp, Start, Fault, Fail
<1>10. CASE Exported(r)
  BY <1>10 DEF Exported
<1>11. CASE ExportMerge(r)
  BY <1>11 DEF ExportMerge, Start
<1>12. CASE Sweep(r)
  BY <1>12 DEF Sweep, Fault
<1>13. CASE CreateCompletion(r)
  BY <1>13 DEF CreateCompletion
<1>14. CASE SealCompletion(r)
  BY <1>14 DEF SealCompletion, Fault
<1>15. CASE TrainingEnds(r)
  BY <1>15 DEF TrainingEnds, Fault, Running, End
<1>16. CASE WorkersEnd(r)
  BY <1>16 DEF WorkersEnd, End
<1>17. CASE FsdpEnds(r)
  BY <1>17 DEF FsdpEnds, Fault, Running, End
<1>18. CASE MergeSaves(r)
  BY <1>18 DEF MergeSaves, Running, Advance
<1>19. CASE MergePublishes(r)
  BY <1>19 DEF MergePublishes, Running, Advance
<1>20. CASE MergeEnds(r)
  BY <1>20 DEF MergeEnds, Running, End, Fault
<1>21. CASE Interrupt(r)
  BY <1>21 DEF Interrupt, Signal
<1>22. CASE Kill(r)
  BY <1>22 DEF Kill, Signal
<1>q. QED
  BY <1>1, <1>2, <1>3, <1>4, <1>5, <1>6, <1>7, <1>8, <1>9, <1>10, <1>11, <1>12, <1>13, <1>14,
     <1>15, <1>16, <1>17, <1>18, <1>19, <1>20, <1>21, <1>22
  DEF AnyStep, RunStep, RunnerStep, CommandStep

\* Where FileFlow says anything, the run owns its target.
LEMMA FileStep ==
    ASSUME SftTypeOK, Ownership, NEW r \in Runs, AnyStep(r), NEW s \in Runs,
           JobFlow(r), FileFlow(r), JobFlow(s), FileFlow(s)
    PROVE  FileFlow(s)'
<1>1. CASE s = r
  BY <1>1, OwnFileStep
<1>2. CASE s # r /\ Owns(s)
  <2>1. ~(Owns(r) /\ target[r] = target[s])
    BY <1>2 DEF Ownership
  <2>2. target[s] \in Targets
    BY DEF SftTypeOK
  <2> QED
    BY <1>2, <2>1, <2>2, OthersStep, FrameStep DEF FileFlow
<1>3. CASE s # r /\ ~Owns(s)
  BY <1>3, FrameStep DEF FileFlow, Owns, Exporting
<1> QED
  BY <1>1, <1>2, <1>3

LEMMA CompletedStep ==
    ASSUME SftTypeOK, Ownership, NEW r \in Runs, AnyStep(r), NEW t \in Targets,
           \A s \in Runs : LockFlow(s) /\ JobFlow(s) /\ FileFlow(s), Completed(t)
    PROVE  Completed(t)'
<1> USE SftAssumption DEF SftTypeOK, At, Goto, Set, runner, command, sftFiles, budget,
        Locked, Exporting, Terminal, Over, Ownership, Owns, LockFlow, JobFlow, FileFlow, Completed
<1>1. CASE Validate(r)
  BY <1>1 DEF Validate
<1>2. CASE TakeLock(r)
  BY <1>2 DEF TakeLock
<1>3. CASE Audit(r)
  BY <1>3 DEF Audit, Fault
<1>4. CASE MakeRoot(r)
  BY <1>4 DEF MakeRoot
<1>5. CASE WritePlan(r)
  BY <1>5 DEF WritePlan, Fault
<1>6. CASE Train(r)
  BY <1>6 DEF Train, Start
<1>7. CASE Trained(r)
  BY <1>7 DEF Trained
<1>8. CASE Unlock(r)
  BY <1>8 DEF Unlock
<1>9. CASE ExportFsdp(r)
  BY <1>9 DEF ExportFsdp, Start, Fault, Fail
<1>10. CASE Exported(r)
  BY <1>10 DEF Exported
<1>11. CASE ExportMerge(r)
  BY <1>11 DEF ExportMerge, Start
<1>12. CASE Sweep(r)
  BY <1>12 DEF Sweep, Fault
<1>13. CASE CreateCompletion(r)
  BY <1>13 DEF CreateCompletion
<1>14. CASE SealCompletion(r)
  BY <1>14 DEF SealCompletion, Fault
<1>15. CASE TrainingEnds(r)
  BY <1>15 DEF TrainingEnds, Fault, Running, End
<1>16. CASE WorkersEnd(r)
  BY <1>16 DEF WorkersEnd, End
<1>17. CASE FsdpEnds(r)
  BY <1>17 DEF FsdpEnds, Fault, Running, End
<1>18. CASE MergeSaves(r)
  BY <1>18 DEF MergeSaves, Running, Advance
<1>19. CASE MergePublishes(r)
  BY <1>19 DEF MergePublishes, Running, Advance
<1>20. CASE MergeEnds(r)
  BY <1>20 DEF MergeEnds, Running, End, Fault
<1>21. CASE Interrupt(r)
  BY <1>21 DEF Interrupt, Signal
<1>22. CASE Kill(r)
  BY <1>22 DEF Kill, Signal
<1>q. QED
  BY <1>1, <1>2, <1>3, <1>4, <1>5, <1>6, <1>7, <1>8, <1>9, <1>10, <1>11, <1>12, <1>13, <1>14,
     <1>15, <1>16, <1>17, <1>18, <1>19, <1>20, <1>21, <1>22
  DEF AnyStep, RunStep, RunnerStep, CommandStep

LEMMA MergedStep ==
    ASSUME SftTypeOK, MergedIsWhole, NEW r \in Runs, AnyStep(r)
    PROVE  MergedIsWhole' /\ \A t \in Targets : merged[t] = "whole" => merged'[t] = "whole"
<1> USE SftAssumption DEF SftTypeOK, At, Goto, Set, runner, command, sftFiles, budget,
        Locked, Exporting, Terminal, Over, MergedIsWhole
<1>1. CASE Validate(r)
  BY <1>1 DEF Validate
<1>2. CASE TakeLock(r)
  BY <1>2 DEF TakeLock
<1>3. CASE Audit(r)
  BY <1>3 DEF Audit, Fault
<1>4. CASE MakeRoot(r)
  BY <1>4 DEF MakeRoot
<1>5. CASE WritePlan(r)
  BY <1>5 DEF WritePlan, Fault
<1>6. CASE Train(r)
  BY <1>6 DEF Train, Start
<1>7. CASE Trained(r)
  BY <1>7 DEF Trained
<1>8. CASE Unlock(r)
  BY <1>8 DEF Unlock
<1>9. CASE ExportFsdp(r)
  BY <1>9 DEF ExportFsdp, Start, Fault, Fail
<1>10. CASE Exported(r)
  BY <1>10 DEF Exported
<1>11. CASE ExportMerge(r)
  BY <1>11 DEF ExportMerge, Start
<1>12. CASE Sweep(r)
  BY <1>12 DEF Sweep, Fault
<1>13. CASE CreateCompletion(r)
  BY <1>13 DEF CreateCompletion
<1>14. CASE SealCompletion(r)
  BY <1>14 DEF SealCompletion, Fault
<1>15. CASE TrainingEnds(r)
  BY <1>15 DEF TrainingEnds, Fault, Running, End
<1>16. CASE WorkersEnd(r)
  BY <1>16 DEF WorkersEnd, End
<1>17. CASE FsdpEnds(r)
  BY <1>17 DEF FsdpEnds, Fault, Running, End
<1>18. CASE MergeSaves(r)
  BY <1>18 DEF MergeSaves, Running, Advance
<1>19. CASE MergePublishes(r)
  BY <1>19 DEF MergePublishes, Running, Advance
<1>20. CASE MergeEnds(r)
  BY <1>20 DEF MergeEnds, Running, End, Fault
<1>21. CASE Interrupt(r)
  BY <1>21 DEF Interrupt, Signal
<1>22. CASE Kill(r)
  BY <1>22 DEF Kill, Signal
<1>q. QED
  BY <1>1, <1>2, <1>3, <1>4, <1>5, <1>6, <1>7, <1>8, <1>9, <1>10, <1>11, <1>12, <1>13, <1>14,
     <1>15, <1>16, <1>17, <1>18, <1>19, <1>20, <1>21, <1>22
  DEF AnyStep, RunStep, RunnerStep, CommandStep

LEMMA SftStepKeeps ==
    ASSUME SftInv, NEW r \in Runs, AnyStep(r)
    PROVE  SftInv'
<1>1. SftTypeOK' /\ Ownership' /\ MergedIsWhole'
  BY SftTypeStep, OwnershipStep, MergedStep DEF SftInv
<1>2. \A s \in Runs : LockFlow(s)' /\ JobFlow(s)'
  BY LockStep, JobStep DEF SftInv
<1>3. \A s \in Runs : FileFlow(s)'
  BY FileStep DEF SftInv
<1>4. \A t \in Targets : Completed(t)'
  BY CompletedStep DEF SftInv
<1> QED
  BY <1>1, <1>2, <1>3, <1>4 DEF SftInv

LEMMA SftFrame ==
    ASSUME SftInv, UNCHANGED <<runner, command, sftFiles>>,
           signals' \in 0 .. MaxSignals, faults' \in 0 .. MaxFaults
    PROVE  SftInv'
BY DEF SftInv, SftTypeOK, Ownership, Owns, LockFlow, JobFlow, FileFlow, Completed, MergedIsWhole,
       runner, command, sftFiles

(***************************************************************************)
(* Launches.                                                               *)
(***************************************************************************)
\* What the arms load.
Published == \A t \in Inputs : merged[t] = "whole"

\* A launch that got beyond its checks, and what it started.
Loaded ==
    /\ \A n \in Launches : at[n] \notin Ended => Published
    /\ \A n \in Launches, a \in Arms : trainer[n][a] # "none" => Published

\* What is recorded was decided.
RecordFlow == Here("record") /\ Arm \in Arms => result[Arm] # "none"

AtOneOf(places) == launches > 0 /\ at[launches] \in places

\* The loops stay in the list; only the sequential launcher looks for reuse.
InLoop ==
    /\ place \in DOMAIN selected
    /\ Dual => ~Here("arm")

Quiet(n, a) == trainer[n][a] \notin {"live", "term"}

\* Which trainers have ended or were killed.
Stilled ==
    /\ \A n \in Launches, a \in Arms : n > launches \/ at[n] = "over" => Quiet(n, a)
    /\ AtOneOf({"arm", "merge", "merging", "record", "summary"}) =>
            \A a \in Arms : Quiet(launches, a)
    /\ Here("spawn") /\ ~Dual => \A a \in Arms : Quiet(launches, a)
    /\ AtOneOf({"spawn", "note"} \cup Waiting) => \A a \in Arms \ Awaited : Quiet(launches, a)
    /\ Dual /\ AtOneOf({"wait", "terminate"}) => place = 1
    /\ Dual /\ Here("reap") => \A k \in 1 .. place - 1 : Quiet(launches, selected[k])

\* An earlier launch started a merge of the arm.
MergedBefore(a) == \E n \in Launches : n < launches /\ merger[n][a] # "none"

SavedBy(n, a) == {SaveOrder[k] : k \in 1 .. written[n][a]}

Unmerged(first) == \A k \in DOMAIN selected : k >= first => merger[launches][selected[k]] = "none"

\* What merge commands were started and what they have written.
MergeFlow ==
    /\ \A n \in Launches, a \in Arms :
        /\ n > launches => merger[n][a] = "none"
        /\ merger[n][a] = "none" => written[n][a] = 0
        /\ merger[n][a] = "zero" => written[n][a] = 4
    /\ Dual /\ AtOneOf({"spawn", "note"} \cup Waiting) => Unmerged(1)
    /\ AtOneOf({"arm", "spawn", "note", "merge"} \cup Waiting) => Unmerged(place)
    /\ AtOneOf({"merging", "record"}) => Unmerged(place + 1)

\* Without an earlier merge the model is what this launch has written.
FilesFlow ==
    \A a \in Arms : ~MergedBefore(a) =>
        /\ launches = 0 => files[a] = {}
        /\ launches > 0 => files[a] = SavedBy(launches, a)
        /\ result[a] = "complete" \/ status[a] = "complete" => files[a] = Whole

\* What a merge command wrote stays.
Kept == \A n \in Launches, a \in Arms : SavedBy(n, a) \subseteq files[a]

LaunchFlow == InLoop /\ Stilled /\ MergeFlow /\ FilesFlow /\ Kept

IInv == SftInv /\ ArmsTypeOK /\ Loaded /\ RecordFlow /\ LaunchFlow

LEMMA Nested ==
    ASSUME NEW L, NEW A, NEW B, NEW f \in [L -> [A -> B]], NEW n, NEW a, NEW b \in B
    PROVE  [f EXCEPT ![n][a] = b] \in [L -> [A -> B]]
OBVIOUS

LEMMA Updated ==
    ASSUME NEW L, NEW A, NEW B, NEW f \in [L -> [A -> B]], NEW n \in L, NEW a \in A, NEW b
    PROVE  \A m \in L, c \in A : [f EXCEPT ![n][a] = b][m][c] = IF m = n /\ c = a THEN b ELSE f[m][c]
OBVIOUS

LEMMA OfLaunchTyped ==
    ASSUME NEW B, NEW f \in [Launches -> [Arms -> B]], NEW b \in B
    PROVE  OfLaunch(f, b) \in [Launches -> [Arms -> B]]
BY DEF OfLaunch

LEMMA ArmsFrame ==
    ASSUME SftTypeOK, ArmsStep
    PROVE  /\ UNCHANGED <<runner, command, sftFiles>>
           /\ signals' \in 0 .. MaxSignals /\ faults' \in 0 .. MaxFaults
<1> DEFINE G == /\ UNCHANGED <<runner, command, sftFiles>>
                /\ signals' \in 0 .. MaxSignals /\ faults' \in 0 .. MaxFaults
<1> USE SftAssumption DEF SftTypeOK, sftVars, budget
<1>1. CASE Launch
  BY <1>1 DEF Launch
<1>2. CASE ReuseArm
  BY <1>2 DEF ReuseArm, NextArm, Of, Fault, Raise
<1>3. CASE Spawn
  BY <1>3 DEF Spawn, OfLaunch, Fault, Raise
<1>4. CASE Note
  BY <1>4 DEF Note, NextArm, Of, Fault, Raise
<1>5. CASE TrainersReturned
  BY <1>5 DEF TrainersReturned
<1>6. CASE Terminate
  BY <1>6 DEF Terminate
<1>7. CASE Reap
  BY <1>7 DEF Reap, Reaped, NextArm, Of, OfLaunch
<1>8. CASE MergeArm
  BY <1>8 DEF MergeArm, Decide, Of, OfLaunch, Fault, Raise
<1>9. CASE MergeReturned
  BY <1>9 DEF MergeReturned, Decide, Of
<1>10. CASE Record
  BY <1>10 DEF Record, Of, NextArm, Fault, Raise
<1>11. CASE Summarise
  BY <1>11 DEF Summarise, Fault
<1>12. CASE InterruptLaunch
  BY <1>12 DEF InterruptLaunch, Signal, Raise, OfLaunch
<1>13. CASE KillLaunch
  BY <1>13 DEF KillLaunch, Signal
<1>14. ASSUME NEW n \in Launches, NEW a \in Arms, TrainerEnds(n, a) PROVE G
  BY <1>14 DEF TrainerEnds, Fault
<1>15. ASSUME NEW n \in Launches, NEW a \in Arms, KilledTrainerEnds(n, a) PROVE G
  BY <1>15 DEF KilledTrainerEnds
<1>16. ASSUME NEW n \in Launches, NEW a \in Arms, MergerSaves(n, a) PROVE G
  BY <1>16 DEF MergerSaves
<1>17. ASSUME NEW n \in Launches, NEW a \in Arms, MergerEnds(n, a) PROVE G
  BY <1>17 DEF MergerEnds, Fault
<1>q. QED
  BY <1>1, <1>2, <1>3, <1>4, <1>5, <1>6, <1>7, <1>8, <1>9, <1>10, <1>11, <1>12, <1>13, <1>14,
     <1>15, <1>16, <1>17
  DEF ArmsStep, LaunchStep, ChildStep

LEMMA ControlTypeStep ==
    ASSUME ArmsTypeOK, RecordFlow, ArmsStep
    PROVE  /\ mode' \in Modes
           /\ at' \in [Launches -> LaunchPlaces]
           /\ launches' \in 0 .. MaxLaunches
           /\ selected' \in {AllArms} \cup Selections
           /\ place' \in Nat \ {0}
<1> DEFINE G == /\ mode' \in Modes
                /\ at' \in [Launches -> LaunchPlaces]
                /\ launches' \in 0 .. MaxLaunches
                /\ selected' \in {AllArms} \cup Selections
                /\ place' \in Nat \ {0}
<1> SUFFICES G
  OBVIOUS
<1> USE SftAssumption, ArmsAssumption DEF ArmsTypeOK, Here, Move, Launches, LaunchPlaces, Ended,
        Waiting, memory, children, armFiles
<1>1. CASE Launch
  <2>1. at' \in [Launches -> LaunchPlaces]
    BY <1>1 DEF Launch
  <2>2. selected' \in {AllArms} \cup Selections
    <3>1. CASE Dual
      BY <1>1, <3>1 DEF Launch
    <3>2. CASE ~Dual
      BY <1>1, <3>2 DEF Launch
    <3> QED
      BY <3>1, <3>2
  <2>3. launches' \in 0 .. MaxLaunches /\ place' \in Nat \ {0} /\ mode' \in Modes
    BY <1>1 DEF Launch
  <2> QED
    BY <2>1, <2>2, <2>3
<1>2. CASE ReuseArm
  <2>1. NextArm("arm", "summary", place) => place' \in Nat \ {0} /\ at' \in [Launches -> LaunchPlaces]
    BY DEF NextArm
  <2>2. Move("spawn") => at' \in [Launches -> LaunchPlaces]
    OBVIOUS
  <2>3. Raise => at' \in [Launches -> LaunchPlaces]
    BY DEF Raise
  <2>4. UNCHANGED <<mode, launches, selected>>
    BY <1>2 DEF ReuseArm
  <2>5. \/ NextArm("arm", "summary", place)
        \/ Move("spawn") /\ UNCHANGED place
        \/ Raise /\ UNCHANGED place
    BY <1>2 DEF ReuseArm
  <2> HIDE DEF Move, Launches, LaunchPlaces
  <2> QED
    BY <2>1, <2>2, <2>3, <2>4, <2>5
<1>3. CASE Spawn
  BY <1>3 DEF Spawn, OfLaunch, Fault, Raise
<1>4. CASE Note
  BY <1>4 DEF Note, NextArm, Of, Fault, Raise
<1>5. CASE TrainersReturned
  BY <1>5 DEF TrainersReturned
<1>6. CASE Terminate
  BY <1>6 DEF Terminate
<1>7. CASE Reap
  <2>1. Reaped => place' \in Nat \ {0} /\ at' \in [Launches -> LaunchPlaces]
    BY DEF Reaped, NextArm
  <2>2. UNCHANGED <<at, place>> \/ Reaped
    <3>1. CASE Dual
      BY <1>7, <3>1 DEF Reap
    <3>2. CASE ~Dual
      BY <1>7, <3>2 DEF Reap
    <3> QED
      BY <3>1, <3>2
  <2>3. UNCHANGED <<mode, launches, selected>>
    BY <1>7 DEF Reap
  <2> QED
    BY <2>1, <2>2, <2>3
<1>8. CASE MergeArm
  BY <1>8 DEF MergeArm, Decide, Of, OfLaunch, Fault, Raise
<1>9. CASE MergeReturned
  BY <1>9 DEF MergeReturned, Decide, Of
<1>10. CASE Record
  BY <1>10 DEF Record, Of, NextArm, Fault, Raise
<1>11. CASE Summarise
  BY <1>11 DEF Summarise, Fault
<1>12. CASE InterruptLaunch
  BY <1>12 DEF InterruptLaunch, Signal, Raise, OfLaunch
<1>13. CASE KillLaunch
  BY <1>13 DEF KillLaunch, Signal
<1>14. ASSUME NEW n \in Launches, NEW a \in Arms, TrainerEnds(n, a) PROVE G
  BY <1>14 DEF TrainerEnds, Fault
<1>15. ASSUME NEW n \in Launches, NEW a \in Arms, KilledTrainerEnds(n, a) PROVE G
  BY <1>15 DEF KilledTrainerEnds
<1>16. ASSUME NEW n \in Launches, NEW a \in Arms, MergerSaves(n, a) PROVE G
  BY <1>16 DEF MergerSaves
<1>17. ASSUME NEW n \in Launches, NEW a \in Arms, MergerEnds(n, a) PROVE G
  BY <1>17 DEF MergerEnds, Fault
<1>q. QED
  BY <1>1, <1>2, <1>3, <1>4, <1>5, <1>6, <1>7, <1>8, <1>9, <1>10, <1>11, <1>12, <1>13, <1>14,
     <1>15, <1>16, <1>17
  DEF ArmsStep, LaunchStep, ChildStep

LEMMA InterruptTypeStep ==
    ASSUME ArmsTypeOK, InLoop, ArmsStep
    PROVE  interrupted' \in SUBSET Arms
<1> DEFINE G == interrupted' \in SUBSET Arms
<1> USE DEF ArmsTypeOK, memory
<1>1. Awaited \subseteq Arms
  BY ArmsAssumption, SelectionAssumption DEF InLoop, Awaited, Selected, Arm
<1>2. CASE Launch
  BY <1>2 DEF Launch
<1>3. CASE ReuseArm \/ Spawn \/ Note \/ TrainersReturned \/ Terminate \/ Reap
  BY <1>3 DEF ReuseArm, Spawn, Note, TrainersReturned, Terminate, Reap
<1>4. CASE MergeArm \/ MergeReturned \/ Record \/ Summarise \/ KillLaunch
  BY <1>4 DEF MergeArm, MergeReturned, Record, Summarise, KillLaunch
<1>5. CASE InterruptLaunch
  BY <1>1, <1>5 DEF InterruptLaunch
<1>6. ASSUME NEW n \in Launches, NEW a \in Arms, ChildStep(n, a) PROVE G
  BY <1>6 DEF ChildStep, TrainerEnds, KilledTrainerEnds, MergerSaves, MergerEnds
<1> QED
  BY <1>2, <1>3, <1>4, <1>5, <1>6 DEF ArmsStep, LaunchStep

LEMMA MemoryTypeStep ==
    ASSUME ArmsTypeOK, RecordFlow, ArmsStep
    PROVE  /\ returned' \in [Arms -> {"none", "zero", "nonzero"}]
           /\ result' \in [Arms -> {"none", "complete", "failed"}]
<1> DEFINE G == /\ returned' \in [Arms -> {"none", "zero", "nonzero"}]
                /\ result' \in [Arms -> {"none", "complete", "failed"}]
<1> SUFFICES G
  OBVIOUS
<1> USE SftAssumption, ArmsAssumption DEF ArmsTypeOK, Here, Move, Launches, LaunchPlaces, Ended,
        Waiting, memory, children, armFiles
<1>1. CASE Launch
  BY <1>1 DEF Launch
<1>2. CASE ReuseArm
  BY <1>2 DEF ReuseArm, NextArm, Of, Fault, Raise
<1>3. CASE Spawn
  BY <1>3 DEF Spawn, OfLaunch, Fault, Raise
<1>4. CASE Note
  BY <1>4 DEF Note, NextArm, Of, Fault, Raise
<1>5. CASE TrainersReturned
  <2>1. launches \in Launches
    BY <1>5 DEF TrainersReturned
  <2>2. ASSUME NEW a \in Awaited, a \in Arms
        PROVE  trainer[launches][a] \in {"none", "zero", "nonzero"}
    <3>1. trainer[launches][a] \in {"none", "live", "term", "kill", "zero", "nonzero"}
      BY <2>1, <2>2
    <3> QED
      BY <1>5, <2>2, <3>1 DEF TrainersReturned, Alive
  <2>3. returned' \in [Arms -> {"none", "zero", "nonzero"}]
    BY <1>5, <2>2 DEF TrainersReturned
  <2> QED
    BY <1>5, <2>3 DEF TrainersReturned
<1>6. CASE Terminate
  BY <1>6 DEF Terminate
<1>7. CASE Reap
  <2>1. launches \in Launches
    BY <1>7 DEF Reap
  <2>2. returned' = returned \/ (~Alive(launches, Arm) /\ returned' = Of(returned, trainer[launches][Arm]))
    BY <1>7 DEF Reap
  <2>3. CASE ~Alive(launches, Arm) /\ returned' = Of(returned, trainer[launches][Arm]) /\ Arm \in Arms
    <3>1. trainer[launches][Arm] \in {"none", "live", "term", "kill", "zero", "nonzero"}
      BY <2>1, <2>3
    <3>2. trainer[launches][Arm] \in {"none", "zero", "nonzero"}
      BY <2>3, <3>1 DEF Alive
    <3> QED
      BY <1>7, <2>3, <3>2 DEF Reap, Of
  <2>4. CASE returned' = Of(returned, trainer[launches][Arm]) /\ Arm \notin Arms
    BY <1>7, <2>4 DEF Reap, Of
  <2>5. CASE returned' = returned
    BY <1>7, <2>5 DEF Reap
  <2> QED
    BY <2>2, <2>3, <2>4, <2>5
<1>8. CASE MergeArm
  BY <1>8 DEF MergeArm, Decide, Of, OfLaunch, Fault, Raise
<1>9. CASE MergeReturned
  BY <1>9 DEF MergeReturned, Decide, Of
<1>10. CASE Record
  BY <1>10 DEF Record, Of, NextArm, Fault, Raise
<1>11. CASE Summarise
  BY <1>11 DEF Summarise, Fault
<1>12. CASE InterruptLaunch
  BY <1>12 DEF InterruptLaunch, Signal, Raise, OfLaunch
<1>13. CASE KillLaunch
  BY <1>13 DEF KillLaunch, Signal
<1>14. ASSUME NEW n \in Launches, NEW a \in Arms, TrainerEnds(n, a) PROVE G
  BY <1>14 DEF TrainerEnds, Fault
<1>15. ASSUME NEW n \in Launches, NEW a \in Arms, KilledTrainerEnds(n, a) PROVE G
  BY <1>15 DEF KilledTrainerEnds
<1>16. ASSUME NEW n \in Launches, NEW a \in Arms, MergerSaves(n, a) PROVE G
  BY <1>16 DEF MergerSaves
<1>17. ASSUME NEW n \in Launches, NEW a \in Arms, MergerEnds(n, a) PROVE G
  BY <1>17 DEF MergerEnds, Fault
<1>q. QED
  BY <1>1, <1>2, <1>3, <1>4, <1>5, <1>6, <1>7, <1>8, <1>9, <1>10, <1>11, <1>12, <1>13, <1>14,
     <1>15, <1>16, <1>17
  DEF ArmsStep, LaunchStep, ChildStep

LEMMA ChildTypeStep ==
    ASSUME ArmsTypeOK, RecordFlow, ArmsStep
    PROVE  /\ trainer' \in [Launches -> [Arms -> {"none", "live", "term", "kill", "zero", "nonzero"}]]
           /\ merger' \in [Launches -> [Arms -> {"none", "live", "zero", "nonzero"}]]
           /\ written' \in [Launches -> [Arms -> 0 .. 4]]
<1> DEFINE G == /\ trainer' \in [Launches -> [Arms -> {"none", "live", "term", "kill", "zero", "nonzero"}]]
                /\ merger' \in [Launches -> [Arms -> {"none", "live", "zero", "nonzero"}]]
                /\ written' \in [Launches -> [Arms -> 0 .. 4]]
<1> SUFFICES G
  OBVIOUS
<1> USE SftAssumption, ArmsAssumption DEF ArmsTypeOK, Here, Move, Launches, LaunchPlaces, Ended,
        Waiting, memory, children, armFiles
<1>1. CASE Launch
  BY <1>1 DEF Launch
<1>2. CASE ReuseArm
  BY <1>2 DEF ReuseArm, NextArm, Of, Fault, Raise
<1>3. CASE Spawn
  <2>1. OfLaunch(trainer, "live") \in [Launches -> [Arms -> {"none", "live", "term", "kill", "zero", "nonzero"}]]
    BY OfLaunchTyped
  <2> QED
    BY <1>3, <2>1 DEF Spawn
<1>4. CASE Note
  BY <1>4 DEF Note, NextArm, Of, Fault, Raise
<1>5. CASE TrainersReturned
  BY <1>5 DEF TrainersReturned
<1>6. CASE Terminate
  <2> DEFINE t == [a \in Arms |-> IF a \in Awaited /\ trainer[launches][a] = "live"
                                 THEN "term" ELSE trainer[launches][a]]
  <2>1. launches \in Launches /\ trainer' = [trainer EXCEPT ![launches] = t]
    BY <1>6 DEF Terminate
  <2>2. trainer[launches] \in [Arms -> {"none", "live", "term", "kill", "zero", "nonzero"}]
    BY <2>1
  <2>3. t \in [Arms -> {"none", "live", "term", "kill", "zero", "nonzero"}]
    BY <2>2
  <2>4. UNCHANGED <<merger, written>>
    BY <1>6 DEF Terminate
  <2> QED
    BY <2>1, <2>3, <2>4
<1>7. CASE Reap
  <2>1. OfLaunch(trainer, "kill") \in [Launches -> [Arms -> {"none", "live", "term", "kill", "zero", "nonzero"}]]
    BY OfLaunchTyped
  <2> QED
    BY <1>7, <2>1 DEF Reap
<1>8. CASE MergeArm
  <2>1. OfLaunch(merger, "live") \in [Launches -> [Arms -> {"none", "live", "zero", "nonzero"}]]
    BY OfLaunchTyped
  <2> QED
    BY <1>8, <2>1 DEF MergeArm, Decide
<1>9. CASE MergeReturned
  BY <1>9 DEF MergeReturned, Decide, Of
<1>10. CASE Record
  BY <1>10 DEF Record, Of, NextArm, Fault, Raise
<1>11. CASE Summarise
  BY <1>11 DEF Summarise, Fault
<1>12. CASE InterruptLaunch
  <2>1. OfLaunch(merger, "nonzero") \in [Launches -> [Arms -> {"none", "live", "zero", "nonzero"}]]
    BY OfLaunchTyped
  <2> QED
    BY <1>12, <2>1 DEF InterruptLaunch
<1>13. CASE KillLaunch
  BY <1>13 DEF KillLaunch, Signal
<1>14. ASSUME NEW n \in Launches, NEW a \in Arms, TrainerEnds(n, a) PROVE G
  <2>1. /\ [trainer EXCEPT ![n][a] = "zero"] \in [Launches -> [Arms -> {"none", "live", "term", "kill", "zero", "nonzero"}]]
        /\ [trainer EXCEPT ![n][a] = "nonzero"] \in [Launches -> [Arms -> {"none", "live", "term", "kill", "zero", "nonzero"}]]
    BY Nested
  <2>2. \E code \in {"zero", "nonzero"} : trainer' = [trainer EXCEPT ![n][a] = code]
    BY <1>14 DEF TrainerEnds
  <2> QED
    BY <1>14, <2>1, <2>2 DEF TrainerEnds
<1>15. ASSUME NEW n \in Launches, NEW a \in Arms, KilledTrainerEnds(n, a) PROVE G
  <2>1. [trainer EXCEPT ![n][a] = "nonzero"] \in [Launches -> [Arms -> {"none", "live", "term", "kill", "zero", "nonzero"}]]
    BY Nested
  <2> QED
    BY <1>15, <2>1 DEF KilledTrainerEnds
<1>16. ASSUME NEW n \in Launches, NEW a \in Arms, MergerSaves(n, a) PROVE G
  <2>1. written[n][a] + 1 \in 0 .. 4
    <3>1. written[n][a] \in 0 .. 4
      OBVIOUS
    <3> QED
      BY <1>16, <3>1 DEF MergerSaves
  <2>2. [written EXCEPT ![n][a] = written[n][a] + 1] \in [Launches -> [Arms -> 0 .. 4]]
    BY <2>1, Nested
  <2> QED
    BY <1>16, <2>2 DEF MergerSaves
<1>17. ASSUME NEW n \in Launches, NEW a \in Arms, MergerEnds(n, a) PROVE G
  <2>1. /\ [merger EXCEPT ![n][a] = "zero"] \in [Launches -> [Arms -> {"none", "live", "zero", "nonzero"}]]
        /\ [merger EXCEPT ![n][a] = "nonzero"] \in [Launches -> [Arms -> {"none", "live", "zero", "nonzero"}]]
    BY Nested
  <2> QED
    BY <1>17, <2>1 DEF MergerEnds
<1>q. QED
  BY <1>1, <1>2, <1>3, <1>4, <1>5, <1>6, <1>7, <1>8, <1>9, <1>10, <1>11, <1>12, <1>13, <1>14,
     <1>15, <1>16, <1>17
  DEF ArmsStep, LaunchStep, ChildStep

LEMMA FileTypeStep ==
    ASSUME ArmsTypeOK, RecordFlow, ArmsStep
    PROVE  /\ saved' \in [Arms -> BOOLEAN]
           /\ files' \in [Arms -> SUBSET Whole]
           /\ status' \in [Arms -> {"absent", "running", "complete", "failed"}]
           /\ summary' \in {"none", "complete", "failed"}
<1> DEFINE G == /\ saved' \in [Arms -> BOOLEAN]
                /\ files' \in [Arms -> SUBSET Whole]
                /\ status' \in [Arms -> {"absent", "running", "complete", "failed"}]
                /\ summary' \in {"none", "complete", "failed"}
<1> SUFFICES G
  OBVIOUS
<1> USE SftAssumption, ArmsAssumption DEF ArmsTypeOK, Here, Move, Launches, LaunchPlaces, Ended,
        Waiting, memory, children, armFiles
<1>1. CASE Launch
  BY <1>1 DEF Launch
<1>2. CASE ReuseArm
  BY <1>2 DEF ReuseArm, NextArm, Of, Fault, Raise
<1>3. CASE Spawn
  BY <1>3 DEF Spawn, OfLaunch, Fault, Raise
<1>4. CASE Note
  BY <1>4 DEF Note, NextArm, Of, Fault, Raise
<1>5. CASE TrainersReturned
  BY <1>5 DEF TrainersReturned
<1>6. CASE Terminate
  BY <1>6 DEF Terminate
<1>7. CASE Reap
  BY <1>7 DEF Reap, Reaped, NextArm, Of, OfLaunch
<1>8. CASE MergeArm
  BY <1>8 DEF MergeArm, Decide, Of, OfLaunch, Fault, Raise
<1>9. CASE MergeReturned
  BY <1>9 DEF MergeReturned, Decide, Of
<1>10. CASE Record
  <2>1. Of(status, result[Arm]) \in [Arms -> {"absent", "running", "complete", "failed"}]
    <3>1. CASE Arm \in Arms
      <4>1. result[Arm] \in {"complete", "failed"}
        BY <1>10, <3>1 DEF Record, RecordFlow
      <4> QED
        BY <4>1 DEF Of
    <3>2. CASE Arm \notin Arms
      BY <3>2 DEF Of
    <3> QED
      BY <3>1, <3>2
  <2> QED
    BY <1>10, <2>1 DEF Record
<1>11. CASE Summarise
  BY <1>11 DEF Summarise, Fault
<1>12. CASE InterruptLaunch
  BY <1>12 DEF InterruptLaunch, Signal, Raise, OfLaunch
<1>13. CASE KillLaunch
  BY <1>13 DEF KillLaunch, Signal
<1>14. ASSUME NEW n \in Launches, NEW a \in Arms, TrainerEnds(n, a) PROVE G
  BY <1>14 DEF TrainerEnds, Fault
<1>15. ASSUME NEW n \in Launches, NEW a \in Arms, KilledTrainerEnds(n, a) PROVE G
  BY <1>15 DEF KilledTrainerEnds
<1>16. ASSUME NEW n \in Launches, NEW a \in Arms, MergerSaves(n, a) PROVE G
  <2>1. SaveOrder[written[n][a] + 1] \in Whole
    <3>1. written[n][a] + 1 \in 1 .. 4
      <4>1. written[n][a] \in 0 .. 4
        OBVIOUS
      <4> QED
        BY <1>16, <4>1 DEF MergerSaves
    <3> QED
      BY <3>1 DEF Whole
  <2> QED
    BY <1>16, <2>1 DEF MergerSaves
<1>17. ASSUME NEW n \in Launches, NEW a \in Arms, MergerEnds(n, a) PROVE G
  BY <1>17 DEF MergerEnds, Fault
<1>q. QED
  BY <1>1, <1>2, <1>3, <1>4, <1>5, <1>6, <1>7, <1>8, <1>9, <1>10, <1>11, <1>12, <1>13, <1>14,
     <1>15, <1>16, <1>17
  DEF ArmsStep, LaunchStep, ChildStep

LEMMA ArmsTypeStep ==
    ASSUME ArmsTypeOK, RecordFlow, InLoop, ArmsStep
    PROVE  ArmsTypeOK'
BY ControlTypeStep, InterruptTypeStep, MemoryTypeStep, ChildTypeStep, FileTypeStep DEF ArmsTypeOK, Launches, LaunchPlaces,
   Ended, Waiting, Whole

LEMMA RecordStep ==
    ASSUME ArmsTypeOK, RecordFlow, ArmsStep
    PROVE  RecordFlow'
<1> USE SftAssumption, ArmsAssumption DEF ArmsTypeOK, Here, Move, Launches, LaunchPlaces, Ended,
        Waiting, memory, children, armFiles, RecordFlow, Arm
<1>1. CASE Launch
  BY <1>1 DEF Launch
<1>2. CASE ReuseArm
  BY <1>2 DEF ReuseArm, NextArm, Of, Fault, Raise
<1>3. CASE Spawn
  BY <1>3 DEF Spawn, OfLaunch, Fault, Raise
<1>4. CASE Note
  BY <1>4 DEF Note, NextArm, Of, Fault, Raise
<1>5. CASE TrainersReturned
  BY <1>5 DEF TrainersReturned
<1>6. CASE Terminate
  BY <1>6 DEF Terminate
<1>7. CASE Reap
  BY <1>7 DEF Reap, Reaped, NextArm, Of, OfLaunch
<1>8. CASE MergeArm
  BY <1>8 DEF MergeArm, Decide, Of, OfLaunch, Fault, Raise
<1>9. CASE MergeReturned
  BY <1>9 DEF MergeReturned, Decide, Of
<1>10. CASE Record
  BY <1>10 DEF Record, Of, NextArm, Fault, Raise
<1>11. CASE Summarise
  BY <1>11 DEF Summarise, Fault
<1>12. CASE InterruptLaunch
  BY <1>12 DEF InterruptLaunch, Signal, Raise, OfLaunch
<1>13. CASE KillLaunch
  BY <1>13 DEF KillLaunch, Signal
<1>14. ASSUME NEW n \in Launches, NEW a \in Arms, TrainerEnds(n, a) PROVE RecordFlow'
  BY <1>14 DEF TrainerEnds, Fault
<1>15. ASSUME NEW n \in Launches, NEW a \in Arms, KilledTrainerEnds(n, a) PROVE RecordFlow'
  BY <1>15 DEF KilledTrainerEnds
<1>16. ASSUME NEW n \in Launches, NEW a \in Arms, MergerSaves(n, a) PROVE RecordFlow'
  BY <1>16 DEF MergerSaves
<1>17. ASSUME NEW n \in Launches, NEW a \in Arms, MergerEnds(n, a) PROVE RecordFlow'
  BY <1>17 DEF MergerEnds, Fault
<1>q. QED
  BY <1>1, <1>2, <1>3, <1>4, <1>5, <1>6, <1>7, <1>8, <1>9, <1>10, <1>11, <1>12, <1>13, <1>14,
     <1>15, <1>16, <1>17
  DEF ArmsStep, LaunchStep, ChildStep

LEMMA LoadedStep ==
    ASSUME SftInv, ArmsTypeOK, Loaded, ArmsStep
    PROVE  Loaded'
<1>0. Published' = Published
  BY ArmsFrame DEF SftInv, Published, sftFiles
<1> USE SftAssumption, ArmsAssumption DEF ArmsTypeOK, Here, Move, Launches, LaunchPlaces, Ended,
        Waiting, memory, children, armFiles, Loaded
<1>1. CASE Launch
  <2>1. (\E t \in Inputs : merged[t] = "absent") \/ Published
    BY DEF SftInv, SftTypeOK, MergedIsWhole, Published
  <2> QED
    BY <1>0, <1>1, <2>1 DEF Launch
<1>2. CASE ReuseArm
  BY <1>0, <1>2 DEF ReuseArm, NextArm, Of, Fault, Raise
<1>3. CASE Spawn
  <2>1. launches \in Launches /\ at[launches] \notin Ended
    BY <1>0, <1>3 DEF Spawn, LaunchOver
  <2>2. Published
    BY <2>1
  <2> QED
    BY <1>0, <2>2
<1>4. CASE Note
  <2>1. launches \in Launches /\ at[launches] \notin Ended
    BY <1>4 DEF Note
  <2>2. Published
    BY <2>1
  <2> QED
    BY <1>0, <2>2
<1>5. CASE TrainersReturned
  BY <1>0, <1>5 DEF TrainersReturned
<1>6. CASE Terminate
  BY <1>0, <1>6 DEF Terminate
<1>7. CASE Reap
  <2>1. launches \in Launches /\ at[launches] \notin Ended
    BY <1>0, <1>7 DEF Reap, LaunchOver
  <2>2. Published
    BY <2>1
  <2> QED
    BY <1>0, <2>2
<1>8. CASE MergeArm
  BY <1>0, <1>8 DEF MergeArm, Decide, Of, OfLaunch, Fault, Raise
<1>9. CASE MergeReturned
  BY <1>0, <1>9 DEF MergeReturned, Decide, Of
<1>10. CASE Record
  BY <1>0, <1>10 DEF Record, Of, NextArm, Fault, Raise
<1>11. CASE Summarise
  BY <1>0, <1>11 DEF Summarise, Fault
<1>12. CASE InterruptLaunch
  <2>1. launches \in Launches /\ at[launches] \notin Ended
    BY <1>0, <1>12 DEF InterruptLaunch, LaunchOver
  <2>2. Published
    BY <2>1
  <2> QED
    BY <1>0, <2>2
<1>13. CASE KillLaunch
  BY <1>0, <1>13 DEF KillLaunch, Signal
<1>14. ASSUME NEW n \in Launches, NEW a \in Arms, TrainerEnds(n, a) PROVE Loaded'
  BY <1>0, <1>14 DEF TrainerEnds, Fault
<1>15. ASSUME NEW n \in Launches, NEW a \in Arms, KilledTrainerEnds(n, a) PROVE Loaded'
  BY <1>0, <1>15 DEF KilledTrainerEnds
<1>16. ASSUME NEW n \in Launches, NEW a \in Arms, MergerSaves(n, a) PROVE Loaded'
  BY <1>0, <1>16 DEF MergerSaves
<1>17. ASSUME NEW n \in Launches, NEW a \in Arms, MergerEnds(n, a) PROVE Loaded'
  BY <1>0, <1>17 DEF MergerEnds, Fault
<1>q. QED
  BY <1>1, <1>2, <1>3, <1>4, <1>5, <1>6, <1>7, <1>8, <1>9, <1>10, <1>11, <1>12, <1>13, <1>14,
     <1>15, <1>16, <1>17
  DEF ArmsStep, LaunchStep, ChildStep

\* The arms of a launch, each of them once.
LEMMA CurrentArm ==
    ASSUME ArmsTypeOK, InLoop
    PROVE  /\ Arm \in Arms /\ Arm \in Awaited
           /\ \A k \in DOMAIN selected : selected[k] \in Arms /\ (k # place => selected[k] # Arm)
           /\ DOMAIN selected = 1 .. Len(selected)
           /\ launches > 0 => launches \in Launches
BY ArmsAssumption, SelectionAssumption DEF ArmsTypeOK, InLoop, Arm, Awaited, Selected, Launches

LEMMA InLoopStep ==
    ASSUME ArmsTypeOK, InLoop, ArmsStep
    PROVE  InLoop'
<1> USE ArmsAssumption DEF ArmsTypeOK, Here, Move, Launches, LaunchPlaces, Ended,
        Waiting, memory, children, armFiles, InLoop, Dual
<1> USE SelectionAssumption
<1>1. CASE Launch
  BY <1>1 DEF Launch
<1>2. CASE ReuseArm
  BY <1>2 DEF ReuseArm, NextArm, Raise
<1>3. CASE Spawn
  BY <1>3 DEF Spawn, OfLaunch, Raise
<1>4. CASE Note
  BY <1>4 DEF Note, NextArm, Raise
<1>5. CASE TrainersReturned
  BY <1>5 DEF TrainersReturned
<1>6. CASE Terminate
  BY <1>6 DEF Terminate
<1>7. CASE Reap
  BY <1>7 DEF Reap, Reaped, NextArm, OfLaunch
<1>8. CASE MergeArm
  BY <1>8 DEF MergeArm, Decide, Of, OfLaunch, Raise
<1>9. CASE MergeReturned
  BY <1>9 DEF MergeReturned, Decide, Of
<1>10. CASE Record
  BY <1>10 DEF Record, Of, NextArm, Raise
<1>11. CASE Summarise
  BY <1>11 DEF Summarise
<1>12. CASE InterruptLaunch
  BY <1>12 DEF InterruptLaunch, Raise, OfLaunch
<1>13. CASE KillLaunch
  BY <1>13 DEF KillLaunch
<1>14. ASSUME NEW n \in Launches, NEW a \in Arms, TrainerEnds(n, a) PROVE InLoop'
  BY <1>14 DEF TrainerEnds
<1>15. ASSUME NEW n \in Launches, NEW a \in Arms, KilledTrainerEnds(n, a) PROVE InLoop'
  BY <1>15 DEF KilledTrainerEnds
<1>16. ASSUME NEW n \in Launches, NEW a \in Arms, MergerSaves(n, a) PROVE InLoop'
  BY <1>16 DEF MergerSaves
<1>17. ASSUME NEW n \in Launches, NEW a \in Arms, MergerEnds(n, a) PROVE InLoop'
  BY <1>17 DEF MergerEnds
<1>q. QED
  BY <1>1, <1>2, <1>3, <1>4, <1>5, <1>6, <1>7, <1>8, <1>9, <1>10, <1>11, <1>12, <1>13, <1>14,
     <1>15, <1>16, <1>17
  DEF ArmsStep, LaunchStep, ChildStep

LEMMA StilledStep ==
    ASSUME ArmsTypeOK, InLoop, Stilled, ArmsStep
    PROVE  Stilled'
<1> USE ArmsAssumption DEF ArmsTypeOK, Here, Move, Launches, LaunchPlaces, Ended,
        Waiting, memory, children, armFiles, InLoop, Stilled, Quiet, AtOneOf, LaunchOver, Alive, Dual, Selected, Arm, Awaited
<1>1. CASE Launch
  BY <1>1 DEF Launch
<1>2. CASE ReuseArm
  BY <1>2 DEF ReuseArm, NextArm, Raise
<1>3. CASE Spawn
  <2>1. launches \in Launches /\ Arm \in Arms /\ Arm \in Awaited /\ at[launches] = "spawn"
    BY <1>3, CurrentArm DEF Spawn
  <2>2. UNCHANGED <<mode, launches, selected, place>> /\ Awaited' = Awaited
    BY <1>3 DEF Spawn
  <2>3. CASE trainer' = OfLaunch(trainer, "live") /\ Move("note")
    <3>1. \A n \in Launches, a \in Arms : Quiet(n, a) /\ ~(n = launches /\ a = Arm) => Quiet(n, a)'
      BY <2>1, <2>3 DEF OfLaunch
    <3>2. at'[launches] = "note" /\ \A n \in Launches : n # launches => at'[n] = at[n]
      BY <2>1, <2>3
    <3>3. \A a \in Arms \ Awaited : Quiet(launches, a)'
      BY <2>1, <2>2, <3>1
    <3>4. \A n \in Launches, a \in Arms :
            n > launches' \/ at'[n] = "over" => trainer'[n][a] \notin {"live", "term"}
      BY <2>1, <2>2, <3>1, <3>2
    <3> QED
      BY <2>1, <2>2, <3>2, <3>3, <3>4
  <2>4. CASE UNCHANGED trainer /\ Raise
    BY <2>1, <2>2, <2>4 DEF Raise
  <2> QED
    BY <1>3, <2>3, <2>4 DEF Spawn
<1>4. CASE Note
  BY <1>4 DEF Note, NextArm, Raise
<1>5. CASE TrainersReturned
  BY <1>5 DEF TrainersReturned
<1>6. CASE Terminate
  BY <1>6 DEF Terminate
<1>7. CASE Reap
  <2>1. launches \in Launches /\ Arm \in Arms /\ at[launches] = "reap"
    BY <1>7, CurrentArm DEF Reap
  <2>2. UNCHANGED <<mode, launches, selected>>
    BY <1>7 DEF Reap
  <2>3. /\ \A n \in Launches, a \in Arms : Quiet(n, a) => Quiet(n, a)'
        /\ trainer'[launches][Arm] \notin {"live", "term"}
    <3>1. CASE ~Alive(launches, Arm) /\ UNCHANGED trainer
      BY <2>2, <3>1
    <3>2. CASE trainer' = OfLaunch(trainer, "kill")
      BY <2>1, <2>2, <3>2 DEF OfLaunch
    <3> QED
      BY <1>7, <3>1, <3>2 DEF Reap
  <2>4. CASE ~Dual
    BY <1>7, <2>1, <2>2, <2>3, <2>4 DEF Reap, Reaped
  <2>5. CASE Dual
    <3>1. Reaped
      BY <1>7, <2>5 DEF Reap
    <3>2. CASE place < Len(selected)
      <4>1. at'[launches] = "reap" /\ \A n \in Launches : n # launches => at'[n] = at[n]
        BY <2>1, <2>5, <3>1, <3>2 DEF Reaped, NextArm
      <4>2. place' = place + 1
        BY <2>5, <3>1, <3>2 DEF Reaped, NextArm
      <4>3. \A k \in 1 .. place : trainer'[launches][selected[k]] \notin {"live", "term"}
        <5> SUFFICES ASSUME NEW k \in 1 .. place
                     PROVE  trainer'[launches][selected[k]] \notin {"live", "term"}
          OBVIOUS
        <5>1. CASE k = place
          BY <2>3, <5>1
        <5>2. CASE k < place
          <6>1. k \in 1 .. place - 1 /\ selected[k] \in Arms
            BY <5>2, CurrentArm
          <6>2. trainer[launches][selected[k]] \notin {"live", "term"}
            BY <2>1, <2>5, <6>1
          <6> QED
            BY <2>1, <2>3, <6>1, <6>2
        <5> QED
          BY <5>1, <5>2
      <4> QED
        BY <2>1, <2>2, <2>3, <2>5, <4>1, <4>2, <4>3
    <3>3. CASE ~(place < Len(selected))
      <4>1. ASSUME NEW a \in Arms PROVE trainer'[launches][a] \notin {"live", "term"}
        <5>1. CASE a \notin Awaited
          BY <2>1, <2>3, <5>1
        <5>2. ASSUME NEW k \in DOMAIN selected, a = selected[k]
              PROVE  trainer'[launches][a] \notin {"live", "term"}
          BY <2>1, <2>3, <2>5, <3>3, <5>2, CurrentArm
        <5> QED
          BY <2>5, <5>1, <5>2
      <4> QED
        BY <2>1, <2>2, <2>3, <2>5, <3>1, <3>3, <4>1 DEF Reaped, NextArm
    <3> QED
      BY <3>2, <3>3
  <2> QED
    BY <2>4, <2>5
<1>8. CASE MergeArm
  <2>1. UNCHANGED <<trainer, mode, launches, selected, place>> /\ launches > 0 /\ at[launches] = "merge"
    BY <1>8 DEF MergeArm
  <2>2. CASE at'[launches] \in {"record", "merging"} /\ \A n \in Launches : n # launches => at'[n] = at[n]
    BY <2>1, <2>2
  <2>3. CASE Raise
    BY <2>1, <2>3 DEF Raise
  <2> QED
    BY <1>8, <2>1, <2>2, <2>3 DEF MergeArm, Decide
<1>9. CASE MergeReturned
  BY <1>9 DEF MergeReturned, Decide, Of
<1>10. CASE Record
  BY <1>10 DEF Record, Of, NextArm, Raise
<1>11. CASE Summarise
  BY <1>11 DEF Summarise
<1>12. CASE InterruptLaunch
  BY <1>12 DEF InterruptLaunch, Raise, OfLaunch
<1>13. CASE KillLaunch
  BY <1>13 DEF KillLaunch
<1>14. ASSUME NEW n \in Launches, NEW a \in Arms, TrainerEnds(n, a) PROVE Stilled'
  <2>1. \A m \in Launches, c \in Arms : Quiet(m, c) => Quiet(m, c)'
    <3>1. CASE trainer' = [trainer EXCEPT ![n][a] = "zero"]
      BY <3>1
    <3>2. CASE trainer' = [trainer EXCEPT ![n][a] = "nonzero"]
      BY <3>2
    <3> QED
      BY <1>14, <3>1, <3>2 DEF TrainerEnds
  <2> QED
    BY <1>14, <2>1 DEF TrainerEnds
<1>15. ASSUME NEW n \in Launches, NEW a \in Arms, KilledTrainerEnds(n, a) PROVE Stilled'
  BY <1>15 DEF KilledTrainerEnds
<1>16. ASSUME NEW n \in Launches, NEW a \in Arms, MergerSaves(n, a) PROVE Stilled'
  BY <1>16 DEF MergerSaves
<1>17. ASSUME NEW n \in Launches, NEW a \in Arms, MergerEnds(n, a) PROVE Stilled'
  BY <1>17 DEF MergerEnds
<1>q. QED
  BY <1>1, <1>2, <1>3, <1>4, <1>5, <1>6, <1>7, <1>8, <1>9, <1>10, <1>11, <1>12, <1>13, <1>14,
     <1>15, <1>16, <1>17
  DEF ArmsStep, LaunchStep, ChildStep

LEMMA MergeFlowStep ==
    ASSUME ArmsTypeOK, InLoop, MergeFlow, ArmsStep
    PROVE  MergeFlow'
<1> USE ArmsAssumption DEF ArmsTypeOK, Here, Move, Launches, LaunchPlaces, Ended,
        Waiting, memory, children, armFiles, InLoop, MergeFlow, Unmerged, AtOneOf, LaunchOver, Dual, Arm
<1> USE SelectionAssumption
<1>1. CASE Launch
  BY <1>1 DEF Launch
<1>2. CASE ReuseArm
  <2>1. UNCHANGED <<merger, written, mode, launches, selected>> /\ launches > 0 /\ at[launches] = "arm"
    BY <1>2 DEF ReuseArm
  <2>2. CASE NextArm("arm", "summary", place)
    BY <2>1, <2>2 DEF NextArm
  <2>3. CASE Move("spawn") /\ UNCHANGED place
    BY <2>1, <2>3
  <2>4. CASE Raise
    BY <2>1, <2>4 DEF Raise
  <2> QED
    BY <1>2, <2>2, <2>3, <2>4 DEF ReuseArm
<1>3. CASE Spawn
  BY <1>3 DEF Spawn, OfLaunch, Raise
<1>4. CASE Note
  BY <1>4 DEF Note, NextArm, Raise
<1>5. CASE TrainersReturned
  BY <1>5 DEF TrainersReturned
<1>6. CASE Terminate
  BY <1>6 DEF Terminate
<1>7. CASE Reap
  BY <1>7 DEF Reap, Reaped, NextArm, OfLaunch
<1>8. CASE MergeArm
  <2>1. /\ UNCHANGED <<written, mode, launches, selected, place>>
        /\ launches \in Launches /\ Arm \in Arms /\ at[launches] = "merge"
    BY <1>8, CurrentArm DEF MergeArm, Decide
  <2>2. CASE Move("record") /\ UNCHANGED merger
    BY <2>1, <2>2
  <2>3. CASE Raise /\ UNCHANGED merger
    BY <2>1, <2>3 DEF Raise
  <2>4. CASE Move("merging") /\ merger' = OfLaunch(merger, "live")
    <3>1. \A n \in Launches, a \in Arms :
            merger'[n][a] = IF n = launches /\ a = Arm THEN "live" ELSE merger[n][a]
      <4>1. merger' = [merger EXCEPT ![launches][Arm] = "live"]
        BY <2>4 DEF OfLaunch
      <4> QED
        BY <2>1, <4>1, Updated
    <3>2. at'[launches] = "merging"
      BY <2>1, <2>4
    <3>3. \A k \in DOMAIN selected : k >= place + 1 => merger'[launches][selected[k]] = "none"
      <4> SUFFICES ASSUME NEW k \in DOMAIN selected, k >= place + 1
                   PROVE  merger'[launches][selected[k]] = "none"
        OBVIOUS
      <4>1. k # place /\ k >= place /\ k >= 1
        BY CurrentArm
      <4>2. selected[k] # Arm /\ selected[k] \in Arms
        BY <4>1, CurrentArm
      <4> QED
        BY <2>1, <3>1, <4>1, <4>2
    <3>4. \A n \in Launches, a \in Arms :
            /\ n > launches => merger'[n][a] = "none"
            /\ merger'[n][a] = "none" => written[n][a] = 0
            /\ merger'[n][a] = "zero" => written[n][a] = 4
      <4> SUFFICES ASSUME NEW n \in Launches, NEW a \in Arms
                   PROVE  /\ n > launches => merger'[n][a] = "none"
                          /\ merger'[n][a] = "none" => written[n][a] = 0
                          /\ merger'[n][a] = "zero" => written[n][a] = 4
        OBVIOUS
      <4>1. CASE n = launches /\ a = Arm
        BY <2>1, <3>1, <4>1
      <4>2. CASE ~(n = launches /\ a = Arm)
        <5>1. merger'[n][a] = merger[n][a]
          BY <3>1, <4>2
        <5> QED
          BY <5>1
      <4> QED
        BY <4>1, <4>2
    <3> QED
      BY <2>1, <3>2, <3>3, <3>4
  <2> QED
    BY <1>8, <2>2, <2>3, <2>4 DEF MergeArm, Decide
<1>9. CASE MergeReturned
  BY <1>9 DEF MergeReturned, Decide, Of
<1>10. CASE Record
  BY <1>10 DEF Record, Of, NextArm, Raise
<1>11. CASE Summarise
  BY <1>11 DEF Summarise
<1>12. CASE InterruptLaunch
  BY <1>12 DEF InterruptLaunch, Raise, OfLaunch
<1>13. CASE KillLaunch
  BY <1>13 DEF KillLaunch
<1>14. ASSUME NEW n \in Launches, NEW a \in Arms, TrainerEnds(n, a) PROVE MergeFlow'
  BY <1>14 DEF TrainerEnds
<1>15. ASSUME NEW n \in Launches, NEW a \in Arms, KilledTrainerEnds(n, a) PROVE MergeFlow'
  BY <1>15 DEF KilledTrainerEnds
<1>16. ASSUME NEW n \in Launches, NEW a \in Arms, MergerSaves(n, a) PROVE MergeFlow'
  BY <1>16 DEF MergerSaves
<1>17. ASSUME NEW n \in Launches, NEW a \in Arms, MergerEnds(n, a) PROVE MergeFlow'
  <2>1. merger[n][a] = "live" /\ UNCHANGED <<at, mode, launches, selected, place, written>>
    BY <1>17 DEF MergerEnds
  <2>2. CASE merger' = [merger EXCEPT ![n][a] = "zero"] /\ written[n][a] = 4
    BY <2>1, <2>2, CurrentArm
  <2>3. CASE merger' = [merger EXCEPT ![n][a] = "nonzero"]
    BY <2>1, <2>3, CurrentArm
  <2> QED
    BY <1>17, <2>2, <2>3 DEF MergerEnds
<1>q. QED
  BY <1>1, <1>2, <1>3, <1>4, <1>5, <1>6, <1>7, <1>8, <1>9, <1>10, <1>11, <1>12, <1>13, <1>14,
     <1>15, <1>16, <1>17
  DEF ArmsStep, LaunchStep, ChildStep

LEMMA FilesFrame ==
    ASSUME FilesFlow, UNCHANGED <<launches, files, written>>,
           \A n \in Launches, a \in Arms : merger[n][a] # "none" => merger'[n][a] # "none",
           \A a \in Arms : ~MergedBefore(a) /\ (result'[a] = "complete" \/ status'[a] = "complete") =>
               result[a] = "complete" \/ status[a] = "complete" \/ files[a] = Whole
    PROVE  FilesFlow'
<1>1. \A a \in Arms : MergedBefore(a) => MergedBefore(a)'
  BY DEF MergedBefore
<1>2. \A a \in Arms : SavedBy(launches, a)' = SavedBy(launches, a)
  BY DEF SavedBy
<1> QED
  BY <1>1, <1>2 DEF FilesFlow

\* A model that could be reused before its merge has been merged before.
LEMMA ReusableWasMerged ==
    ASSUME ArmsTypeOK, InLoop, MergeFlow, FilesFlow, AtOneOf({"arm", "merge"}), Reusable(Arm)
    PROVE  MergedBefore(Arm)
<1>1. Arm \in Arms /\ launches > 0 /\ launches \in Launches
  BY CurrentArm DEF AtOneOf
<1>2. merger[launches][Arm] = "none"
  BY CurrentArm DEF MergeFlow, InLoop, Unmerged, AtOneOf, ArmsTypeOK, Arm
<1>3. SavedBy(launches, Arm) = {}
  BY <1>1, <1>2 DEF MergeFlow, SavedBy
<1> QED
  BY <1>1, <1>3 DEF FilesFlow, Reusable

LEMMA WrittenTyped ==
    ASSUME ArmsTypeOK, NEW n \in Launches, NEW a \in Arms
    PROVE  written[n][a] \in 0 .. 4
BY DEF ArmsTypeOK

LEMMA AllSaved == \A n, a : written[n][a] = 4 => SavedBy(n, a) = Whole
BY DEF SavedBy, Whole

LEMMA FilesFlowStep ==
    ASSUME ArmsTypeOK, InLoop, MergeFlow, FilesFlow, ArmsStep
    PROVE  FilesFlow'
<1> USE ArmsAssumption DEF ArmsTypeOK, Here, Move, Launches, LaunchPlaces, Ended,
        Waiting, memory, children, armFiles
<1>1. CASE Launch
  <2>1. UNCHANGED <<files, written, merger, status>> /\ launches' = launches + 1 /\ launches' \in Launches
    BY FilesFrame, <1>1 DEF Launch
  <2>2. ASSUME NEW a \in Arms, ~MergedBefore(a)'
        PROVE  /\ launches' > 0 => files'[a] = SavedBy(launches, a)'
               /\ result'[a] = "complete" \/ status'[a] = "complete" => files'[a] = Whole
    <3>1. \A n \in Launches : n < launches + 1 => merger[n][a] = "none"
      BY <2>1, <2>2 DEF MergedBefore
    <3>2. ~MergedBefore(a)
      BY <3>1 DEF MergedBefore
    <3>3. files[a] = {}
      <4>1. CASE launches = 0
        BY <3>2, <4>1 DEF FilesFlow
      <4>2. CASE launches > 0
        <5>1. written[launches][a] = 0
          BY <3>1, <4>2 DEF MergeFlow
        <5>2. SavedBy(launches, a) = {}
          BY <5>1 DEF SavedBy
        <5> QED
          BY <3>2, <4>2, <5>2 DEF FilesFlow
      <4> QED
        BY <4>1, <4>2
    <3>4. written[launches + 1][a] = 0
      BY <2>1 DEF MergeFlow
    <3>5. SavedBy(launches, a)' = {}
      BY <2>1, <3>4 DEF SavedBy
    <3>6. result'[a] = "none"
      BY FilesFrame, <1>1 DEF Launch
    <3> QED
      BY <2>1, <3>2, <3>3, <3>5, <3>6 DEF FilesFlow
  <2> QED
    BY <2>1, <2>2 DEF FilesFlow
<1>2. CASE ReuseArm
  <2>1. UNCHANGED <<launches, files, written, merger>>
    BY FilesFrame, <1>2 DEF ReuseArm
  <2>2. CASE UNCHANGED <<result, status>>
    BY FilesFrame, <2>1, <2>2
  <2>3. CASE Reusable(Arm) /\ result' = Of(result, "complete") /\ status' = Of(status, "complete")
    <3>1. MergedBefore(Arm)
      BY FilesFrame, <1>2, <2>3, ReusableWasMerged DEF ReuseArm, AtOneOf
    <3>2. \A a \in Arms : a # Arm => result'[a] = result[a] /\ status'[a] = status[a]
      BY <2>3 DEF Of
    <3> QED
      BY FilesFrame, <2>1, <3>1, <3>2
  <2> QED
    BY FilesFrame, <1>2, <2>2, <2>3 DEF ReuseArm
<1>3. CASE Spawn
  BY FilesFrame, <1>3 DEF Spawn, OfLaunch, Raise
<1>4. CASE Note
  <2>1. UNCHANGED <<launches, files, written, merger, result>>
    BY FilesFrame, <1>4 DEF Note
  <2>2. status' = status \/ status' = Of(status, "running")
    BY FilesFrame, <1>4 DEF Note
  <2>3. \A a \in Arms : status'[a] = "complete" => status[a] = "complete"
    BY <2>2 DEF Of
  <2> QED
    BY FilesFrame, <2>1, <2>3
<1>5. CASE TrainersReturned
  BY FilesFrame, <1>5 DEF TrainersReturned
<1>6. CASE Terminate
  BY FilesFrame, <1>6 DEF Terminate
<1>7. CASE Reap
  BY FilesFrame, <1>7 DEF Reap, Reaped, NextArm, OfLaunch
<1>8. CASE MergeArm
  <2>1. UNCHANGED <<launches, files, written, status>>
    BY FilesFrame, <1>8 DEF MergeArm, Decide
  <2>2. \A n \in Launches, a \in Arms : merger[n][a] # "none" => merger'[n][a] # "none"
    <3>1. CASE UNCHANGED merger
      BY <3>1
    <3>2. CASE merger' = OfLaunch(merger, "live")
      BY <3>2 DEF OfLaunch
    <3> QED
      BY FilesFrame, <1>8, <3>1, <3>2 DEF MergeArm, Decide
  <2>3. CASE UNCHANGED result
    BY FilesFrame, <2>1, <2>2, <2>3
  <2>4. CASE result' = Of(result, "failed")
    BY FilesFrame, <2>1, <2>2, <2>4 DEF Of
  <2>5. CASE Reusable(Arm) /\ result' = Of(result, "complete")
    <3>1. MergedBefore(Arm)
      BY FilesFrame, <1>8, <2>5, ReusableWasMerged DEF MergeArm, AtOneOf
    <3>2. \A a \in Arms : a # Arm => result'[a] = result[a]
      BY <2>5 DEF Of
    <3> QED
      BY FilesFrame, <2>1, <2>2, <3>1, <3>2
  <2> QED
    BY FilesFrame, <1>8, <2>3, <2>4, <2>5 DEF MergeArm, Decide
<1>9. CASE MergeReturned
  <2>1. UNCHANGED <<launches, files, written, merger, status>> /\ launches > 0
    BY FilesFrame, <1>9 DEF MergeReturned, Decide
  <2>2. CASE merger[launches][Arm] = "zero"
    <3>1. Arm \in Arms /\ launches \in Launches
      BY <2>1, CurrentArm
    <3>2. ~MergedBefore(Arm) => files[Arm] = Whole
      <4>1. written[launches][Arm] = 4
        BY <2>2, <3>1 DEF MergeFlow
      <4>2. SavedBy(launches, Arm) = Whole
        BY <4>1, AllSaved
      <4> QED
        BY <2>1, <3>1, <4>2 DEF FilesFlow
    <3>3. \A a \in Arms : a # Arm => result'[a] = result[a]
      BY FilesFrame, <1>9 DEF MergeReturned, Decide, Of
    <3> QED
      BY FilesFrame, <2>1, <3>2, <3>3
  <2>3. CASE merger[launches][Arm] # "zero"
    <3>1. \A a \in Arms : result'[a] = "complete" => result[a] = "complete"
      BY FilesFrame, <1>9, <2>3 DEF MergeReturned, Decide, Of
    <3> QED
      BY FilesFrame, <2>1, <3>1
  <2> QED
    BY <2>2, <2>3
<1>10. CASE Record
  <2>1. UNCHANGED <<launches, files, written, merger, result>>
    BY FilesFrame, <1>10 DEF Record
  <2>2. status' = status \/ status' = Of(status, result[Arm])
    BY FilesFrame, <1>10 DEF Record
  <2>3. \A a \in Arms : status'[a] = "complete" => status[a] = "complete" \/ result[a] = "complete"
    BY <2>2, CurrentArm DEF Of
  <2> QED
    BY FilesFrame, <2>1, <2>3
<1>11. CASE Summarise
  BY FilesFrame, <1>11 DEF Summarise
<1>12. CASE InterruptLaunch
  <2>1. UNCHANGED <<launches, files, written, result, status>>
    BY FilesFrame, <1>12 DEF InterruptLaunch
  <2>2. \A n \in Launches, a \in Arms : merger[n][a] # "none" => merger'[n][a] # "none"
    <3>1. CASE UNCHANGED merger
      BY <3>1
    <3>2. CASE merger' = OfLaunch(merger, "nonzero")
      BY <3>2 DEF OfLaunch
    <3> QED
      BY FilesFrame, <1>12, <3>1, <3>2 DEF InterruptLaunch
  <2> QED
    BY FilesFrame, <2>1, <2>2
<1>13. CASE KillLaunch
  BY FilesFrame, <1>13 DEF KillLaunch
<1>14. ASSUME NEW n \in Launches, NEW a \in Arms, TrainerEnds(n, a) PROVE FilesFlow'
  BY FilesFrame, <1>14 DEF TrainerEnds
<1>15. ASSUME NEW n \in Launches, NEW a \in Arms, KilledTrainerEnds(n, a) PROVE FilesFlow'
  BY FilesFrame, <1>15 DEF KilledTrainerEnds
<1>16. ASSUME NEW n \in Launches, NEW a \in Arms, MergerSaves(n, a) PROVE FilesFlow'
  <2>1. written[n][a] \in 0 .. 4
    BY WrittenTyped
  <2>2. /\ UNCHANGED <<launches, merger, result, status>>
        /\ merger[n][a] # "none" /\ written[n][a] \in 0 .. 3
        /\ written' = [written EXCEPT ![n][a] = written[n][a] + 1]
    BY <2>1, <1>16 DEF MergerSaves
  <2>3. /\ files'[a] = files[a] \cup {SaveOrder[written[n][a] + 1]}
        /\ \A c \in Arms : c # a => files'[c] = files[c]
    BY <1>16 DEF MergerSaves
  <2>4. n <= launches
    BY <2>2 DEF MergeFlow
  <2>5. SaveOrder[written[n][a] + 1] \in Whole
    BY <2>2 DEF Whole
  <2>6. ASSUME NEW c \in Arms, ~MergedBefore(c)'
        PROVE  /\ launches = 0 => files'[c] = {}
               /\ launches > 0 => files'[c] = SavedBy(launches, c)'
               /\ result[c] = "complete" \/ status[c] = "complete" => files'[c] = Whole
    <3>1. ~MergedBefore(c)
      BY <2>2, <2>6 DEF MergedBefore
    <3>2. CASE c # a
      <4>1. files'[c] = files[c] /\ SavedBy(launches, c)' = SavedBy(launches, c)
        BY <2>2, <2>3, <3>2 DEF SavedBy
      <4> QED
        BY <3>1, <4>1 DEF FilesFlow
    <3>3. CASE c = a
      <4>1. n = launches
        BY <2>2, <2>4, <3>1, <3>3 DEF MergedBefore
      <4>2. written'[launches][c] = written[launches][c] + 1
        BY <2>2, <3>3, <4>1
      <4>3. SavedBy(launches, c)' = SavedBy(launches, c) \cup {SaveOrder[written[n][a] + 1]}
        BY <2>2, <3>3, <4>1, <4>2 DEF SavedBy
      <4>4. files'[c] = files[c] \cup {SaveOrder[written[n][a] + 1]}
        BY <2>3, <3>3
      <4> QED
        BY <2>5, <3>1, <4>1, <4>3, <4>4 DEF FilesFlow
    <3> QED
      BY <3>2, <3>3
  <2> QED
    BY <2>2, <2>6 DEF FilesFlow
<1>17. ASSUME NEW n \in Launches, NEW a \in Arms, MergerEnds(n, a) PROVE FilesFlow'
  <2>1. UNCHANGED <<launches, files, written, result, status>>
    BY FilesFrame, <1>17 DEF MergerEnds
  <2>2. \A m \in Launches, c \in Arms : merger[m][c] # "none" => merger'[m][c] # "none"
    <3>1. CASE merger' = [merger EXCEPT ![n][a] = "zero"]
      BY <3>1
    <3>2. CASE merger' = [merger EXCEPT ![n][a] = "nonzero"]
      BY <3>2
    <3> QED
      BY FilesFrame, <1>17, <3>1, <3>2 DEF MergerEnds
  <2> QED
    BY FilesFrame, <2>1, <2>2
<1>q. QED
  BY <1>1, <1>2, <1>3, <1>4, <1>5, <1>6, <1>7, <1>8, <1>9, <1>10, <1>11, <1>12, <1>13, <1>14,
     <1>15, <1>16, <1>17
  DEF ArmsStep, LaunchStep, ChildStep

LEMMA KeptStep ==
    ASSUME ArmsTypeOK, Kept, ArmsStep
    PROVE  Kept'
<1> USE DEF armFiles, children
<1>1. CASE UNCHANGED <<files, written>>
  BY <1>1 DEF Kept, SavedBy
<1>2. CASE Launch \/ ReuseArm \/ Spawn \/ Note \/ TrainersReturned \/ Terminate \/ Reap
  BY <1>1, <1>2 DEF Launch, ReuseArm, Spawn, Note, TrainersReturned, Terminate, Reap
<1>3. CASE MergeArm \/ MergeReturned \/ Record \/ Summarise \/ InterruptLaunch \/ KillLaunch
  BY <1>1, <1>3 DEF MergeArm, MergeReturned, Decide, Record, Summarise, InterruptLaunch, KillLaunch
<1>4. ASSUME NEW n \in Launches, NEW a \in Arms, MergerSaves(n, a) PROVE Kept'
  <2>1. written[n][a] \in 0 .. 4 /\ written \in [Launches -> [Arms -> 0 .. 4]]
    BY WrittenTyped DEF ArmsTypeOK
  <2>2. /\ written' = [written EXCEPT ![n][a] = written[n][a] + 1]
        /\ files' = [files EXCEPT ![a] = files[a] \cup {SaveOrder[written[n][a] + 1]}]
        /\ files \in [Arms -> SUBSET Whole]
    BY <1>4 DEF MergerSaves, ArmsTypeOK
  <2>3. SUFFICES ASSUME NEW m \in Launches, NEW c \in Arms PROVE SavedBy(m, c)' \subseteq files'[c]
    BY DEF Kept
  <2>4. SavedBy(m, c) \subseteq files'[c]
    BY <2>2 DEF Kept
  <2>5. CASE m # n \/ c # a
    <3>1. written'[m][c] = written[m][c]
      BY <2>1, <2>2, <2>5
    <3> QED
      BY <2>4, <3>1 DEF SavedBy
  <2>6. CASE m = n /\ c = a
    <3>1. written'[m][c] = written[n][a] + 1 /\ SaveOrder[written[n][a] + 1] \in files'[c]
      BY <2>1, <2>2, <2>6
    <3>2. \A k \in 1 .. written[n][a] + 1 : k \in 1 .. written[n][a] \/ k = written[n][a] + 1
      BY <2>1
    <3> QED
      BY <2>4, <2>6, <3>1, <3>2 DEF SavedBy
  <2> QED
    BY <2>5, <2>6
<1>5. ASSUME NEW n \in Launches, NEW a \in Arms,
             TrainerEnds(n, a) \/ KilledTrainerEnds(n, a) \/ MergerEnds(n, a)
      PROVE  Kept'
  BY <1>1, <1>5 DEF TrainerEnds, KilledTrainerEnds, MergerEnds
<1> QED
  BY <1>2, <1>3, <1>4, <1>5 DEF ArmsStep, LaunchStep, ChildStep

LEMMA LaunchFlowStep ==
    ASSUME ArmsTypeOK, LaunchFlow, ArmsStep
    PROVE  LaunchFlow'
BY InLoopStep, StilledStep, MergeFlowStep, FilesFlowStep, KeptStep DEF LaunchFlow

LEMMA LaunchFlowFrame ==
    ASSUME LaunchFlow, UNCHANGED armVars
    PROVE  LaunchFlow'
<1> USE DEF armVars, memory, children, armFiles
<1>1. InLoop' /\ Stilled'
  BY DEF LaunchFlow, InLoop, Stilled, Quiet, AtOneOf, Here, Dual, Selected, Arm, Awaited
<1>2. MergeFlow' /\ FilesFlow' /\ Kept'
  BY DEF LaunchFlow, MergeFlow, FilesFlow, Kept, MergedBefore, SavedBy, Unmerged, AtOneOf, Dual
<1> QED
  BY <1>1, <1>2 DEF LaunchFlow

(***************************************************************************)
(* The theorems.                                                           *)
(***************************************************************************)
THEOREM Inductive == Spec => []IInv
<1>1. Init => IInv
  <2> SUFFICES ASSUME Init PROVE IInv
    OBVIOUS
  <2>1. SftTypeOK
    <3>1. root \in [Targets -> BOOLEAN] /\ checkpoint \in [Targets -> BOOLEAN]
      BY DEF Init, SftInit
    <3>2. /\ merged \in [Targets -> {"absent", "partial", "whole"}]
          /\ completion \in [Targets -> {"absent", "partial", "whole"}]
      BY DEF Init, SftInit
    <3>3. target \in [Runs -> Targets]
      BY SftAssumption DEF Init, SftInit
    <3> QED
      BY SftAssumption, <3>1, <3>2, <3>3 DEF Init, SftInit, SftTypeOK
  <2>2. \A r \in Runs : ~Owns(r) /\ LockFlow(r) /\ JobFlow(r) /\ FileFlow(r)
    BY SftAssumption DEF Init, SftInit, Owns, LockFlow, JobFlow, FileFlow, Locked, Exporting
  <2>3. Ownership /\ MergedIsWhole /\ \A t \in Targets : Completed(t)
    BY <2>2 DEF Init, SftInit, Ownership, MergedIsWhole, Completed
  <2>4. ArmsTypeOK
    <3>1. saved \in [Arms -> BOOLEAN] /\ interrupted \in SUBSET Arms
      BY DEF Init, ArmsInit
    <3>2. launches \in 0 .. MaxLaunches /\ place \in Nat \ {0}
      BY ArmsAssumption DEF Init, ArmsInit
    <3>3. written \in [Launches -> [Arms -> 0 .. 4]]
      BY DEF Init, ArmsInit
    <3>4. files \in [Arms -> SUBSET Whole]
      BY DEF Init, ArmsInit
    <3> QED
      BY <3>1, <3>2, <3>3, <3>4 DEF Init, ArmsInit, ArmsTypeOK, LaunchPlaces, Ended
  <2>5. Loaded /\ RecordFlow
    BY DEF Init, ArmsInit, Loaded, RecordFlow, Here, Ended
  <2>6. InLoop /\ Stilled
    BY ArmsAssumption, SelectionAssumption
    DEF Init, ArmsInit, InLoop, Stilled, Quiet, AtOneOf, Here
  <2>7. MergeFlow /\ FilesFlow /\ Kept
    BY DEF Init, ArmsInit, MergeFlow, FilesFlow, Kept, SavedBy, AtOneOf
  <2> QED
    BY <2>1, <2>2, <2>3, <2>4, <2>5, <2>6, <2>7 DEF IInv, SftInv, LaunchFlow
<1>2. IInv /\ [Next]_vars => IInv'
  <2> SUFFICES ASSUME IInv, [Next]_vars PROVE IInv'
    OBVIOUS
  <2>1. ASSUME NEW r \in Runs, AnyStep(r), UNCHANGED armVars PROVE IInv'
    <3>1. SftInv'
      BY <2>1, SftStepKeeps DEF IInv
    <3>2. Published => Published'
      BY <2>1, MergedStep, ArmsAssumption DEF IInv, SftInv, Published
    <3>3. ArmsTypeOK' /\ Loaded' /\ RecordFlow'
      BY <2>1, <3>2 DEF IInv, ArmsTypeOK, Loaded, RecordFlow, Here, Arm, armVars, memory, children, armFiles
    <3> QED
      BY <2>1, <3>1, <3>3, LaunchFlowFrame DEF IInv
  <2>2. CASE ArmsStep
    <3>1. SftInv'
      BY <2>2, ArmsFrame, SftFrame DEF IInv, SftInv
    <3>2. ArmsTypeOK' /\ Loaded' /\ RecordFlow'
      BY <2>2, ArmsTypeStep, LoadedStep, RecordStep DEF IInv, LaunchFlow
    <3> QED
      BY <2>2, <3>1, <3>2, LaunchFlowStep DEF IInv
  <2>3. CASE UNCHANGED vars
    <3>1. UNCHANGED <<runner, command, sftFiles, signals, faults>> /\ UNCHANGED armVars
      BY <2>3 DEF vars, sftVars, budget
    <3>2. SftInv'
      BY <3>1, SftFrame DEF IInv, SftInv, SftTypeOK
    <3>3. ArmsTypeOK' /\ Loaded' /\ RecordFlow'
      BY <3>1 DEF IInv, ArmsTypeOK, Loaded, RecordFlow, Here, Arm, Published, sftFiles, armVars, memory, children, armFiles
    <3> QED
      BY <3>1, <3>2, <3>3, LaunchFlowFrame DEF IInv
  <2> QED
    BY <2>1, <2>2, <2>3 DEF Next, SftStep, AnyStep
<1> QED
  BY <1>1, <1>2, PTL DEF Spec

\* Every variable keeps its type.
THEOREM TypeCorrect == Spec => []TypeOK
<1>1. IInv => TypeOK
  BY DEF IInv, SftInv, TypeOK
<1> QED
  BY <1>1, Inductive, PTL

\* Two SFT trainings share the GPUs only when a signal separated one of them
\* from its runner.
THEOREM TrainingsAreExclusive == Spec => []TrainingsExclude
<1>1. IInv => TrainingsExclude
  <2> SUFFICES ASSUME IInv, NEW r \in Runs, NEW s \in Runs, r # s,
                      TrainingAlive(r), TrainingAlive(s), ~Abandoned(r), ~Abandoned(s)
               PROVE  FALSE
    BY DEF TrainingsExclude
  <2>1. pc[r] = "training" /\ pc[s] = "training"
    BY DEF IInv, SftInv, JobFlow, TrainingAlive, Abandoned, At
  <2> QED
    BY <2>1 DEF IInv, SftInv, LockFlow, Locked
<1> QED
  BY <1>1, Inductive, PTL

\* One run of a target at most gets beyond the creation of its root.
THEOREM RootsHaveOneRun == Spec => []RootHasOneRun
<1>1. IInv => RootHasOneRun
  BY DEF IInv, SftInv, Ownership, Owns, RootHasOneRun
<1> QED
  BY <1>1, Inductive, PTL

\* completion.json stands beside the checkpoint and the whole model, and
\* never beside the staging copy.
THEOREM CompletionComesLast == Spec => []CompletionIsLast
<1>1. IInv => CompletionIsLast
  BY DEF IInv, SftInv, Completed, CompletionIsLast
<1> QED
  BY <1>1, Inductive, PTL

\* What an OPD trainer loads was published whole.
THEOREM LoadedInputsAreWhole == Spec => []InputsAreWhole
<1>1. IInv => InputsAreWhole
  BY DEF IInv, Loaded, Published, InputsAreWhole, Alive
<1> QED
  BY <1>1, Inductive, PTL

\* A launch that returns leaves no trainer that was not killed.
THEOREM ReturnedLaunchesAreQuiet == Spec => []ReturnLeavesNoTrainer
<1>1. IInv => ReturnLeavesNoTrainer
  BY DEF IInv, LaunchFlow, Stilled, Quiet, ReturnLeavesNoTrainer
<1> QED
  BY <1>1, Inductive, PTL

\* A model recorded as complete is whole unless an earlier launch's merge of it
\* was cut short or goes on.
THEOREM FirstMergesAreWhole == Spec => []FirstMergeIsWhole
<1>1. IInv => FirstMergeIsWhole
  <2> SUFFICES ASSUME IInv, NEW a \in Arms, status[a] = "complete", files[a] # Whole
               PROVE  \E n \in Launches : n < launches /\ merger[n][a] \in {"live", "nonzero"}
    BY DEF FirstMergeIsWhole
  <2>1. PICK n \in Launches : n < launches /\ merger[n][a] # "none"
    BY DEF IInv, LaunchFlow, FilesFlow, MergedBefore
  <2>2. ASSUME merger[n][a] = "zero" PROVE FALSE
    <3>1. SavedBy(n, a) = Whole
      BY <2>2, AllSaved DEF IInv, LaunchFlow, MergeFlow
    <3>2. Whole \subseteq files[a] /\ files[a] \subseteq Whole
      BY <3>1 DEF IInv, LaunchFlow, Kept, ArmsTypeOK
    <3> QED
      BY <3>2
  <2>3. merger[n][a] \in {"none", "live", "zero", "nonzero"}
    BY DEF IInv, ArmsTypeOK
  <2> QED
    BY <2>1, <2>2, <2>3
<1> QED
  BY <1>1, Inductive, PTL
=============================================================================
