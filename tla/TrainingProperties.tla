------------------------- MODULE TrainingProperties -------------------------
(***************************************************************************)
(* What the SFT runner and the OPD launchers promise.                      *)
(***************************************************************************)
EXTENDS TrainingArms

(***************************************************************************)
(* SFT targets.                                                            *)
(***************************************************************************)
TrainingAlive(r) == job[r] = "train" /\ life[r] \in {"live", "workers"}

\* A training whose runner is gone, or whose leader was killed.
Abandoned(r) == At(r, "killed") \/ life[r] = "workers"

\* The GPU 0-7 lock: two SFT trainings never share the GPUs, but for one that
\* a signal separated from its runner.
TrainingsExclude ==
    \A r, s \in Runs :
        r # s /\ TrainingAlive(r) /\ TrainingAlive(s) => Abandoned(r) \/ Abandoned(s)

\* A run root belongs to one run: another run of the target, which may have
\* checked it before it existed, never gets beyond it.
RootHasOneRun ==
    \A r, s \in Runs :
        r # s /\ target[r] = target[s] => job[r] = "none" \/ job[s] = "none"

\* "Exact, self-created, reproducible intermediate; the FSDP checkpoint and
\* verified final model remain": completion.json comes after the removal of
\* the one and stands beside the others.
CompletionIsLast ==
    \A t \in Targets :
        completion[t] # "absent" => checkpoint[t] /\ merged[t] = "whole" /\ staging[t] = "absent"

(***************************************************************************)
(* SFT targets and OPD launches.                                           *)
(***************************************************************************)
\* What an OPD trainer loads was published whole, although a launch looks at
\* config.json only and does not wait for the SFT runs.
InputsAreWhole ==
    \A n \in Launches, a \in Arms :
        Alive(n, a) => \A t \in Inputs : merged[t] = "whole"

(***************************************************************************)
(* OPD launches.                                                           *)
(***************************************************************************)
\* A launch that returns, interrupted or not, leaves no trainer that was not
\* killed.
ReturnLeavesNoTrainer ==
    \A n \in Launches, a \in Arms :
        at[n] = "over" => trainer[n][a] \notin {"live", "term"}

\* A model can be taken for complete before it is whole only when an earlier
\* launch's merge of it was cut short or goes on behind the reuse check.
FirstMergeIsWhole ==
    \A a \in Arms :
        status[a] = "complete" /\ files[a] # Whole =>
            \E n \in Launches : n < launches /\ merger[n][a] \in {"live", "nonzero"}

\* The launch took an interrupt while it waited for these trainers.
Interrupted(n) == n = launches /\ interrupted # {}

Merging(n) == at[n] = "merging" /\ merger[n][Arm] = "live"

\* run_arm swallows the interrupt: what its launcher does next hangs on the
\* code with which the interrupted trainer returned, and on its merge.
TrainsNext(n) ==
    /\ ~Dual /\ at[n] = "wait" /\ Arm \notin interrupted
    /\ \A a \in interrupted : result[a] = "complete"

\* An interrupt of a launch that waits for trainers ends it, whatever they do
\* with TERM: only a merge command can keep it.  The sequential launcher may
\* also wait again, but for another arm, and only after the trainer it
\* interrupted returned zero and its arm became complete.
InterruptEndsLaunch ==
    \A n \in Launches : Interrupted(n) ~> LaunchOver(n) \/ Merging(n) \/ TrainsNext(n)

=============================================================================
