---------------------------- MODULE TrainingArms ----------------------------
(***************************************************************************)
(* The OPD launchers repro/train/run_b57_vision6k_crop_dual4_v1.py, which  *)
(* trains its arms side by side, and run_b57_vision6k_crop_sequential8_v1  *)
(* .py, which trains them one after the other, together with the SFT       *)
(* targets whose models they load.                                         *)
(*                                                                         *)
(* A launch starts a trainer per arm in a session of its own, waits, and   *)
(* merges the terminal checkpoint of every arm whose trainer returned zero *)
(* with a command that writes straight into the model directory.  Nothing  *)
(* locks the run directories, and a launch may follow one that was         *)
(* interrupted, failed or was killed.  Only KeyboardInterrupt is handled,  *)
(* and only while the launch waits for trainers.                           *)
(***************************************************************************)
EXTENDS SftTarget, Sequences, FiniteSets

CONSTANTS
    Arms,         \* the arms of both launchers
    AllArms,      \* ARMS, in order
    Selections,   \* what --arm can select in the sequential launcher
    Inputs,       \* the SFT targets that are student or teacher of the arms
    Modes,        \* {"dual", "sequential"} or one of them
    MaxLaunches,  \* bound on the launches
    MaxProcesses  \* bound on the SFT runs and launches of a history

Launches == 1 .. MaxLaunches

ASSUME ArmsAssumption ==
    /\ AllArms \in Seq(Arms)
    /\ Selections \subseteq Seq(Arms)
    /\ Inputs \subseteq Targets
    /\ Modes \subseteq {"dual", "sequential"}
    /\ {MaxLaunches, MaxProcesses} \subseteq Nat

\* ARMS are two arms, and select returns both or one of them.
ASSUME SelectionAssumption ==
    \A s \in {AllArms} \cup Selections :
        s # <<>> /\ \A j, k \in DOMAIN s : s[j] = s[k] => j = k

VARIABLES
    mode,         \* which launcher the run directories belong to
    at,           \* where every launch is
    launches,     \* the launches so far: the last one runs, or none does
    selected,     \* its arms, in order
    place,        \* the index of the arm its loop is at
    interrupted,  \* the arms it waited for when it took an interrupt
    returned,     \* train_rc of its arms
    result,       \* the state of its arms
    trainer,      \* the trainer of every launch and arm
    merger,       \* the merge command of every launch and arm
    written,      \* how much of the model that command has written
    saved,        \* the terminal checkpoint of every arm
    files,        \* the files of its model directory
    status,       \* its artifacts/status.json
    summary       \* the launcher's summary

memory   == <<selected, place, interrupted, returned, result>>
children == <<trainer, merger, written>>
armFiles == <<saved, files, status, summary>>
armVars  == <<mode, at, launches, memory, children, armFiles>>
vars     == <<sftVars, armVars>>

\* What the merge command writes, in order; "rest" is all but the first shard.
SaveOrder == <<"config", "shard", "rest", "tokenizer">>
Whole == {SaveOrder[k] : k \in 1 .. 4}

Waiting == {"wait", "terminate", "reap"}

Ended == {"idle", "over", "raised", "killed"}

LaunchPlaces == Ended \cup Waiting \cup
    {"arm", "spawn", "note", "merge", "merging", "record", "summary", "summary_raised"}

ArmsTypeOK ==
    /\ mode \in Modes
    /\ at \in [Launches -> LaunchPlaces]
    /\ launches \in 0 .. MaxLaunches
    /\ selected \in {AllArms} \cup Selections
    /\ place \in Nat \ {0}
    /\ interrupted \in SUBSET Arms
    /\ returned \in [Arms -> {"none", "zero", "nonzero"}]
    /\ result \in [Arms -> {"none", "complete", "failed"}]
    /\ trainer \in [Launches -> [Arms -> {"none", "live", "term", "kill", "zero", "nonzero"}]]
    /\ merger \in [Launches -> [Arms -> {"none", "live", "zero", "nonzero"}]]
    /\ written \in [Launches -> [Arms -> 0 .. 4]]
    /\ saved \in [Arms -> BOOLEAN]
    /\ files \in [Arms -> SUBSET Whole]
    /\ status \in [Arms -> {"absent", "running", "complete", "failed"}]
    /\ summary \in {"none", "complete", "failed"}

TypeOK == SftTypeOK /\ ArmsTypeOK

ArmsInit ==
    /\ mode \in Modes
    /\ at = [n \in Launches |-> "idle"]
    /\ launches = 0
    /\ selected = AllArms
    /\ place = 1
    /\ interrupted = {}
    /\ returned = [a \in Arms |-> "none"]
    /\ result = [a \in Arms |-> "none"]
    /\ trainer = [n \in Launches |-> [a \in Arms |-> "none"]]
    /\ merger = [n \in Launches |-> [a \in Arms |-> "none"]]
    /\ written = [n \in Launches |-> [a \in Arms |-> 0]]
    /\ saved = [a \in Arms |-> FALSE]
    /\ files = [a \in Arms |-> {}]
    /\ status = [a \in Arms |-> "absent"]
    /\ summary = "none"

(***************************************************************************)
(* The current launch.                                                     *)
(***************************************************************************)
Here(l) == launches > 0 /\ at[launches] = l

Move(l) == at' = [at EXCEPT ![launches] = l]

LaunchOver(n) == at[n] \in Ended

Dual == mode = "dual"

Arm == selected[place]

Selected == {selected[k] : k \in DOMAIN selected}

Alive(n, a) == trainer[n][a] \in {"live", "term", "kill"}

\* The trainers the launch waits for.
Awaited == IF Dual THEN Selected ELSE {Arm}

\* The next arm of a loop that comes back to l, or the end of the loop.
NextArm(l, end, first) ==
    IF place < Len(selected)
        THEN Move(l) /\ place' = place + 1
        ELSE Move(end) /\ place' = first

\* An exception: the sequential launcher writes its summary first.
Raise == Move(IF Dual THEN "raised" ELSE "summary_raised")

Of(f, value) == [f EXCEPT ![Arm] = value]
OfLaunch(f, value) == [f EXCEPT ![launches][Arm] = value]

\* The reuse check, of merge_arm and of run_arm: any shard, or the index.
Reusable(a) == "config" \in files[a] /\ files[a] \cap {"shard", "rest"} # {}

(***************************************************************************)
(* Starting.                                                               *)
(***************************************************************************)
MayStart == launches + Cardinality({r \in Runs : ~At(r, "idle")}) < MaxProcesses

\* require_inputs: config.json of the student and of the teachers.
Launch ==
    /\ launches < MaxLaunches
    /\ MayStart
    /\ \A n \in Launches : LaunchOver(n)
    /\ launches' = launches + 1
    /\ selected' \in IF Dual THEN {AllArms} ELSE Selections
    /\ place' = 1
    /\ interrupted' = {}
    /\ returned' = [a \in Arms |-> "none"]
    /\ result' = [a \in Arms |-> "none"]
    /\ at' = [at EXCEPT ![launches + 1] =
                IF \E t \in Inputs : merged[t] = "absent" THEN "raised"
                ELSE IF Dual THEN "spawn" ELSE "arm"]
    /\ UNCHANGED <<sftVars, mode, children, armFiles>>

\* run_arm of the sequential launcher: a model that looks complete is reused.
ReuseArm ==
    /\ Here("arm")
    /\ \/ /\ Reusable(Arm)
          /\ result' = Of(result, "complete")
          /\ status' = Of(status, "complete")
          /\ NextArm("arm", "summary", place)
          /\ UNCHANGED budget
       \/ /\ ~Reusable(Arm)
          /\ Move("spawn")
          /\ UNCHANGED <<place, result, status, budget>>
       \/ Fault /\ Raise /\ UNCHANGED <<place, result, status>>
    /\ UNCHANGED <<runner, command, sftFiles, mode, launches, selected, interrupted, returned,
                   children, saved, files, summary>>

\* prepare_arm and Popen, outside any try block.
Spawn ==
    /\ Here("spawn")
    /\ \/ /\ trainer' = OfLaunch(trainer, "live")
          /\ Move("note")
          /\ UNCHANGED budget
       \/ Fault /\ Raise /\ UNCHANGED trainer
    /\ UNCHANGED <<runner, command, sftFiles, mode, launches, memory, merger, written, armFiles>>

\* status.json: running.
Note ==
    /\ Here("note")
    /\ \/ /\ status' = Of(status, "running")
          /\ IF Dual THEN NextArm("spawn", "wait", 1) ELSE Move("wait") /\ UNCHANGED place
          /\ UNCHANGED budget
       \/ Fault /\ Raise /\ UNCHANGED <<place, status>>
    /\ UNCHANGED <<runner, command, sftFiles, mode, launches, selected, interrupted, returned,
                   result, children, saved, files, summary>>

(***************************************************************************)
(* Waiting.                                                                *)
(***************************************************************************)
\* The polling loop ends, or wait returns.
TrainersReturned ==
    /\ Here("wait")
    /\ \A a \in Awaited : ~Alive(launches, a)
    /\ returned' = [a \in Arms |-> IF a \in Awaited THEN trainer[launches][a] ELSE returned[a]]
    /\ Move("merge")
    /\ UNCHANGED <<sftVars, mode, launches, selected, place, interrupted, result, children, armFiles>>

\* The handler sends TERM to every trainer that has not ended.
Terminate ==
    /\ Here("terminate")
    /\ trainer' = [trainer EXCEPT ![launches] =
            [a \in Arms |-> IF a \in Awaited /\ @[a] = "live" THEN "term" ELSE @[a]]]
    /\ Move("reap")
    /\ UNCHANGED <<sftVars, mode, launches, memory, merger, written, armFiles>>

Reaped == IF Dual THEN NextArm("reap", "merge", 1) ELSE Move("merge") /\ UNCHANGED place

\* Seeded fault: a trainer that ignores TERM is waited for.
ReapPatiently ==
    /\ Here("reap")
    /\ ~Alive(launches, Arm)
    /\ returned' = Of(returned, trainer[launches][Arm])
    /\ Reaped
    /\ UNCHANGED <<sftVars, mode, launches, selected, interrupted, result, children, armFiles>>

\* Seeded fault: a trainer that ignores TERM is left alone.
ReapLeniently ==
    /\ Here("reap")
    /\ returned' = Of(returned, IF Alive(launches, Arm) THEN "none" ELSE trainer[launches][Arm])
    /\ Reaped
    /\ UNCHANGED <<sftVars, mode, launches, selected, interrupted, result, children, armFiles>>

\* wait(30): the trainer ended, or it is killed.  The dual launcher goes on
\* without having reaped it, the sequential one waits.
Reap ==
    /\ Here("reap")
    /\ \/ /\ ~Alive(launches, Arm)
          /\ returned' = Of(returned, trainer[launches][Arm])
          /\ Reaped
          /\ UNCHANGED trainer
       \/ /\ trainer[launches][Arm] = "term"
          /\ trainer' = OfLaunch(trainer, "kill")
          /\ IF Dual THEN Reaped ELSE UNCHANGED <<at, place>>
          /\ UNCHANGED returned
    /\ UNCHANGED <<sftVars, mode, launches, selected, interrupted, result, merger, written, armFiles>>

(***************************************************************************)
(* Merging and recording.                                                  *)
(***************************************************************************)
Decide(state) ==
    /\ result' = Of(result, state)
    /\ Move("record")
    /\ UNCHANGED <<merger, written, budget>>

\* merge_arm: reuse what looks complete, refuse without a checkpoint, start
\* the merge command otherwise.
MergeArm ==
    /\ Here("merge")
    /\ \/ returned[Arm] = "zero" /\ Reusable(Arm) /\ Decide("complete")
       \/ returned[Arm] # "zero" /\ Decide("failed")
       \/ returned[Arm] = "zero" /\ ~Reusable(Arm) /\ ~saved[Arm] /\ Decide("failed")
       \/ /\ returned[Arm] = "zero" /\ ~Reusable(Arm) /\ saved[Arm]
          /\ merger' = OfLaunch(merger, "live")
          /\ Move("merging")
          /\ UNCHANGED <<result, written, budget>>
       \/ /\ returned[Arm] = "zero" /\ ~Reusable(Arm) /\ saved[Arm]
          /\ Fault /\ Raise /\ UNCHANGED <<result, merger, written>>
    /\ UNCHANGED <<runner, command, sftFiles, mode, launches, selected, place, interrupted, returned,
                   trainer, armFiles>>

\* Seeded fault: Popen instead of run, and no wait.
MergeReturnedEarly ==
    /\ Here("merging")
    /\ Decide(IF merger[launches][Arm] = "nonzero" THEN "failed" ELSE "complete")
    /\ UNCHANGED <<runner, command, sftFiles, mode, launches, selected, place, interrupted, returned,
                   trainer, armFiles>>

\* Seeded fault: the return code is recorded as the state.
MergeCodeRecorded ==
    /\ Here("merging")
    /\ merger[launches][Arm] # "live"
    /\ Decide(merger[launches][Arm])
    /\ UNCHANGED <<runner, command, sftFiles, mode, launches, selected, place, interrupted, returned,
                   trainer, armFiles>>

MergeReturned ==
    /\ Here("merging")
    /\ merger[launches][Arm] # "live"
    /\ Decide(IF merger[launches][Arm] = "zero" THEN "complete" ELSE "failed")
    /\ UNCHANGED <<runner, command, sftFiles, mode, launches, selected, place, interrupted, returned,
                   trainer, armFiles>>

\* status.json of the arm; the sequential launcher stops at a failed one.
Record ==
    /\ Here("record")
    /\ \/ /\ status' = Of(status, result[Arm])
          /\ IF Dual THEN NextArm("merge", "summary", place)
             ELSE IF result[Arm] = "complete" THEN NextArm("arm", "summary", place)
             ELSE Move("summary_raised") /\ UNCHANGED place
          /\ UNCHANGED budget
       \/ Fault /\ Raise /\ UNCHANGED <<place, status>>
    /\ UNCHANGED <<runner, command, sftFiles, mode, launches, selected, interrupted, returned, result,
                   children, saved, files, summary>>

\* The summary, also after an exception of the sequential launcher.  That one
\* does not remember an interrupt its arms survived.
Summarise ==
    /\ Here("summary") \/ Here("summary_raised")
    /\ \/ /\ summary' = IF /\ Here("summary") /\ (Dual => interrupted = {})
                           /\ \A a \in Selected : result[a] = "complete"
                        THEN "complete" ELSE "failed"
          /\ Move(IF Here("summary") THEN "over" ELSE "raised")
          /\ UNCHANGED budget
       \/ Fault /\ Move("raised") /\ UNCHANGED summary
    /\ UNCHANGED <<runner, command, sftFiles, mode, launches, memory, children, saved, files, status>>

(***************************************************************************)
(* Trainers and merge commands.                                            *)
(***************************************************************************)
\* A trainer returns zero once global_step_65 is saved, at once when it finds
\* it, or ends before that; it may take any time to obey TERM, or never do.
TrainerEnds(n, a) ==
    /\ \/ /\ trainer[n][a] \in {"live", "term"}
          /\ trainer' = [trainer EXCEPT ![n][a] = "zero"]
          /\ saved' = [saved EXCEPT ![a] = TRUE]
          /\ UNCHANGED budget
       \/ /\ \/ trainer[n][a] = "live" /\ Fault
             \/ trainer[n][a] = "term" /\ UNCHANGED budget
          /\ \E code \in {"zero", "nonzero"} : trainer' = [trainer EXCEPT ![n][a] = code]
          /\ UNCHANGED saved
    /\ UNCHANGED <<runner, command, sftFiles, mode, at, launches, memory, merger, written,
                   files, status, summary>>

KilledTrainerEnds(n, a) ==
    /\ trainer[n][a] = "kill"
    /\ trainer' = [trainer EXCEPT ![n][a] = "nonzero"]
    /\ UNCHANGED <<sftVars, mode, at, launches, memory, merger, written, armFiles>>

\* save_pretrained and the tokenizer, straight into the model directory.
MergerSaves(n, a) ==
    /\ merger[n][a] = "live" /\ written[n][a] < 4
    /\ written' = [written EXCEPT ![n][a] = @ + 1]
    /\ files' = [files EXCEPT ![a] = @ \cup {SaveOrder[written[n][a] + 1]}]
    /\ UNCHANGED <<sftVars, mode, at, launches, memory, trainer, merger, saved, status, summary>>

MergerEnds(n, a) ==
    /\ merger[n][a] = "live"
    /\ \/ /\ written[n][a] = 4
          /\ merger' = [merger EXCEPT ![n][a] = "zero"]
          /\ UNCHANGED budget
       \/ /\ Fault
          /\ merger' = [merger EXCEPT ![n][a] = "nonzero"]
    /\ UNCHANGED <<runner, command, sftFiles, mode, at, launches, memory, trainer, written, armFiles>>

(***************************************************************************)
(* Signals.                                                                *)
(***************************************************************************)
\* KeyboardInterrupt: handled while the launch waits for trainers, and an
\* exception elsewhere; subprocess.run kills a merge command it waits for.
InterruptLaunch ==
    /\ launches > 0 /\ ~LaunchOver(launches)
    /\ Signal
    /\ IF Here("wait") THEN Move("terminate") /\ interrupted' = Awaited
       ELSE IF Here("summary") \/ Here("summary_raised") THEN Move("raised") /\ UNCHANGED interrupted
       ELSE Raise /\ UNCHANGED interrupted
    /\ merger' = IF Here("merging") /\ merger[launches][Arm] = "live"
                 THEN OfLaunch(merger, "nonzero") ELSE merger
    /\ UNCHANGED <<runner, command, sftFiles, mode, launches, selected, place, returned, result,
                   trainer, written, armFiles>>

\* TERM and KILL end the launch and nothing else.
KillLaunch ==
    /\ launches > 0 /\ ~LaunchOver(launches)
    /\ Signal
    /\ Move("killed")
    /\ UNCHANGED <<runner, command, sftFiles, mode, launches, memory, children, armFiles>>

(***************************************************************************)
(* The specification.                                                      *)
(***************************************************************************)
LaunchStep ==
    \/ ReuseArm \/ Spawn \/ Note
    \/ TrainersReturned \/ Terminate \/ Reap
    \/ MergeArm \/ MergeReturned \/ Record \/ Summarise

ChildStep(n, a) ==
    TrainerEnds(n, a) \/ KilledTrainerEnds(n, a) \/ MergerSaves(n, a) \/ MergerEnds(n, a)

Init == SftInit /\ ArmsInit

SftStep ==
    /\ \E r \in Runs : (MayStart /\ Validate(r)) \/ RunStep(r)
    /\ UNCHANGED armVars

ArmsStep ==
    \/ Launch \/ LaunchStep \/ InterruptLaunch \/ KillLaunch
    \/ \E n \in Launches, a \in Arms : ChildStep(n, a)

Next == SftStep \/ ArmsStep

Spec == Init /\ [][Next]_vars

\* Programs take their next step; an SFT training and a killed trainer end.
\* A training that was not killed, an export and a merge may go on for ever.
Fairness ==
    /\ WF_vars(LaunchStep)
    /\ \A n \in Launches, a \in Arms : WF_vars(KilledTrainerEnds(n, a))
    /\ \A r \in Runs :
        /\ WF_vars(RunnerStep(r) /\ UNCHANGED armVars)
        /\ WF_vars((TrainingEnds(r) \/ WorkersEnd(r)) /\ UNCHANGED armVars)

FairSpec == Spec /\ Fairness
=============================================================================
