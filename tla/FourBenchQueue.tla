--------------------------- MODULE FourBenchQueue ---------------------------
(***************************************************************************)
(* The serial four-benchmark queue of                                      *)
(* repro/eval_tools/run_b57_dual4_models_fourbench_v1.py.                  *)
(*                                                                         *)
(* An execution of the queue waits for the models of its targets, then     *)
(* evaluates each target with two children, the resident coordinator and   *)
(* the BLINK-v5 runner.  It reuses a component root that is complete and   *)
(* reserves the first unused retry root otherwise.  summary.json and       *)
(* status.json are replaced atomically, one after the other.  Nothing      *)
(* locks the queue root: executions follow each other when one was         *)
(* restarted, and may overlap.                                             *)
(*                                                                         *)
(* A child is an abstraction of the two runners by what the queue can see: *)
(* it refuses a root that exists, publishes its evidence, may take it back *)
(* while it fails, and returns zero only after publishing.                 *)
(***************************************************************************)
EXTENDS Naturals, Sequences

CONSTANTS
    Executions,    \* the processes started with --execute on one queue root
    Targets,       \* the trained models
    TargetsOf,     \* TargetsOf[e]: what --target selects for e, in order
    MaxRetries,    \* MAX_RETRIES: the retry roots after the base root
    NoRoot,        \* no root was found
    Overlapping,   \* an execution may start while another one runs
    MayBeKilled,   \* SIGKILL can happen
    DiskMayFail,   \* writes outside the try block, or swallowed ones, can fail
    MaxSignals     \* bound on the signals an execution is sent

Components == {"resident", "blink"}

Indices == 0 .. MaxRetries

ASSUME QueueAssumption ==
    /\ MaxRetries \in Nat
    /\ NoRoot \notin Nat
    /\ TargetsOf \in [Executions -> Seq(Targets)]
    /\ \A e \in Executions : TargetsOf[e] # <<>>
    /\ {Overlapping, MayBeKilled, DiskMayFail} \subseteq BOOLEAN
    /\ MaxSignals \in Nat

VARIABLES
    pc,          \* where execute() is
    place,       \* the index of the loop over targets
    comp,        \* the component of the target
    chosen,      \* resident_root and blink_root
    rows,        \* summary["targets"] in memory; what execute() returns
    outcome,     \* what the process reports: complete or failed
    signals,     \* signals received
    registered,  \* state.processes is not empty
    life,        \* the execution's last child
    summary,     \* summary.json: its status and targets
    status,      \* status.json
    roots,       \* the component roots of every target
    model        \* the training status and export of every target

memory == <<pc, place, comp, chosen, rows, outcome, signals, registered>>
files  == <<summary, status>>
vars   == <<memory, life, files, roots, model>>

(***************************************************************************)
(* The places of the program.                                              *)
(***************************************************************************)
\* Before the handlers are installed a signal ends the process.
Early == {"start", "models", "reset", "reset_status", "handlers"}

\* Inside the try block.
Body == {"find", "reserve", "spawn", "register", "wait", "stop", "record",
         "finish", "finish_status", "return"}

Terminal == {"exited", "killed"}

Places == {"idle", "handler", "handler_status", "cleanup"} \cup Early \cup Body \cup Terminal

Over(e) == pc[e] \in Terminal

At(e, l) == pc[e] = l
Goto(e, l) == pc' = [pc EXCEPT ![e] = l]

(***************************************************************************)
(* Roots.                                                                  *)
(***************************************************************************)
Target(e) == TargetsOf[e][place[e]]

Least(S) == CHOOSE k \in S : \A j \in S : k <= j

RootsIn(t, c, state) == {k \in Indices : roots[t][c][k] = state}

\* Seeded fault: retry roots are written but never looked at again.
FindCompleteRootBaseOnly(t, c) == IF roots[t][c][0] = "complete" THEN 0 ELSE NoRoot

\* The first complete root in the order base, retry1, retry2, ...
FindCompleteRoot(t, c) ==
    IF RootsIn(t, c, "complete") = {} THEN NoRoot ELSE Least(RootsIn(t, c, "complete"))

\* The first root that does not exist.
ReserveRoot(t, c) == Least(RootsIn(t, c, "absent"))

\* The root of the child an execution started last.
IsRootOf(e, t, c, k) ==
    life[e] # "none" /\ Target(e) = t /\ comp[e] = c /\ chosen[e][c] = k

\* A child that holds its root: it wrote to it and has not ended.
Writing(e) == life[e] \in {"live", "published"}

Alive(e) == life[e] = "fresh" \/ Writing(e)

TypeOK ==
    /\ pc \in [Executions -> Places]
    /\ place \in [Executions -> Nat \ {0}]
    /\ \A e \in Executions : place[e] <= Len(TargetsOf[e])
    /\ comp \in [Executions -> Components]
    /\ chosen \in [Executions -> [Components -> Indices \cup {NoRoot}]]
    /\ rows \in [Executions -> Seq([target : Targets, root : [Components -> Indices]])]
    /\ outcome \in [Executions -> {"none", "complete", "failed"}]
    /\ signals \in [Executions -> 0 .. MaxSignals]
    /\ registered \in [Executions -> BOOLEAN]
    /\ life \in [Executions -> {"none", "fresh", "live", "published", "zero", "nonzero"}]
    /\ summary \in [state : {"none", "running", "complete", "failed"},
                    targets : Seq([target : Targets, root : [Components -> Indices]])]
    /\ status \in {"none", "running", "complete", "failed"}
    /\ roots \in [Targets -> [Components -> [Indices -> {"absent", "partial", "complete"}]]]
    /\ model \in [Targets -> {"pending", "ready", "failed"}]

Init ==
    /\ pc = [e \in Executions |-> "idle"]
    /\ place = [e \in Executions |-> 1]
    /\ comp = [e \in Executions |-> "resident"]
    /\ chosen = [e \in Executions |-> [c \in Components |-> NoRoot]]
    /\ rows = [e \in Executions |-> <<>>]
    /\ outcome = [e \in Executions |-> "none"]
    /\ signals = [e \in Executions |-> 0]
    /\ registered = [e \in Executions |-> FALSE]
    /\ life = [e \in Executions |-> "none"]
    /\ summary = [state |-> "none", targets |-> <<>>]
    /\ status = "none"
    /\ roots = [t \in Targets |-> [c \in Components |-> [k \in Indices |-> "absent"]]]
    /\ model = [t \in Targets |-> "pending"]

\* _atomic_json(summary_path, summary).  The answer of os.write is not looked
\* at: on a full disk a torn file replaces the summary, which _load_summary
\* takes for none.
WriteSummary(state, targets) ==
    \/ summary' = [state |-> state, targets |-> targets]
    \/ DiskMayFail /\ summary' = [state |-> "none", targets |-> <<>>]

\* The evidence is looked for while the child still runs.
ChildReturnedOrPublished(e) == life[e] \in {"zero", "published"}

\* The loop goes on after the last target.
RecordPastTheEnd(e) ==
    /\ At(e, "record") /\ Goto(e, "find")
    /\ rows' = [rows EXCEPT ![e] = Append(@, [target |-> Target(e), root |-> chosen[e]])]
    /\ WriteSummary("running", rows'[e])
    /\ place' = [place EXCEPT ![e] = @ + 1]
    /\ UNCHANGED <<comp, chosen, outcome, signals, registered, life, status, roots, model>>

\* The processes are waited for without a deadline and never killed.
KillChildNot(e) == ~Alive(e) /\ UNCHANGED life

\* A runner that accepts the directory it finds.
ChildOpensAnyRoot(e) ==
    /\ life[e] = "fresh"
    /\ life' = [life EXCEPT ![e] = "live"]
    /\ roots' = [roots EXCEPT ![Target(e)][comp[e]][chosen[e][comp[e]]] = "partial"]
    /\ UNCHANGED <<memory, files, model>>

(***************************************************************************)
(* Before the loop.                                                        *)
(***************************************************************************)
Launch(e) ==
    /\ At(e, "idle") /\ Goto(e, "start")
    /\ \/ Overlapping
       \/ \A d \in Executions : At(d, "idle") \/ Over(d)
    /\ UNCHANGED <<place, comp, chosen, rows, outcome, signals, registered,
                   life, files, roots, model>>

\* A complete summary is returned when it has as many targets as were asked for.
Reusable(e) == summary.state = "complete" /\ Len(summary.targets) = Len(TargetsOf[e])

ReturnPrevious(e) ==
    /\ At(e, "start") /\ Goto(e, "exited")
    /\ Reusable(e)
    /\ rows' = [rows EXCEPT ![e] = summary.targets]
    /\ outcome' = [outcome EXCEPT ![e] = "complete"]
    /\ UNCHANGED <<place, comp, chosen, signals, registered, life, files, roots, model>>

LoadSummary(e) ==
    /\ At(e, "start") /\ Goto(e, "models")
    /\ ~Reusable(e)
    /\ UNCHANGED <<place, comp, chosen, rows, outcome, signals, registered,
                   life, files, roots, model>>

\* _model_status: what the training and its export look like from here.
ModelReady(t) == model[t] = "ready"

WaitModels(e) ==
    /\ At(e, "models") /\ Goto(e, "reset")
    /\ \A n \in DOMAIN TargetsOf[e] : ModelReady(TargetsOf[e][n])
    /\ UNCHANGED <<place, comp, chosen, rows, outcome, signals, registered,
                   life, files, roots, model>>

\* A training failed, the wait timed out, or --no-wait found a model missing.
GiveUp(e) ==
    /\ At(e, "models") /\ Goto(e, "exited")
    /\ \E n \in DOMAIN TargetsOf[e] : ~ModelReady(TargetsOf[e][n])
    /\ outcome' = [outcome EXCEPT ![e] = "failed"]
    /\ UNCHANGED <<place, comp, chosen, rows, signals, registered,
                   life, files, roots, model>>

ResetSummary(e) ==
    /\ At(e, "reset") /\ Goto(e, "reset_status")
    /\ WriteSummary("running", <<>>)
    /\ UNCHANGED <<place, comp, chosen, rows, outcome, signals, registered,
                   life, status, roots, model>>

ResetStatus(e) ==
    /\ At(e, "reset_status") /\ Goto(e, "handlers")
    /\ status' = "running"
    /\ UNCHANGED <<place, comp, chosen, rows, outcome, signals, registered,
                   life, summary, roots, model>>

InstallHandlers(e) ==
    /\ At(e, "handlers") /\ Goto(e, "find")
    /\ UNCHANGED <<place, comp, chosen, rows, outcome, signals, registered,
                   life, files, roots, model>>

(***************************************************************************)
(* One target: find the roots, run what is missing, record.                *)
(***************************************************************************)
FindRoots(e) ==
    /\ At(e, "find") /\ Goto(e, "reserve")
    /\ chosen' = [chosen EXCEPT ![e] =
                    [c \in Components |-> FindCompleteRoot(Target(e), c)]]
    /\ comp' = [comp EXCEPT ![e] = "resident"]
    /\ UNCHANGED <<place, rows, outcome, signals, registered, life, files, roots, model>>

\* After the resident evidence comes BLINK-v5, after that the record.
NextComponent(e) ==
    \/ /\ comp[e] = "resident" /\ Goto(e, "reserve")
       /\ comp' = [comp EXCEPT ![e] = "blink"]
    \/ comp[e] = "blink" /\ Goto(e, "record") /\ UNCHANGED comp

SkipComplete(e) ==
    /\ At(e, "reserve") /\ chosen[e][comp[e]] # NoRoot
    /\ NextComponent(e)
    /\ UNCHANGED <<place, chosen, rows, outcome, signals, registered,
                   life, files, roots, model>>

\* The reservation is a name: nothing is created before the child runs.
Reserve(e) ==
    /\ At(e, "reserve") /\ Goto(e, "spawn")
    /\ chosen[e][comp[e]] = NoRoot
    /\ RootsIn(Target(e), comp[e], "absent") # {}
    /\ chosen' = [chosen EXCEPT ![e][comp[e]] = ReserveRoot(Target(e), comp[e])]
    /\ WriteSummary("running", rows[e])
    /\ UNCHANGED <<place, comp, rows, outcome, signals, registered,
                   life, status, roots, model>>

RetriesExhausted(e) ==
    /\ At(e, "reserve") /\ Goto(e, "handler")
    /\ chosen[e][comp[e]] = NoRoot
    /\ RootsIn(Target(e), comp[e], "absent") = {}
    /\ outcome' = [outcome EXCEPT ![e] = "failed"]
    /\ UNCHANGED <<place, comp, chosen, rows, signals, registered,
                   life, files, roots, model>>

SpawnChild(e) ==
    /\ At(e, "spawn") /\ Goto(e, "register")
    /\ ~registered[e]
    /\ life' = [life EXCEPT ![e] = "fresh"]
    /\ UNCHANGED <<place, comp, chosen, rows, outcome, signals, registered,
                   files, roots, model>>

RegisterChild(e) ==
    /\ At(e, "register") /\ Goto(e, "wait")
    /\ registered' = [registered EXCEPT ![e] = TRUE]
    /\ UNCHANGED <<place, comp, chosen, rows, outcome, signals,
                   life, files, roots, model>>

ChildReturned(e) == life[e] = "zero"

Evidence(e, c) == roots[Target(e)][c][chosen[e][c]] = "complete"

\* wait() returned zero; the evidence is read from the disk.
ChildSucceeds(e) ==
    /\ At(e, "wait") /\ ChildReturned(e) /\ Evidence(e, comp[e])
    /\ NextComponent(e)
    /\ registered' = [registered EXCEPT ![e] = FALSE]
    /\ UNCHANGED <<place, chosen, rows, outcome, signals, life, files, roots, model>>

ChildIsNoUse(e) ==
    /\ At(e, "wait") /\ Goto(e, "handler")
    /\ \/ life[e] = "nonzero"
       \/ ChildReturned(e) /\ ~Evidence(e, comp[e])
    /\ registered' = [registered EXCEPT ![e] = FALSE]
    /\ outcome' = [outcome EXCEPT ![e] = "failed"]
    /\ UNCHANGED <<place, comp, chosen, rows, signals, life, files, roots, model>>

\* The resident evidence is validated once more, the BLINK-v5 root is not.
Record(e) ==
    /\ At(e, "record")
    /\ Evidence(e, "resident")
    /\ rows' = [rows EXCEPT ![e] = Append(@, [target |-> Target(e), root |-> chosen[e]])]
    /\ WriteSummary("running", rows'[e])
    /\ \/ /\ place[e] < Len(TargetsOf[e]) /\ Goto(e, "find")
          /\ place' = [place EXCEPT ![e] = @ + 1]
       \/ /\ place[e] = Len(TargetsOf[e]) /\ Goto(e, "finish")
          /\ UNCHANGED place
    /\ UNCHANGED <<comp, chosen, outcome, signals, registered, life, status, roots, model>>

RecordNotEligible(e) ==
    /\ At(e, "record") /\ Goto(e, "handler")
    /\ ~Evidence(e, "resident")
    /\ outcome' = [outcome EXCEPT ![e] = "failed"]
    /\ UNCHANGED <<place, comp, chosen, rows, signals, registered,
                   life, files, roots, model>>

(***************************************************************************)
(* Completion.                                                             *)
(***************************************************************************)
FinishSummary(e) ==
    /\ At(e, "finish") /\ Goto(e, "finish_status")
    /\ WriteSummary("complete", rows[e])
    /\ UNCHANGED <<place, comp, chosen, rows, outcome, signals, registered,
                   life, status, roots, model>>

FinishStatus(e) ==
    /\ At(e, "finish_status") /\ Goto(e, "return")
    /\ status' = "complete"
    /\ UNCHANGED <<place, comp, chosen, rows, outcome, signals, registered,
                   life, summary, roots, model>>

Return(e) ==
    /\ At(e, "return") /\ Goto(e, "cleanup")
    /\ outcome' = [outcome EXCEPT ![e] = "complete"]
    /\ UNCHANGED <<place, comp, chosen, rows, signals, registered,
                   life, files, roots, model>>

(***************************************************************************)
(* Failure.                                                                *)
(***************************************************************************)
\* Every signal raises, wherever the program is: also a second one, which
\* finds the child being stopped, the failure being written or the cleanup.
Signal(e) ==
    /\ ~Over(e) /\ ~At(e, "idle")
    /\ signals[e] < MaxSignals
    /\ signals' = [signals EXCEPT ![e] = @ + 1]
    /\ outcome' = [outcome EXCEPT ![e] = "failed"]
    /\ \/ pc[e] \in Early /\ Goto(e, "killed")
       \/ At(e, "wait") /\ Goto(e, "stop")
       \/ pc[e] \in Body \ {"wait"} /\ Goto(e, "handler")
       \/ pc[e] \in {"handler", "handler_status"} /\ Goto(e, "cleanup")
       \/ At(e, "cleanup") /\ Goto(e, "exited")
    /\ UNCHANGED <<place, comp, chosen, rows, registered, life, files, roots, model>>

\* An OSError, a namespace that is unsafe, metadata that is not public.
Fail(e) ==
    /\ \/ pc[e] \in {"find", "reserve", "spawn", "record", "finish", "finish_status"}
          /\ Goto(e, "handler")
       \/ DiskMayFail /\ pc[e] \in {"reset", "reset_status"} /\ Goto(e, "exited")
    /\ outcome' = [outcome EXCEPT ![e] = "failed"]
    /\ UNCHANGED <<place, comp, chosen, rows, signals, registered,
                   life, files, roots, model>>

\* _stop_process: TERM, two seconds, KILL.
KillChild(e) == life' = [life EXCEPT ![e] = IF Alive(e) THEN "nonzero" ELSE @]

\* The finally clause around process.wait().
StopChild(e) ==
    /\ At(e, "stop") /\ Goto(e, "handler")
    /\ KillChild(e)
    /\ registered' = [registered EXCEPT ![e] = FALSE]
    /\ UNCHANGED <<place, comp, chosen, rows, outcome, signals, files, roots, model>>

WriteFailedSummary(e) ==
    /\ At(e, "handler") /\ Goto(e, "handler_status")
    /\ WriteSummary("failed", rows[e])
    /\ UNCHANGED <<place, comp, chosen, rows, outcome, signals, registered,
                   life, status, roots, model>>

WriteFailedStatus(e) ==
    /\ At(e, "handler_status") /\ Goto(e, "cleanup")
    /\ status' = "failed"
    /\ UNCHANGED <<place, comp, chosen, rows, outcome, signals, registered,
                   life, summary, roots, model>>

\* `except Exception: pass` around both writes.
FailureIsNotWritten(e) ==
    /\ DiskMayFail
    /\ pc[e] \in {"handler", "handler_status"} /\ Goto(e, "cleanup")
    /\ UNCHANGED <<place, comp, chosen, rows, outcome, signals, registered,
                   life, files, roots, model>>

Cleanup(e) ==
    /\ At(e, "cleanup") /\ Goto(e, "exited")
    /\ IF registered[e] THEN KillChild(e) ELSE UNCHANGED life
    /\ registered' = [registered EXCEPT ![e] = FALSE]
    /\ UNCHANGED <<place, comp, chosen, rows, outcome, signals, files, roots, model>>

Kill(e) ==
    /\ MayBeKilled
    /\ ~Over(e) /\ ~At(e, "idle") /\ Goto(e, "killed")
    /\ UNCHANGED <<place, comp, chosen, rows, outcome, signals, registered,
                   life, files, roots, model>>

(***************************************************************************)
(* The children and the trainers.                                          *)
(***************************************************************************)
WriteRoot(e, state) ==
    roots' = [roots EXCEPT ![Target(e)][comp[e]][chosen[e][comp[e]]] = state]

ChildOpens(e) ==
    /\ life[e] = "fresh"
    /\ \/ /\ roots[Target(e)][comp[e]][chosen[e][comp[e]]] = "absent"
          /\ life' = [life EXCEPT ![e] = "live"]
          /\ WriteRoot(e, "partial")
       \/ /\ roots[Target(e)][comp[e]][chosen[e][comp[e]]] # "absent"
          /\ life' = [life EXCEPT ![e] = "nonzero"]
          /\ UNCHANGED roots
    /\ UNCHANGED <<memory, files, model>>

\* What the coordinator publishes may be rejected by _resident_complete, for
\* failed API calls or too few answers with content; such a root stays what it
\* was to the queue, although its child goes on to return zero.
ChildPublishes(e) ==
    /\ life[e] = "live"
    /\ life' = [life EXCEPT ![e] = "published"]
    /\ \/ WriteRoot(e, "complete")
       \/ comp[e] = "resident" /\ UNCHANGED roots
    /\ UNCHANGED <<memory, files, model>>

ChildReturns(e) ==
    /\ life[e] = "published"
    /\ life' = [life EXCEPT ![e] = "zero"]
    /\ UNCHANGED <<memory, files, roots, model>>

\* A runner that fails after publishing withdraws its evidence, or is past
\* the point where it would.
ChildFails(e) ==
    /\ Alive(e)
    /\ life' = [life EXCEPT ![e] = "nonzero"]
    /\ \/ UNCHANGED roots
       \/ life[e] = "published" /\ WriteRoot(e, "partial")
    /\ UNCHANGED <<memory, files, model>>

TrainingEnds(t) ==
    /\ model[t] = "pending"
    /\ \E state \in {"ready", "failed"} : model' = [model EXCEPT ![t] = state]
    /\ UNCHANGED <<memory, life, files, roots>>

(***************************************************************************)
(* The specification.                                                      *)
(***************************************************************************)
Step(e) ==
    \/ ReturnPrevious(e) \/ LoadSummary(e) \/ WaitModels(e) \/ GiveUp(e)
    \/ ResetSummary(e) \/ ResetStatus(e) \/ InstallHandlers(e)
    \/ FindRoots(e) \/ SkipComplete(e) \/ Reserve(e) \/ RetriesExhausted(e)
    \/ SpawnChild(e) \/ RegisterChild(e) \/ ChildSucceeds(e) \/ ChildIsNoUse(e)
    \/ Record(e) \/ RecordNotEligible(e)
    \/ FinishSummary(e) \/ FinishStatus(e) \/ Return(e)
    \/ StopChild(e) \/ WriteFailedSummary(e) \/ WriteFailedStatus(e) \/ Cleanup(e)

Child(e) == ChildOpens(e) \/ ChildPublishes(e) \/ ChildReturns(e) \/ ChildFails(e)

Disturb(e) == Signal(e) \/ Fail(e) \/ FailureIsNotWritten(e) \/ Kill(e)

Next ==
    \/ \E e \in Executions : Launch(e) \/ Step(e) \/ Child(e) \/ Disturb(e)
    \/ \E t \in Targets : TrainingEnds(t)

\* The queue is one thread.  Nothing is assumed of the children, which it
\* waits for without a deadline, nor of the trainings, whose wait has one.
Fairness == \A e \in Executions : WF_vars(Step(e))

Spec == Init /\ [][Next]_vars

FairSpec == Spec /\ Fairness

=============================================================================
