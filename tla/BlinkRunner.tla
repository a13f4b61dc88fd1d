----------------------------- MODULE BlinkRunner -----------------------------
(***************************************************************************)
(* The BLINK-v5 runner of                                                  *)
(* repro/eval_tools/run_blink_checkpoint_comparison_v5.sh and the scorer   *)
(* it runs, mcq_blink_checkpoint_comparison_aggregate_v5.py, as processes. *)
(*                                                                         *)
(* A runner takes a file lock on descriptor 8, makes its root, starts a    *)
(* server in a session of its own, probes a port, runs the scorer in the   *)
(* foreground and writes its status.  The server and the scorer inherit    *)
(* descriptor 8, so the lock is kept by whoever of the three lives, until  *)
(* the EXIT trap unlocks it for all of them.  bash takes a signal between  *)
(* two commands: before the traps are set, and once the EXIT trap has      *)
(* reset them, it ends the runner; in between it enters the EXIT trap,     *)
(* which a foreground scorer delays to its end.                            *)
(*                                                                         *)
(* The server is an environment: it may take any time to load, fail to     *)
(* bind a port that is taken, crash, and outlive its leader.               *)
(***************************************************************************)
EXTENDS Naturals

CONSTANTS
    Runners,       \* the processes started with --execute
    Roots,         \* the run roots
    CommandLines,  \* what the runners are given as --run-root
    ModelOf,       \* ModelOf[r]: --model-id
    Requests,      \* the number of rows (1901)
    NoRunner,      \* nobody serves the port
    MayBeKilled,   \* SIGKILL can happen
    MayCrash,      \* servers and requests can fail by themselves
    FailingWrites, \* the writes that can fail
    MaxSignals     \* bound on the signals a runner is sent

ASSUME BlinkAssumption ==
    /\ CommandLines \subseteq [Runners -> Roots]
    /\ NoRunner \notin Runners
    /\ Requests \in Nat
    /\ {MayBeKilled, MayCrash} \subseteq BOOLEAN
    /\ FailingWrites \subseteq {"root", "status", "verdict", "receipt", "score"}
    /\ MaxSignals \in Nat

VARIABLES
    root,       \* root[r]: --run-root
    pc,         \* where the script is
    locked,     \* descriptor 8 was locked and not unlocked
    named,      \* SERVER_PID is set
    completed,  \* the variable complete
    outcome,    \* the exit status, once the EXIT trap runs
    pending,    \* a signal waits for the foreground scorer to end
    signals,    \* signals received
    server,     \* the runner's server: its leader and its group
    termed,     \* TERM was sent to the server's group
    port,       \* the runner whose server is bound to the port
    scorer,     \* the runner's scorer
    asked,      \* rows the scorer has an outcome for
    kinds,      \* how those rows were answered
    status,     \* the directory and lifecycle/status.json of every root
    receipt     \* the aggregate of every root

given == <<root, signals>>
script == <<pc, locked, named, completed, outcome, pending, given>>
serving == <<server, termed, port>>
scoring == <<scorer, asked, kinds>>
files == <<status, receipt>>
vars == <<script, serving, scoring, files>>

(***************************************************************************)
(* Places.                                                                 *)
(***************************************************************************)
\* No trap is set: a signal ends the process.
Untrapped == {"lock", "mkdir", "arm"}

Trapped == {"starting", "spawn", "name", "ready", "evaluating", "score",
            "publish", "mark", "print"}

\* The EXIT trap, which resets the other traps first.
Trap == {"term", "await", "verdict", "unlock"}

Terminal == {"exited", "killed"}

At(r, l) == pc[r] = l
Goto(r, l) == pc' = [pc EXCEPT ![r] = l]

Over(r) == pc[r] \in Terminal
Running(r) == pc[r] \in Untrapped \cup Trapped \cup Trap

(***************************************************************************)
(* Processes and what they hold.                                           *)
(***************************************************************************)
\* "forked" is the background child before setsid: it has no group of its own.
LeaderAlive(r) == server[r] \in {"forked", "loading", "serving"}

ServerAlive(r) == LeaderAlive(r) \/ server[r] = "headless"

HasGroup(r) == server[r] \in {"loading", "serving", "headless"}

Scoring(r) == scorer[r] \in {"preflight", "asking", "writing"}

\* Whoever has descriptor 8: it is one open file description, and closing it
\* gives the lock back only when the last of them is gone.
HasDescriptor(r) == Running(r) \/ ServerAlive(r) \/ Scoring(r)

Holds(r) == locked[r] /\ HasDescriptor(r)

Status(r) == status[root[r]]
SetStatus(r, s) == status' = [status EXCEPT ![root[r]] = s]

Receipt(r) == receipt[root[r]]
SetReceipt(r, s) == receipt' = [receipt EXCEPT ![root[r]] = s]

\* Something at the port lists the model id of r.
Answers(r) == port # NoRunner /\ ModelOf[port] = ModelOf[r]

TypeOK ==
    /\ root \in [Runners -> Roots]
    /\ pc \in [Runners -> {"idle"} \cup Untrapped \cup Trapped \cup Trap \cup Terminal]
    /\ locked \in [Runners -> BOOLEAN]
    /\ named \in [Runners -> BOOLEAN]
    /\ completed \in [Runners -> BOOLEAN]
    /\ outcome \in [Runners -> {"none", "zero", "failed"}]
    /\ pending \in [Runners -> BOOLEAN]
    /\ signals \in [Runners -> 0 .. MaxSignals]
    /\ server \in [Runners -> {"none", "forked", "loading", "serving", "headless", "gone"}]
    /\ termed \in [Runners -> BOOLEAN]
    /\ port \in Runners \cup {NoRunner}
    /\ scorer \in [Runners -> {"none", "preflight", "asking", "writing", "succeeded", "failed"}]
    /\ asked \in [Runners -> 0 .. Requests]
    /\ kinds \in [Runners -> SUBSET {"own", "other", "lost"}]
    /\ status \in [Roots -> {"absent", "made", "starting", "evaluating", "complete", "failed"}]
    /\ receipt \in [Roots -> {"absent", "partial", "present"}]

Init ==
    /\ root \in CommandLines
    /\ pc = [r \in Runners |-> "idle"]
    /\ locked = [r \in Runners |-> FALSE]
    /\ named = [r \in Runners |-> FALSE]
    /\ completed = [r \in Runners |-> FALSE]
    /\ outcome = [r \in Runners |-> "none"]
    /\ pending = [r \in Runners |-> FALSE]
    /\ signals = [r \in Runners |-> 0]
    /\ server = [r \in Runners |-> "none"]
    /\ termed = [r \in Runners |-> FALSE]
    /\ port = NoRunner
    /\ scorer = [r \in Runners |-> "none"]
    /\ asked = [r \in Runners |-> 0]
    /\ kinds = [r \in Runners |-> {}]
    /\ status = [k \in Roots |-> "absent"]
    /\ receipt = [k \in Roots |-> "absent"]

(***************************************************************************)
(* Before the traps.                                                       *)
(***************************************************************************)
\* A command failed before the EXIT trap was set: descriptor 8 is closed with
\* the process.
Quit(r) ==
    /\ Goto(r, "exited")
    /\ outcome' = [outcome EXCEPT ![r] = "failed"]
    /\ UNCHANGED <<locked, named, completed, pending, given, serving, scoring, files>>

\* The arguments were checked, the run root among them, without the lock.
Start(r) ==
    /\ At(r, "idle")
    /\ Status(r) = "absent"
    /\ Goto(r, "lock")
    /\ UNCHANGED <<locked, named, completed, outcome, pending, given, serving, scoring, files>>

RefuseRoot(r) ==
    /\ At(r, "idle")
    /\ Status(r) # "absent"
    /\ Quit(r)

\* exec 8<"$LOCK"; flock 8: waits until no description of the file is locked.
Lock(r) ==
    /\ At(r, "lock")
    /\ \A d \in Runners : ~Holds(d)
    /\ locked' = [locked EXCEPT ![r] = TRUE]
    /\ Goto(r, "mkdir")
    /\ UNCHANGED <<named, completed, outcome, pending, given, serving, scoring, files>>

\* mkdir of two directories: fails when the root was made while r was waiting
\* for the lock, or between the two.
MakeRoot(r) ==
    /\ At(r, "mkdir")
    /\ \/ /\ Status(r) = "absent"
          /\ SetStatus(r, "made")
          /\ Goto(r, "arm")
          /\ UNCHANGED <<locked, named, completed, outcome, pending, given, serving, scoring, receipt>>
       \/ /\ Status(r) # "absent" \/ "root" \in FailingWrites
          /\ Quit(r)
       \/ /\ Status(r) = "absent" /\ "root" \in FailingWrites
          /\ SetStatus(r, "made")
          /\ Goto(r, "exited")
          /\ outcome' = [outcome EXCEPT ![r] = "failed"]
          /\ UNCHANGED <<locked, named, completed, pending, given, serving, scoring, receipt>>

SetTraps(r) ==
    /\ At(r, "arm")
    /\ Goto(r, "starting")
    /\ UNCHANGED <<locked, named, completed, outcome, pending, given, serving, scoring, files>>

(***************************************************************************)
(* The script under its traps.                                             *)
(***************************************************************************)
\* set -e, die and the signal traps all exit into the EXIT trap.
Abort(r) ==
    /\ Goto(r, "term")
    /\ outcome' = [outcome EXCEPT ![r] = "failed"]
    /\ UNCHANGED <<locked, named, completed, given>>

\* write_status: a temporary file, then os.replace.
WriteStatus(r, from, s, to) ==
    /\ At(r, from)
    /\ UNCHANGED <<pending, serving, scoring, receipt>>
    /\ \/ /\ SetStatus(r, s)
          /\ Goto(r, to)
          /\ UNCHANGED <<locked, named, completed, outcome, given>>
       \/ /\ "status" \in FailingWrites
          /\ Abort(r)
          /\ UNCHANGED status

WriteStarting(r) == WriteStatus(r, "starting", "starting", "spawn")

\* setsid ... vllm serve ... &
Spawn(r) ==
    /\ At(r, "spawn")
    /\ server' = [server EXCEPT ![r] = "forked"]
    /\ Goto(r, "name")
    /\ UNCHANGED <<locked, named, completed, outcome, pending, given, termed, port, scoring, files>>

\* SERVER_PID=$!
Name(r) ==
    /\ At(r, "name")
    /\ named' = [named EXCEPT ![r] = TRUE]
    /\ Goto(r, "ready")
    /\ UNCHANGED <<locked, completed, outcome, pending, given, serving, scoring, files>>

\* The leader of the own server lives and something at the port lists the
\* model.  A probe, like its deadline, takes longer than the setsid.
Ready(r) ==
    /\ At(r, "ready")
    /\ server[r] \in {"loading", "serving"}
    /\ Answers(r)
    /\ Goto(r, "evaluating")
    /\ UNCHANGED <<locked, named, completed, outcome, pending, given, serving, scoring, files>>

\* The leader is gone, or 1800 s have passed.
NotReady(r) ==
    /\ At(r, "ready")
    /\ server[r] # "forked"
    /\ Abort(r)
    /\ UNCHANGED <<pending, serving, scoring, files>>

WriteEvaluating(r) == WriteStatus(r, "evaluating", "evaluating", "score")

StartScorer(r) ==
    /\ At(r, "score")
    /\ scorer[r] = "none"
    /\ scorer' = [scorer EXCEPT ![r] = "preflight"]
    /\ UNCHANGED <<script, serving, asked, kinds, files>>

\* Seeded fault: complete=1 as soon as the scorer has returned zero.
ScorerReturnedMarked(r) ==
    /\ At(r, "score")
    /\ scorer[r] = "succeeded" /\ ~pending[r] /\ Receipt(r) # "absent"
    /\ completed' = [completed EXCEPT ![r] = TRUE]
    /\ Goto(r, "publish")
    /\ UNCHANGED <<locked, named, outcome, pending, given, serving, scoring, files>>

\* The foreground command ended: set -e, the trap of a signal that waited for
\* it, and [[ -s "$OUTPUT" ]].
ScorerReturned(r) ==
    /\ At(r, "score")
    /\ UNCHANGED <<serving, scoring, files>>
    /\ \/ /\ scorer[r] = "succeeded" /\ ~pending[r] /\ Receipt(r) # "absent"
          /\ Goto(r, "publish")
          /\ UNCHANGED <<locked, named, completed, outcome, pending, given>>
       \/ /\ \/ scorer[r] = "failed"
             \/ scorer[r] = "succeeded" /\ (pending[r] \/ Receipt(r) = "absent")
          /\ pending' = [pending EXCEPT ![r] = FALSE]
          /\ Abort(r)

WriteComplete(r) == WriteStatus(r, "publish", "complete", "mark")

\* complete=1
MarkComplete(r) ==
    /\ At(r, "mark")
    /\ completed' = [completed EXCEPT ![r] = TRUE]
    /\ Goto(r, "print")
    /\ UNCHANGED <<locked, named, outcome, pending, given, serving, scoring, files>>

\* The last command parses the aggregate and prints its score.
PrintScore(r) ==
    /\ At(r, "print")
    /\ UNCHANGED <<pending, serving, scoring, files>>
    /\ \/ /\ Receipt(r) = "present"
          /\ outcome' = [outcome EXCEPT ![r] = "zero"]
          /\ Goto(r, "term")
          /\ UNCHANGED <<locked, named, completed, given>>
       \/ /\ Receipt(r) # "present" \/ "score" \in FailingWrites
          /\ Abort(r)

(***************************************************************************)
(* The EXIT trap.                                                          *)
(***************************************************************************)
\* Seeded fault: the leader alone is signalled, after it was waited for.
TerminateServerNot(r) ==
    /\ At(r, "term")
    /\ Goto(r, "await")
    /\ UNCHANGED <<locked, named, completed, outcome, pending, given, serving, scoring, files>>

\* kill -0 and kill -TERM of the group, when SERVER_PID is set and it exists.
TerminateServer(r) ==
    /\ At(r, "term")
    /\ termed' = [termed EXCEPT ![r] = @ \/ (named[r] /\ HasGroup(r))]
    /\ Goto(r, "await")
    /\ UNCHANGED <<locked, named, completed, outcome, pending, given, server, port, scoring, files>>

\* Seeded fault: the server is not waited for.
AwaitServerNot(r) ==
    /\ At(r, "await")
    /\ Goto(r, "verdict")
    /\ UNCHANGED <<locked, named, completed, outcome, pending, given, serving, scoring, files>>

\* wait "$SERVER_PID": for the leader, without a deadline.
AwaitServer(r) ==
    /\ At(r, "await")
    /\ named[r] => ~LeaderAlive(r)
    /\ Goto(r, "verdict")
    /\ UNCHANGED <<locked, named, completed, outcome, pending, given, serving, scoring, files>>

\* A status that cannot be written is not an error any more.
WriteVerdict(r) ==
    /\ At(r, "verdict")
    /\ \/ ~completed[r] /\ SetStatus(r, "failed")
       \/ (completed[r] \/ "verdict" \in FailingWrites) /\ UNCHANGED status
    /\ Goto(r, "unlock")
    /\ UNCHANGED <<locked, named, completed, outcome, pending, given, serving, scoring, receipt>>

\* flock -u 8 unlocks the description that other processes may still have.
Unlock(r) ==
    /\ At(r, "unlock")
    /\ locked' = [locked EXCEPT ![r] = FALSE]
    /\ Goto(r, "exited")
    /\ UNCHANGED <<named, completed, outcome, pending, given, serving, scoring, files>>

(***************************************************************************)
(* Signals: to the process alone or to the group the runner leads, which   *)
(* has the scorer in it and the server until its setsid.                   *)
(***************************************************************************)
HitGroup(r) ==
    /\ server' = [server EXCEPT ![r] = IF @ = "forked" THEN "gone" ELSE @]
    /\ scorer' = [scorer EXCEPT ![r] = IF Scoring(r) THEN "failed" ELSE @]

Signal(r) ==
    /\ Running(r)
    /\ signals[r] < MaxSignals
    /\ signals' = [signals EXCEPT ![r] = @ + 1]
    /\ HitGroup(r) \/ UNCHANGED <<server, scorer>>
    /\ \/ /\ pc[r] \in Untrapped \cup Trap
          /\ Goto(r, "killed")
          /\ UNCHANGED <<outcome, pending>>
       \/ /\ At(r, "score") /\ scorer[r] # "none"
          /\ pending' = [pending EXCEPT ![r] = TRUE]
          /\ UNCHANGED <<pc, outcome>>
       \/ /\ pc[r] \in Trapped /\ ~(At(r, "score") /\ scorer[r] # "none")
          /\ Goto(r, "term")
          /\ outcome' = [outcome EXCEPT ![r] = "failed"]
          /\ UNCHANGED pending
    /\ UNCHANGED <<root, locked, named, completed, termed, port, asked, kinds, files>>

Kill(r) ==
    /\ MayBeKilled
    /\ Running(r)
    /\ Goto(r, "killed")
    /\ UNCHANGED <<locked, named, completed, outcome, pending, given, serving, scoring, files>>

(***************************************************************************)
(* The server.                                                             *)
(***************************************************************************)
Detach(r) ==
    /\ server[r] = "forked"
    /\ server' = [server EXCEPT ![r] = "loading"]
    /\ UNCHANGED <<script, termed, port, scoring, files>>

Bind(r) ==
    /\ server[r] = "loading" /\ ~termed[r]
    /\ port = NoRunner
    /\ server' = [server EXCEPT ![r] = "serving"]
    /\ port' = r
    /\ UNCHANGED <<script, termed, scoring, files>>

\* The leader ends because it was told to, cannot bind or crashes; its workers
\* may take longer.
LeaderEnds(r) ==
    /\ LeaderAlive(r)
    /\ \/ termed[r]
       \/ server[r] = "loading" /\ port # NoRunner
       \/ MayCrash
    /\ \E s \in {"gone", "headless"} :
          /\ s = "headless" => server[r] # "forked" /\ MayCrash
          /\ server' = [server EXCEPT ![r] = s]
    /\ port' = IF port = r THEN NoRunner ELSE port
    /\ UNCHANGED <<script, termed, scoring, files>>

WorkersEnd(r) ==
    /\ server[r] = "headless"
    /\ server' = [server EXCEPT ![r] = "gone"]
    /\ UNCHANGED <<script, termed, port, scoring, files>>

(***************************************************************************)
(* The scorer.                                                             *)
(***************************************************************************)
\* The model id must be listed at the port once more.
Preflight(r) ==
    /\ scorer[r] = "preflight"
    /\ scorer' = [scorer EXCEPT ![r] = IF Answers(r) THEN "asking" ELSE "failed"]
    /\ UNCHANGED <<script, serving, asked, kinds, files>>

\* An error of the openai package is an outcome like any other.
Answer(r, kind) ==
    /\ kind = "own" => port = r
    /\ kind = "other" => port # r /\ Answers(r)
    /\ kind = "lost" => ~Answers(r) \/ MayCrash
    /\ asked' = [asked EXCEPT ![r] = @ + 1]
    /\ kinds' = [kinds EXCEPT ![r] = @ \cup {kind}]

\* Seeded fault: a request is retried and both outcomes are kept.
AskAgain(r) ==
    /\ scorer[r] = "asking"
    /\ asked[r] <= Requests
    /\ \E kind \in {"own", "other", "lost"} : Answer(r, kind)
    /\ UNCHANGED <<script, serving, scorer, files>>

Ask(r) ==
    /\ scorer[r] = "asking"
    /\ asked[r] < Requests
    /\ \E kind \in {"own", "other", "lost"} : Answer(r, kind)
    /\ UNCHANGED <<script, serving, scorer, files>>

\* A malformed response or any other local error: exit status 2, no receipt.
ScorerAborts(r) ==
    /\ scorer[r] = "asking"
    /\ MayCrash
    /\ scorer' = [scorer EXCEPT ![r] = "failed"]
    /\ UNCHANGED <<script, serving, asked, kinds, files>>

\* _write_create_once: O_CREAT | O_EXCL ...
CreateReceipt(r) ==
    /\ scorer[r] = "asking"
    /\ asked[r] = Requests
    /\ \/ /\ Receipt(r) = "absent"
          /\ SetReceipt(r, "partial")
          /\ scorer' = [scorer EXCEPT ![r] = "writing"]
       \/ /\ Receipt(r) # "absent" \/ "receipt" \in FailingWrites
          /\ scorer' = [scorer EXCEPT ![r] = "failed"]
          /\ UNCHANGED receipt
    /\ UNCHANGED <<script, serving, asked, kinds, status>>

\* ... then write and fsync, or unlink what could not be written.
FinishReceipt(r) ==
    /\ scorer[r] = "writing"
    /\ \/ /\ SetReceipt(r, "present")
          /\ scorer' = [scorer EXCEPT ![r] = "succeeded"]
       \/ /\ "receipt" \in FailingWrites
          /\ SetReceipt(r, "absent")
          /\ scorer' = [scorer EXCEPT ![r] = "failed"]
    /\ UNCHANGED <<script, serving, asked, kinds, status>>

(***************************************************************************)
(* The specification.                                                      *)
(***************************************************************************)
Step(r) ==
    \/ Start(r) \/ RefuseRoot(r) \/ Lock(r) \/ MakeRoot(r) \/ SetTraps(r)
    \/ WriteStarting(r) \/ Spawn(r) \/ Name(r) \/ Ready(r) \/ NotReady(r)
    \/ WriteEvaluating(r) \/ StartScorer(r) \/ ScorerReturned(r)
    \/ WriteComplete(r) \/ MarkComplete(r) \/ PrintScore(r)
    \/ TerminateServer(r) \/ AwaitServer(r) \/ WriteVerdict(r) \/ Unlock(r)

ServerStep(r) == Detach(r) \/ Bind(r) \/ LeaderEnds(r) \/ WorkersEnd(r)

ScorerStep(r) ==
    Preflight(r) \/ Ask(r) \/ ScorerAborts(r) \/ CreateReceipt(r) \/ FinishReceipt(r)

Next == \E r \in Runners : Step(r) \/ ServerStep(r) \/ ScorerStep(r) \/ Signal(r) \/ Kill(r)

Spec == Init /\ [][Next]_vars

\* bash goes on: its only waits are the lock, 1800 s of probes, the scorer and
\* the server.  A request ends by its 3600 s timeout.  A server that was told
\* to stop does; nothing says that any other server ends.
Fairness ==
    \A r \in Runners :
        /\ WF_vars(~At(r, "idle") /\ Step(r))
        /\ WF_vars(ScorerStep(r))
        /\ WF_vars(Detach(r))
        /\ WF_vars(termed[r] /\ LeaderEnds(r))
        /\ WF_vars(WorkersEnd(r))

FairSpec == Spec /\ Fairness

=============================================================================
