------------------------ MODULE ResidentCoordinator ------------------------
(***************************************************************************)
(* The resident three-benchmark coordinator of                             *)
(* repro/eval_tools/run_threebench_resident_formal_v1.py.                  *)
(*                                                                         *)
(* One coordinator evaluates one checkpoint: it takes the GPU0-7 lease     *)
(* (a non-blocking flock), starts a candidate server in a session of its   *)
(* own, runs the commands of VStar, MMStar and ZoomBench against it, stops *)
(* the server, runs the judge stage, removes the sample files and          *)
(* publishes a result and a status.  HUP, TERM and INT become an exception *)
(* at whatever bytecode is running; SIGKILL ends the coordinator and       *)
(* leaves its children.  Several coordinators share the lease and, when    *)
(* their port and model id agree, the HTTP endpoint readiness is probed    *)
(* on.                                                                     *)
(*                                                                         *)
(* pc is the place in _execute/_execute_impl a coordinator has reached;    *)
(* each action runs to the next point at which a signal, a failure, a kill *)
(* or another coordinator can make a difference.                           *)
(***************************************************************************)
EXTENDS Naturals

CONSTANTS
    Coordinators,   \* the executions that share the GPUs
    NoOne,          \* the lease is free / no endpoint was probed
    Service,        \* Service[c]: the (port, model id) coordinator c serves
    CommandsOf,     \* CommandsOf[s]: how many commands stage s runs
    MayOutlive,     \* descendants can go on when the leader of their group ends
    MayBeKilled,    \* SIGKILL (the queue's, or the OOM killer's) can happen
    DiskMayFail     \* the writes whose OSError the code swallows can fail

Benchmarks == {"vstar", "mmstar", "zoombench"}

Stages == Benchmarks \cup {"judge"}

ASSUME CoordinatorAssumption ==
    /\ NoOne \notin Coordinators
    /\ CommandsOf \in [Stages -> Nat \ {0}]
    /\ MayOutlive \in BOOLEAN
    /\ MayBeKilled \in BOOLEAN
    /\ DiskMayFail \in BOOLEAN

VARIABLES
    pc,           \* where the coordinator is
    stage,        \* the benchmark of the loop, then "judge"
    todo,         \* commands of the stage still to run
    signalled,    \* state.signal_number is not None
    cleaning,     \* state.cleaning
    failing,      \* an exception is propagating (exit code 2)
    registered,   \* state.processes
    cand,         \* the candidate server's process group
    cmd,          \* the current protocol or judge command's process group
    left,         \* whose commands left processes when their leader ended
    endpoint,     \* whose server answered the readiness probe
    authorities,  \* the benchmarks in the dictionary `authorities`
    lease,        \* who holds the flock on LOCK_PATH
    status,       \* lifecycle/status.json
    result,       \* threebench_resident_result.json
    benchStatus,  \* <bench>/status.json
    samples       \* benchmarks whose sample files are on disk

control == <<pc, stage, todo>>
memory  == <<signalled, cleaning, failing, authorities>>
procs   == <<registered, cand, cmd, left, endpoint>>
disk    == <<status, result, benchStatus, samples>>
vars    == <<control, memory, procs, lease, disk>>

(***************************************************************************)
(* The places of the program.                                              *)
(***************************************************************************)
\* Inside `with _gpu_lease()`, outside process.wait().
Body == {"spawn", "register", "ready", "open", "command", "enlist", "enter",
         "remove", "close", "stop_candidate", "mark_stopped", "cache",
         "result", "result_open", "complete", "release"}

Terminal == {"exited", "killed"}

Places == {"setup", "pointers", "runtime", "lease", "wait", "stop_command",
           "unwind", "handler", "cleanup", "unlink", "mark_failed", "outer",
           "return", "final", "final_cleanup"} \cup Body \cup Terminal

\* Where an exception raised at l is caught.  It leaves the `with` block, and
\* so drops the lease, before the except clause runs.
Catch(l) ==
    CASE l \in Body \cup {"unwind"}                  -> "unwind"
      [] l = "wait"                                  -> "stop_command"
      [] l = "lease"                                 -> "handler"
      [] l \in {"pointers", "runtime", "handler", "return"} -> "outer"
      [] l \in {"setup", "outer"}                    -> "final"
      [] OTHER                                       -> "exited"

\* Where the program can raise an exception of its own: a failed check, an
\* OSError, a timeout.  A failing command is CommandFails.
Fallible == {"setup", "pointers", "runtime", "lease", "spawn", "ready", "open",
             "command", "remove", "close", "mark_stopped", "cache", "result",
             "result_open", "complete"}

BenchmarkOf(s) == IF s = "judge" THEN "zoombench" ELSE s

\* MMStar reduces every response in memory; the others write sample files.
Sampled == {"vstar", "zoombench"}

\* poll() and wait() ask for the leader of a group; its descendants may go on
\* without it ("headless").
Live(p) == p = "live"
Alive(p) == p \in {"live", "headless"}
Groups == {"none", "live", "headless", "dead"}

\* The signal handler ignores a signal once state.finalizing is set; the flag
\* is read there and set to True nowhere.
Finalizing(c) == FALSE

At(c, l) == pc[c] = l
Goto(c, l) == pc' = [pc EXCEPT ![c] = l]

TypeOK ==
    /\ pc \in [Coordinators -> Places]
    /\ stage \in [Coordinators -> Stages]
    /\ todo \in [Coordinators -> Nat]
    /\ signalled \in [Coordinators -> BOOLEAN]
    /\ cleaning \in [Coordinators -> BOOLEAN]
    /\ failing \in [Coordinators -> BOOLEAN]
    /\ registered \in [Coordinators -> SUBSET {"candidate", "command"}]
    /\ cand \in [Coordinators -> Groups]
    /\ cmd \in [Coordinators -> Groups]
    /\ left \in SUBSET Coordinators
    /\ endpoint \in [Coordinators -> Coordinators \cup {NoOne}]
    /\ authorities \in [Coordinators -> SUBSET Benchmarks]
    /\ lease \in Coordinators \cup {NoOne}
    /\ status \in [Coordinators ->
                   {"none", "starting", "candidate_stopped", "complete", "failed"}]
    /\ result \in [Coordinators -> {"absent", "partial", "present"}]
    /\ benchStatus \in [Coordinators -> [Benchmarks ->
                   {"none", "evaluating", "candidate_complete", "complete"}]]
    /\ samples \in [Coordinators -> SUBSET Benchmarks]

Init ==
    /\ pc = [c \in Coordinators |-> "setup"]
    /\ stage = [c \in Coordinators |-> "vstar"]
    /\ todo = [c \in Coordinators |-> 0]
    /\ signalled = [c \in Coordinators |-> FALSE]
    /\ cleaning = [c \in Coordinators |-> FALSE]
    /\ failing = [c \in Coordinators |-> FALSE]
    /\ registered = [c \in Coordinators |-> {}]
    /\ cand = [c \in Coordinators |-> "none"]
    /\ cmd = [c \in Coordinators |-> "none"]
    /\ left = {}
    /\ endpoint = [c \in Coordinators |-> NoOne]
    /\ authorities = [c \in Coordinators |-> {}]
    /\ lease = NoOne
    /\ status = [c \in Coordinators |-> "none"]
    /\ result = [c \in Coordinators |-> "absent"]
    /\ benchStatus = [c \in Coordinators |-> [b \in Benchmarks |-> "none"]]
    /\ samples = [c \in Coordinators |-> {}]

(***************************************************************************)
(* Seeded faults.  Each is a variant of the action whose name it extends,  *)
(* used by no specification: put in its place, it must break a property.   *)
(***************************************************************************)
\* The lease is taken without looking at it.
AcquireLeaseUnchecked(c) ==
    /\ At(c, "lease") /\ Goto(c, "spawn")
    /\ lease' = c
    /\ UNCHANGED <<stage, todo, memory, procs, disk>>

\* Two commands are counted for one.
SpawnCommandCountsTwo(c) ==
    /\ At(c, "command") /\ Goto(c, "enlist")
    /\ todo[c] > 0
    /\ todo' = [todo EXCEPT ![c] = @ - 2]
    /\ cmd' = [cmd EXCEPT ![c] = "live"]
    /\ samples' = [samples EXCEPT ![c] = @ \cup (Sampled \cap {BenchmarkOf(stage[c])})]
    /\ UNCHANGED <<stage, memory, registered, cand, left, endpoint, lease,
                   status, result, benchStatus>>

\* The cleanup certificate is issued and the files stay.
RemoveSamplesNot(c) ==
    /\ At(c, "remove") /\ Goto(c, "close")
    /\ authorities' = [authorities EXCEPT ![c] = @ \cup {BenchmarkOf(stage[c])}]
    /\ UNCHANGED <<stage, todo, signalled, cleaning, failing, procs, lease, disk>>

\* The run is published after the candidate phase, without the judge's.
CandidateCompletePublishes(c) ==
    /\ At(c, "command") /\ Goto(c, "result")
    /\ todo[c] = 0 /\ stage[c] = "zoombench"
    /\ benchStatus' = [benchStatus EXCEPT ![c]["zoombench"] = "candidate_complete"]
    /\ UNCHANGED <<stage, todo, memory, procs, lease, status, result, samples>>

\* The lease covers the candidate phase only.
MarkStoppedReleases(c) ==
    /\ At(c, "mark_stopped") /\ Goto(c, "cache")
    /\ status' = [status EXCEPT ![c] = "candidate_stopped"]
    /\ lease' = NoOne
    /\ UNCHANGED <<stage, todo, memory, procs, result, benchStatus, samples>>

\* The interrupted wait waits on.
StopCommandWaits(c) ==
    /\ At(c, "stop_command") /\ Goto(c, "unwind")
    /\ ~Live(cmd[c])
    /\ cmd' = [cmd EXCEPT ![c] = "none"]
    /\ registered' = [registered EXCEPT ![c] = @ \ {"command"}]
    /\ UNCHANGED <<stage, todo, memory, cand, left, endpoint, lease, disk>>

(***************************************************************************)
(* Setup: until state.lifecycle is set nothing can be marked failed.       *)
(***************************************************************************)
\* Arguments, source pins, fresh roots, private cache, manifest, pointers.
Setup(c) ==
    /\ At(c, "setup") /\ Goto(c, "pointers")
    /\ UNCHANGED <<stage, todo, memory, procs, lease, disk>>

WriteStarting(c) ==
    /\ At(c, "pointers") /\ Goto(c, "runtime")
    /\ status' = [status EXCEPT ![c] = "starting"]
    /\ UNCHANGED <<stage, todo, memory, procs, lease, result, benchStatus, samples>>

EnterTry(c) ==
    /\ At(c, "runtime") /\ Goto(c, "lease")
    /\ UNCHANGED <<stage, todo, memory, procs, lease, disk>>

AcquireLease(c) ==
    /\ At(c, "lease") /\ Goto(c, "spawn")
    /\ lease = NoOne
    /\ lease' = c
    /\ UNCHANGED <<stage, todo, memory, procs, disk>>

\* LOCK_NB: a busy lease is an error, not a wait.
LeaseBusy(c) ==
    /\ At(c, "lease") /\ Goto(c, "handler")
    /\ lease # NoOne
    /\ failing' = [failing EXCEPT ![c] = TRUE]
    /\ UNCHANGED <<stage, todo, signalled, cleaning, authorities, procs, lease, disk>>

(***************************************************************************)
(* The candidate server.                                                   *)
(***************************************************************************)
SpawnCandidate(c) ==
    /\ At(c, "spawn") /\ Goto(c, "register")
    /\ cand' = [cand EXCEPT ![c] = "live"]
    /\ UNCHANGED <<stage, todo, memory, registered, cmd, left, endpoint, lease, disk>>

RegisterCandidate(c) ==
    /\ At(c, "register") /\ Goto(c, "ready")
    /\ registered' = [registered EXCEPT ![c] = @ \cup {"candidate"}]
    /\ UNCHANGED <<stage, todo, memory, cand, cmd, left, endpoint, lease, disk>>

\* The probe compares the port and the model id; it cannot tell whose server
\* answers, only that the process it started has not exited.
Ready(c, d) ==
    /\ At(c, "ready") /\ Goto(c, "open")
    /\ Live(cand[c]) /\ Alive(cand[d])
    /\ Service[d] = Service[c]
    /\ endpoint' = [endpoint EXCEPT ![c] = d]
    /\ UNCHANGED <<stage, todo, memory, registered, cand, cmd, left, lease, disk>>

(***************************************************************************)
(* A stage: its status, its commands (_run_logged), its authority.         *)
(***************************************************************************)
OpenBenchmark(c) ==
    /\ At(c, "open") /\ Goto(c, "command")
    /\ todo' = [todo EXCEPT ![c] = CommandsOf[stage[c]]]
    /\ benchStatus' = [benchStatus EXCEPT ![c][stage[c]] = "evaluating"]
    /\ UNCHANGED <<stage, memory, procs, lease, status, result, samples>>

SpawnCommand(c) ==
    /\ At(c, "command") /\ Goto(c, "enlist")
    /\ todo[c] > 0
    /\ todo' = [todo EXCEPT ![c] = @ - 1]
    /\ cmd' = [cmd EXCEPT ![c] = "live"]
    /\ samples' = [samples EXCEPT ![c] = @ \cup (Sampled \cap {BenchmarkOf(stage[c])})]
    /\ UNCHANGED <<stage, memory, registered, cand, left, endpoint, lease,
                   status, result, benchStatus>>

RegisterCommand(c) ==
    /\ At(c, "enlist") /\ Goto(c, "enter")
    /\ registered' = [registered EXCEPT ![c] = @ \cup {"command"}]
    /\ UNCHANGED <<stage, todo, memory, cand, cmd, left, endpoint, lease, disk>>

EnterWait(c) ==
    /\ At(c, "enter") /\ Goto(c, "wait")
    /\ UNCHANGED <<stage, todo, memory, procs, lease, disk>>

\* wait() returned: the command is unregistered whatever its return code, and
\* its group is not signalled: nobody knows its descendants any more.
Reap(c) ==
    /\ At(c, "wait") /\ cmd[c] \in {"headless", "dead"}
    /\ left' = IF Alive(cmd[c]) THEN left \cup {c} ELSE left
    /\ cmd' = [cmd EXCEPT ![c] = "none"]
    /\ registered' = [registered EXCEPT ![c] = @ \ {"command"}]
    /\ UNCHANGED <<stage, todo, signalled, cleaning, authorities, cand, endpoint,
                   lease, disk>>

CommandSucceeds(c) == Reap(c) /\ Goto(c, "command") /\ UNCHANGED failing

CommandFails(c) ==
    /\ Reap(c) /\ Goto(c, "unwind")
    /\ failing' = [failing EXCEPT ![c] = TRUE]

\* The authority file was validated; ZoomBench has none before the judge.
ReadAuthority(c) ==
    /\ At(c, "command") /\ Goto(c, "remove")
    /\ todo[c] = 0 /\ stage[c] # "zoombench"
    /\ UNCHANGED <<stage, todo, memory, procs, lease, disk>>

RemoveSamples(c) ==
    /\ At(c, "remove") /\ Goto(c, "close")
    /\ samples' = [samples EXCEPT ![c] = @ \ {BenchmarkOf(stage[c])}]
    /\ authorities' = [authorities EXCEPT ![c] = @ \cup {BenchmarkOf(stage[c])}]
    /\ UNCHANGED <<stage, todo, signalled, cleaning, failing, procs, lease,
                   status, result, benchStatus>>

CloseBenchmark(c) ==
    /\ At(c, "close")
    /\ benchStatus' = [benchStatus EXCEPT ![c][BenchmarkOf(stage[c])] = "complete"]
    /\ \/ stage[c] = "vstar"  /\ stage' = [stage EXCEPT ![c] = "mmstar"] /\ Goto(c, "open")
       \/ stage[c] = "mmstar" /\ stage' = [stage EXCEPT ![c] = "zoombench"] /\ Goto(c, "open")
       \/ stage[c] = "judge"  /\ UNCHANGED stage /\ Goto(c, "result")
    /\ UNCHANGED <<todo, memory, procs, lease, status, result, samples>>

\* The compatibility status.env and the candidate_complete status.
CandidateComplete(c) ==
    /\ At(c, "command") /\ Goto(c, "stop_candidate")
    /\ todo[c] = 0 /\ stage[c] = "zoombench"
    /\ benchStatus' = [benchStatus EXCEPT ![c]["zoombench"] = "candidate_complete"]
    /\ UNCHANGED <<stage, todo, memory, procs, lease, status, result, samples>>

\* TERM, up to 120 s, KILL: the group is gone when _stop_process returns.
StopCandidate(c) ==
    /\ At(c, "stop_candidate") /\ Goto(c, "mark_stopped")
    /\ cand' = [cand EXCEPT ![c] = "dead"]
    /\ registered' = [registered EXCEPT ![c] = @ \ {"candidate"}]
    /\ UNCHANGED <<stage, todo, memory, cmd, left, endpoint, lease, disk>>

MarkStopped(c) ==
    /\ At(c, "mark_stopped") /\ Goto(c, "cache")
    /\ status' = [status EXCEPT ![c] = "candidate_stopped"]
    /\ UNCHANGED <<stage, todo, memory, procs, lease, result, benchStatus, samples>>

PrepareJudge(c) ==
    /\ At(c, "cache") /\ Goto(c, "command")
    /\ stage' = [stage EXCEPT ![c] = "judge"]
    /\ todo' = [todo EXCEPT ![c] = CommandsOf["judge"]]
    /\ UNCHANGED <<memory, procs, lease, disk>>

(***************************************************************************)
(* Publication and return.                                                 *)
(***************************************************************************)
\* O_CREAT|O_EXCL, then the bytes: a signal in between leaves a partial file.
OpenResult(c) ==
    /\ At(c, "result") /\ Goto(c, "result_open")
    /\ result' = [result EXCEPT ![c] = "partial"]
    /\ UNCHANGED <<stage, todo, memory, procs, lease, status, benchStatus, samples>>

WriteResult(c) ==
    /\ At(c, "result_open") /\ Goto(c, "complete")
    /\ result' = [result EXCEPT ![c] = "present"]
    /\ UNCHANGED <<stage, todo, memory, procs, lease, status, benchStatus, samples>>

WriteComplete(c) ==
    /\ At(c, "complete") /\ Goto(c, "release")
    /\ status' = [status EXCEPT ![c] = "complete"]
    /\ UNCHANGED <<stage, todo, memory, procs, lease, result, benchStatus, samples>>

ReleaseLease(c) ==
    /\ At(c, "release") /\ Goto(c, "return")
    /\ lease' = NoOne
    /\ UNCHANGED <<stage, todo, memory, procs, disk>>

Return(c) ==
    /\ At(c, "return") /\ Goto(c, "final")
    /\ UNCHANGED <<stage, todo, memory, procs, lease, disk>>

(***************************************************************************)
(* Failure: signals, exceptions and what catches them.                     *)
(***************************************************************************)
\* _resident_signal_handler: the first signal raises, later ones and those
\* during cleanup are ignored.
Signal(c) ==
    /\ pc[c] \notin Terminal
    /\ ~signalled[c] /\ ~cleaning[c] /\ ~Finalizing(c)
    /\ signalled' = [signalled EXCEPT ![c] = TRUE]
    /\ failing' = [failing EXCEPT ![c] = TRUE]
    /\ Goto(c, Catch(pc[c]))
    /\ UNCHANGED <<stage, todo, cleaning, authorities, procs, lease, disk>>

Fail(c) ==
    /\ pc[c] \in Fallible
    /\ failing' = [failing EXCEPT ![c] = TRUE]
    /\ Goto(c, Catch(pc[c]))
    /\ UNCHANGED <<stage, todo, signalled, cleaning, authorities, procs, lease, disk>>

\* `except BaseException` around process.wait(): stop, unregister, re-raise.
StopCommand(c) ==
    /\ At(c, "stop_command") /\ Goto(c, "unwind")
    /\ cmd' = [cmd EXCEPT ![c] = "none"]
    /\ registered' = [registered EXCEPT ![c] = @ \ {"command"}]
    /\ UNCHANGED <<stage, todo, memory, cand, left, endpoint, lease, disk>>

\* The exception leaves the `with` block: LOCK_UN, close.
Unwind(c) ==
    /\ At(c, "unwind") /\ Goto(c, "handler")
    /\ lease' = NoOne
    /\ UNCHANGED <<stage, todo, memory, procs, disk>>

\* state.cleanup() of the except clause, and the one of the finally clause.
BeginCleanup(c) ==
    /\ \/ At(c, "handler") /\ Goto(c, "cleanup")
       \/ At(c, "final") /\ Goto(c, "final_cleanup")
    /\ ~cleaning[c]
    /\ cleaning' = [cleaning EXCEPT ![c] = TRUE]
    /\ UNCHANGED <<stage, todo, signalled, failing, authorities, procs, lease, disk>>

\* Registration order: the candidate first.
StopRegistered(c) ==
    /\ pc[c] \in {"cleanup", "final_cleanup"}
    /\ \/ /\ "candidate" \in registered[c]
          /\ cand' = [cand EXCEPT ![c] = "dead"]
          /\ registered' = [registered EXCEPT ![c] = @ \ {"candidate"}]
          /\ UNCHANGED cmd
       \/ /\ "candidate" \notin registered[c] /\ "command" \in registered[c]
          /\ cmd' = [cmd EXCEPT ![c] = "dead"]
          /\ registered' = [registered EXCEPT ![c] = @ \ {"command"}]
          /\ UNCHANGED cand
    /\ UNCHANGED <<control, memory, left, endpoint, lease, disk>>

EndCleanup(c) ==
    /\ registered[c] = {}
    /\ \/ At(c, "cleanup") /\ Goto(c, "unlink")
       \/ At(c, "final_cleanup") /\ Goto(c, "exited")
    /\ UNCHANGED <<stage, todo, memory, procs, lease, disk>>

\* An OSError of the unlink is swallowed.
UnlinkResult(c) ==
    /\ At(c, "unlink") /\ Goto(c, "mark_failed")
    /\ \/ result' = [result EXCEPT ![c] = "absent"]
       \/ DiskMayFail /\ UNCHANGED result
    /\ UNCHANGED <<stage, todo, memory, procs, lease, status, benchStatus, samples>>

\* Both except clauses write the failed status and swallow a failing write.
MarkFailed(c) ==
    /\ \/ At(c, "mark_failed") /\ Goto(c, "outer")
       \/ At(c, "outer") /\ Goto(c, "final")
    /\ \/ status' = [status EXCEPT ![c] = "failed"]
       \/ DiskMayFail /\ UNCHANGED status
    /\ UNCHANGED <<stage, todo, memory, procs, lease, result, benchStatus, samples>>

\* cleanup() has run before: the finally clause has nothing left to do.
SkipCleanup(c) ==
    /\ At(c, "final") /\ Goto(c, "exited")
    /\ cleaning[c]
    /\ UNCHANGED <<stage, todo, memory, procs, lease, disk>>

\* SIGKILL: the kernel closes the lock's descriptor, which the children, in
\* sessions of their own, do not inherit.
Kill(c) ==
    /\ MayBeKilled
    /\ pc[c] \notin Terminal /\ Goto(c, "killed")
    /\ lease' = IF lease = c THEN NoOne ELSE lease
    /\ UNCHANGED <<stage, todo, memory, procs, disk>>

(***************************************************************************)
(* The processes: a server that crashes, a command that ends; all of their *)
(* groups, or the leaders alone.                                           *)
(***************************************************************************)
CandidateExits(c) ==
    /\ \/ Alive(cand[c]) /\ cand' = [cand EXCEPT ![c] = "dead"]
       \/ MayOutlive /\ Live(cand[c]) /\ cand' = [cand EXCEPT ![c] = "headless"]
    /\ UNCHANGED <<control, memory, registered, cmd, left, endpoint, lease, disk>>

CommandExits(c) ==
    /\ \/ Alive(cmd[c]) /\ cmd' = [cmd EXCEPT ![c] = "dead"]
       \/ MayOutlive /\ Live(cmd[c]) /\ cmd' = [cmd EXCEPT ![c] = "headless"]
    /\ UNCHANGED <<control, memory, registered, cand, left, endpoint, lease, disk>>

\* What a command left behind ends by itself, or never.
LeftEnd(c) ==
    /\ c \in left /\ left' = left \ {c}
    /\ UNCHANGED <<control, memory, registered, cand, cmd, endpoint, lease, disk>>

(***************************************************************************)
(* The specification.                                                      *)
(***************************************************************************)
Prepare(c) ==
    \/ Setup(c) \/ WriteStarting(c) \/ EnterTry(c)
    \/ AcquireLease(c) \/ LeaseBusy(c)
    \/ SpawnCandidate(c) \/ RegisterCandidate(c)

ProbeReady(c) == \E d \in Coordinators : Ready(c, d)

Evaluate(c) ==
    \/ OpenBenchmark(c) \/ SpawnCommand(c) \/ RegisterCommand(c) \/ EnterWait(c)
    \/ CommandSucceeds(c) \/ CommandFails(c)
    \/ ReadAuthority(c) \/ RemoveSamples(c) \/ CloseBenchmark(c)
    \/ CandidateComplete(c) \/ StopCandidate(c) \/ MarkStopped(c) \/ PrepareJudge(c)

Publish(c) ==
    \/ OpenResult(c) \/ WriteResult(c) \/ WriteComplete(c)
    \/ ReleaseLease(c) \/ Return(c)

Recover(c) ==
    \/ StopCommand(c) \/ Unwind(c)
    \/ BeginCleanup(c) \/ StopRegistered(c) \/ EndCleanup(c) \/ SkipCleanup(c)
    \/ UnlinkResult(c) \/ MarkFailed(c)

Step(c) == Prepare(c) \/ ProbeReady(c) \/ Evaluate(c) \/ Publish(c) \/ Recover(c)

Environment(c) ==
    \/ Signal(c) \/ Fail(c) \/ Kill(c) \/ CandidateExits(c) \/ CommandExits(c) \/ LeftEnd(c)

Next == \E c \in Coordinators : Step(c) \/ Environment(c)

\* A coordinator that can take a step takes one: it is one thread.
\* _wait_ready gives up at its deadline, which is the failure at "ready".
Fairness ==
    \A c \in Coordinators :
        /\ WF_vars(Step(c))
        /\ WF_vars(At(c, "ready") /\ Fail(c))

Spec == Init /\ [][Next]_vars

FairSpec == Spec /\ Fairness

=============================================================================
