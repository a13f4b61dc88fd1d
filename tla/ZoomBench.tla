----------------------------- MODULE ZoomBench -----------------------------
(***************************************************************************)
(* The formal ZoomBench evaluation: invocations of its orchestrator, which *)
(* execute (candidate, judge, aggregate) or seal what an earlier one left, *)
(* on the files of their roots.  The candidate's lifecycle and the judge's *)
(* matrix run as children of an invocation; their model servers have       *)
(* sessions of their own, and inherit the descriptor of the GPU lease.     *)
(***************************************************************************)
EXTENDS Naturals, FiniteSets

CONSTANTS Runs,        \* invocations
          Roots,       \* run roots, each with its audit root and checkpoint
          Rows,        \* samples of the benchmark
          None, Error, \* no answer, and an answer that is an error
          Identity(_, _), \* Identity(m, n): digest of all files of the nth version of m
          Config(_, _),   \* Config(m, n): digest of its config.json
          Passes,      \* ZOOMBENCH_INFER_MAX_PASSES
          MaxFaults,   \* bound: signals, kills and deaths of servers
          MaxChanges   \* bound: changes of checkpoints and of the data set

VARIABLES answers,   \* answers[r][row]: the version that answered, an error, or nothing
          verdicts,  \* verdicts[r]: the judge's output
          protocol,  \* protocol[r]: judge_protocol.json
          aggregate, \* aggregate[r]: the create-once authority
          status,    \* status[k][r][p]: status.env of the attempt of p in lifecycle k
          weights,   \* weights[m]: which version of m is at its path
          dataset,   \* the benchmark: the pinned one, another, or the pinned one again
          op,        \* op[p]: mode and roots of an invocation
          pc,        \* pc[p]: what p or its child does
          lives,     \* lives[p]: the orchestrator itself has not been killed
          server,    \* server[p]: the model server started for p
          known,     \* known[p]: the matrix has noted its server's process id
          pass,      \* pass[p]: inference passes begun
          seen,      \* seen[p]: versions p has identified, and the receipt it holds
          spent      \* faults and changes so far

rootFiles == <<answers, verdicts, protocol, aggregate, status>>
inputs == <<weights, dataset>>
procs == <<op, pc, lives, server, known, pass, seen>>
vars == <<rootFiles, inputs, procs, spent>>

ASSUME ZoomAssumption ==
    /\ {Passes, MaxFaults, MaxChanges} \subseteq Nat
    /\ None # Error /\ {None, Error} \cap Nat = {}
    /\ None \notin {"running", "initialized", "starting", "judging", "complete", "failed"}
    /\ "judge" \notin Roots
----------------------------------------------------------------------------
Candidate == {"verify", "infer", "candidateDone", "candidateFailed"}
Matrix == {"spawn", "spawned", "waiting", "judging", "judged", "cleanup", "cleanupFailed"}
Own == {"identify", "launch", "identifyJudge", "matrix", "controls", "seal", "link"}
Ended == {"none", "look", "ok", "failed", "killed"}

Root(p) == op[p].root
Resumes(p) == op[p].mode = "resume"
Attempts(k, r) == {p \in Runs : status[k][r][p] # None}

\* Seeded fault: the servers do not inherit the descriptor.
BusyWithoutServers == \E p \in Runs : pc[p] \in Own \cup Candidate \cup Matrix /\ ~Resumes(p)

(* flock -n 9: held by the orchestrator, its children and their servers.   *)
Holds(p) == \/ pc[p] \in Own \cup Candidate \cup Matrix /\ ~Resumes(p)
            \/ server[p] # None
Busy == \E p \in Runs : Holds(p)

(* inspect_answers: 0 if every sample is answered without an error.        *)
Complete(r) == answers[r] # None /\ \A row \in Rows : answers[r][row] \notin {None, Error}

\* Seeded fault: one attempt, whatever became of it.
LifecycleAttempted(k, r) == Cardinality(Attempts(k, r)) = 1

(* build_receipt's code: 0 complete, 1 incomplete, 2 an input error, also   *)
(* when a file cannot be read.  What it says of answers to a benchmark that *)
(* was changed depends on the change; complete are only all the samples.    *)
VerifierExits(r) ==
    {2} \cup (IF dataset = "pinned" THEN {IF Complete(r) THEN 0 ELSE 1}
              ELSE {1} \cup (IF Complete(r) THEN {0} ELSE {}))

(* status_complete, _single_child_status: one attempt, and it is complete. *)
LifecycleComplete(k, r) ==
    \E p \in Runs : Attempts(k, r) = {p} /\ status[k][r][p] = "complete"

Go(p, where) == pc' = [pc EXCEPT ![p] = where]
\* A child has ended: nobody takes up its exit code if p was killed.
Return(p, where) == Go(p, IF lives[p] THEN where ELSE "killed")
Mark(k, p, state) == status' = [status EXCEPT ![k][Root(p)][p] = state]
----------------------------------------------------------------------------
Init ==
    /\ answers = [r \in Roots |-> None] /\ verdicts = answers
    /\ protocol = answers /\ aggregate = answers
    /\ status = [k \in {"candidate", "judge"} |-> [r \in Roots |-> [p \in Runs |-> None]]]
    /\ weights = [m \in Roots \cup {"judge"} |-> 0] /\ dataset = "pinned"
    /\ op = [p \in Runs |-> [mode |-> "execute", root |-> None]]
    /\ pc = [p \in Runs |-> "none"]
    /\ lives = [p \in Runs |-> TRUE]
    /\ server = [p \in Runs |-> None]
    /\ known = [p \in Runs |-> FALSE]
    /\ pass = [p \in Runs |-> 0]
    /\ seen = [p \in Runs |-> [candidate |-> None, judge |-> None, receipt |-> None]]
    /\ spent = [faults |-> 0, changes |-> 0]

(* --execute wants fresh roots; the lease is taken after that look.        *)
LookFresh(p, r) ==
    /\ pc[p] = "none" /\ dataset # "changed" /\ Attempts("candidate", r) = {}
    /\ op' = [op EXCEPT ![p] = [mode |-> "execute", root |-> r]]
    /\ Go(p, "look")
    /\ UNCHANGED <<rootFiles, inputs, lives, server, known, pass, seen, spent>>

TakeLease(p) ==
    /\ pc[p] = "look"
    /\ Go(p, IF Busy THEN "failed" ELSE "identify")
    /\ UNCHANGED <<rootFiles, inputs, op, lives, server, known, pass, seen, spent>>

(* --resume-seal wants both lifecycles complete and no authority yet.      *)
LookComplete(p, r) ==
    /\ pc[p] = "none"
    /\ None \notin {answers[r], verdicts[r], protocol[r]} /\ aggregate[r] = None
    /\ LifecycleComplete("candidate", r) /\ LifecycleComplete("judge", r)
    /\ op' = [op EXCEPT ![p] = [mode |-> "resume", root |-> r]]
    /\ Go(p, "identify")
    /\ UNCHANGED <<rootFiles, inputs, lives, server, known, pass, seen, spent>>

(* --checkpoint-identity *)
Identify(p) ==
    /\ \/ /\ pc[p] = "identify"
          /\ seen' = [seen EXCEPT ![p].candidate = weights[Root(p)]]
          /\ Go(p, IF Resumes(p) THEN "identifyJudge" ELSE "launch")
       \/ /\ pc[p] = "identifyJudge"
          /\ seen' = [seen EXCEPT ![p].judge = weights["judge"]]
          /\ Go(p, IF Resumes(p) THEN "seal" ELSE "matrix")
    /\ UNCHANGED <<rootFiles, inputs, op, lives, server, known, pass, spent>>
----------------------------------------------------------------------------
(* The candidate's lifecycle: a server, the verified inference, its status. *)
Launch(p) ==
    /\ pc[p] = "launch"
    /\ server' = [server EXCEPT ![p] = weights[Root(p)]]
    /\ Mark("candidate", p, "running")
    /\ Go(p, "verify")
    /\ UNCHANGED <<answers, verdicts, protocol, aggregate, inputs, op, lives, known, pass, seen, spent>>

\* Seeded fault: one pass too many.
VerifyOnceMore(p) ==
    /\ pc[p] = "verify"
    /\ \E code \in VerifierExits(Root(p)) :
           IF code = 1 /\ pass[p] <= Passes
           THEN Go(p, "infer") /\ pass' = [pass EXCEPT ![p] = @ + 1]
           ELSE Go(p, IF code = 0 THEN "candidateDone" ELSE "candidateFailed") /\ UNCHANGED pass
    /\ UNCHANGED <<rootFiles, inputs, op, lives, server, known, seen, spent>>

(* run_verified_inference: another pass while the verifier says incomplete *)
(* and passes are left; its input error ends it.                           *)
Verify(p) ==
    /\ pc[p] = "verify"
    /\ \E code \in VerifierExits(Root(p)) :
           IF code = 1 /\ pass[p] < Passes
           THEN Go(p, "infer") /\ pass' = [pass EXCEPT ![p] = @ + 1]
           ELSE Go(p, IF code = 0 THEN "candidateDone" ELSE "candidateFailed") /\ UNCHANGED pass
    /\ UNCHANGED <<rootFiles, inputs, op, lives, server, known, seen, spent>>

(* One pass of infer.py over the samples that are missing or were errors;  *)
(* it may end early, and without a server every call is an error.          *)
Infer(p) ==
    LET r == Root(p)
        old(row) == IF answers[r] = None THEN None ELSE answers[r][row]
        out == IF server[p] = None THEN {Error} ELSE {Error, server[p]} IN
    /\ pc[p] = "infer"
    /\ \E got \in [Rows -> out \cup {None}] :
           answers' = [answers EXCEPT ![r] =
               [row \in Rows |-> IF old(row) \in {None, Error} THEN got[row] ELSE old(row)]]
    /\ Go(p, "verify")
    /\ UNCHANGED <<verdicts, protocol, aggregate, status, inputs, op, lives, server, known, pass, seen, spent>>

EndCandidate(p) ==
    /\ pc[p] \in {"candidateDone", "candidateFailed"}
    /\ server' = [server EXCEPT ![p] = None]
    /\ Mark("candidate", p, IF pc[p] = "candidateDone" THEN "complete" ELSE "failed")
    /\ Return(p, IF pc[p] = "candidateDone" THEN "identifyJudge" ELSE "failed")
    /\ UNCHANGED <<answers, verdicts, protocol, aggregate, inputs, op, lives, known, pass, seen, spent>>
----------------------------------------------------------------------------
(* The judge's matrix makes its attempt; its port may be taken.            *)
BeginMatrix(p) ==
    /\ pc[p] = "matrix"
    /\ \/ Mark("judge", p, "starting") /\ Go(p, "spawn")
       \/ Mark("judge", p, "initialized") /\ Go(p, "failed")
    /\ UNCHANGED <<answers, verdicts, protocol, aggregate, inputs, op, lives, server, known, pass, seen, spent>>

Spawn(p) ==
    /\ pc[p] = "spawn" /\ Go(p, "spawned")
    /\ server' = [server EXCEPT ![p] = weights["judge"]]
    /\ UNCHANGED <<rootFiles, inputs, op, lives, known, pass, seen, spent>>

NoteServer(p) ==
    /\ pc[p] = "spawned" /\ Go(p, "waiting")
    /\ known' = [known EXCEPT ![p] = TRUE]
    /\ UNCHANGED <<rootFiles, inputs, op, lives, server, pass, seen, spent>>

(* Healthy with the judge's model id, or dead or too late.                 *)
AwaitReady(p) ==
    /\ pc[p] = "waiting"
    /\ \/ server[p] # None /\ Mark("judge", p, "judging") /\ Go(p, "judging")
       \/ Go(p, "cleanupFailed") /\ UNCHANGED status
    /\ UNCHANGED <<answers, verdicts, protocol, aggregate, inputs, op, lives, server, known, pass, seen, spent>>

(* judge-score verifies again, then the official judge is called.  A call  *)
(* that fails three times is a No to it; what rules decide needs no server. *)
(* A command of these may also fail.                                       *)
JudgeRows(p) ==
    LET r == Root(p)
        out == IF server[p] = None THEN {"yes", "no", "outage"} ELSE {"yes", "no"} IN
    /\ pc[p] = "judging"
    /\ \/ /\ 0 \in VerifierExits(r) /\ answers[r] # None
          /\ \E says \in [Rows -> out] :
                 verdicts' = [verdicts EXCEPT ![r] = [says |-> says, judge |-> server[p]]]
          /\ Go(p, "judged")
       \/ Go(p, "cleanupFailed") /\ UNCHANGED verdicts
    /\ UNCHANGED <<answers, protocol, aggregate, status, inputs, op, lives, server, known, pass, seen, spent>>

(* Scored, and the protocol written; or the scorer has failed.             *)
WriteProtocol(p) ==
    /\ pc[p] = "judged"
    /\ \/ /\ protocol' = [protocol EXCEPT ![Root(p)] = [judge |-> weights["judge"], controls |-> FALSE]]
          /\ Go(p, "cleanup")
       \/ Go(p, "cleanupFailed") /\ UNCHANGED protocol
    /\ UNCHANGED <<answers, verdicts, aggregate, status, inputs, op, lives, server, known, pass, seen, spent>>

\* Seeded fault: the server is left to the operating system.
CleanupLeavesServer(p) ==
    /\ pc[p] \in {"cleanup", "cleanupFailed"}
    /\ Mark("judge", p, IF pc[p] = "cleanup" THEN "complete" ELSE "failed")
    /\ Return(p, IF pc[p] = "cleanup" THEN "controls" ELSE "failed")
    /\ UNCHANGED <<answers, verdicts, protocol, aggregate, inputs, op, lives, server, known, pass, seen, spent>>

(* The EXIT trap stops the server it knows of, then writes the status.     *)
Cleanup(p) ==
    /\ pc[p] \in {"cleanup", "cleanupFailed"}
    /\ IF known[p] /\ server[p] # None
       THEN server' = [server EXCEPT ![p] = None] /\ UNCHANGED <<pc, status>>
       ELSE /\ Mark("judge", p, IF pc[p] = "cleanup" THEN "complete" ELSE "failed")
            /\ Return(p, IF pc[p] = "cleanup" THEN "controls" ELSE "failed")
            /\ UNCHANGED server
    /\ UNCHANGED <<answers, verdicts, protocol, aggregate, inputs, op, lives, known, pass, seen, spent>>
----------------------------------------------------------------------------
(* The orchestrator binds the judge's controls into the protocol ...       *)
BindControls(p) ==
    /\ pc[p] = "controls" /\ Go(p, "seal")
    /\ protocol' = [protocol EXCEPT ![Root(p)].controls = TRUE]
    /\ UNCHANGED <<answers, verdicts, aggregate, status, inputs, op, lives, server, known, pass, seen, spent>>

Same(m, before) == Identity(m, weights[m]) = Identity(m, before)
Unchanged(p) == Same(Root(p), seen[p].candidate) /\ Same("judge", seen[p].judge)
OneAttempt(r) == Cardinality(Attempts("judge", r)) = 1
ProtocolHolds(r) ==
    protocol[r] # None /\ Config("judge", protocol[r].judge) = Config("judge", weights["judge"])
BothComplete(r) == LifecycleComplete("candidate", r) /\ LifecycleComplete("judge", r)
SameRows(r) == verdicts[r] # None /\ answers[r] # None /\ \A row \in Rows : answers[r][row] # None

\* Seeded fault: the identities are not looked at again.
SealableUnidentified(p) ==
    LET r == Root(p) IN
    /\ aggregate[r] = None /\ dataset # "changed" /\ OneAttempt(r) /\ protocol[r] # None
    /\ Resumes(p) => BothComplete(r)
    /\ SameRows(r)

(* ... and the aggregator checks what it seals: the identities, the data   *)
(* set, one audit attempt, the protocol, and that answers and verdicts     *)
(* have the same rows; a resumption also that both lifecycles are complete. *)
Sealable(p) ==
    LET r == Root(p) IN
    /\ aggregate[r] = None /\ Unchanged(p) /\ dataset # "changed"
    /\ OneAttempt(r) /\ ProtocolHolds(r)
    /\ Resumes(p) => BothComplete(r)
    /\ SameRows(r)

(* Of the identities, which are the same before and now, it keeps the       *)
(* versions they were taken from.                                          *)
Receipt(p) ==
    LET r == Root(p) IN
    [mode |-> op[p].mode,
     candidate |-> <<seen[p].candidate, weights[r]>>, judge |-> <<seen[p].judge, weights["judge"]>>,
     answers |-> answers[r], verdicts |-> verdicts[r], controls |-> protocol[r].controls]

Seal(p) ==
    /\ pc[p] = "seal"
    /\ IF Sealable(p)
       THEN seen' = [seen EXCEPT ![p].receipt = Receipt(p)] /\ Go(p, "link")
       ELSE Go(p, "failed") /\ UNCHANGED seen
    /\ UNCHANGED <<rootFiles, inputs, op, lives, server, known, pass, spent>>

(* os.link: whoever is first.                                              *)
Link(p) ==
    /\ pc[p] = "link"
    /\ IF aggregate[Root(p)] = None
       THEN aggregate' = [aggregate EXCEPT ![Root(p)] = seen[p].receipt] /\ Go(p, "ok")
       ELSE Go(p, "failed") /\ UNCHANGED aggregate
    /\ UNCHANGED <<answers, verdicts, protocol, status, inputs, op, lives, server, known, pass, seen, spent>>

(* A command of the orchestrator's own fails, or it is signalled there.    *)
Fail(p) ==
    /\ pc[p] \in Own /\ Go(p, "failed")
    /\ UNCHANGED <<rootFiles, inputs, op, lives, server, known, pass, seen, spent>>
----------------------------------------------------------------------------
Fault == spent.faults < MaxFaults /\ spent' = [spent EXCEPT !.faults = @ + 1]

(* The orchestrator is killed, or signalled, which it takes up only when   *)
(* its child has ended: the child goes on under the lease.                 *)
KillOrchestrator(p) ==
    /\ Fault /\ pc[p] \in Candidate \cup Matrix /\ lives[p]
    /\ lives' = [lives EXCEPT ![p] = FALSE]
    /\ UNCHANGED <<rootFiles, inputs, op, pc, server, known, pass, seen>>

(* SIGKILL of the child: no trap, the server goes on.                      *)
KillChild(p) ==
    /\ Fault /\ pc[p] \in Candidate \cup Matrix
    /\ Return(p, "failed")
    /\ UNCHANGED <<rootFiles, inputs, op, lives, server, known, pass, seen>>

(* TERM to the matrix is taken between two commands.                       *)
SignalMatrix(p) ==
    /\ Fault /\ pc[p] \in Matrix \ {"cleanup", "cleanupFailed"}
    /\ Go(p, "cleanupFailed")
    /\ UNCHANGED <<rootFiles, inputs, op, lives, server, known, pass, seen>>

ServerEnds(p) ==
    /\ Fault /\ server[p] # None
    /\ server' = [server EXCEPT ![p] = None]
    /\ UNCHANGED <<rootFiles, inputs, op, pc, lives, known, pass, seen>>

(* A checkpoint is replaced, with other files or with those of an earlier   *)
(* version; or the benchmark is changed, or put back.                      *)
Change ==
    /\ spent.changes < MaxChanges /\ spent' = [spent EXCEPT !.changes = @ + 1]
    /\ \/ \E m \in DOMAIN weights : weights' = [weights EXCEPT ![m] = @ + 1] /\ UNCHANGED dataset
       \/ dataset' = (IF dataset = "changed" THEN "restored" ELSE "changed") /\ UNCHANGED weights
    /\ UNCHANGED <<rootFiles, procs>>

Step(p) ==
    \/ TakeLease(p) \/ Identify(p)
    \/ Launch(p) \/ Verify(p) \/ Infer(p) \/ EndCandidate(p)
    \/ BeginMatrix(p) \/ Spawn(p) \/ NoteServer(p) \/ AwaitReady(p)
    \/ JudgeRows(p) \/ WriteProtocol(p) \/ Cleanup(p)
    \/ BindControls(p) \/ Seal(p) \/ Link(p)

Next ==
    \/ \E p \in Runs, r \in Roots : LookFresh(p, r) \/ LookComplete(p, r)
    \/ \E p \in Runs : \/ Step(p) \/ Fail(p)
                       \/ KillOrchestrator(p) \/ KillChild(p) \/ SignalMatrix(p) \/ ServerEnds(p)
    \/ Change

Spec == Init /\ [][Next]_vars
=============================================================================
