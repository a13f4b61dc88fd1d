------------------------- MODULE ResidentProperties -------------------------
(***************************************************************************)
(* What the resident coordinator promises, and what its comments promise   *)
(* beyond what it does.                                                    *)
(***************************************************************************)
EXTENDS ResidentCoordinator

\* Process groups of the coordinator live, with their leaders or without;
\* but for what a command left behind whose leader had ended, which the
\* coordinator itself counts as over (left).
Working(c) == Alive(cand[c]) \/ Alive(cmd[c])

Healthy(c) == ~failing[c] /\ pc[c] # "killed"

Published(c) == status[c] = "complete" /\ result[c] = "present"

(***************************************************************************)
(* Safety.                                                                 *)
(***************************************************************************)
\* What the queue accepts as complete (it parses the result file and asks the
\* status nothing) has all three authorities, no sample file left, every
\* benchmark closed and no process group of the coordinator still on the GPUs,
\* also when the coordinator was killed right after the file was written.
PublishedIsCertified ==
    \A c \in Coordinators :
        result[c] = "present" =>
            /\ authorities[c] = Benchmarks
            /\ samples[c] = {}
            /\ \A b \in Benchmarks : benchStatus[c][b] = "complete"
            /\ ~Working(c)

\* The judge and the candidate never share the GPUs: no judge command runs
\* while a process of the coordinator's candidate server is alive, whatever was
\* signalled.
CandidateStoppedBeforeJudge ==
    \A c \in Coordinators :
        stage[c] = "judge" /\ Alive(cmd[c]) => ~Alive(cand[c])

\* Processes of two coordinators share the GPUs only when one of the two has
\* failed or was killed: between healthy executions the lease is exclusive.
HealthyRunsExclusive ==
    \A c, d \in Coordinators :
        c # d /\ Working(c) /\ Working(d) => ~Healthy(c) \/ ~Healthy(d)

\* A readiness probe answered by another coordinator's server was answered by
\* a server left behind by one that failed or was killed.
ForeignServerIsLeftOver ==
    \A c, d \in Coordinators :
        endpoint[c] = d /\ c # d => ~Healthy(d)

\* A process group survives the orderly exit of its coordinator only when a
\* signal was taken (between Popen and its registration): every other failure
\* path kills it, its leader gone or not.  It is about the groups the
\* coordinator has not counted as over: descendants of a command whose leader
\* had ended (left) are not looked for, and may outlive any exit.
OnlySignalsOrphan ==
    \A c \in Coordinators :
        At(c, "exited") /\ Working(c) => signalled[c] /\ registered[c] = {}

(***************************************************************************)
(* Liveness.                                                               *)
(***************************************************************************)
\* A signal that was taken ends the coordinator, however long its commands or
\* its server would have run: the wait is interrupted and the groups killed.
SignalEndsRun ==
    \A c \in Coordinators : signalled[c] ~> pc[c] \in Terminal

(***************************************************************************)
(* The observer's view: the status and the result file read together.      *)
(***************************************************************************)
ReceiptOf(c) ==
    CASE Published(c)                             -> "published"
      [] status[c] = "none"                       -> "none"
      [] status[c] = "failed"                     -> "failed"
      [] status[c] \notin {"none", "failed"} /\ ~Published(c) -> "running"

Receipt == INSTANCE EvaluationReceipt WITH
    Evaluations <- Coordinators,
    scored      <- authorities,
    receipt     <- [c \in Coordinators |-> ReceiptOf(c)],
    over        <- {c \in Coordinators : pc[c] \in Terminal}

\* The files of an evaluation implement the receipt: published only after
\* every benchmark, withdrawn only by the running coordinator, final once it
\* has ended, by whatever interleaving of signals, failures and kills.
ImplementsReceipt == Receipt!Spec

(***************************************************************************)
(* What the comments of the code promise and the code does not do.         *)
(***************************************************************************)
\* "The global GPU0-7 lease serializes every resident user of it."  After a
\* failure the lease is given back before the candidate server is stopped.
LeaseSerializesUsers ==
    \A c, d \in Coordinators : c # d => ~(Working(c) /\ Working(d))

=============================================================================
