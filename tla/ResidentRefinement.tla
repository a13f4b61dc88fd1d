-------------------------- MODULE ResidentRefinement --------------------------
(***************************************************************************)
(* The coordinator implements EvaluationReceipt.                           *)
(***************************************************************************)
EXTENDS ResidentProofs

\* The steps that touch a file of the receipt, or end the coordinator.
Loud(c) ==
    \/ WriteStarting(c) \/ RemoveSamples(c) \/ MarkStopped(c) \/ OpenResult(c) \/ WriteResult(c) \/ WriteComplete(c)
    \/ EndCleanup(c) \/ SkipCleanup(c) \/ UnlinkResult(c) \/ MarkFailed(c) \/ Signal(c) \/ Kill(c)

\* Every other step leaves the receipt, the scores and the ends alone.
LEMMA QuietStep ==
    ASSUME IInv, NEW c \in Coordinators, Step(c) \/ Environment(c), ~Loud(c)
    PROVE  /\ UNCHANGED <<status, result, authorities>>
           /\ \A d \in Coordinators : pc'[d] \in Terminal <=> pc[d] \in Terminal
<1> USE DEF IInv, TypeOK, At, Goto, control, memory, procs, disk, Loud
<1> USE DEF Terminal, Fallible, Catch, Body
<1>1. CASE Setup(c)
  BY <1>1 DEF Setup
<1>2. CASE EnterTry(c)
  BY <1>2 DEF EnterTry
<1>3. CASE AcquireLease(c)
  BY <1>3 DEF AcquireLease
<1>4. CASE LeaseBusy(c)
  BY <1>4 DEF LeaseBusy
<1>5. CASE SpawnCandidate(c)
  BY <1>5 DEF SpawnCandidate
<1>6. CASE RegisterCandidate(c)
  BY <1>6 DEF RegisterCandidate
<1>7. CASE ProbeReady(c)
  BY <1>7 DEF ProbeReady, Ready
<1>8. CASE OpenBenchmark(c)
  BY <1>8 DEF OpenBenchmark
<1>9. CASE SpawnCommand(c)
  BY <1>9 DEF SpawnCommand
<1>10. CASE RegisterCommand(c)
  BY <1>10 DEF RegisterCommand
<1>11. CASE EnterWait(c)
  BY <1>11 DEF EnterWait
<1>12. CASE CommandSucceeds(c)
  BY <1>12 DEF CommandSucceeds, Reap
<1>13. CASE CommandFails(c)
  BY <1>13 DEF CommandFails, Reap
<1>14. CASE ReadAuthority(c)
  BY <1>14 DEF ReadAuthority
<1>15. CASE CloseBenchmark(c)
  BY <1>15 DEF CloseBenchmark
<1>16. CASE CandidateComplete(c)
  BY <1>16 DEF CandidateComplete
<1>17. CASE StopCandidate(c)
  BY <1>17 DEF StopCandidate
<1>18. CASE PrepareJudge(c)
  BY <1>18 DEF PrepareJudge
<1>19. CASE ReleaseLease(c)
  BY <1>19 DEF ReleaseLease
<1>20. CASE Return(c)
  BY <1>20 DEF Return
<1>21. CASE StopCommand(c)
  BY <1>21 DEF StopCommand
<1>22. CASE Unwind(c)
  BY <1>22 DEF Unwind
<1>23. CASE BeginCleanup(c)
  BY <1>23 DEF BeginCleanup
<1>24. CASE StopRegistered(c)
  BY <1>24 DEF StopRegistered
<1>25. CASE Fail(c)
  BY <1>25 DEF Fail
<1>26. CASE CandidateExits(c)
  BY <1>26 DEF CandidateExits
<1>27. CASE CommandExits(c)
  BY <1>27 DEF CommandExits
<1>28. CASE LeftEnd(c)
  BY <1>28 DEF LeftEnd
<1>q. QED
  BY <1>1, <1>2, <1>3, <1>4, <1>5, <1>6, <1>7, <1>8, <1>9, <1>10, <1>11, <1>12, <1>13, <1>14, <1>15, <1>16, <1>17, <1>18, <1>19, <1>20, <1>21, <1>22, <1>23, <1>24, <1>25, <1>26, <1>27, <1>28
  DEF Step, Environment, Prepare, Evaluate, Publish, Recover

\* The receipt is a function of the two files.
LEMMA ReceiptValue ==
    ASSUME NEW c \in Coordinators
    PROVE  /\ Published(c) => ReceiptOf(c) = "published"
           /\ status[c] = "none" => ReceiptOf(c) = "none"
           /\ status[c] = "failed" => ReceiptOf(c) = "failed"
           /\ status[c] \notin {"none", "failed"} /\ ~Published(c) => ReceiptOf(c) = "running"
           /\ ReceiptOf(c) \in {"none", "running", "published", "failed"}
BY DEF ReceiptOf, Published

LEMMA ReceiptKept ==
    ASSUME NEW c \in Coordinators, status'[c] = status[c], result'[c] = result[c]
    PROVE  ReceiptOf(c)' = ReceiptOf(c)
BY DEF ReceiptOf, Published

\* A step that changes one receipt of a running coordinator is a Write.
LEMMA MoveIsWrite ==
    ASSUME NEW c \in Coordinators, NEW from, NEW to,
           pc[c] \notin Terminal, ReceiptOf(c) \in from, ReceiptOf(c)' = to,
           \A d \in Coordinators \ {c} : ReceiptOf(d)' = ReceiptOf(d),
           UNCHANGED authorities,
           \A d \in Coordinators : pc'[d] \in Terminal <=> pc[d] \in Terminal
    PROVE  Receipt!Write(c, from, to)
<1> DEFINE R  == [d \in Coordinators |-> ReceiptOf(d)]
           Rp == [d \in Coordinators |-> ReceiptOf(d)']
           O  == {d \in Coordinators : pc[d] \in Terminal}
           Op == {d \in Coordinators : pc'[d] \in Terminal}
<1>1. Rp = [R EXCEPT ![c] = to]
  OBVIOUS
<1>2. c \notin O /\ R[c] \in from
  OBVIOUS
<1>3. Op = O
  OBVIOUS
<1>q. QED
  BY <1>1, <1>2, <1>3 DEF Receipt!Write

\* A step that changes no receipt, no score and no end is invisible.
LEMMA StillIsStutter ==
    ASSUME \A d \in Coordinators : ReceiptOf(d)' = ReceiptOf(d),
           UNCHANGED authorities,
           \A d \in Coordinators : pc'[d] \in Terminal <=> pc[d] \in Terminal
    PROVE  UNCHANGED Receipt!vars
BY DEF Receipt!vars

\* The steps that write the status or the result of coordinator c, and what
\* they do to its receipt.
LEMMA WriterStep ==
    ASSUME IInv, NEW c \in Coordinators,
           \/ WriteStarting(c) \/ MarkStopped(c) \/ OpenResult(c) \/ WriteResult(c)
           \/ WriteComplete(c) \/ UnlinkResult(c) \/ MarkFailed(c)
    PROVE  Receipt!Next \/ UNCHANGED Receipt!vars
<1>0. /\ UNCHANGED authorities
      /\ pc[c] \notin Terminal
      /\ \A d \in Coordinators : pc'[d] \in Terminal <=> pc[d] \in Terminal
      /\ \A d \in Coordinators \ {c} : status'[d] = status[d] /\ result'[d] = result[d]
  BY DEF WriteStarting, MarkStopped, OpenResult, WriteResult, WriteComplete,
         UnlinkResult, MarkFailed, IInv, TypeOK, At, Goto, memory, Terminal
<1>1. \A d \in Coordinators \ {c} : ReceiptOf(d)' = ReceiptOf(d)
  BY <1>0, ReceiptKept
<1>2. ASSUME ReceiptOf(c)' = ReceiptOf(c)
      PROVE  UNCHANGED Receipt!vars
  BY <1>0, <1>1, <1>2, StillIsStutter
<1>3. ASSUME NEW from, NEW to, ReceiptOf(c) \in from, ReceiptOf(c)' = to
      PROVE  Receipt!Write(c, from, to)
  BY <1>0, <1>1, <1>3, MoveIsWrite
<1>4. CASE WriteStarting(c)
  <2>1. status[c] = "none" /\ status'[c] = "starting"
    BY <1>4 DEF WriteStarting, IInv, TypeOK, StatusFlow, At
  <2>2. ReceiptOf(c) = "none" /\ ReceiptOf(c)' = "running"
    BY <2>1 DEF ReceiptOf, Published
  <2>3. Receipt!Begin(c)
    BY <2>2, <1>3 DEF Receipt!Begin
  <2>q. QED
    BY <2>3 DEF Receipt!Next
<1>5. CASE MarkStopped(c)
  <2>1. status[c] \in {"starting", "candidate_stopped"} /\ status'[c] = "candidate_stopped"
    BY <1>5 DEF MarkStopped, IInv, TypeOK, StatusFlow, At, Body
  <2>2. ReceiptOf(c) = "running" /\ ReceiptOf(c)' = "running"
    BY <2>1 DEF ReceiptOf, Published
  <2>q. QED
    BY <2>2, <1>2
<1>6. CASE OpenResult(c) \/ WriteResult(c)
  <2>1. status[c] \in {"starting", "candidate_stopped"} /\ status'[c] = status[c]
    BY <1>6 DEF OpenResult, WriteResult, IInv, StatusFlow, At, Body
  <2>2. ReceiptOf(c) = "running" /\ ReceiptOf(c)' = "running"
    BY <2>1 DEF ReceiptOf, Published
  <2>q. QED
    BY <2>2, <1>2
<1>7. CASE WriteComplete(c)
  <2>1. /\ status[c] \in {"starting", "candidate_stopped"} /\ status'[c] = "complete"
        /\ result[c] = "present" /\ result' = result
    BY <1>7 DEF WriteComplete, IInv, TypeOK, StatusFlow, At, Body
  <2>2. ReceiptOf(c) = "running" /\ ReceiptOf(c)' = "published"
    BY <2>1 DEF ReceiptOf, Published
  <2>3. authorities[c] = Benchmarks
    <3>1. \A b \in Benchmarks : b \in authorities[c]
      BY <2>1 DEF IInv, Progress, Scored
    <3>2. authorities[c] \subseteq Benchmarks
      BY DEF IInv, TypeOK
    <3>q. QED
      BY <3>1, <3>2
  <2>4. Receipt!Publish(c)
    BY <2>2, <2>3, <1>3 DEF Receipt!Publish
  <2>q. QED
    BY <2>4 DEF Receipt!Next
<1>8. CASE UnlinkResult(c)
  <2>1. status' = status
    BY <1>8 DEF UnlinkResult
  <2>2. CASE ReceiptOf(c)' = ReceiptOf(c)
    BY <2>2, <1>2
  <2>3. CASE ReceiptOf(c)' # ReceiptOf(c)
    <3>1. result'[c] = "absent" /\ Published(c)
      BY <1>8, <2>1, <2>3 DEF UnlinkResult, ReceiptOf, Published, IInv, TypeOK
    <3>2. ReceiptOf(c) = "published" /\ ReceiptOf(c)' = "running"
      BY <3>1, <2>1 DEF ReceiptOf, Published
    <3>3. Receipt!Withdraw(c)
      BY <3>2, <1>3 DEF Receipt!Withdraw
    <3>q. QED
      BY <3>3 DEF Receipt!Next
  <2>q. QED
    BY <2>2, <2>3
<1>9. CASE MarkFailed(c)
  <2>1. CASE ReceiptOf(c)' = ReceiptOf(c)
    BY <2>1, <1>2
  <2>2. CASE ReceiptOf(c)' # ReceiptOf(c)
    <3>1. status'[c] = "failed" /\ status[c] # "failed"
      BY <1>9, <2>2, ReceiptKept DEF MarkFailed, IInv, TypeOK
    <3>2. ReceiptOf(c)' = "failed"
      BY <3>1 DEF ReceiptOf, Published
    <3>3. ReceiptOf(c) \in {"none", "running", "published"}
      BY <3>1 DEF ReceiptOf, Published
    <3>4. Receipt!MarkFailed(c)
      BY <3>2, <3>3, <1>3 DEF Receipt!MarkFailed
    <3>q. QED
      BY <3>4 DEF Receipt!Next
  <2>q. QED
    BY <2>1, <2>2
<1>q. QED
  BY <1>4, <1>5, <1>6, <1>7, <1>8, <1>9

\* RemoveSamples scores a benchmark: its receipt is then the running one.
LEMMA RemoveSamplesScores ==
    ASSUME IInv, NEW c \in Coordinators, RemoveSamples(c)
    PROVE  Receipt!Next
<1>1. /\ UNCHANGED <<status, result>>
      /\ pc[c] = "remove" /\ pc' = [pc EXCEPT ![c] = "close"]
      /\ authorities' = [authorities EXCEPT ![c] = @ \cup {BenchmarkOf(stage[c])}]
  BY DEF RemoveSamples, At, Goto
<1>2. BenchmarkOf(stage[c]) \in Benchmarks
  BY DEF IInv, TypeOK, BenchmarkOf, Stages, Benchmarks
<1>3. ReceiptOf(c) = "running"
  BY <1>1 DEF IInv, StatusFlow, Body, ReceiptOf, Published
<1>4. \A d \in Coordinators : ReceiptOf(d)' = ReceiptOf(d)
  BY <1>1, ReceiptKept
<1>5. \A d \in Coordinators : pc'[d] \in Terminal <=> pc[d] \in Terminal
  BY <1>1 DEF IInv, TypeOK, Terminal
<1>6. pc[c] \notin Terminal
  BY <1>1 DEF Terminal
<1> DEFINE R  == [d \in Coordinators |-> ReceiptOf(d)]
           Rp == [d \in Coordinators |-> ReceiptOf(d)']
           O  == {d \in Coordinators : pc[d] \in Terminal}
           Op == {d \in Coordinators : pc'[d] \in Terminal}
<1>7. Rp = R
  BY <1>4
<1>8. Op = O
  BY <1>5
<1>9. c \notin O /\ R[c] = "running"
  BY <1>3, <1>6
<1>10. Receipt!Score(c, BenchmarkOf(stage[c]))
  BY <1>1, <1>7, <1>8, <1>9 DEF Receipt!Score
<1>q. QED
  BY <1>2, <1>10 DEF Receipt!Next

\* The steps that end a coordinator change none of its files.
LEMMA EndingStep ==
    ASSUME IInv, NEW c \in Coordinators,
           EndCleanup(c) \/ SkipCleanup(c) \/ Signal(c) \/ Kill(c)
    PROVE  Receipt!Next \/ UNCHANGED Receipt!vars
<1>1. UNCHANGED <<status, result, authorities>> /\ pc[c] \notin Terminal
  BY DEF EndCleanup, SkipCleanup, Signal, Kill, disk, memory, At, Terminal
<1>2. \A d \in Coordinators : ReceiptOf(d)' = ReceiptOf(d)
  BY <1>1, ReceiptKept
<1>3. PICK l : pc' = [pc EXCEPT ![c] = l]
  BY DEF EndCleanup, SkipCleanup, Signal, Kill, Goto
<1>4. CASE l \notin Terminal
  <2>1. \A d \in Coordinators : pc'[d] \in Terminal <=> pc[d] \in Terminal
    BY <1>1, <1>3, <1>4 DEF IInv, TypeOK
  <2>q. QED
    BY <1>1, <1>2, <2>1, StillIsStutter
<1>5. CASE l \in Terminal
  <2> DEFINE R  == [d \in Coordinators |-> ReceiptOf(d)]
             Rp == [d \in Coordinators |-> ReceiptOf(d)']
             O  == {d \in Coordinators : pc[d] \in Terminal}
             Op == {d \in Coordinators : pc'[d] \in Terminal}
  <2>1. Rp = R
    BY <1>2
  <2>2. \A d \in Coordinators : pc'[d] = IF d = c THEN l ELSE pc[d]
    BY <1>3 DEF IInv, TypeOK
  <2>3. Op = O \cup {c} /\ c \notin O
    BY <1>1, <1>5, <2>2
  <2>4. Receipt!End(c)
    BY <1>1, <2>1, <2>3 DEF Receipt!End
  <2>q. QED
    BY <2>4 DEF Receipt!Next
<1>q. QED
  BY <1>4, <1>5

LEMMA ReceiptStep == IInv /\ [Next]_vars => [Receipt!Next]_(Receipt!vars)
<1> SUFFICES ASSUME IInv, [Next]_vars
             PROVE  Receipt!Next \/ UNCHANGED Receipt!vars
  OBVIOUS
<1>1. CASE UNCHANGED vars
  <2>1. UNCHANGED <<status, result, authorities, pc>>
    BY <1>1 DEF vars, control, memory, disk
  <2>2. \A d \in Coordinators : ReceiptOf(d)' = ReceiptOf(d)
    BY <2>1, ReceiptKept
  <2>q. QED
    BY <2>1, <2>2, StillIsStutter
<1>2. ASSUME NEW c \in Coordinators, Step(c) \/ Environment(c)
      PROVE  Receipt!Next \/ UNCHANGED Receipt!vars
  <2>1. CASE Loud(c)
    BY <2>1, WriterStep, RemoveSamplesScores, EndingStep DEF Loud
  <2>2. CASE ~Loud(c)
    <3>1. /\ UNCHANGED <<status, result, authorities>>
          /\ \A d \in Coordinators : pc'[d] \in Terminal <=> pc[d] \in Terminal
      BY <1>2, <2>2, QuietStep
    <3>2. \A d \in Coordinators : ReceiptOf(d)' = ReceiptOf(d)
      BY <3>1, ReceiptKept
    <3>q. QED
      BY <3>1, <3>2, StillIsStutter
  <2>q. QED
    BY <2>1, <2>2
<1>q. QED
  BY <1>1, <1>2 DEF Next

\* The files of an evaluation implement the receipt for any number of
\* coordinators and any numbers of commands: published only after every
\* benchmark was scored, changed by no one once the coordinator has ended.
THEOREM ReceiptImplemented == Spec => ImplementsReceipt
<1>1. Init => Receipt!Init
  <2> SUFFICES ASSUME Init PROVE Receipt!Init
    OBVIOUS
  <2>1. \A c \in Coordinators : ReceiptOf(c) = "none"
    BY DEF Init, ReceiptOf, Published
  <2>2. \A c \in Coordinators : pc[c] \notin Terminal
    BY DEF Init, Terminal
  <2>3. {c \in Coordinators : pc[c] \in Terminal} = {}
    BY <2>2
  <2>q. QED
    BY <2>1, <2>3 DEF Init, Receipt!Init
<1>q. QED
  BY <1>1, ReceiptStep, Inductive, PTL DEF Spec, ImplementsReceipt, Receipt!Spec

===============================================================================
