----------------------------- MODULE BlinkProofs -----------------------------
(***************************************************************************)
(* Proofs about the BLINK-v5 runner, for any number of runners and roots:  *)
(* the lock excludes, and with it the servers of two runners; whose server *)
(* answers a row; and what a root says when its runners have left it.      *)
(***************************************************************************)
EXTENDS BlinkProperties, TLAPS

RunnerStep(r) == Step(r) \/ ServerStep(r) \/ ScorerStep(r) \/ Signal(r) \/ Kill(r)

\* From SERVER_PID=$! on.
Named == {"ready", "evaluating", "score", "publish", "mark", "print"}

\* Where the server comes from, who knows it, and where it has ended.
ServerFlow(r) ==
    /\ pc[r] \in {"idle", "starting", "spawn"} \cup Untrapped => server[r] = "none"
    /\ pc[r] \in {"idle", "starting", "spawn", "name"} \cup Untrapped => ~named[r]
    /\ pc[r] \in Named => named[r]
    /\ pc[r] \in Trap \cup {"exited"} /\ ServerAlive(r) /\ ~named[r] => signals[r] > 0
    /\ pc[r] \in {"verdict", "unlock", "exited"} /\ named[r] => ~LeaderAlive(r)

\* Where descriptor 8 is locked.
LockFlow(r) ==
    /\ pc[r] \in {"idle", "lock"} => ~locked[r]
    /\ pc[r] \in {"mkdir", "arm"} \cup Trapped \cup Trap => locked[r]
    /\ At(r, "killed") /\ server[r] # "none" => locked[r]

\* At most one open file description has the lock.
LockExcludes == \A r, s \in Runners : Holds(r) /\ Holds(s) => r = s

IInv ==
    /\ TypeOK
    /\ \A r \in Runners : ServerFlow(r) /\ LockFlow(r)
    /\ LockExcludes

LEMMA TypeStep ==
    ASSUME TypeOK, NEW r \in Runners, RunnerStep(r)
    PROVE  TypeOK'
<1> USE BlinkAssumption DEF TypeOK, At, Goto, script, given, serving, scoring, files
<1> USE DEF Untrapped, Trapped, Trap, Terminal
<1>1. CASE Start(r)
  BY <1>1 DEF Start
<1>2. CASE RefuseRoot(r)
  BY <1>2 DEF RefuseRoot, Quit
<1>3. CASE Lock(r)
  BY <1>3 DEF Lock
<1>4. CASE MakeRoot(r)
  BY <1>4 DEF MakeRoot, Quit, SetStatus
<1>5. CASE SetTraps(r)
  BY <1>5 DEF SetTraps
<1>6. CASE WriteStarting(r)
  BY <1>6 DEF WriteStarting, WriteStatus, SetStatus, Abort
<1>7. CASE Spawn(r)
  BY <1>7 DEF Spawn
<1>8. CASE Name(r)
  BY <1>8 DEF Name
<1>9. CASE Ready(r)
  BY <1>9 DEF Ready
<1>10. CASE NotReady(r)
  BY <1>10 DEF NotReady, Abort
<1>11. CASE WriteEvaluating(r)
  BY <1>11 DEF WriteEvaluating, WriteStatus, SetStatus, Abort
<1>12. CASE StartScorer(r)
  BY <1>12 DEF StartScorer
<1>13. CASE ScorerReturned(r)
  BY <1>13 DEF ScorerReturned, Abort
<1>14. CASE WriteComplete(r)
  BY <1>14 DEF WriteComplete, WriteStatus, SetStatus, Abort
<1>15. CASE MarkComplete(r)
  BY <1>15 DEF MarkComplete
<1>16. CASE PrintScore(r)
  BY <1>16 DEF PrintScore, Abort
<1>17. CASE TerminateServer(r)
  BY <1>17 DEF TerminateServer
<1>18. CASE AwaitServer(r)
  BY <1>18 DEF AwaitServer
<1>19. CASE WriteVerdict(r)
  BY <1>19 DEF WriteVerdict, SetStatus
<1>20. CASE Unlock(r)
  BY <1>20 DEF Unlock
<1>21. CASE Detach(r)
  BY <1>21 DEF Detach
<1>22. CASE Bind(r)
  BY <1>22 DEF Bind
<1>23. CASE LeaderEnds(r)
  BY <1>23 DEF LeaderEnds
<1>24. CASE WorkersEnd(r)
  BY <1>24 DEF WorkersEnd
<1>25. CASE Preflight(r)
  BY <1>25 DEF Preflight
<1>26. CASE Ask(r)
  BY <1>26 DEF Ask, Answer
<1>27. CASE ScorerAborts(r)
  BY <1>27 DEF ScorerAborts
<1>28. CASE CreateReceipt(r)
  BY <1>28 DEF CreateReceipt, SetReceipt
<1>29. CASE FinishReceipt(r)
  BY <1>29 DEF FinishReceipt, SetReceipt
<1>30. CASE Signal(r)
  <2>1. pc' \in [Runners -> {"idle"} \cup Untrapped \cup Trapped \cup Trap \cup Terminal]
    BY <1>30 DEF Signal
  <2>2. outcome' \in [Runners -> {"none", "zero", "failed"}]
    BY <1>30 DEF Signal
  <2>3. pending' \in [Runners -> BOOLEAN]
    <3>1. CASE pending' = pending
      BY <3>1
    <3>2. CASE pending' = [pending EXCEPT ![r] = TRUE]
      BY <3>2
    <3> QED
      BY <1>30, <3>1, <3>2 DEF Signal
  <2>4. signals' \in [Runners -> 0 .. MaxSignals]
    BY <1>30 DEF Signal
  <2>5. server' \in [Runners -> {"none", "forked", "loading", "serving", "headless", "gone"}]
    BY <1>30 DEF Signal, HitGroup
  <2>6. scorer' \in [Runners -> {"none", "preflight", "asking", "writing", "succeeded", "failed"}]
    BY <1>30 DEF Signal, HitGroup
  <2> QED
    BY <1>30, <2>1, <2>2, <2>3, <2>4, <2>5, <2>6 DEF Signal
<1>31. CASE Kill(r)
  BY <1>31 DEF Kill
<1>q. QED
  BY <1>1, <1>2, <1>3, <1>4, <1>5, <1>6, <1>7, <1>8, <1>9, <1>10, <1>11, <1>12, <1>13, <1>14, <1>15, <1>16,
     <1>17, <1>18, <1>19, <1>20, <1>21, <1>22, <1>23, <1>24, <1>25, <1>26, <1>27, <1>28, <1>29, <1>30, <1>31
  DEF RunnerStep, Step, ServerStep, ScorerStep

\* The step of one runner, its server or its scorer keeps the facts of all.
LEMMA FlowStep ==
    ASSUME TypeOK, NEW r \in Runners, RunnerStep(r), NEW s \in Runners,
           ServerFlow(s), LockFlow(s)
    PROVE  ServerFlow(s)' /\ LockFlow(s)'
<1> USE BlinkAssumption DEF TypeOK, At, Goto, script, given, serving, scoring, files
<1> USE DEF Untrapped, Trapped, Trap, Terminal, Named, ServerFlow, LockFlow, ServerAlive,
            LeaderAlive, HasGroup, Running, Over
<1>1. CASE Start(r)
  BY <1>1 DEF Start
<1>2. CASE RefuseRoot(r)
  BY <1>2 DEF RefuseRoot, Quit
<1>3. CASE Lock(r)
  BY <1>3 DEF Lock
<1>4. CASE MakeRoot(r)
  BY <1>4 DEF MakeRoot, Quit, SetStatus
<1>5. CASE SetTraps(r)
  BY <1>5 DEF SetTraps
<1>6. CASE WriteStarting(r)
  BY <1>6 DEF WriteStarting, WriteStatus, SetStatus, Abort
<1>7. CASE Spawn(r)
  BY <1>7 DEF Spawn
<1>8. CASE Name(r)
  BY <1>8 DEF Name
<1>9. CASE Ready(r)
  BY <1>9 DEF Ready
<1>10. CASE NotReady(r)
  BY <1>10 DEF NotReady, Abort
<1>11. CASE WriteEvaluating(r)
  BY <1>11 DEF WriteEvaluating, WriteStatus, SetStatus, Abort
<1>12. CASE StartScorer(r)
  BY <1>12 DEF StartScorer
<1>13. CASE ScorerReturned(r)
  BY <1>13 DEF ScorerReturned, Abort
<1>14. CASE WriteComplete(r)
  BY <1>14 DEF WriteComplete, WriteStatus, SetStatus, Abort
<1>15. CASE MarkComplete(r)
  BY <1>15 DEF MarkComplete
<1>16. CASE PrintScore(r)
  BY <1>16 DEF PrintScore, Abort
<1>17. CASE TerminateServer(r)
  BY <1>17 DEF TerminateServer
<1>18. CASE AwaitServer(r)
  BY <1>18 DEF AwaitServer
<1>19. CASE WriteVerdict(r)
  BY <1>19 DEF WriteVerdict, SetStatus
<1>20. CASE Unlock(r)
  BY <1>20 DEF Unlock
<1>21. CASE Detach(r)
  BY <1>21 DEF Detach
<1>22. CASE Bind(r)
  BY <1>22 DEF Bind
<1>23. CASE LeaderEnds(r)
  BY <1>23 DEF LeaderEnds
<1>24. CASE WorkersEnd(r)
  BY <1>24 DEF WorkersEnd
<1>25. CASE Preflight(r)
  BY <1>25 DEF Preflight
<1>26. CASE Ask(r)
  BY <1>26 DEF Ask, Answer
<1>27. CASE ScorerAborts(r)
  BY <1>27 DEF ScorerAborts
<1>28. CASE CreateReceipt(r)
  BY <1>28 DEF CreateReceipt, SetReceipt
<1>29. CASE FinishReceipt(r)
  BY <1>29 DEF FinishReceipt, SetReceipt
<1>30. CASE Signal(r)
  BY <1>30 DEF Signal, HitGroup
<1>31. CASE Kill(r)
  BY <1>31 DEF Kill
<1>q. QED
  BY <1>1, <1>2, <1>3, <1>4, <1>5, <1>6, <1>7, <1>8, <1>9, <1>10, <1>11, <1>12, <1>13, <1>14, <1>15, <1>16,
     <1>17, <1>18, <1>19, <1>20, <1>21, <1>22, <1>23, <1>24, <1>25, <1>26, <1>27, <1>28, <1>29, <1>30, <1>31
  DEF RunnerStep, Step, ServerStep, ScorerStep

\* Nobody but the runner that takes the lock comes to hold it.
LEMMA HoldsStep ==
    ASSUME TypeOK, NEW r \in Runners, RunnerStep(r), NEW s \in Runners,
           LockFlow(s), Holds(s)', ~(Lock(r) /\ s = r)
    PROVE  Holds(s)
<1> USE BlinkAssumption DEF TypeOK, At, Goto, script, given, serving, scoring, files
<1> USE DEF Untrapped, Trapped, Trap, Terminal, LockFlow, ServerAlive, LeaderAlive, HasGroup,
            Running, Over, Holds, HasDescriptor, Scoring
<1>1. CASE Start(r)
  BY <1>1 DEF Start
<1>2. CASE RefuseRoot(r)
  BY <1>2 DEF RefuseRoot, Quit
<1>3. CASE Lock(r)
  BY <1>3 DEF Lock
<1>4. CASE MakeRoot(r)
  BY <1>4 DEF MakeRoot, Quit, SetStatus
<1>5. CASE SetTraps(r)
  BY <1>5 DEF SetTraps
<1>6. CASE WriteStarting(r)
  BY <1>6 DEF WriteStarting, WriteStatus, SetStatus, Abort
<1>7. CASE Spawn(r)
  BY <1>7 DEF Spawn
<1>8. CASE Name(r)
  BY <1>8 DEF Name
<1>9. CASE Ready(r)
  BY <1>9 DEF Ready
<1>10. CASE NotReady(r)
  BY <1>10 DEF NotReady, Abort
<1>11. CASE WriteEvaluating(r)
  BY <1>11 DEF WriteEvaluating, WriteStatus, SetStatus, Abort
<1>12. CASE StartScorer(r)
  BY <1>12 DEF StartScorer
<1>13. CASE ScorerReturned(r)
  BY <1>13 DEF ScorerReturned, Abort
<1>14. CASE WriteComplete(r)
  BY <1>14 DEF WriteComplete, WriteStatus, SetStatus, Abort
<1>15. CASE MarkComplete(r)
  BY <1>15 DEF MarkComplete
<1>16. CASE PrintScore(r)
  BY <1>16 DEF PrintScore, Abort
<1>17. CASE TerminateServer(r)
  BY <1>17 DEF TerminateServer
<1>18. CASE AwaitServer(r)
  BY <1>18 DEF AwaitServer
<1>19. CASE WriteVerdict(r)
  BY <1>19 DEF WriteVerdict, SetStatus
<1>20. CASE Unlock(r)
  BY <1>20 DEF Unlock
<1>21. CASE Detach(r)
  BY <1>21 DEF Detach
<1>22. CASE Bind(r)
  BY <1>22 DEF Bind
<1>23. CASE LeaderEnds(r)
  BY <1>23 DEF LeaderEnds
<1>24. CASE WorkersEnd(r)
  BY <1>24 DEF WorkersEnd
<1>25. CASE Preflight(r)
  BY <1>25 DEF Preflight
<1>26. CASE Ask(r)
  BY <1>26 DEF Ask, Answer
<1>27. CASE ScorerAborts(r)
  BY <1>27 DEF ScorerAborts
<1>28. CASE CreateReceipt(r)
  BY <1>28 DEF CreateReceipt, SetReceipt
<1>29. CASE FinishReceipt(r)
  BY <1>29 DEF FinishReceipt, SetReceipt
<1>30. CASE Signal(r)
  BY <1>30 DEF Signal, HitGroup
<1>31. CASE Kill(r)
  BY <1>31 DEF Kill
<1>q. QED
  BY <1>1, <1>2, <1>3, <1>4, <1>5, <1>6, <1>7, <1>8, <1>9, <1>10, <1>11, <1>12, <1>13, <1>14, <1>15, <1>16,
     <1>17, <1>18, <1>19, <1>20, <1>21, <1>22, <1>23, <1>24, <1>25, <1>26, <1>27, <1>28, <1>29, <1>30, <1>31
  DEF RunnerStep, Step, ServerStep, ScorerStep

LEMMA LockStep ==
    ASSUME TypeOK, LockExcludes, \A s \in Runners : LockFlow(s),
           NEW r \in Runners, RunnerStep(r)
    PROVE  LockExcludes'
<1> SUFFICES ASSUME NEW s \in Runners, NEW t \in Runners, Holds(s)', Holds(t)'
             PROVE  s = t
  BY DEF LockExcludes
<1>1. CASE Lock(r)
  <2>1. \A d \in Runners : ~Holds(d)
    BY <1>1 DEF Lock
  <2>2. \A d \in Runners : Holds(d)' => d = r
    BY <2>1, HoldsStep
  <2> QED
    BY <2>2
<1>2. CASE ~Lock(r)
  <2>1. Holds(s) /\ Holds(t)
    BY <1>2, HoldsStep
  <2> QED
    BY <2>1 DEF LockExcludes
<1> QED
  BY <1>1, <1>2

THEOREM Inductive == Spec => []IInv
<1>1. Init => IInv
  BY BlinkAssumption DEF Init, IInv, TypeOK, ServerFlow, LockFlow, LockExcludes, Holds,
     Untrapped, Trapped, Trap, Terminal, Named, At, ServerAlive, LeaderAlive
<1>2. IInv /\ [Next]_vars => IInv'
  <2> SUFFICES ASSUME IInv, [Next]_vars PROVE IInv'
    OBVIOUS
  <2>1. ASSUME NEW r \in Runners, RunnerStep(r) PROVE IInv'
    <3>1. TypeOK'
      BY <2>1, TypeStep DEF IInv
    <3>2. \A s \in Runners : ServerFlow(s)' /\ LockFlow(s)'
      BY <2>1, FlowStep DEF IInv
    <3>3. LockExcludes'
      BY <2>1, LockStep DEF IInv
    <3> QED
      BY <3>1, <3>2, <3>3 DEF IInv
  <2>2. CASE UNCHANGED vars
    BY <2>2 DEF IInv, vars, script, given, serving, scoring, files, TypeOK, ServerFlow, LockFlow,
       LockExcludes, Holds, HasDescriptor, Running, ServerAlive, LeaderAlive, Scoring, At
  <2> QED
    BY <2>1, <2>2 DEF Next, RunnerStep
<1> QED
  BY <1>1, <1>2, PTL DEF Spec

\* Every variable keeps its type.
THEOREM TypeCorrect == Spec => []TypeOK
<1>1. IInv => TypeOK
  BY DEF IInv
<1> QED
  BY <1>1, Inductive, PTL

\* Two open file descriptions never have the lock at once, whichever of the
\* runner, its server and its scorer keep them open.
THEOREM LockIsExclusive == Spec => []LockExcludes
<1>1. IInv => LockExcludes
  BY DEF IInv
<1> QED
  BY <1>1, Inductive, PTL

\* The servers of two runners never share the GPUs but for a stray one.
THEOREM ServersAreExclusive == Spec => []ServersExclude
<1>1. IInv => ServersExclude
  <2> SUFFICES ASSUME IInv, NEW r \in Runners, NEW s \in Runners, r # s,
                      ServerAlive(r), ServerAlive(s), ~Stray(r), ~Stray(s)
               PROVE  FALSE
    BY DEF ServersExclude
  <2>1. \A t \in Runners : ServerAlive(t) /\ ~Stray(t) => Holds(t)
    BY DEF IInv, TypeOK, ServerFlow, LockFlow, Stray, Holds, HasDescriptor, ServerAlive,
       LeaderAlive, At, Untrapped, Trapped, Trap, Terminal
  <2> QED
    BY <2>1 DEF IInv, LockExcludes
<1> QED
  BY <1>1, Inductive, PTL

(***************************************************************************)
(* Whose answers.                                                          *)
(***************************************************************************)
\* Who is bound to the port serves.
PortFlow == port # NoRunner => server[port] = "serving"

\* The scorer is started where the server was, and runs in the foreground.
ScorerFlow(r) ==
    /\ pc[r] \in {"name"} \cup Named => server[r] # "none"
    /\ scorer[r] # "none" => pc[r] \in {"score", "publish", "mark", "print"} \cup Trap \cup Terminal
    /\ Scoring(r) => pc[r] \in {"score", "killed"} /\ server[r] # "none"
    /\ pc[r] \in {"publish", "mark", "print"} => scorer[r] = "succeeded"

LEMMA PortStep ==
    ASSUME TypeOK, PortFlow, NEW r \in Runners, ServerFlow(r), RunnerStep(r)
    PROVE  PortFlow'
<1> USE BlinkAssumption DEF TypeOK, At, Goto, script, given, serving, scoring, files
<1> USE DEF Untrapped, Trapped, Trap, Terminal
<1> USE DEF PortFlow, LeaderAlive, ServerFlow
<1>1. CASE Start(r)
  BY <1>1 DEF Start
<1>2. CASE RefuseRoot(r)
  BY <1>2 DEF RefuseRoot, Quit
<1>3. CASE Lock(r)
  BY <1>3 DEF Lock
<1>4. CASE MakeRoot(r)
  BY <1>4 DEF MakeRoot, Quit, SetStatus
<1>5. CASE SetTraps(r)
  BY <1>5 DEF SetTraps
<1>6. CASE WriteStarting(r)
  BY <1>6 DEF WriteStarting, WriteStatus, SetStatus, Abort
<1>7. CASE Spawn(r)
  BY <1>7 DEF Spawn
<1>8. CASE Name(r)
  BY <1>8 DEF Name
<1>9. CASE Ready(r)
  BY <1>9 DEF Ready
<1>10. CASE NotReady(r)
  BY <1>10 DEF NotReady, Abort
<1>11. CASE WriteEvaluating(r)
  BY <1>11 DEF WriteEvaluating, WriteStatus, SetStatus, Abort
<1>12. CASE StartScorer(r)
  BY <1>12 DEF StartScorer
<1>13. CASE ScorerReturned(r)
  BY <1>13 DEF ScorerReturned, Abort
<1>14. CASE WriteComplete(r)
  BY <1>14 DEF WriteComplete, WriteStatus, SetStatus, Abort
<1>15. CASE MarkComplete(r)
  BY <1>15 DEF MarkComplete
<1>16. CASE PrintScore(r)
  BY <1>16 DEF PrintScore, Abort
<1>17. CASE TerminateServer(r)
  BY <1>17 DEF TerminateServer
<1>18. CASE AwaitServer(r)
  BY <1>18 DEF AwaitServer
<1>19. CASE WriteVerdict(r)
  BY <1>19 DEF WriteVerdict, SetStatus
<1>20. CASE Unlock(r)
  BY <1>20 DEF Unlock
<1>21. CASE Detach(r)
  BY <1>21 DEF Detach
<1>22. CASE Bind(r)
  BY <1>22 DEF Bind
<1>23. CASE LeaderEnds(r)
  BY <1>23 DEF LeaderEnds
<1>24. CASE WorkersEnd(r)
  BY <1>24 DEF WorkersEnd
<1>25. CASE Preflight(r)
  BY <1>25 DEF Preflight
<1>26. CASE Ask(r)
  BY <1>26 DEF Ask, Answer
<1>27. CASE ScorerAborts(r)
  BY <1>27 DEF ScorerAborts
<1>28. CASE CreateReceipt(r)
  BY <1>28 DEF CreateReceipt, SetReceipt
<1>29. CASE FinishReceipt(r)
  BY <1>29 DEF FinishReceipt, SetReceipt
<1>30. CASE Signal(r)
  BY <1>30 DEF Signal, HitGroup
<1>31. CASE Kill(r)
  BY <1>31 DEF Kill
<1>q. QED
  BY <1>1, <1>2, <1>3, <1>4, <1>5, <1>6, <1>7, <1>8, <1>9, <1>10, <1>11, <1>12, <1>13, <1>14, <1>15, <1>16,
     <1>17, <1>18, <1>19, <1>20, <1>21, <1>22, <1>23, <1>24, <1>25, <1>26, <1>27, <1>28, <1>29, <1>30, <1>31
  DEF RunnerStep, Step, ServerStep, ScorerStep

LEMMA ScorerStepKeeps ==
    ASSUME TypeOK, NEW r \in Runners, RunnerStep(r), NEW s \in Runners, ScorerFlow(s)
    PROVE  ScorerFlow(s)'
<1> USE BlinkAssumption DEF TypeOK, At, Goto, script, given, serving, scoring, files
<1> USE DEF Untrapped, Trapped, Trap, Terminal
<1> USE DEF ScorerFlow, Named, Scoring, Running
<1>1. CASE Start(r)
  BY <1>1 DEF Start
<1>2. CASE RefuseRoot(r)
  BY <1>2 DEF RefuseRoot, Quit
<1>3. CASE Lock(r)
  BY <1>3 DEF Lock
<1>4. CASE MakeRoot(r)
  BY <1>4 DEF MakeRoot, Quit, SetStatus
<1>5. CASE SetTraps(r)
  BY <1>5 DEF SetTraps
<1>6. CASE WriteStarting(r)
  BY <1>6 DEF WriteStarting, WriteStatus, SetStatus, Abort
<1>7. CASE Spawn(r)
  BY <1>7 DEF Spawn
<1>8. CASE Name(r)
  BY <1>8 DEF Name
<1>9. CASE Ready(r)
  BY <1>9 DEF Ready
<1>10. CASE NotReady(r)
  BY <1>10 DEF NotReady, Abort
<1>11. CASE WriteEvaluating(r)
  BY <1>11 DEF WriteEvaluating, WriteStatus, SetStatus, Abort
<1>12. CASE StartScorer(r)
  BY <1>12 DEF StartScorer
<1>13. CASE ScorerReturned(r)
  BY <1>13 DEF ScorerReturned, Abort
<1>14. CASE WriteComplete(r)
  BY <1>14 DEF WriteComplete, WriteStatus, SetStatus, Abort
<1>15. CASE MarkComplete(r)
  BY <1>15 DEF MarkComplete
<1>16. CASE PrintScore(r)
  BY <1>16 DEF PrintScore, Abort
<1>17. CASE TerminateServer(r)
  BY <1>17 DEF TerminateServer
<1>18. CASE AwaitServer(r)
  BY <1>18 DEF AwaitServer
<1>19. CASE WriteVerdict(r)
  BY <1>19 DEF WriteVerdict, SetStatus
<1>20. CASE Unlock(r)
  BY <1>20 DEF Unlock
<1>21. CASE Detach(r)
  BY <1>21 DEF Detach
<1>22. CASE Bind(r)
  BY <1>22 DEF Bind
<1>23. CASE LeaderEnds(r)
  BY <1>23 DEF LeaderEnds
<1>24. CASE WorkersEnd(r)
  BY <1>24 DEF WorkersEnd
<1>25. CASE Preflight(r)
  BY <1>25 DEF Preflight
<1>26. CASE Ask(r)
  BY <1>26 DEF Ask, Answer
<1>27. CASE ScorerAborts(r)
  BY <1>27 DEF ScorerAborts
<1>28. CASE CreateReceipt(r)
  BY <1>28 DEF CreateReceipt, SetReceipt
<1>29. CASE FinishReceipt(r)
  BY <1>29 DEF FinishReceipt, SetReceipt
<1>30. CASE Signal(r)
  BY <1>30 DEF Signal, HitGroup
<1>31. CASE Kill(r)
  BY <1>31 DEF Kill
<1>q. QED
  BY <1>1, <1>2, <1>3, <1>4, <1>5, <1>6, <1>7, <1>8, <1>9, <1>10, <1>11, <1>12, <1>13, <1>14, <1>15, <1>16,
     <1>17, <1>18, <1>19, <1>20, <1>21, <1>22, <1>23, <1>24, <1>25, <1>26, <1>27, <1>28, <1>29, <1>30, <1>31
  DEF RunnerStep, Step, ServerStep, ScorerStep

\* Who is answered by another server finds it without a runner that knows it.
LEMMA AnswerStep ==
    ASSUME IInv, PortFlow, NEW r \in Runners, ScorerFlow(r), Ask(r), ~("other" \in kinds[r]),
           "other" \in kinds'[r]
    PROVE  \E s \in Runners \ {r} : At(s, "exited") /\ ~named[s]
<1>1. port \in Runners \ {r} /\ server[port] = "serving"
  BY DEF Ask, Answer, Answers, PortFlow, IInv, TypeOK
<1>2. PICK s \in Runners \ {r} : s = port
  BY <1>1
<1>3. Holds(r)
  <2>1. pc[r] \in {"score", "killed"} /\ server[r] # "none" /\ Scoring(r)
    BY DEF Ask, ScorerFlow, Scoring
  <2> QED
    BY <2>1 DEF IInv, LockFlow, Trapped, At, Holds, HasDescriptor
<1>4. ~locked[s]
  BY <1>1, <1>2, <1>3 DEF IInv, LockExcludes, Holds, HasDescriptor, ServerAlive, LeaderAlive
<1>5. At(s, "exited")
  BY <1>1, <1>2, <1>4 DEF IInv, TypeOK, LockFlow, ServerFlow, At, Untrapped, Trapped, Trap, Terminal
<1> QED
  BY <1>1, <1>2, <1>5 DEF IInv, ServerFlow, LeaderAlive, At

\* Nothing else answers, and an exited runner learns nothing any more.
LEMMA KindsStep ==
    ASSUME TypeOK, NEW r \in Runners, RunnerStep(r), NEW s \in Runners
    PROVE  /\ kinds'[s] = kinds[s] \/ (s = r /\ Ask(r))
           /\ At(s, "exited") /\ ~named[s] => At(s, "exited")' /\ ~named'[s]
<1> USE BlinkAssumption DEF TypeOK, At, Goto, script, given, serving, scoring, files
<1> USE DEF Untrapped, Trapped, Trap, Terminal
<1> USE DEF Running
<1>1. CASE Start(r)
  BY <1>1 DEF Start
<1>2. CASE RefuseRoot(r)
  BY <1>2 DEF RefuseRoot, Quit
<1>3. CASE Lock(r)
  BY <1>3 DEF Lock
<1>4. CASE MakeRoot(r)
  BY <1>4 DEF MakeRoot, Quit, SetStatus
<1>5. CASE SetTraps(r)
  BY <1>5 DEF SetTraps
<1>6. CASE WriteStarting(r)
  BY <1>6 DEF WriteStarting, WriteStatus, SetStatus, Abort
<1>7. CASE Spawn(r)
  BY <1>7 DEF Spawn
<1>8. CASE Name(r)
  BY <1>8 DEF Name
<1>9. CASE Ready(r)
  BY <1>9 DEF Ready
<1>10. CASE NotReady(r)
  BY <1>10 DEF NotReady, Abort
<1>11. CASE WriteEvaluating(r)
  BY <1>11 DEF WriteEvaluating, WriteStatus, SetStatus, Abort
<1>12. CASE StartScorer(r)
  BY <1>12 DEF StartScorer
<1>13. CASE ScorerReturned(r)
  BY <1>13 DEF ScorerReturned, Abort
<1>14. CASE WriteComplete(r)
  BY <1>14 DEF WriteComplete, WriteStatus, SetStatus, Abort
<1>15. CASE MarkComplete(r)
  BY <1>15 DEF MarkComplete
<1>16. CASE PrintScore(r)
  BY <1>16 DEF PrintScore, Abort
<1>17. CASE TerminateServer(r)
  BY <1>17 DEF TerminateServer
<1>18. CASE AwaitServer(r)
  BY <1>18 DEF AwaitServer
<1>19. CASE WriteVerdict(r)
  BY <1>19 DEF WriteVerdict, SetStatus
<1>20. CASE Unlock(r)
  BY <1>20 DEF Unlock
<1>21. CASE Detach(r)
  BY <1>21 DEF Detach
<1>22. CASE Bind(r)
  BY <1>22 DEF Bind
<1>23. CASE LeaderEnds(r)
  BY <1>23 DEF LeaderEnds
<1>24. CASE WorkersEnd(r)
  BY <1>24 DEF WorkersEnd
<1>25. CASE Preflight(r)
  BY <1>25 DEF Preflight
<1>26. CASE Ask(r)
  <2>1. PICK kind \in {"own", "other", "lost"} : kinds' = [kinds EXCEPT ![r] = kinds[r] \cup {kind}]
    BY <1>26 DEF Ask, Answer
  <2>2. s # r => kinds'[s] = kinds[s]
    BY <2>1
  <2> QED
    BY <1>26, <2>2 DEF Ask
<1>27. CASE ScorerAborts(r)
  BY <1>27 DEF ScorerAborts
<1>28. CASE CreateReceipt(r)
  BY <1>28 DEF CreateReceipt, SetReceipt
<1>29. CASE FinishReceipt(r)
  BY <1>29 DEF FinishReceipt, SetReceipt
<1>30. CASE Signal(r)
  BY <1>30 DEF Signal, HitGroup
<1>31. CASE Kill(r)
  BY <1>31 DEF Kill
<1>q. QED
  BY <1>1, <1>2, <1>3, <1>4, <1>5, <1>6, <1>7, <1>8, <1>9, <1>10, <1>11, <1>12, <1>13, <1>14, <1>15, <1>16,
     <1>17, <1>18, <1>19, <1>20, <1>21, <1>22, <1>23, <1>24, <1>25, <1>26, <1>27, <1>28, <1>29, <1>30, <1>31
  DEF RunnerStep, Step, ServerStep, ScorerStep

Answering ==
    /\ PortFlow
    /\ \A r \in Runners : ScorerFlow(r)
    /\ OwnAnswers

LEMMA AnsweringHolds == Spec => []Answering
<1>1. Init => Answering
  BY BlinkAssumption DEF Init, Answering, PortFlow, ScorerFlow, OwnAnswers, Named, Scoring
<1>2. IInv /\ Answering /\ [Next]_vars => Answering'
  <2> SUFFICES ASSUME IInv, Answering, [Next]_vars PROVE Answering'
    OBVIOUS
  <2>1. ASSUME NEW r \in Runners, RunnerStep(r) PROVE Answering'
    <3>a. TypeOK
      BY DEF IInv
    <3>1. PortFlow' /\ \A s \in Runners : ScorerFlow(s)'
      BY <2>1, <3>a, PortStep, ScorerStepKeeps DEF IInv, Answering
    <3>2. ASSUME NEW s \in Runners, "other" \in kinds'[s]
          PROVE  \E q \in Runners \ {s} : At(q, "exited")' /\ ~named'[q]
      <4>1. \E q \in Runners \ {s} : At(q, "exited") /\ ~named[q]
        <5>1. CASE "other" \in kinds[s]
          BY <5>1 DEF Answering, OwnAnswers
        <5>2. CASE ~("other" \in kinds[s])
          BY <2>1, <3>a, <3>2, <5>2, KindsStep, AnswerStep DEF Answering
        <5> QED
          BY <5>1, <5>2
      <4> QED
        BY <2>1, <3>a, <4>1, KindsStep
    <3> QED
      BY <3>1, <3>2 DEF Answering, OwnAnswers
  <2>2. CASE UNCHANGED vars
    BY <2>2 DEF vars, script, given, serving, scoring, files, Answering, PortFlow, ScorerFlow, OwnAnswers, Scoring, At
  <2> QED
    BY <2>1, <2>2 DEF Next, RunnerStep
<1> QED
  BY <1>1, <1>2, Inductive, PTL DEF Spec

\* A row that another runner's server answered (the preflight and the requests
\* of the scorer ask the port) was answered by a server whose runner has left
\* without knowing it.
THEOREM AnswersAreOwn == Spec => []OwnAnswers
<1>1. Answering => OwnAnswers
  BY DEF Answering
<1> QED
  BY <1>1, AnsweringHolds, PTL

(***************************************************************************)
(* What a root says when its runners have left it.                         *)
(***************************************************************************)
\* Who made its root, as far as that can still be told.
Owns(r) == pc[r] \in {"arm"} \cup Trapped \cup Trap \/ scorer[r] # "none"

\* Somebody made the root of an owner, and nobody else did.
Ownership ==
    /\ \A r \in Runners : Owns(r) => Status(r) # "absent"
    /\ \A r, s \in Runners : Owns(r) /\ Owns(s) /\ root[r] = root[s] => r = s

\* The aggregate is there where the scorer succeeded, and the status says
\* complete where the variable complete is set.
ReceiptFlow(r) ==
    /\ scorer[r] = "succeeded" => Receipt(r) = "present"
    /\ pc[r] = "mark" \/ completed[r] => Status(r) = "complete" /\ scorer[r] = "succeeded"
    /\ completed[r] => pc[r] \in {"print"} \cup Trap \cup Terminal

CompleteIsOwned ==
    \A k \in Roots : status[k] = "complete" =>
        \E r \in Runners : root[r] = k /\ scorer[r] = "succeeded"

\* A status that still changes has a runner that will write it, or was killed.
Responsible == Trapped \cup {"term", "await", "verdict", "killed"}

Followed ==
    \A k \in Roots : status[k] \in {"starting", "evaluating"} =>
        \E r \in Runners : root[r] = k /\ pc[r] \in Responsible

Telling ==
    /\ Ownership
    /\ \A r \in Runners : ReceiptFlow(r)
    /\ CompleteIsOwned
    /\ Followed

\* How a status changes, ...
StatusMoves(r, k) ==
    /\ k = root[r]
    /\ \/ At(r, "mkdir") /\ status[k] = "absent" /\ status'[k] = "made"
       \/ At(r, "starting") /\ status'[k] = "starting" /\ pc'[r] = "spawn"
       \/ At(r, "evaluating") /\ status'[k] = "evaluating" /\ pc'[r] = "score"
       \/ At(r, "publish") /\ status'[k] = "complete" /\ pc'[r] = "mark"
       \/ At(r, "verdict") /\ ~completed[r] /\ status'[k] = "failed"

LEMMA StatusStep ==
    ASSUME TypeOK, NEW r \in Runners, RunnerStep(r), NEW k \in Roots
    PROVE  status'[k] = status[k] \/ StatusMoves(r, k)
<1> USE BlinkAssumption DEF TypeOK, At, Goto, script, given, serving, scoring, files
<1> USE DEF Untrapped, Trapped, Trap, Terminal
<1> USE DEF StatusMoves, Status
<1>1. CASE Start(r)
  BY <1>1 DEF Start
<1>2. CASE RefuseRoot(r)
  BY <1>2 DEF RefuseRoot, Quit
<1>3. CASE Lock(r)
  BY <1>3 DEF Lock
<1>4. CASE MakeRoot(r)
  BY <1>4 DEF MakeRoot, Quit, SetStatus
<1>5. CASE SetTraps(r)
  BY <1>5 DEF SetTraps
<1>6. CASE WriteStarting(r)
  BY <1>6 DEF WriteStarting, WriteStatus, SetStatus, Abort
<1>7. CASE Spawn(r)
  BY <1>7 DEF Spawn
<1>8. CASE Name(r)
  BY <1>8 DEF Name
<1>9. CASE Ready(r)
  BY <1>9 DEF Ready
<1>10. CASE NotReady(r)
  BY <1>10 DEF NotReady, Abort
<1>11. CASE WriteEvaluating(r)
  BY <1>11 DEF WriteEvaluating, WriteStatus, SetStatus, Abort
<1>12. CASE StartScorer(r)
  BY <1>12 DEF StartScorer
<1>13. CASE ScorerReturned(r)
  BY <1>13 DEF ScorerReturned, Abort
<1>14. CASE WriteComplete(r)
  BY <1>14 DEF WriteComplete, WriteStatus, SetStatus, Abort
<1>15. CASE MarkComplete(r)
  BY <1>15 DEF MarkComplete
<1>16. CASE PrintScore(r)
  BY <1>16 DEF PrintScore, Abort
<1>17. CASE TerminateServer(r)
  BY <1>17 DEF TerminateServer
<1>18. CASE AwaitServer(r)
  BY <1>18 DEF AwaitServer
<1>19. CASE WriteVerdict(r)
  BY <1>19 DEF WriteVerdict, SetStatus
<1>20. CASE Unlock(r)
  BY <1>20 DEF Unlock
<1>21. CASE Detach(r)
  BY <1>21 DEF Detach
<1>22. CASE Bind(r)
  BY <1>22 DEF Bind
<1>23. CASE LeaderEnds(r)
  BY <1>23 DEF LeaderEnds
<1>24. CASE WorkersEnd(r)
  BY <1>24 DEF WorkersEnd
<1>25. CASE Preflight(r)
  BY <1>25 DEF Preflight
<1>26. CASE Ask(r)
  BY <1>26 DEF Ask, Answer
<1>27. CASE ScorerAborts(r)
  BY <1>27 DEF ScorerAborts
<1>28. CASE CreateReceipt(r)
  BY <1>28 DEF CreateReceipt, SetReceipt
<1>29. CASE FinishReceipt(r)
  BY <1>29 DEF FinishReceipt, SetReceipt
<1>30. CASE Signal(r)
  BY <1>30 DEF Signal, HitGroup
<1>31. CASE Kill(r)
  BY <1>31 DEF Kill
<1>q. QED
  BY <1>1, <1>2, <1>3, <1>4, <1>5, <1>6, <1>7, <1>8, <1>9, <1>10, <1>11, <1>12, <1>13, <1>14, <1>15, <1>16,
     <1>17, <1>18, <1>19, <1>20, <1>21, <1>22, <1>23, <1>24, <1>25, <1>26, <1>27, <1>28, <1>29, <1>30, <1>31
  DEF RunnerStep, Step, ServerStep, ScorerStep

\* ... a receipt, ...
LEMMA ReceiptStep ==
    ASSUME TypeOK, NEW r \in Runners, RunnerStep(r), NEW k \in Roots
    PROVE  /\ receipt'[k] = receipt[k] \/ (k = root[r] /\ Scoring(r))
           /\ \A s \in Runners : scorer'[s] = "succeeded" =>
                  scorer[s] = "succeeded" \/ (s = r /\ Scoring(r) /\ receipt'[root[r]] = "present")
<1> USE BlinkAssumption DEF TypeOK, At, Goto, script, given, serving, scoring, files
<1> USE DEF Untrapped, Trapped, Trap, Terminal
<1> USE DEF Receipt, Scoring
<1>1. CASE Start(r)
  BY <1>1 DEF Start
<1>2. CASE RefuseRoot(r)
  BY <1>2 DEF RefuseRoot, Quit
<1>3. CASE Lock(r)
  BY <1>3 DEF Lock
<1>4. CASE MakeRoot(r)
  BY <1>4 DEF MakeRoot, Quit, SetStatus
<1>5. CASE SetTraps(r)
  BY <1>5 DEF SetTraps
<1>6. CASE WriteStarting(r)
  BY <1>6 DEF WriteStarting, WriteStatus, SetStatus, Abort
<1>7. CASE Spawn(r)
  BY <1>7 DEF Spawn
<1>8. CASE Name(r)
  BY <1>8 DEF Name
<1>9. CASE Ready(r)
  BY <1>9 DEF Ready
<1>10. CASE NotReady(r)
  BY <1>10 DEF NotReady, Abort
<1>11. CASE WriteEvaluating(r)
  BY <1>11 DEF WriteEvaluating, WriteStatus, SetStatus, Abort
<1>12. CASE StartScorer(r)
  BY <1>12 DEF StartScorer
<1>13. CASE ScorerReturned(r)
  BY <1>13 DEF ScorerReturned, Abort
<1>14. CASE WriteComplete(r)
  BY <1>14 DEF WriteComplete, WriteStatus, SetStatus, Abort
<1>15. CASE MarkComplete(r)
  BY <1>15 DEF MarkComplete
<1>16. CASE PrintScore(r)
  BY <1>16 DEF PrintScore, Abort
<1>17. CASE TerminateServer(r)
  BY <1>17 DEF TerminateServer
<1>18. CASE AwaitServer(r)
  BY <1>18 DEF AwaitServer
<1>19. CASE WriteVerdict(r)
  BY <1>19 DEF WriteVerdict, SetStatus
<1>20. CASE Unlock(r)
  BY <1>20 DEF Unlock
<1>21. CASE Detach(r)
  BY <1>21 DEF Detach
<1>22. CASE Bind(r)
  BY <1>22 DEF Bind
<1>23. CASE LeaderEnds(r)
  BY <1>23 DEF LeaderEnds
<1>24. CASE WorkersEnd(r)
  BY <1>24 DEF WorkersEnd
<1>25. CASE Preflight(r)
  BY <1>25 DEF Preflight
<1>26. CASE Ask(r)
  BY <1>26 DEF Ask, Answer
<1>27. CASE ScorerAborts(r)
  BY <1>27 DEF ScorerAborts
<1>28. CASE CreateReceipt(r)
  BY <1>28 DEF CreateReceipt, SetReceipt
<1>29. CASE FinishReceipt(r)
  BY <1>29 DEF FinishReceipt, SetReceipt
<1>30. CASE Signal(r)
  BY <1>30 DEF Signal, HitGroup
<1>31. CASE Kill(r)
  BY <1>31 DEF Kill
<1>q. QED
  BY <1>1, <1>2, <1>3, <1>4, <1>5, <1>6, <1>7, <1>8, <1>9, <1>10, <1>11, <1>12, <1>13, <1>14, <1>15, <1>16,
     <1>17, <1>18, <1>19, <1>20, <1>21, <1>22, <1>23, <1>24, <1>25, <1>26, <1>27, <1>28, <1>29, <1>30, <1>31
  DEF RunnerStep, Step, ServerStep, ScorerStep

\* ... and who owns a root or has completed it.
LEMMA OwnsStep ==
    ASSUME TypeOK, NEW r \in Runners, RunnerStep(r), NEW s \in Runners
    PROVE  /\ root' = root
           /\ Owns(s)' => Owns(s) \/ (s = r /\ Status(r) = "absent" /\ status'[root[r]] = "made")
           /\ completed'[s] => completed[s] \/ (pc[s] = "mark" /\ pc'[s] = "print")
           /\ pc[s] \in {"print"} \cup Trap \cup Terminal => pc'[s] \in {"print"} \cup Trap \cup Terminal
           /\ pc'[s] = "mark" => pc[s] = "mark" \/ (s = r /\ pc[s] = "publish" /\ status'[root[s]] = "complete")
           /\ scorer[s] = "succeeded" => scorer'[s] = "succeeded"
<1> USE BlinkAssumption DEF TypeOK, At, Goto, script, given, serving, scoring, files
<1> USE DEF Untrapped, Trapped, Trap, Terminal
<1> USE DEF Owns, Status, Running, Scoring
<1>1. CASE Start(r)
  BY <1>1 DEF Start
<1>2. CASE RefuseRoot(r)
  BY <1>2 DEF RefuseRoot, Quit
<1>3. CASE Lock(r)
  BY <1>3 DEF Lock
<1>4. CASE MakeRoot(r)
  BY <1>4 DEF MakeRoot, Quit, SetStatus
<1>5. CASE SetTraps(r)
  BY <1>5 DEF SetTraps
<1>6. CASE WriteStarting(r)
  BY <1>6 DEF WriteStarting, WriteStatus, SetStatus, Abort
<1>7. CASE Spawn(r)
  BY <1>7 DEF Spawn
<1>8. CASE Name(r)
  BY <1>8 DEF Name
<1>9. CASE Ready(r)
  BY <1>9 DEF Ready
<1>10. CASE NotReady(r)
  BY <1>10 DEF NotReady, Abort
<1>11. CASE WriteEvaluating(r)
  BY <1>11 DEF WriteEvaluating, WriteStatus, SetStatus, Abort
<1>12. CASE StartScorer(r)
  BY <1>12 DEF StartScorer
<1>13. CASE ScorerReturned(r)
  BY <1>13 DEF ScorerReturned, Abort
<1>14. CASE WriteComplete(r)
  BY <1>14 DEF WriteComplete, WriteStatus, SetStatus, Abort
<1>15. CASE MarkComplete(r)
  BY <1>15 DEF MarkComplete
<1>16. CASE PrintScore(r)
  BY <1>16 DEF PrintScore, Abort
<1>17. CASE TerminateServer(r)
  BY <1>17 DEF TerminateServer
<1>18. CASE AwaitServer(r)
  BY <1>18 DEF AwaitServer
<1>19. CASE WriteVerdict(r)
  BY <1>19 DEF WriteVerdict, SetStatus
<1>20. CASE Unlock(r)
  BY <1>20 DEF Unlock
<1>21. CASE Detach(r)
  BY <1>21 DEF Detach
<1>22. CASE Bind(r)
  BY <1>22 DEF Bind
<1>23. CASE LeaderEnds(r)
  BY <1>23 DEF LeaderEnds
<1>24. CASE WorkersEnd(r)
  BY <1>24 DEF WorkersEnd
<1>25. CASE Preflight(r)
  BY <1>25 DEF Preflight
<1>26. CASE Ask(r)
  BY <1>26 DEF Ask, Answer
<1>27. CASE ScorerAborts(r)
  BY <1>27 DEF ScorerAborts
<1>28. CASE CreateReceipt(r)
  BY <1>28 DEF CreateReceipt, SetReceipt
<1>29. CASE FinishReceipt(r)
  BY <1>29 DEF FinishReceipt, SetReceipt
<1>30. CASE Signal(r)
  BY <1>30 DEF Signal, HitGroup
<1>31. CASE Kill(r)
  BY <1>31 DEF Kill
<1>q. QED
  BY <1>1, <1>2, <1>3, <1>4, <1>5, <1>6, <1>7, <1>8, <1>9, <1>10, <1>11, <1>12, <1>13, <1>14, <1>15, <1>16,
     <1>17, <1>18, <1>19, <1>20, <1>21, <1>22, <1>23, <1>24, <1>25, <1>26, <1>27, <1>28, <1>29, <1>30, <1>31
  DEF RunnerStep, Step, ServerStep, ScorerStep

\* Who is responsible remains so or writes the last status.
LEMMA ResponsibleStep ==
    ASSUME TypeOK, "verdict" \notin FailingWrites, NEW r \in Runners, RunnerStep(r),
           NEW s \in Runners, pc[s] \in Responsible, ~(pc'[s] \in Responsible)
    PROVE  s = r /\ At(r, "verdict") /\ (~completed[r] => status'[root[r]] = "failed")
<1> USE BlinkAssumption DEF TypeOK, At, Goto, script, given, serving, scoring, files
<1> USE DEF Untrapped, Trapped, Trap, Terminal
<1> USE DEF Responsible, Running
<1>1. CASE Start(r)
  BY <1>1 DEF Start
<1>2. CASE RefuseRoot(r)
  BY <1>2 DEF RefuseRoot, Quit
<1>3. CASE Lock(r)
  BY <1>3 DEF Lock
<1>4. CASE MakeRoot(r)
  BY <1>4 DEF MakeRoot, Quit, SetStatus
<1>5. CASE SetTraps(r)
  BY <1>5 DEF SetTraps
<1>6. CASE WriteStarting(r)
  BY <1>6 DEF WriteStarting, WriteStatus, SetStatus, Abort
<1>7. CASE Spawn(r)
  BY <1>7 DEF Spawn
<1>8. CASE Name(r)
  BY <1>8 DEF Name
<1>9. CASE Ready(r)
  BY <1>9 DEF Ready
<1>10. CASE NotReady(r)
  BY <1>10 DEF NotReady, Abort
<1>11. CASE WriteEvaluating(r)
  BY <1>11 DEF WriteEvaluating, WriteStatus, SetStatus, Abort
<1>12. CASE StartScorer(r)
  BY <1>12 DEF StartScorer
<1>13. CASE ScorerReturned(r)
  BY <1>13 DEF ScorerReturned, Abort
<1>14. CASE WriteComplete(r)
  BY <1>14 DEF WriteComplete, WriteStatus, SetStatus, Abort
<1>15. CASE MarkComplete(r)
  BY <1>15 DEF MarkComplete
<1>16. CASE PrintScore(r)
  BY <1>16 DEF PrintScore, Abort
<1>17. CASE TerminateServer(r)
  BY <1>17 DEF TerminateServer
<1>18. CASE AwaitServer(r)
  BY <1>18 DEF AwaitServer
<1>19. CASE WriteVerdict(r)
  BY <1>19 DEF WriteVerdict, SetStatus
<1>20. CASE Unlock(r)
  BY <1>20 DEF Unlock
<1>21. CASE Detach(r)
  BY <1>21 DEF Detach
<1>22. CASE Bind(r)
  BY <1>22 DEF Bind
<1>23. CASE LeaderEnds(r)
  BY <1>23 DEF LeaderEnds
<1>24. CASE WorkersEnd(r)
  BY <1>24 DEF WorkersEnd
<1>25. CASE Preflight(r)
  BY <1>25 DEF Preflight
<1>26. CASE Ask(r)
  BY <1>26 DEF Ask, Answer
<1>27. CASE ScorerAborts(r)
  BY <1>27 DEF ScorerAborts
<1>28. CASE CreateReceipt(r)
  BY <1>28 DEF CreateReceipt, SetReceipt
<1>29. CASE FinishReceipt(r)
  BY <1>29 DEF FinishReceipt, SetReceipt
<1>30. CASE Signal(r)
  BY <1>30 DEF Signal, HitGroup
<1>31. CASE Kill(r)
  BY <1>31 DEF Kill
<1>q. QED
  BY <1>1, <1>2, <1>3, <1>4, <1>5, <1>6, <1>7, <1>8, <1>9, <1>10, <1>11, <1>12, <1>13, <1>14, <1>15, <1>16,
     <1>17, <1>18, <1>19, <1>20, <1>21, <1>22, <1>23, <1>24, <1>25, <1>26, <1>27, <1>28, <1>29, <1>30, <1>31
  DEF RunnerStep, Step, ServerStep, ScorerStep

\* Only the owner writes to a root that somebody owns.
LEMMA OwnerWrites ==
    ASSUME TypeOK, Ownership, NEW r \in Runners, RunnerStep(r), NEW s \in Runners, Owns(s),
           \A q \in Runners : ScorerFlow(q),
           \/ status'[root[s]] # status[root[s]]
           \/ receipt'[root[s]] # receipt[root[s]]
    PROVE  s = r
<1>1. root[s] \in Roots
  BY DEF TypeOK
<1>2. root[r] = root[s]
  BY <1>1, StatusStep, ReceiptStep DEF StatusMoves
<1>3. Owns(r)
  <2>1. CASE StatusMoves(r, root[s])
    <3>1. ~At(r, "mkdir") \/ status[root[s]] # "absent"
      BY DEF Ownership, Status
    <3> QED
      BY <2>1, <3>1 DEF StatusMoves, Owns, At, Trapped, Trap
  <2>2. CASE Scoring(r)
    BY <2>2 DEF Scoring, Owns
  <2> QED
    BY <1>1, <2>1, <2>2, StatusStep, ReceiptStep
<1> QED
  BY <1>2, <1>3 DEF Ownership

LEMMA OwnershipStep ==
    ASSUME TypeOK, Ownership, NEW r \in Runners, RunnerStep(r)
    PROVE  Ownership'
<1>a. \A s \in Runners : root[s] \in Roots /\ root' = root
  BY OwnsStep DEF TypeOK
<1>1. ASSUME NEW s \in Runners, Owns(s)' PROVE Status(s)' # "absent"
  <2>1. CASE Owns(s)
    BY <1>a, <2>1, StatusStep DEF Ownership, Status, StatusMoves
  <2>2. CASE ~Owns(s)
    BY <1>1, <1>a, <2>2, OwnsStep DEF Status
  <2> QED
    BY <2>1, <2>2
<1>2. ASSUME NEW s \in Runners, NEW q \in Runners, Owns(s)', Owns(q)', root[s] = root[q]
      PROVE  s = q
  <2>1. CASE Owns(s) /\ Owns(q)
    BY <1>2, <2>1 DEF Ownership
  <2>2. CASE ~Owns(s)
    BY <1>2, <2>2, OwnsStep DEF Ownership, Status
  <2>3. CASE ~Owns(q)
    BY <1>2, <2>3, OwnsStep DEF Ownership, Status
  <2> QED
    BY <2>1, <2>2, <2>3
<1> QED
  BY <1>a, <1>1, <1>2 DEF Ownership

LEMMA ReceiptFlowStep ==
    ASSUME TypeOK, Ownership, NEW r \in Runners, RunnerStep(r), \A q \in Runners : ScorerFlow(q),
           NEW s \in Runners, ReceiptFlow(s)
    PROVE  ReceiptFlow(s)'
<1>a. root[s] \in Roots /\ root' = root
  BY OwnsStep DEF TypeOK
<1>1. scorer'[s] = "succeeded" => Receipt(s)' = "present"
  <2>1. CASE scorer[s] = "succeeded"
    <3>1. receipt'[root[s]] = receipt[root[s]]
      <4> SUFFICES ASSUME receipt'[root[s]] # receipt[root[s]] PROVE FALSE
        OBVIOUS
      <4>1. s = r
        BY <2>1, OwnerWrites DEF Owns
      <4> QED
        BY <1>a, <2>1, <4>1, ReceiptStep DEF Scoring
    <3> QED
      BY <1>a, <2>1, <3>1 DEF ReceiptFlow, Receipt
  <2>2. CASE scorer[s] # "succeeded"
    BY <1>a, <2>2, ReceiptStep DEF Receipt
  <2> QED
    BY <2>1, <2>2
<1>2. ASSUME pc[s] = "mark" \/ completed[s]
      PROVE  status'[root[s]] = "complete" /\ scorer'[s] = "succeeded"
  <2>1. Status(s) = "complete" /\ scorer[s] = "succeeded"
    BY <1>2 DEF ReceiptFlow
  <2>2. status'[root[s]] = status[root[s]]
    <3> SUFFICES ASSUME status'[root[s]] # status[root[s]] PROVE FALSE
      OBVIOUS
    <3>1. s = r
      BY <2>1, OwnerWrites DEF Owns
    <3>2. StatusMoves(s, root[s])
      BY <1>a, <3>1, StatusStep
    <3> QED
      BY <1>2, <2>1, <3>2 DEF StatusMoves, Status, ReceiptFlow, At, Trap, Terminal
  <2> QED
    BY <2>1, <2>2, OwnsStep DEF Status
<1>3. ASSUME pc'[s] = "mark" \/ completed'[s]
      PROVE  status'[root[s]] = "complete" /\ scorer'[s] = "succeeded"
  <2>1. CASE pc[s] = "mark" \/ completed[s]
    BY <1>2, <2>1
  <2>2. CASE ~(pc[s] = "mark" \/ completed[s])
    <3>1. pc[s] = "publish" /\ status'[root[s]] = "complete"
      BY <1>3, <2>2, OwnsStep
    <3>2. scorer[s] = "succeeded"
      BY <3>1 DEF ScorerFlow
    <3> QED
      BY <3>1, <3>2, OwnsStep
  <2> QED
    BY <2>1, <2>2
<1>4. completed'[s] => pc'[s] \in {"print"} \cup Trap \cup Terminal
  BY OwnsStep DEF ReceiptFlow
<1> QED
  BY <1>a, <1>1, <1>3, <1>4 DEF ReceiptFlow, Status

LEMMA CompleteStep ==
    ASSUME TypeOK, CompleteIsOwned, NEW r \in Runners, RunnerStep(r), ScorerFlow(r)
    PROVE  CompleteIsOwned'
<1> SUFFICES ASSUME NEW k \in Roots, status'[k] = "complete"
             PROVE  \E s \in Runners : root'[s] = k /\ scorer'[s] = "succeeded"
  BY DEF CompleteIsOwned
<1>1. \E s \in Runners : root[s] = k /\ scorer[s] = "succeeded"
  <2>1. CASE status[k] = "complete"
    BY <2>1 DEF CompleteIsOwned
  <2>2. CASE status[k] # "complete"
    BY <2>2, StatusStep DEF StatusMoves, ScorerFlow, At
  <2> QED
    BY <2>1, <2>2
<1> QED
  BY <1>1, OwnsStep

LEMMA FollowedStep ==
    ASSUME TypeOK, Followed, "verdict" \notin FailingWrites, NEW r \in Runners, RunnerStep(r),
           ReceiptFlow(r)
    PROVE  Followed'
<1> SUFFICES ASSUME NEW k \in Roots, status'[k] \in {"starting", "evaluating"}
             PROVE  \E s \in Runners : root'[s] = k /\ pc'[s] \in Responsible
  BY DEF Followed
<1>a. root' = root /\ root[r] \in Roots
  BY OwnsStep DEF TypeOK
<1>1. CASE status'[k] = status[k]
  <2>1. PICK s \in Runners : root[s] = k /\ pc[s] \in Responsible
    BY <1>1 DEF Followed
  <2>2. CASE pc'[s] \in Responsible
    BY <1>a, <2>1, <2>2
  <2>3. CASE ~(pc'[s] \in Responsible)
    <3>1. s = r /\ At(r, "verdict") /\ (~completed[r] => status'[root[r]] = "failed")
      BY <2>1, <2>3, ResponsibleStep
    <3>2. completed[r] => status[k] = "complete"
      BY <2>1, <3>1 DEF ReceiptFlow, Status
    <3> QED
      BY <1>1, <2>1, <3>1, <3>2
  <2> QED
    BY <2>2, <2>3
<1>2. CASE StatusMoves(r, k)
  BY <1>a, <1>2 DEF StatusMoves, Responsible, Trapped
<1> QED
  BY <1>1, <1>2, StatusStep

\* A root whose runners have all exited says how they ended, if the last write
\* of the status does not fail (`|| true` in the EXIT trap), and it says
\* complete only over an aggregate, whatever signal or failure met them.
THEOREM RootsTellTheirEnd ==
    ASSUME "verdict" \notin FailingWrites
    PROVE  Spec => []ExitLeavesVerdict
<1>1. Init => Telling
  BY BlinkAssumption DEF Init, Telling, Ownership, Owns, ReceiptFlow, CompleteIsOwned, Followed,
     Trapped, Trap
<1>2. IInv /\ Answering /\ Telling /\ [Next]_vars => Telling'
  <2> SUFFICES ASSUME IInv, Answering, Telling, [Next]_vars PROVE Telling'
    OBVIOUS
  <2>1. ASSUME NEW r \in Runners, RunnerStep(r) PROVE Telling'
    <3>a. TypeOK /\ Ownership /\ (\A s \in Runners : ReceiptFlow(s) /\ ScorerFlow(s))
          /\ CompleteIsOwned /\ Followed
      BY DEF IInv, Answering, Telling
    <3>1. Ownership' /\ CompleteIsOwned' /\ Followed'
      BY <2>1, <3>a, OwnershipStep, CompleteStep, FollowedStep
    <3>2. \A s \in Runners : ReceiptFlow(s)'
      BY <2>1, <3>a, ReceiptFlowStep
    <3> QED
      BY <3>1, <3>2 DEF Telling
  <2>2. CASE UNCHANGED vars
    BY <2>2 DEF vars, script, given, serving, scoring, files, Telling, Ownership, Owns, Status, Receipt,
       ReceiptFlow, CompleteIsOwned, Followed
  <2> QED
    BY <2>1, <2>2 DEF Next, RunnerStep
<1>3. IInv /\ Telling => ExitLeavesVerdict
  <2> SUFFICES ASSUME IInv, Telling, NEW k \in Roots,
                      \A r \in Runners : root[r] = k => pc[r] \in {"idle", "exited"},
                      status[k] \notin {"absent", "made", "failed"}
               PROVE  status[k] = "complete" /\ receipt[k] = "present"
    BY DEF ExitLeavesVerdict
  <2>1. status[k] \notin {"starting", "evaluating"}
    BY DEF Telling, Followed, Responsible, Trapped
  <2>2. status[k] = "complete"
    BY <2>1 DEF IInv, TypeOK
  <2> QED
    BY <2>2 DEF Telling, CompleteIsOwned, ReceiptFlow, Receipt
<1> QED
  BY <1>1, <1>2, <1>3, Inductive, AnsweringHolds, PTL DEF Spec

=============================================================================
