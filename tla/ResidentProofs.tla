--------------------------- MODULE ResidentProofs ---------------------------
EXTENDS ResidentProperties, TLAPS

(***************************************************************************)
(* The inductive invariant.                                                *)
(***************************************************************************)
\* Inside the `with` block, its unwinding included.
Holding == Body \cup {"wait", "stop_command", "unwind"}

\* Places reached only by an exception, and those after the return.
Failed == {"stop_command", "unwind", "handler", "cleanup", "unlink",
           "mark_failed", "outer"}

Ended == {"final", "final_cleanup"} \cup Terminal

Serving == {"register", "ready", "open", "command", "enlist", "enter", "wait",
            "remove", "close", "stop_candidate"}

Publishing == {"result", "result_open", "complete", "release", "return"}

\* From the publication on, whatever happens.
Late == Publishing \cup (Failed \ {"stop_command"}) \cup Ended

\* The lease is held exactly inside the `with` block.
LeaseFollowsPlace(c) == pc[c] \in Holding <=> lease = c

\* Exceptions, signals and cleanup leave their mark.
Flow(c) ==
    /\ failing[c] => pc[c] \in Failed \cup Ended
    /\ pc[c] \in Failed => failing[c]
    /\ signalled[c] => failing[c]
    /\ pc[c] = "stop_command" => signalled[c]
    /\ cleaning[c] => pc[c] \in {"cleanup", "unlink", "mark_failed", "outer"} \cup Ended
    /\ pc[c] \in {"cleanup", "unlink", "mark_failed", "final_cleanup"} => cleaning[c]

\* Where the healthy coordinator's processes can be alive.
Custody(c) ==
    /\ Alive(cand[c]) /\ Healthy(c) => pc[c] \in Serving
    /\ Alive(cmd[c]) /\ Healthy(c) => pc[c] \in {"enlist", "enter", "wait"}
    /\ stage[c] = "judge" => ~Alive(cand[c])
    /\ pc[c] \in {"setup", "pointers", "runtime", "lease", "spawn", "register", "ready"}
         => stage[c] = "vstar"
    /\ pc[c] \in {"stop_candidate", "mark_stopped", "cache"} => stage[c] = "zoombench"

\* Which process groups the list of live processes names.
Roll(c) ==
    /\ "candidate" \in registered[c] /\ Healthy(c) => pc[c] \in Serving \ {"register"}
    /\ "command" \in registered[c] /\ Healthy(c) => pc[c] \in {"enter", "wait"}
    /\ stage[c] = "judge" => "candidate" \notin registered[c]
    /\ pc[c] \in {"mark_stopped", "cache"} => "candidate" \notin registered[c]
    /\ pc[c] \in {"unlink", "mark_failed", "exited"} => registered[c] = {}
    /\ pc[c] \in {"outer", "final"} /\ (cleaning[c] \/ ~signalled[c]) => registered[c] = {}
    /\ ~signalled[c] /\ pc[c] # "killed" =>
         /\ Alive(cand[c]) => "candidate" \in registered[c] \/ pc[c] = "register"
         /\ Alive(cmd[c]) => "command" \in registered[c] \/ pc[c] = "enlist"

\* The benchmarks closed before stage s.
Done(s) == CASE s = "vstar" -> {} [] s = "mmstar" -> {"vstar"} [] OTHER -> {"vstar", "mmstar"}

Scored(c, b) ==
    b \in authorities[c] /\ b \notin samples[c] /\ benchStatus[c][b] = "complete"

\* What is on disk follows the progress of the loop.
Progress(c) ==
    /\ \A b \in Done(stage[c]) : Scored(c, b)
    /\ pc[c] = "close" =>
         BenchmarkOf(stage[c]) \in authorities[c] \ samples[c]
    /\ pc[c] \in Publishing => stage[c] = "judge" /\ \A b \in Benchmarks : Scored(c, b)
    /\ \A b \in Benchmarks \ Done(stage[c]) :
         benchStatus[c][b] = "complete" =>
             Scored(c, b) /\ pc[c] \in Late
    /\ result[c] # "absent" =>
         /\ pc[c] \in Late \ {"result"}
         /\ \A b \in Benchmarks : Scored(c, b)
         /\ ~Working(c)

\* What the lifecycle status says follows the place.
StatusFlow(c) ==
    /\ pc[c] \in {"setup", "pointers"} => status[c] = "none"
    /\ pc[c] \in ({"runtime", "lease", "wait"} \cup Body) \ {"release"}
         => status[c] \in {"starting", "candidate_stopped"}
    /\ pc[c] = "complete" => result[c] = "present"

IInv ==
    /\ TypeOK
    /\ \A c \in Coordinators :
        LeaseFollowsPlace(c) /\ Flow(c) /\ Custody(c) /\ Roll(c) /\ Progress(c) /\ StatusFlow(c)

LEMMA TypeStep ==
    ASSUME TypeOK, NEW c \in Coordinators, Step(c) \/ Environment(c)
    PROVE  TypeOK'
<1> USE CoordinatorAssumption DEF TypeOK, At, Goto, control, memory, procs, disk
<1> USE DEF Places, Body, Terminal, Fallible, Catch, Stages, Benchmarks, BenchmarkOf, Sampled, Live, Alive, Groups
<1>1. CASE Setup(c)
  BY <1>1 DEF Setup
<1>2. CASE WriteStarting(c)
  BY <1>2 DEF WriteStarting
<1>3. CASE EnterTry(c)
  BY <1>3 DEF EnterTry
<1>4. CASE AcquireLease(c)
  BY <1>4 DEF AcquireLease
<1>5. CASE LeaseBusy(c)
  BY <1>5 DEF LeaseBusy
<1>6. CASE SpawnCandidate(c)
  BY <1>6 DEF SpawnCandidate
<1>7. CASE RegisterCandidate(c)
  BY <1>7 DEF RegisterCandidate
<1>8. CASE ProbeReady(c)
  BY <1>8 DEF ProbeReady, Ready
<1>9. CASE OpenBenchmark(c)
  BY <1>9 DEF OpenBenchmark
<1>10. CASE SpawnCommand(c)
  BY <1>10 DEF SpawnCommand
<1>11. CASE RegisterCommand(c)
  BY <1>11 DEF RegisterCommand
<1>12. CASE EnterWait(c)
  BY <1>12 DEF EnterWait
<1>13. CASE CommandSucceeds(c)
  BY <1>13 DEF CommandSucceeds, Reap
<1>14. CASE CommandFails(c)
  BY <1>14 DEF CommandFails, Reap
<1>15. CASE ReadAuthority(c)
  BY <1>15 DEF ReadAuthority
<1>16. CASE RemoveSamples(c)
  BY <1>16 DEF RemoveSamples
<1>17. CASE CloseBenchmark(c)
  <2>1. UNCHANGED <<todo, memory, procs, lease, status, result, samples>>
    BY <1>17 DEF CloseBenchmark
  <2>2. CASE stage[c] = "vstar" /\ stage' = [stage EXCEPT ![c] = "mmstar"] /\ Goto(c, "open")
    BY <1>17, <2>1, <2>2 DEF CloseBenchmark
  <2>3. CASE stage[c] = "mmstar" /\ stage' = [stage EXCEPT ![c] = "zoombench"] /\ Goto(c, "open")
    BY <1>17, <2>1, <2>3 DEF CloseBenchmark
  <2>4. CASE stage[c] = "judge"  /\ UNCHANGED stage /\ Goto(c, "result")
    BY <1>17, <2>1, <2>4 DEF CloseBenchmark
  <2>q. QED
    BY <1>17, <2>2, <2>3, <2>4 DEF CloseBenchmark
<1>18. CASE CandidateComplete(c)
  BY <1>18 DEF CandidateComplete
<1>19. CASE StopCandidate(c)
  BY <1>19 DEF StopCandidate
<1>20. CASE MarkStopped(c)
  BY <1>20 DEF MarkStopped
<1>21. CASE PrepareJudge(c)
  BY <1>21 DEF PrepareJudge
<1>22. CASE OpenResult(c)
  BY <1>22 DEF OpenResult
<1>23. CASE WriteResult(c)
  BY <1>23 DEF WriteResult
<1>24. CASE WriteComplete(c)
  BY <1>24 DEF WriteComplete
<1>25. CASE ReleaseLease(c)
  BY <1>25 DEF ReleaseLease
<1>26. CASE Return(c)
  BY <1>26 DEF Return
<1>27. CASE StopCommand(c)
  BY <1>27 DEF StopCommand
<1>28. CASE Unwind(c)
  BY <1>28 DEF Unwind
<1>29. CASE BeginCleanup(c)
  BY <1>29 DEF BeginCleanup
<1>30. CASE StopRegistered(c)
  <2>1. PICK p \in {"candidate", "command"} :
            registered' = [registered EXCEPT ![c] = @ \ {p}]
    BY <1>30 DEF StopRegistered
  <2>2. registered' \in [Coordinators -> SUBSET {"candidate", "command"}]
    BY <2>1
  <2>3. cand' \in [Coordinators -> Groups]
    BY <1>30 DEF StopRegistered
  <2>4. cmd' \in [Coordinators -> Groups]
    BY <1>30 DEF StopRegistered
  <2>5. UNCHANGED <<control, memory, left, endpoint, lease, disk>>
    BY <1>30 DEF StopRegistered
  <2>q. QED
    BY <2>2, <2>3, <2>4, <2>5
<1>31. CASE EndCleanup(c)
  BY <1>31 DEF EndCleanup
<1>32. CASE SkipCleanup(c)
  BY <1>32 DEF SkipCleanup
<1>33. CASE UnlinkResult(c)
  BY <1>33 DEF UnlinkResult
<1>34. CASE MarkFailed(c)
  <2>1. pc' \in {[pc EXCEPT ![c] = "outer"], [pc EXCEPT ![c] = "final"]}
    BY <1>34 DEF MarkFailed
  <2>2. status' \in {[status EXCEPT ![c] = "failed"], status}
    BY <1>34 DEF MarkFailed
  <2>3. UNCHANGED <<stage, todo, memory, procs, lease, result, benchStatus, samples>>
    BY <1>34 DEF MarkFailed
  <2>4. pc' \in [Coordinators -> Places]
    BY <2>1
  <2>5. status' \in [Coordinators ->
                     {"none", "starting", "candidate_stopped", "complete", "failed"}]
    BY <2>2
  <2>q. QED
    BY <2>3, <2>4, <2>5
<1>35. CASE Signal(c)
  BY <1>35 DEF Signal
<1>36. CASE Fail(c)
  BY <1>36 DEF Fail
<1>37. CASE Kill(c)
  BY <1>37 DEF Kill
<1>38. CASE CandidateExits(c)
  BY <1>38 DEF CandidateExits
<1>39. CASE CommandExits(c)
  <2>1. cmd' \in {[cmd EXCEPT ![c] = "dead"], [cmd EXCEPT ![c] = "headless"]}
    BY <1>39 DEF CommandExits
  <2>2. UNCHANGED <<control, memory, registered, cand, left, endpoint, lease, disk>>
    BY <1>39 DEF CommandExits
  <2>q. QED
    BY <2>1, <2>2
<1>40. CASE LeftEnd(c)
  BY <1>40 DEF LeftEnd
<1>q. QED
  BY <1>1, <1>2, <1>3, <1>4, <1>5, <1>6, <1>7, <1>8, <1>9, <1>10, <1>11, <1>12, <1>13, <1>14, <1>15, <1>16, <1>17, <1>18, <1>19, <1>20, <1>21, <1>22, <1>23, <1>24, <1>25, <1>26, <1>27, <1>28, <1>29, <1>30, <1>31, <1>32, <1>33, <1>34, <1>35, <1>36, <1>37, <1>38, <1>39, <1>40 DEF Step, Environment, Prepare, Evaluate, Publish, Recover

THEOREM TypeCorrect == Spec => []TypeOK
<1>1. Init => TypeOK
  BY CoordinatorAssumption DEF Init, TypeOK, Places, Body, Terminal, Stages, Benchmarks, Groups
<1>2. TypeOK /\ [Next]_vars => TypeOK'
  BY TypeStep DEF Next, TypeOK, vars, control, memory, procs, disk
<1>q. QED
  BY <1>1, <1>2, PTL DEF Spec

\* The list of live processes names at most two groups.
LEMMA RollEmpty ==
    ASSUME NEW r \in SUBSET {"candidate", "command"},
           "candidate" \notin r, "command" \notin r
    PROVE  r = {}
OBVIOUS

LEMMA LeaseStep ==
    ASSUME IInv, NEW c \in Coordinators, Step(c) \/ Environment(c),
           NEW d \in Coordinators
    PROVE  LeaseFollowsPlace(d)'
<1> USE CoordinatorAssumption DEF IInv, At, Goto, control, memory, procs, disk
<1> USE DEF Places, Body, Terminal, Fallible, Catch, Stages, Benchmarks, BenchmarkOf, Live, Alive, Groups
<1> USE DEF TypeOK, LeaseFollowsPlace, Holding, Flow, Failed, Ended
<1>1. CASE Setup(c)
  BY <1>1 DEF Setup
<1>2. CASE WriteStarting(c)
  BY <1>2 DEF WriteStarting
<1>3. CASE EnterTry(c)
  BY <1>3 DEF EnterTry
<1>4. CASE AcquireLease(c)
  BY <1>4 DEF AcquireLease
<1>5. CASE LeaseBusy(c)
  BY <1>5 DEF LeaseBusy
<1>6. CASE SpawnCandidate(c)
  BY <1>6 DEF SpawnCandidate
<1>7. CASE RegisterCandidate(c)
  BY <1>7 DEF RegisterCandidate
<1>8. CASE ProbeReady(c)
  BY <1>8 DEF ProbeReady, Ready
<1>9. CASE OpenBenchmark(c)
  BY <1>9 DEF OpenBenchmark
<1>10. CASE SpawnCommand(c)
  BY <1>10 DEF SpawnCommand
<1>11. CASE RegisterCommand(c)
  BY <1>11 DEF RegisterCommand
<1>12. CASE EnterWait(c)
  BY <1>12 DEF EnterWait
<1>13. CASE CommandSucceeds(c)
  BY <1>13 DEF CommandSucceeds, Reap
<1>14. CASE CommandFails(c)
  BY <1>14 DEF CommandFails, Reap
<1>15. CASE ReadAuthority(c)
  BY <1>15 DEF ReadAuthority
<1>16. CASE RemoveSamples(c)
  BY <1>16 DEF RemoveSamples
<1>17. CASE CloseBenchmark(c)
  BY <1>17 DEF CloseBenchmark
<1>18. CASE CandidateComplete(c)
  BY <1>18 DEF CandidateComplete
<1>19. CASE StopCandidate(c)
  BY <1>19 DEF StopCandidate
<1>20. CASE MarkStopped(c)
  BY <1>20 DEF MarkStopped
<1>21. CASE PrepareJudge(c)
  BY <1>21 DEF PrepareJudge
<1>22. CASE OpenResult(c)
  BY <1>22 DEF OpenResult
<1>23. CASE WriteResult(c)
  BY <1>23 DEF WriteResult
<1>24. CASE WriteComplete(c)
  BY <1>24 DEF WriteComplete
<1>25. CASE ReleaseLease(c)
  BY <1>25 DEF ReleaseLease
<1>26. CASE Return(c)
  BY <1>26 DEF Return
<1>27. CASE StopCommand(c)
  BY <1>27 DEF StopCommand
<1>28. CASE Unwind(c)
  BY <1>28 DEF Unwind
<1>29. CASE BeginCleanup(c)
  BY <1>29 DEF BeginCleanup
<1>30. CASE StopRegistered(c)
  BY <1>30 DEF StopRegistered
<1>31. CASE EndCleanup(c)
  BY <1>31 DEF EndCleanup
<1>32. CASE SkipCleanup(c)
  BY <1>32 DEF SkipCleanup
<1>33. CASE UnlinkResult(c)
  BY <1>33 DEF UnlinkResult
<1>34. CASE MarkFailed(c)
  BY <1>34 DEF MarkFailed
<1>35. CASE Signal(c)
  BY <1>35 DEF Signal
<1>36. CASE Fail(c)
  BY <1>36 DEF Fail
<1>37. CASE Kill(c)
  BY <1>37 DEF Kill
<1>38. CASE CandidateExits(c)
  BY <1>38 DEF CandidateExits
<1>39. CASE CommandExits(c)
  BY <1>39 DEF CommandExits
<1>40. CASE LeftEnd(c)
  BY <1>40 DEF LeftEnd
<1>q. QED
  BY <1>1, <1>2, <1>3, <1>4, <1>5, <1>6, <1>7, <1>8, <1>9, <1>10, <1>11, <1>12, <1>13, <1>14, <1>15, <1>16, <1>17, <1>18, <1>19, <1>20, <1>21, <1>22, <1>23, <1>24, <1>25, <1>26, <1>27, <1>28, <1>29, <1>30, <1>31, <1>32, <1>33, <1>34, <1>35, <1>36, <1>37, <1>38, <1>39, <1>40 DEF Step, Environment, Prepare, Evaluate, Publish, Recover

LEMMA FlowStep ==
    ASSUME IInv, NEW c \in Coordinators, Step(c) \/ Environment(c),
           NEW d \in Coordinators
    PROVE  Flow(d)'
<1> USE CoordinatorAssumption DEF IInv, At, Goto, control, memory, procs, disk
<1> USE DEF Places, Body, Terminal, Fallible, Catch, Stages, Benchmarks, BenchmarkOf, Live, Alive, Groups
<1> USE DEF TypeOK, Flow, Failed, Ended
<1>1. CASE Setup(c)
  BY <1>1 DEF Setup
<1>2. CASE WriteStarting(c)
  BY <1>2 DEF WriteStarting
<1>3. CASE EnterTry(c)
  BY <1>3 DEF EnterTry
<1>4. CASE AcquireLease(c)
  BY <1>4 DEF AcquireLease
<1>5. CASE LeaseBusy(c)
  BY <1>5 DEF LeaseBusy
<1>6. CASE SpawnCandidate(c)
  BY <1>6 DEF SpawnCandidate
<1>7. CASE RegisterCandidate(c)
  BY <1>7 DEF RegisterCandidate
<1>8. CASE ProbeReady(c)
  BY <1>8 DEF ProbeReady, Ready
<1>9. CASE OpenBenchmark(c)
  BY <1>9 DEF OpenBenchmark
<1>10. CASE SpawnCommand(c)
  BY <1>10 DEF SpawnCommand
<1>11. CASE RegisterCommand(c)
  BY <1>11 DEF RegisterCommand
<1>12. CASE EnterWait(c)
  BY <1>12 DEF EnterWait
<1>13. CASE CommandSucceeds(c)
  BY <1>13 DEF CommandSucceeds, Reap
<1>14. CASE CommandFails(c)
  BY <1>14 DEF CommandFails, Reap
<1>15. CASE ReadAuthority(c)
  BY <1>15 DEF ReadAuthority
<1>16. CASE RemoveSamples(c)
  BY <1>16 DEF RemoveSamples
<1>17. CASE CloseBenchmark(c)
  <2>1. pc[c] = "close" /\ pc' \in {[pc EXCEPT ![c] = "open"], [pc EXCEPT ![c] = "result"]}
    BY <1>17 DEF CloseBenchmark
  <2>2. UNCHANGED <<signalled, failing, cleaning>>
    BY <1>17 DEF CloseBenchmark
  <2>q. QED
    BY <2>1, <2>2
<1>18. CASE CandidateComplete(c)
  BY <1>18 DEF CandidateComplete
<1>19. CASE StopCandidate(c)
  BY <1>19 DEF StopCandidate
<1>20. CASE MarkStopped(c)
  BY <1>20 DEF MarkStopped
<1>21. CASE PrepareJudge(c)
  BY <1>21 DEF PrepareJudge
<1>22. CASE OpenResult(c)
  BY <1>22 DEF OpenResult
<1>23. CASE WriteResult(c)
  BY <1>23 DEF WriteResult
<1>24. CASE WriteComplete(c)
  BY <1>24 DEF WriteComplete
<1>25. CASE ReleaseLease(c)
  BY <1>25 DEF ReleaseLease
<1>26. CASE Return(c)
  BY <1>26 DEF Return
<1>27. CASE StopCommand(c)
  BY <1>27 DEF StopCommand
<1>28. CASE Unwind(c)
  BY <1>28 DEF Unwind
<1>29. CASE BeginCleanup(c)
  BY <1>29 DEF BeginCleanup
<1>30. CASE StopRegistered(c)
  BY <1>30 DEF StopRegistered
<1>31. CASE EndCleanup(c)
  BY <1>31 DEF EndCleanup
<1>32. CASE SkipCleanup(c)
  BY <1>32 DEF SkipCleanup
<1>33. CASE UnlinkResult(c)
  BY <1>33 DEF UnlinkResult
<1>34. CASE MarkFailed(c)
  BY <1>34 DEF MarkFailed
<1>35. CASE Signal(c)
  BY <1>35 DEF Signal
<1>36. CASE Fail(c)
  BY <1>36 DEF Fail
<1>37. CASE Kill(c)
  BY <1>37 DEF Kill
<1>38. CASE CandidateExits(c)
  BY <1>38 DEF CandidateExits
<1>39. CASE CommandExits(c)
  BY <1>39 DEF CommandExits
<1>40. CASE LeftEnd(c)
  BY <1>40 DEF LeftEnd
<1>q. QED
  BY <1>1, <1>2, <1>3, <1>4, <1>5, <1>6, <1>7, <1>8, <1>9, <1>10, <1>11, <1>12, <1>13, <1>14, <1>15, <1>16, <1>17, <1>18, <1>19, <1>20, <1>21, <1>22, <1>23, <1>24, <1>25, <1>26, <1>27, <1>28, <1>29, <1>30, <1>31, <1>32, <1>33, <1>34, <1>35, <1>36, <1>37, <1>38, <1>39, <1>40 DEF Step, Environment, Prepare, Evaluate, Publish, Recover

LEMMA CustodyStep ==
    ASSUME IInv, NEW c \in Coordinators, Step(c) \/ Environment(c),
           NEW d \in Coordinators
    PROVE  Custody(d)'
<1> USE CoordinatorAssumption DEF IInv, At, Goto, control, memory, procs, disk
<1> USE DEF Places, Body, Terminal, Fallible, Catch, Stages, Benchmarks, BenchmarkOf, Live, Alive, Groups
<1> USE DEF TypeOK, Flow, Failed, Ended, Custody, Healthy, Serving
<1>1. CASE Setup(c)
  BY <1>1 DEF Setup
<1>2. CASE WriteStarting(c)
  BY <1>2 DEF WriteStarting
<1>3. CASE EnterTry(c)
  BY <1>3 DEF EnterTry
<1>4. CASE AcquireLease(c)
  BY <1>4 DEF AcquireLease
<1>5. CASE LeaseBusy(c)
  BY <1>5 DEF LeaseBusy
<1>6. CASE SpawnCandidate(c)
  BY <1>6 DEF SpawnCandidate
<1>7. CASE RegisterCandidate(c)
  BY <1>7 DEF RegisterCandidate
<1>8. CASE ProbeReady(c)
  BY <1>8 DEF ProbeReady, Ready
<1>9. CASE OpenBenchmark(c)
  BY <1>9 DEF OpenBenchmark
<1>10. CASE SpawnCommand(c)
  BY <1>10 DEF SpawnCommand
<1>11. CASE RegisterCommand(c)
  BY <1>11 DEF RegisterCommand
<1>12. CASE EnterWait(c)
  BY <1>12 DEF EnterWait
<1>13. CASE CommandSucceeds(c)
  BY <1>13 DEF CommandSucceeds, Reap
<1>14. CASE CommandFails(c)
  BY <1>14 DEF CommandFails, Reap
<1>15. CASE ReadAuthority(c)
  BY <1>15 DEF ReadAuthority
<1>16. CASE RemoveSamples(c)
  BY <1>16 DEF RemoveSamples
<1>17. CASE CloseBenchmark(c)
  BY <1>17 DEF CloseBenchmark
<1>18. CASE CandidateComplete(c)
  BY <1>18 DEF CandidateComplete
<1>19. CASE StopCandidate(c)
  BY <1>19 DEF StopCandidate
<1>20. CASE MarkStopped(c)
  BY <1>20 DEF MarkStopped
<1>21. CASE PrepareJudge(c)
  BY <1>21 DEF PrepareJudge
<1>22. CASE OpenResult(c)
  BY <1>22 DEF OpenResult
<1>23. CASE WriteResult(c)
  BY <1>23 DEF WriteResult
<1>24. CASE WriteComplete(c)
  BY <1>24 DEF WriteComplete
<1>25. CASE ReleaseLease(c)
  BY <1>25 DEF ReleaseLease
<1>26. CASE Return(c)
  BY <1>26 DEF Return
<1>27. CASE StopCommand(c)
  BY <1>27 DEF StopCommand
<1>28. CASE Unwind(c)
  BY <1>28 DEF Unwind
<1>29. CASE BeginCleanup(c)
  BY <1>29 DEF BeginCleanup
<1>30. CASE StopRegistered(c)
  BY <1>30 DEF StopRegistered
<1>31. CASE EndCleanup(c)
  BY <1>31 DEF EndCleanup
<1>32. CASE SkipCleanup(c)
  BY <1>32 DEF SkipCleanup
<1>33. CASE UnlinkResult(c)
  BY <1>33 DEF UnlinkResult
<1>34. CASE MarkFailed(c)
  BY <1>34 DEF MarkFailed
<1>35. CASE Signal(c)
  BY <1>35 DEF Signal
<1>36. CASE Fail(c)
  BY <1>36 DEF Fail
<1>37. CASE Kill(c)
  BY <1>37 DEF Kill
<1>38. CASE CandidateExits(c)
  BY <1>38 DEF CandidateExits
<1>39. CASE CommandExits(c)
  BY <1>39 DEF CommandExits
<1>40. CASE LeftEnd(c)
  BY <1>40 DEF LeftEnd
<1>q. QED
  BY <1>1, <1>2, <1>3, <1>4, <1>5, <1>6, <1>7, <1>8, <1>9, <1>10, <1>11, <1>12, <1>13, <1>14, <1>15, <1>16, <1>17, <1>18, <1>19, <1>20, <1>21, <1>22, <1>23, <1>24, <1>25, <1>26, <1>27, <1>28, <1>29, <1>30, <1>31, <1>32, <1>33, <1>34, <1>35, <1>36, <1>37, <1>38, <1>39, <1>40 DEF Step, Environment, Prepare, Evaluate, Publish, Recover

LEMMA RollStep ==
    ASSUME IInv, NEW c \in Coordinators, Step(c) \/ Environment(c),
           NEW d \in Coordinators
    PROVE  Roll(d)'
<1> USE CoordinatorAssumption DEF IInv, At, Goto, control, memory, procs, disk
<1> USE DEF Places, Body, Terminal, Fallible, Catch, Stages, Benchmarks, BenchmarkOf, Live, Alive, Groups
<1> USE DEF TypeOK, Flow, Failed, Ended, Custody, Healthy, Serving, Roll
<1>1. CASE Setup(c)
  BY <1>1 DEF Setup
<1>2. CASE WriteStarting(c)
  BY <1>2 DEF WriteStarting
<1>3. CASE EnterTry(c)
  BY <1>3 DEF EnterTry
<1>4. CASE AcquireLease(c)
  BY <1>4 DEF AcquireLease
<1>5. CASE LeaseBusy(c)
  BY <1>5 DEF LeaseBusy
<1>6. CASE SpawnCandidate(c)
  BY <1>6 DEF SpawnCandidate
<1>7. CASE RegisterCandidate(c)
  BY <1>7 DEF RegisterCandidate
<1>8. CASE ProbeReady(c)
  BY <1>8 DEF ProbeReady, Ready
<1>9. CASE OpenBenchmark(c)
  BY <1>9 DEF OpenBenchmark
<1>10. CASE SpawnCommand(c)
  BY <1>10 DEF SpawnCommand
<1>11. CASE RegisterCommand(c)
  BY <1>11 DEF RegisterCommand
<1>12. CASE EnterWait(c)
  BY <1>12 DEF EnterWait
<1>13. CASE CommandSucceeds(c)
  BY <1>13 DEF CommandSucceeds, Reap
<1>14. CASE CommandFails(c)
  BY <1>14 DEF CommandFails, Reap
<1>15. CASE ReadAuthority(c)
  BY <1>15 DEF ReadAuthority
<1>16. CASE RemoveSamples(c)
  BY <1>16 DEF RemoveSamples
<1>17. CASE CloseBenchmark(c)
  <2>1. stage[c] = "judge" => registered[c] = {}
    <3>1. stage[c] = "judge" => "candidate" \notin registered[c] /\ "command" \notin registered[c]
      BY <1>17 DEF CloseBenchmark
    <3>2. registered[c] \in SUBSET {"candidate", "command"}
      OBVIOUS
    <3>q. QED
      BY <3>1, <3>2, RollEmpty
  <2>2. UNCHANGED <<signalled, failing, cleaning, registered, cand, cmd>>
    BY <1>17 DEF CloseBenchmark
  <2>3. CASE stage[c] = "vstar"
    BY <1>17, <2>2, <2>3 DEF CloseBenchmark
  <2>4. CASE stage[c] = "mmstar"
    BY <1>17, <2>2, <2>4 DEF CloseBenchmark
  <2>5. CASE stage[c] = "judge"
    BY <1>17, <2>1, <2>2, <2>5 DEF CloseBenchmark
  <2>q. QED
    BY <1>17, <2>3, <2>4, <2>5 DEF CloseBenchmark
<1>18. CASE CandidateComplete(c)
  BY <1>18 DEF CandidateComplete
<1>19. CASE StopCandidate(c)
  BY <1>19 DEF StopCandidate
<1>20. CASE MarkStopped(c)
  BY <1>20 DEF MarkStopped
<1>21. CASE PrepareJudge(c)
  BY <1>21 DEF PrepareJudge
<1>22. CASE OpenResult(c)
  BY <1>22 DEF OpenResult
<1>23. CASE WriteResult(c)
  BY <1>23 DEF WriteResult
<1>24. CASE WriteComplete(c)
  BY <1>24 DEF WriteComplete
<1>25. CASE ReleaseLease(c)
  BY <1>25 DEF ReleaseLease
<1>26. CASE Return(c)
  <2>1. registered[c] = {}
    BY <1>26, RollEmpty DEF Return
  <2>q. QED
    BY <1>26, <2>1 DEF Return
<1>27. CASE StopCommand(c)
  BY <1>27 DEF StopCommand
<1>28. CASE Unwind(c)
  BY <1>28 DEF Unwind
<1>29. CASE BeginCleanup(c)
  BY <1>29 DEF BeginCleanup
<1>30. CASE StopRegistered(c)
  BY <1>30 DEF StopRegistered
<1>31. CASE EndCleanup(c)
  BY <1>31 DEF EndCleanup
<1>32. CASE SkipCleanup(c)
  BY <1>32 DEF SkipCleanup
<1>33. CASE UnlinkResult(c)
  BY <1>33 DEF UnlinkResult
<1>34. CASE MarkFailed(c)
  BY <1>34 DEF MarkFailed
<1>35. CASE Signal(c)
  BY <1>35 DEF Signal
<1>36. CASE Fail(c)
  <2>1. pc[c] \in {"setup", "pointers", "runtime"} =>
            "candidate" \notin registered[c] /\ "command" \notin registered[c]
    BY <1>36 DEF Fail
  <2>0. registered[c] \in SUBSET {"candidate", "command"}
    OBVIOUS
  <2>2. pc[c] \in {"setup", "pointers", "runtime"} => registered[c] = {}
    BY <2>0, <2>1, RollEmpty
  <2>q. QED
    BY <1>36, <2>2 DEF Fail
<1>37. CASE Kill(c)
  BY <1>37 DEF Kill
<1>38. CASE CandidateExits(c)
  BY <1>38 DEF CandidateExits
<1>39. CASE CommandExits(c)
  BY <1>39 DEF CommandExits
<1>40. CASE LeftEnd(c)
  BY <1>40 DEF LeftEnd
<1>q. QED
  BY <1>1, <1>2, <1>3, <1>4, <1>5, <1>6, <1>7, <1>8, <1>9, <1>10, <1>11, <1>12, <1>13, <1>14, <1>15, <1>16, <1>17, <1>18, <1>19, <1>20, <1>21, <1>22, <1>23, <1>24, <1>25, <1>26, <1>27, <1>28, <1>29, <1>30, <1>31, <1>32, <1>33, <1>34, <1>35, <1>36, <1>37, <1>38, <1>39, <1>40 DEF Step, Environment, Prepare, Evaluate, Publish, Recover

\* A step that moves a coordinator on without touching what it has scored.
LEMMA ProgressFrame ==
    ASSUME NEW d \in Coordinators, Progress(d),
           UNCHANGED <<stage, authorities, samples, benchStatus, result>>,
           Working(d)' => Working(d),
           pc'[d] = "close" => pc[d] = "close",
           pc'[d] \in Publishing => pc[d] \in Publishing,
           pc[d] \in Late => pc'[d] \in Late,
           pc[d] \in Late \ {"result"} => pc'[d] \in Late \ {"result"}
    PROVE  Progress(d)'
BY DEF Progress, Scored

LEMMA ProgressStep ==
    ASSUME IInv, NEW c \in Coordinators, Step(c) \/ Environment(c),
           NEW d \in Coordinators
    PROVE  Progress(d)'
<1> USE CoordinatorAssumption DEF IInv, At, Goto, control, memory, procs, disk
<1> USE DEF Places, Body, Terminal, Fallible, Catch, Stages, Benchmarks, BenchmarkOf, Live, Alive, Groups
<1> USE DEF TypeOK, Flow, Failed, Ended, Custody, Healthy, Serving, Progress, Publishing, Late, Done, Scored, Working
<1>1. CASE Setup(c)
  BY <1>1 DEF Setup
<1>2. CASE WriteStarting(c)
  BY <1>2 DEF WriteStarting
<1>3. CASE EnterTry(c)
  BY <1>3 DEF EnterTry
<1>4. CASE AcquireLease(c)
  BY <1>4 DEF AcquireLease
<1>5. CASE LeaseBusy(c)
  BY <1>5 DEF LeaseBusy
<1>6. CASE SpawnCandidate(c)
  BY <1>6 DEF SpawnCandidate
<1>7. CASE RegisterCandidate(c)
  BY <1>7 DEF RegisterCandidate
<1>8. CASE ProbeReady(c)
  BY <1>8 DEF ProbeReady, Ready
<1>9. CASE OpenBenchmark(c)
  BY <1>9 DEF OpenBenchmark
<1>10. CASE SpawnCommand(c)
  BY <1>10 DEF SpawnCommand
<1>11. CASE RegisterCommand(c)
  BY <1>11 DEF RegisterCommand
<1>12. CASE EnterWait(c)
  BY <1>12 DEF EnterWait
<1>13. CASE CommandSucceeds(c)
  BY <1>13 DEF CommandSucceeds, Reap
<1>14. CASE CommandFails(c)
  BY <1>14 DEF CommandFails, Reap
<1>15. CASE ReadAuthority(c)
  BY <1>15 DEF ReadAuthority
<1>16. CASE RemoveSamples(c)
  BY <1>16 DEF RemoveSamples
<1>17. CASE CloseBenchmark(c)
  BY <1>17 DEF CloseBenchmark
<1>18. CASE CandidateComplete(c)
  BY <1>18 DEF CandidateComplete
<1>19. CASE StopCandidate(c)
  BY <1>19 DEF StopCandidate
<1>20. CASE MarkStopped(c)
  BY <1>20 DEF MarkStopped
<1>21. CASE PrepareJudge(c)
  BY <1>21 DEF PrepareJudge
<1>22. CASE OpenResult(c)
  <2>1. ~Working(c) /\ \A b \in Benchmarks : Scored(c, b)
    BY <1>22 DEF OpenResult
  <2>2. /\ UNCHANGED <<stage, authorities, samples, benchStatus, cand, cmd>>
        /\ pc[c] = "result" /\ pc' = [pc EXCEPT ![c] = "result_open"]
        /\ result' = [result EXCEPT ![c] = "partial"]
    BY <1>22 DEF OpenResult
  <2>q. QED
    BY <2>1, <2>2
<1>23. CASE WriteResult(c)
  <2>1. ~Working(c) /\ \A b \in Benchmarks : Scored(c, b)
    BY <1>23 DEF WriteResult
  <2>2. /\ UNCHANGED <<stage, authorities, samples, benchStatus, cand, cmd>>
        /\ pc[c] = "result_open" /\ pc' = [pc EXCEPT ![c] = "complete"]
        /\ result' = [result EXCEPT ![c] = "present"]
    BY <1>23 DEF WriteResult
  <2>q. QED
    BY <2>1, <2>2
<1>24. CASE WriteComplete(c)
  BY <1>24 DEF WriteComplete
<1>25. CASE ReleaseLease(c)
  BY <1>25 DEF ReleaseLease
<1>26. CASE Return(c)
  BY <1>26 DEF Return
<1>27. CASE StopCommand(c)
  BY <1>27 DEF StopCommand
<1>28. CASE Unwind(c)
  BY <1>28 DEF Unwind
<1>29. CASE BeginCleanup(c)
  <2>1. \/ pc[c] = "handler" /\ pc' = [pc EXCEPT ![c] = "cleanup"]
        \/ pc[c] = "final" /\ pc' = [pc EXCEPT ![c] = "final_cleanup"]
    BY <1>29 DEF BeginCleanup
  <2>2. /\ UNCHANGED <<stage, authorities, samples, benchStatus, result>>
        /\ Working(d)' => Working(d)
    BY <1>29 DEF BeginCleanup
  <2>3. Progress(d) /\ pc \in [Coordinators -> Places]
    OBVIOUS
  <2> HIDE DEF Progress, Scored, Working, IInv, TypeOK
  <2>q. QED
    BY <2>1, <2>2, <2>3, ProgressFrame
<1>30. CASE StopRegistered(c)
  BY <1>30 DEF StopRegistered
<1>31. CASE EndCleanup(c)
  <2>1. \/ pc[c] = "cleanup" /\ pc' = [pc EXCEPT ![c] = "unlink"]
        \/ pc[c] = "final_cleanup" /\ pc' = [pc EXCEPT ![c] = "exited"]
    BY <1>31 DEF EndCleanup
  <2>2. /\ UNCHANGED <<stage, authorities, samples, benchStatus, result>>
        /\ Working(d)' => Working(d)
    BY <1>31 DEF EndCleanup
  <2>3. Progress(d) /\ pc \in [Coordinators -> Places]
    OBVIOUS
  <2> HIDE DEF Progress, Scored, Working, IInv, TypeOK
  <2>q. QED
    BY <2>1, <2>2, <2>3, ProgressFrame
<1>32. CASE SkipCleanup(c)
  BY <1>32 DEF SkipCleanup
<1>33. CASE UnlinkResult(c)
  BY <1>33 DEF UnlinkResult
<1>34. CASE MarkFailed(c)
  <2>1. \/ pc[c] = "mark_failed" /\ pc' = [pc EXCEPT ![c] = "outer"]
        \/ pc[c] = "outer" /\ pc' = [pc EXCEPT ![c] = "final"]
    BY <1>34 DEF MarkFailed
  <2>2. /\ UNCHANGED <<stage, authorities, samples, benchStatus, result>>
        /\ Working(d)' => Working(d)
    BY <1>34 DEF MarkFailed
  <2>3. Progress(d) /\ pc \in [Coordinators -> Places]
    OBVIOUS
  <2> HIDE DEF Progress, Scored, Working, IInv, TypeOK
  <2>q. QED
    BY <2>1, <2>2, <2>3, ProgressFrame
<1>35. CASE Signal(c)
  BY <1>35 DEF Signal
<1>36. CASE Fail(c)
  BY <1>36 DEF Fail
<1>37. CASE Kill(c)
  BY <1>37 DEF Kill
<1>38. CASE CandidateExits(c)
  BY <1>38 DEF CandidateExits
<1>39. CASE CommandExits(c)
  BY <1>39 DEF CommandExits
<1>40. CASE LeftEnd(c)
  BY <1>40 DEF LeftEnd
<1>q. QED
  BY <1>1, <1>2, <1>3, <1>4, <1>5, <1>6, <1>7, <1>8, <1>9, <1>10, <1>11, <1>12, <1>13, <1>14, <1>15, <1>16, <1>17, <1>18, <1>19, <1>20, <1>21, <1>22, <1>23, <1>24, <1>25, <1>26, <1>27, <1>28, <1>29, <1>30, <1>31, <1>32, <1>33, <1>34, <1>35, <1>36, <1>37, <1>38, <1>39, <1>40 DEF Step, Environment, Prepare, Evaluate, Publish, Recover

LEMMA StatusStep ==
    ASSUME IInv, NEW c \in Coordinators, Step(c) \/ Environment(c),
           NEW d \in Coordinators
    PROVE  StatusFlow(d)'
<1> USE CoordinatorAssumption DEF IInv, At, Goto, control, memory, procs, disk
<1> USE DEF Places, Body, Terminal, Fallible, Catch, Stages, Benchmarks, BenchmarkOf, Live, Alive, Groups
<1> USE DEF TypeOK, Flow, Failed, Ended, StatusFlow, Progress, Publishing
<1>1. CASE Setup(c)
  BY <1>1 DEF Setup
<1>2. CASE WriteStarting(c)
  BY <1>2 DEF WriteStarting
<1>3. CASE EnterTry(c)
  BY <1>3 DEF EnterTry
<1>4. CASE AcquireLease(c)
  BY <1>4 DEF AcquireLease
<1>5. CASE LeaseBusy(c)
  BY <1>5 DEF LeaseBusy
<1>6. CASE SpawnCandidate(c)
  BY <1>6 DEF SpawnCandidate
<1>7. CASE RegisterCandidate(c)
  BY <1>7 DEF RegisterCandidate
<1>8. CASE ProbeReady(c)
  BY <1>8 DEF ProbeReady, Ready
<1>9. CASE OpenBenchmark(c)
  BY <1>9 DEF OpenBenchmark
<1>10. CASE SpawnCommand(c)
  BY <1>10 DEF SpawnCommand
<1>11. CASE RegisterCommand(c)
  BY <1>11 DEF RegisterCommand
<1>12. CASE EnterWait(c)
  BY <1>12 DEF EnterWait
<1>13. CASE CommandSucceeds(c)
  BY <1>13 DEF CommandSucceeds, Reap
<1>14. CASE CommandFails(c)
  BY <1>14 DEF CommandFails, Reap
<1>15. CASE ReadAuthority(c)
  BY <1>15 DEF ReadAuthority
<1>16. CASE RemoveSamples(c)
  BY <1>16 DEF RemoveSamples
<1>17. CASE CloseBenchmark(c)
  BY <1>17 DEF CloseBenchmark
<1>18. CASE CandidateComplete(c)
  BY <1>18 DEF CandidateComplete
<1>19. CASE StopCandidate(c)
  BY <1>19 DEF StopCandidate
<1>20. CASE MarkStopped(c)
  BY <1>20 DEF MarkStopped
<1>21. CASE PrepareJudge(c)
  BY <1>21 DEF PrepareJudge
<1>22. CASE OpenResult(c)
  BY <1>22 DEF OpenResult
<1>23. CASE WriteResult(c)
  BY <1>23 DEF WriteResult
<1>24. CASE WriteComplete(c)
  BY <1>24 DEF WriteComplete
<1>25. CASE ReleaseLease(c)
  BY <1>25 DEF ReleaseLease
<1>26. CASE Return(c)
  BY <1>26 DEF Return
<1>27. CASE StopCommand(c)
  BY <1>27 DEF StopCommand
<1>28. CASE Unwind(c)
  BY <1>28 DEF Unwind
<1>29. CASE BeginCleanup(c)
  BY <1>29 DEF BeginCleanup
<1>30. CASE StopRegistered(c)
  BY <1>30 DEF StopRegistered
<1>31. CASE EndCleanup(c)
  BY <1>31 DEF EndCleanup
<1>32. CASE SkipCleanup(c)
  BY <1>32 DEF SkipCleanup
<1>33. CASE UnlinkResult(c)
  BY <1>33 DEF UnlinkResult
<1>34. CASE MarkFailed(c)
  BY <1>34 DEF MarkFailed
<1>35. CASE Signal(c)
  BY <1>35 DEF Signal
<1>36. CASE Fail(c)
  BY <1>36 DEF Fail
<1>37. CASE Kill(c)
  BY <1>37 DEF Kill
<1>38. CASE CandidateExits(c)
  BY <1>38 DEF CandidateExits
<1>39. CASE CommandExits(c)
  BY <1>39 DEF CommandExits
<1>40. CASE LeftEnd(c)
  BY <1>40 DEF LeftEnd
<1>q. QED
  BY <1>1, <1>2, <1>3, <1>4, <1>5, <1>6, <1>7, <1>8, <1>9, <1>10, <1>11, <1>12, <1>13, <1>14, <1>15, <1>16, <1>17, <1>18, <1>19, <1>20, <1>21, <1>22, <1>23, <1>24, <1>25, <1>26, <1>27, <1>28, <1>29, <1>30, <1>31, <1>32, <1>33, <1>34, <1>35, <1>36, <1>37, <1>38, <1>39, <1>40 DEF Step, Environment, Prepare, Evaluate, Publish, Recover

(***************************************************************************)
(* The theorems.                                                           *)
(***************************************************************************)
\* IInv is an invariant of every execution, for any number of coordinators,
\* any services and any numbers of commands.
THEOREM Inductive == Spec => []IInv
<1>1. Init => IInv
  <2> SUFFICES ASSUME Init PROVE IInv
    OBVIOUS
  <2>1. TypeOK
    BY CoordinatorAssumption DEF Init, TypeOK, Places, Body, Terminal, Stages, Benchmarks, Groups
  <2>2. ASSUME NEW c \in Coordinators
        PROVE  LeaseFollowsPlace(c) /\ Flow(c) /\ Custody(c) /\ Roll(c) /\ StatusFlow(c)
    BY CoordinatorAssumption
    DEF Init, LeaseFollowsPlace, Flow, Custody, Roll, StatusFlow, Holding, Body,
        Failed, Ended, Terminal, Serving, Live, Alive, Groups, Healthy
  <2>3. ASSUME NEW c \in Coordinators
        PROVE  Progress(c)
    BY DEF Init, Progress, Done, Publishing, Benchmarks, Live, Alive, Working
  <2>q. QED
    BY <2>1, <2>2, <2>3 DEF IInv
<1>2. IInv /\ [Next]_vars => IInv'
  <2> SUFFICES ASSUME IInv, [Next]_vars PROVE IInv'
    OBVIOUS
  <2>1. CASE Next
    <3>1. PICK c \in Coordinators : Step(c) \/ Environment(c)
      BY <2>1 DEF Next
    <3>2. TypeOK'
      BY <3>1, TypeStep DEF IInv
    <3>q. QED
      BY <3>1, <3>2, LeaseStep, FlowStep, CustodyStep, RollStep, ProgressStep, StatusStep
      DEF IInv
  <2>2. CASE UNCHANGED vars
    BY <2>2 DEF vars, control, memory, procs, disk, IInv, TypeOK, LeaseFollowsPlace,
       Flow, Custody, Roll, Progress, StatusFlow, Scored, Working, Healthy
  <2>q. QED
    BY <2>1, <2>2
<1>q. QED
  BY <1>1, <1>2, PTL DEF Spec

\* What the queue accepts as complete has all three authorities, no sample
\* files and no process on the GPUs, at every instant of every execution.
THEOREM PublicationCertified == Spec => []PublishedIsCertified
<1>1. ASSUME IInv, NEW c \in Coordinators, result[c] = "present"
      PROVE  /\ authorities[c] = Benchmarks
             /\ samples[c] = {}
             /\ \A b \in Benchmarks : benchStatus[c][b] = "complete"
             /\ ~Working(c)
  <2>1. ~Working(c) /\ \A b \in Benchmarks : Scored(c, b)
    BY <1>1 DEF IInv, Progress
  <2>2. authorities[c] \subseteq Benchmarks /\ samples[c] \subseteq Benchmarks
    BY <1>1 DEF IInv, TypeOK
  <2>q. QED
    BY <2>1, <2>2 DEF Scored
<1>2. IInv => PublishedIsCertified
  BY <1>1 DEF PublishedIsCertified
<1>q. QED
  BY <1>2, Inductive, PTL

\* No judge command ever runs beside the coordinator's own candidate server.
THEOREM JudgeRunsAlone == Spec => []CandidateStoppedBeforeJudge
<1>1. IInv => CandidateStoppedBeforeJudge
  BY DEF IInv, CandidateStoppedBeforeJudge, Custody
<1>q. QED
  BY <1>1, Inductive, PTL

\* Two healthy executions never have processes on the GPUs at once: each of
\* them would hold the lease.
THEOREM LeaseExcludes == Spec => []HealthyRunsExclusive
<1>1. ASSUME IInv, NEW c \in Coordinators, Working(c), Healthy(c)
      PROVE  lease = c
  <2>1. pc[c] \in Holding
    BY <1>1 DEF IInv, Custody, Working, Serving, Holding, Body
  <2>q. QED
    BY <1>1, <2>1 DEF IInv, LeaseFollowsPlace
<1>2. IInv => HealthyRunsExclusive
  BY <1>1 DEF HealthyRunsExclusive
<1>q. QED
  BY <1>2, Inductive, PTL

\* A process group, its leader gone or not, outlives its coordinator's orderly
\* exit only after a signal, and then it is one the coordinator had not yet
\* listed.  Nothing is said of what an ended command has left behind.
THEOREM OrphansNeedSignals == Spec => []OnlySignalsOrphan
<1>1. IInv => OnlySignalsOrphan
  BY DEF IInv, OnlySignalsOrphan, Roll, Working, At
<1>q. QED
  BY <1>1, Inductive, PTL

(***************************************************************************)
(* Whose server answered a readiness probe.                                *)
(***************************************************************************)
\* Failing and being killed are for ever, and only a readiness probe sets the
\* endpoint.
LEMMA HealthOnlyFalls ==
    ASSUME IInv, NEW c \in Coordinators, Step(c) \/ Environment(c),
           NEW d \in Coordinators
    PROVE  /\ Healthy(d)' => Healthy(d)
           /\ endpoint' = endpoint \/ ProbeReady(c)
<1> USE DEF IInv, At, Goto, control, memory, procs, disk
<1> USE DEF TypeOK, Healthy, Terminal, Fallible
<1>1. CASE Setup(c)
  BY <1>1 DEF Setup
<1>2. CASE WriteStarting(c)
  BY <1>2 DEF WriteStarting
<1>3. CASE EnterTry(c)
  BY <1>3 DEF EnterTry
<1>4. CASE AcquireLease(c)
  BY <1>4 DEF AcquireLease
<1>5. CASE LeaseBusy(c)
  BY <1>5 DEF LeaseBusy
<1>6. CASE SpawnCandidate(c)
  BY <1>6 DEF SpawnCandidate
<1>7. CASE RegisterCandidate(c)
  BY <1>7 DEF RegisterCandidate
<1>8. CASE ProbeReady(c)
  BY <1>8 DEF ProbeReady, Ready
<1>9. CASE OpenBenchmark(c)
  BY <1>9 DEF OpenBenchmark
<1>10. CASE SpawnCommand(c)
  BY <1>10 DEF SpawnCommand
<1>11. CASE RegisterCommand(c)
  BY <1>11 DEF RegisterCommand
<1>12. CASE EnterWait(c)
  BY <1>12 DEF EnterWait
<1>13. CASE CommandSucceeds(c)
  BY <1>13 DEF CommandSucceeds, Reap
<1>14. CASE CommandFails(c)
  BY <1>14 DEF CommandFails, Reap
<1>15. CASE ReadAuthority(c)
  BY <1>15 DEF ReadAuthority
<1>16. CASE RemoveSamples(c)
  BY <1>16 DEF RemoveSamples
<1>17. CASE CloseBenchmark(c)
  BY <1>17 DEF CloseBenchmark
<1>18. CASE CandidateComplete(c)
  BY <1>18 DEF CandidateComplete
<1>19. CASE StopCandidate(c)
  BY <1>19 DEF StopCandidate
<1>20. CASE MarkStopped(c)
  BY <1>20 DEF MarkStopped
<1>21. CASE PrepareJudge(c)
  BY <1>21 DEF PrepareJudge
<1>22. CASE OpenResult(c)
  BY <1>22 DEF OpenResult
<1>23. CASE WriteResult(c)
  BY <1>23 DEF WriteResult
<1>24. CASE WriteComplete(c)
  BY <1>24 DEF WriteComplete
<1>25. CASE ReleaseLease(c)
  BY <1>25 DEF ReleaseLease
<1>26. CASE Return(c)
  BY <1>26 DEF Return
<1>27. CASE StopCommand(c)
  BY <1>27 DEF StopCommand
<1>28. CASE Unwind(c)
  BY <1>28 DEF Unwind
<1>29. CASE BeginCleanup(c)
  BY <1>29 DEF BeginCleanup
<1>30. CASE StopRegistered(c)
  BY <1>30 DEF StopRegistered
<1>31. CASE EndCleanup(c)
  BY <1>31 DEF EndCleanup
<1>32. CASE SkipCleanup(c)
  BY <1>32 DEF SkipCleanup
<1>33. CASE UnlinkResult(c)
  BY <1>33 DEF UnlinkResult
<1>34. CASE MarkFailed(c)
  BY <1>34 DEF MarkFailed
<1>35. CASE Signal(c)
  BY <1>35 DEF Signal
<1>36. CASE Fail(c)
  BY <1>36 DEF Fail
<1>37. CASE Kill(c)
  BY <1>37 DEF Kill
<1>38. CASE CandidateExits(c)
  BY <1>38 DEF CandidateExits
<1>39. CASE CommandExits(c)
  BY <1>39 DEF CommandExits
<1>40. CASE LeftEnd(c)
  BY <1>40 DEF LeftEnd
<1>q. QED
  BY <1>1, <1>2, <1>3, <1>4, <1>5, <1>6, <1>7, <1>8, <1>9, <1>10, <1>11, <1>12, <1>13, <1>14, <1>15, <1>16, <1>17, <1>18, <1>19, <1>20, <1>21, <1>22, <1>23, <1>24, <1>25, <1>26, <1>27, <1>28, <1>29, <1>30, <1>31, <1>32, <1>33, <1>34, <1>35, <1>36, <1>37, <1>38, <1>39, <1>40 DEF Step, Environment, Prepare, Evaluate, Publish, Recover

\* A probe that another coordinator's server answered met a server left behind
\* by a coordinator that failed or was killed.
THEOREM ForeignServersAreLeftOver == Spec => []ForeignServerIsLeftOver
<1>1. Init => ForeignServerIsLeftOver
  BY CoordinatorAssumption DEF Init, ForeignServerIsLeftOver
<1>2. IInv /\ ForeignServerIsLeftOver /\ [Next]_vars => ForeignServerIsLeftOver'
  <2> SUFFICES ASSUME IInv, ForeignServerIsLeftOver, [Next]_vars,
                      NEW x \in Coordinators, NEW y \in Coordinators, x # y,
                      endpoint'[x] = y
               PROVE  ~Healthy(y)'
    BY DEF ForeignServerIsLeftOver
  <2>1. CASE UNCHANGED vars
    BY <2>1 DEF vars, procs, memory, control, Healthy, ForeignServerIsLeftOver
  <2>2. ASSUME NEW c \in Coordinators, Step(c) \/ Environment(c)
        PROVE  ~Healthy(y)'
    <3>1. CASE endpoint' = endpoint
      BY <2>2, <3>1, HealthOnlyFalls DEF ForeignServerIsLeftOver
    <3>2. CASE ProbeReady(c)
      <4>1. PICK d \in Coordinators : Ready(c, d)
        BY <3>2 DEF ProbeReady
      <4>2. endpoint' = [endpoint EXCEPT ![c] = d]
        BY <4>1 DEF Ready
      <4>3. CASE x = c
        <5>1. y = d /\ Alive(cand[y])
          BY <4>1, <4>2, <4>3 DEF Ready, IInv, TypeOK
        <5>2. lease = x
          BY <4>1, <4>3 DEF Ready, At, IInv, LeaseFollowsPlace, Holding, Body
        <5>3. Healthy(y) => lease = y
          <6>1. Healthy(y) => pc[y] \in Holding
            BY <5>1 DEF IInv, Custody, Serving, Holding, Body
          <6>q. QED
            BY <6>1 DEF IInv, LeaseFollowsPlace
        <5>q. QED
          BY <5>2, <5>3, <2>2, HealthOnlyFalls
      <4>4. CASE x # c
        <5>1. endpoint[x] = y
          BY <4>2, <4>4 DEF IInv, TypeOK
        <5>q. QED
          BY <5>1, <2>2, HealthOnlyFalls DEF ForeignServerIsLeftOver
      <4>q. QED
        BY <4>3, <4>4
    <3>q. QED
      BY <2>2, <3>1, <3>2, HealthOnlyFalls
  <2>q. QED
    BY <2>1, <2>2 DEF Next
<1>q. QED
  BY <1>1, <1>2, Inductive, PTL DEF Spec

=============================================================================
