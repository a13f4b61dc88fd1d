----------------------------- MODULE QueueProofs -----------------------------
(***************************************************************************)
(* The four-benchmark queue for any number of executions, targets and      *)
(* retry roots: its types, the evidence behind what is recorded, the roots *)
(* that are preserved, and when a component is evaluated twice.            *)
(***************************************************************************)
EXTENDS QueueProperties, FiniteSetTheorems, SequenceTheorems, WellFoundedInduction, TLAPS

Row == [target : Targets, root : [Components -> Indices]]

\* Where an execution is while it has a child to evaluate its root, ...
Running == {"spawn", "register", "wait"}

\* ... while it is at a component, ...
Evaluating == {"reserve"} \cup Running

\* ... and when a child of it runs or has failed.
ChildPlaces == {"register", "wait", "stop", "handler", "handler_status", "cleanup"} \cup Terminal

\* The last child is bound to the root of its execution: neither moves while
\* it runs, and none is started after one that failed.
Bound(e) == Alive(e) \/ life[e] = "nonzero"

Attached(e) ==
    /\ Bound(e) => pc[e] \in ChildPlaces
    /\ Bound(e) \/ pc[e] \in Running => chosen[e][comp[e]] \in Indices

\* The root was written to, and it was complete until a child among those of
\* X took its evidence back.
Backed(X, t, c, k) ==
    \/ roots[t][c][k] = "complete"
    \/ /\ roots[t][c][k] = "partial"
       /\ \E d \in X : IsRootOf(d, t, c, k) /\ life[d] = "nonzero"

Others(e) == Executions \ {e}

\* The roots of the target that were found or evaluated have evidence.
Settled(e) ==
    \A c \in Components :
        /\ pc[e] \in Evaluating /\ comp[e] = "blink" /\ c = "resident" => chosen[e][c] \in Indices
        /\ At(e, "record") => chosen[e][c] \in Indices
        /\ /\ pc[e] \in Evaluating \cup {"record"} /\ chosen[e][c] \in Indices
           /\ ~(c = comp[e] /\ pc[e] \in Running)
           => Backed(Others(e), Target(e), c, chosen[e][c])

RowsBacked ==
    /\ \A e \in Executions : \A n \in DOMAIN rows[e] : \A c \in Components :
           Backed(Others(e), rows[e][n].target, c, rows[e][n].root[c])
    /\ \A n \in DOMAIN summary.targets : \A c \in Components :
           Backed(Executions, summary.targets[n].target, c, summary.targets[n].root[c])

\* A child never writes to a root that its own execution has recorded.
OwnRootIsNew(e) ==
    Writing(e) => \A n \in DOMAIN rows[e] :
        rows[e][n].target = Target(e) => rows[e][n].root[comp[e]] # chosen[e][comp[e]]

IInv ==
    /\ TypeOK
    /\ \A e \in Executions : Attached(e) /\ Settled(e) /\ OwnRootIsNew(e)
    /\ RowsBacked

\* Without an overlap, and as long as nobody was signalled or killed:
Active(e) == ~At(e, "idle") /\ ~Over(e)

Calm == \A e \in Executions : ~Disturbed(e)

Complete(t, c) == RootsIn(t, c, "complete")

\* only the execution that is active has a child that runs, ...
Accompanied == \A e \in Executions : Alive(e) => pc[e] \in {"register", "wait"}

\* ... it found every complete root of the components that are still ahead, ...
Found(e) ==
    pc[e] \in Evaluating => \A c \in Components :
        c = comp[e] \/ comp[e] = "resident" => Complete(Target(e), c) \subseteq {chosen[e][c]}

\* ... and so no component gets a second one.
OneComplete == \A t \in Targets : \A c \in Components : \A j, k \in Complete(t, c) : j = k

Tidy ==
    /\ \A d, e \in Executions : Active(d) /\ Active(e) => d = e
    /\ Calm => /\ Accompanied
               /\ \A e \in Executions : Found(e)
               /\ OneComplete

ExecutionStep(e) == Launch(e) \/ Step(e) \/ Child(e) \/ Disturb(e)

(***************************************************************************)
(* The operators.                                                          *)
(***************************************************************************)
\* A set of numbers that is not empty has a least one.
LEMMA LeastIsLeast ==
  ASSUME NEW S \in SUBSET Nat, S # {}
  PROVE  Least(S) \in S
<1>1. \E x \in S : \A y \in S : ~ (<<y, x>> \in OpToRel(<, Nat))
  BY NatLessThanWellFounded, WFMin, Zenon
<1>2. PICK x \in S : \A y \in S : ~ (<<y, x>> \in OpToRel(<, Nat))
  BY <1>1
<1>3. ASSUME NEW y \in S PROVE x <= y
  <2>1. ~ (y < x)
    <3>1. <<y, x>> \in Nat \X Nat
      OBVIOUS
    <3>2. ~ (<<y, x>> \in OpToRel(<, Nat))
      BY <1>2
    <3> QED
      BY <3>1, <3>2, Zenon DEF OpToRel
  <2> QED
    BY <2>1
<1> QED
  BY <1>3, Zenon DEF Least

LEMMA IndicesAreNumbers ==
  /\ Indices \subseteq Nat
  /\ NoRoot \notin Indices
  /\ MaxRetries \in Nat
BY QueueAssumption DEF Indices

LEMMA TargetIsTarget ==
  ASSUME NEW e \in Executions, TypeOK
  PROVE  Target(e) \in Targets
<1>1. TargetsOf[e] \in Seq(Targets)
  BY QueueAssumption
<1>2. place[e] \in 1..Len(TargetsOf[e])
  BY <1>1 DEF TypeOK
<1> QED
  BY <1>1, <1>2 DEF Target

\* A root that was found is complete, and if none was found, none is.
LEMMA FoundIsComplete ==
  ASSUME TypeOK, NEW t \in Targets, NEW c \in Components
  PROVE  /\ FindCompleteRoot(t, c) \in Indices \cup {NoRoot}
         /\ FindCompleteRoot(t, c) # NoRoot => roots[t][c][FindCompleteRoot(t, c)] = "complete"
         /\ FindCompleteRoot(t, c) = NoRoot => RootsIn(t, c, "complete") = {}
<1>1. CASE RootsIn(t, c, "complete") = {}
  BY <1>1 DEF FindCompleteRoot
<1>2. CASE RootsIn(t, c, "complete") # {}
  <2>1. Least(RootsIn(t, c, "complete")) \in RootsIn(t, c, "complete")
    BY <1>2, IndicesAreNumbers, LeastIsLeast DEF RootsIn
  <2>2. FindCompleteRoot(t, c) \in RootsIn(t, c, "complete")
    BY <1>2, <2>1 DEF FindCompleteRoot
  <2> QED
    BY <2>2, IndicesAreNumbers DEF RootsIn
<1> QED
  BY <1>1, <1>2

\* A root that is reserved does not exist.
LEMMA ReservedIsAbsent ==
  ASSUME NEW t, NEW c, RootsIn(t, c, "absent") # {}
  PROVE  /\ ReserveRoot(t, c) \in Indices
         /\ roots[t][c][ReserveRoot(t, c)] = "absent"
<1>1. Least(RootsIn(t, c, "absent")) \in RootsIn(t, c, "absent")
  BY IndicesAreNumbers, LeastIsLeast DEF RootsIn
<1> QED
  BY <1>1 DEF ReserveRoot, RootsIn

(***************************************************************************)
(* Types.                                                                  *)
(***************************************************************************)
\* The program's part of the type invariant.
LEMMA MemoryTypes ==
  ASSUME NEW e \in Executions, TypeOK, Attached(e), Settled(e), ExecutionStep(e)
  PROVE  /\ pc' \in [Executions -> Places]
         /\ place' \in [Executions -> Nat \ {0}]
         /\ \A d \in Executions : place'[d] <= Len(TargetsOf[d])
         /\ comp' \in [Executions -> Components]
         /\ outcome' \in [Executions -> {"none", "complete", "failed"}]
         /\ signals' \in [Executions -> 0 .. MaxSignals]
         /\ registered' \in [Executions -> BOOLEAN]
         /\ life' \in [Executions -> {"none", "fresh", "live", "published", "zero", "nonzero"}]
         /\ status' \in {"none", "running", "complete", "failed"}
         /\ model' \in [Targets -> {"pending", "ready", "failed"}]
<1> USE DEF Places, Early, Body, Terminal, Components, At, Goto, Over, memory, files
<1>1. CASE ReturnPrevious(e)
  BY <1>1 DEF ReturnPrevious, TypeOK
<1>2. CASE LoadSummary(e)
  BY <1>2 DEF LoadSummary, TypeOK
<1>3. CASE WaitModels(e)
  BY <1>3 DEF WaitModels, TypeOK
<1>4. CASE GiveUp(e)
  BY <1>4 DEF GiveUp, TypeOK
<1>5. CASE ResetSummary(e)
  BY <1>5 DEF ResetSummary, WriteSummary, TypeOK
<1>6. CASE ResetStatus(e)
  BY <1>6 DEF ResetStatus, TypeOK
<1>7. CASE InstallHandlers(e)
  BY <1>7 DEF InstallHandlers, TypeOK
<1>8. CASE FindRoots(e)
  BY <1>8 DEF FindRoots, TypeOK
<1>9. CASE SkipComplete(e)
  BY <1>9 DEF SkipComplete, NextComponent, TypeOK
<1>10. CASE Reserve(e)
  BY <1>10 DEF Reserve, WriteSummary, TypeOK
<1>11. CASE RetriesExhausted(e)
  BY <1>11 DEF RetriesExhausted, TypeOK
<1>12. CASE SpawnChild(e)
  BY <1>12 DEF SpawnChild, TypeOK
<1>13. CASE RegisterChild(e)
  BY <1>13 DEF RegisterChild, TypeOK
<1>14. CASE ChildSucceeds(e)
  BY <1>14 DEF ChildSucceeds, NextComponent, TypeOK
<1>15. CASE ChildIsNoUse(e)
  BY <1>15 DEF ChildIsNoUse, TypeOK
<1>16. CASE Record(e)
  <2>1. TargetsOf \in [Executions -> Seq(Targets)] /\ place[e] \in Nat \ {0}
    BY QueueAssumption DEF TypeOK
  <2>2. Len(TargetsOf[e]) \in Nat
    BY <2>1
  <2>3. \/ place' = place
        \/ place[e] < Len(TargetsOf[e]) /\ place' = [place EXCEPT ![e] = place[e] + 1]
    BY <1>16 DEF Record
  <2>4. /\ place \in [Executions -> Nat \ {0}]
        /\ \A d \in Executions : place[d] <= Len(TargetsOf[d])
    BY DEF TypeOK
  <2>5. /\ place' \in [Executions -> Nat \ {0}]
        /\ \A d \in Executions : place'[d] <= Len(TargetsOf[d])
    <3>1. CASE place' = place
      BY <2>4, <3>1
    <3>2. CASE place[e] < Len(TargetsOf[e]) /\ place' = [place EXCEPT ![e] = place[e] + 1]
      <4>1. place[e] + 1 \in Nat \ {0} /\ place[e] + 1 <= Len(TargetsOf[e])
        BY <2>1, <2>2, <3>2
      <4> QED
        BY <2>4, <3>2, <4>1
    <3> QED
      BY <2>3, <3>1, <3>2
  <2> QED
    BY <1>16, <2>5 DEF Record, WriteSummary, TypeOK
<1>17. CASE RecordNotEligible(e)
  BY <1>17 DEF RecordNotEligible, TypeOK
<1>18. CASE FinishSummary(e)
  BY <1>18 DEF FinishSummary, WriteSummary, TypeOK
<1>19. CASE FinishStatus(e)
  BY <1>19 DEF FinishStatus, TypeOK
<1>20. CASE Return(e)
  BY <1>20 DEF Return, TypeOK
<1>21. CASE StopChild(e)
  BY <1>21 DEF StopChild, KillChild, TypeOK
<1>22. CASE WriteFailedSummary(e)
  BY <1>22 DEF WriteFailedSummary, WriteSummary, TypeOK
<1>23. CASE WriteFailedStatus(e)
  BY <1>23 DEF WriteFailedStatus, TypeOK
<1>24. CASE Cleanup(e)
  BY <1>24 DEF Cleanup, KillChild, TypeOK
<1>25. CASE Launch(e)
  BY <1>25 DEF Launch, TypeOK
<1>26. CASE ChildOpens(e)
  BY <1>26 DEF ChildOpens, WriteRoot, TypeOK
<1>27. CASE ChildPublishes(e)
  BY <1>27 DEF ChildPublishes, WriteRoot, TypeOK
<1>28. CASE ChildReturns(e)
  BY <1>28 DEF ChildReturns, TypeOK
<1>29. CASE ChildFails(e)
  BY <1>29 DEF ChildFails, WriteRoot, TypeOK
<1>30. CASE Signal(e)
  <2>3. \E l \in {"killed", "stop", "handler", "cleanup", "exited"} : pc' = [pc EXCEPT ![e] = l]
    BY <1>30 DEF Signal
  <2>4. pc \in [Executions -> Places]
    BY DEF TypeOK
  <2>1. pc' \in [Executions -> Places]
    BY <2>3, <2>4
  <2>2. signals' \in [Executions -> 0 .. MaxSignals]
    BY <1>30, QueueAssumption DEF Signal, TypeOK
  <2> QED
    BY <1>30, <2>1, <2>2 DEF Signal, TypeOK
<1>31. CASE Fail(e)
  BY <1>31 DEF Fail, TypeOK
<1>32. CASE FailureIsNotWritten(e)
  BY <1>32 DEF FailureIsNotWritten, TypeOK
<1>33. CASE Kill(e)
  BY <1>33 DEF Kill, TypeOK
<1>q. QED
  BY <1>1, <1>2, <1>3, <1>4, <1>5, <1>6, <1>7, <1>8, <1>9, <1>10, <1>11,
     <1>12, <1>13, <1>14, <1>15, <1>16, <1>17, <1>18, <1>19, <1>20, <1>21,
     <1>22, <1>23, <1>24, <1>25, <1>26, <1>27, <1>28, <1>29, <1>30, <1>31,
     <1>32, <1>33
  DEF ExecutionStep, Step, Child, Disturb

\* The roots an execution chose.
LEMMA ChosenTypes ==
  ASSUME NEW e \in Executions, TypeOK, ExecutionStep(e)
  PROVE  chosen' \in [Executions -> [Components -> Indices \cup {NoRoot}]]
<1> USE DEF At, Goto, memory, files
<1>a. chosen \in [Executions -> [Components -> Indices \cup {NoRoot}]] /\ comp[e] \in Components
  BY DEF TypeOK
<1>1. CASE ReturnPrevious(e)
  BY <1>1, <1>a DEF ReturnPrevious
<1>2. CASE LoadSummary(e)
  BY <1>2, <1>a DEF LoadSummary
<1>3. CASE WaitModels(e)
  BY <1>3, <1>a DEF WaitModels
<1>4. CASE GiveUp(e)
  BY <1>4, <1>a DEF GiveUp
<1>5. CASE ResetSummary(e)
  BY <1>5, <1>a DEF ResetSummary, WriteSummary
<1>6. CASE ResetStatus(e)
  BY <1>6, <1>a DEF ResetStatus
<1>7. CASE InstallHandlers(e)
  BY <1>7, <1>a DEF InstallHandlers
<1>8. CASE FindRoots(e)
  <2>1. [c \in Components |-> FindCompleteRoot(Target(e), c)] \in [Components -> Indices \cup {NoRoot}]
    BY TargetIsTarget, FoundIsComplete
  <2> QED
    BY <1>8, <1>a, <2>1 DEF FindRoots
<1>9. CASE SkipComplete(e)
  BY <1>9, <1>a DEF SkipComplete, NextComponent
<1>10. CASE Reserve(e)
  <2>1. ReserveRoot(Target(e), comp[e]) \in Indices
    BY <1>10, ReservedIsAbsent DEF Reserve
  <2>2. chosen' = [chosen EXCEPT ![e] = [chosen[e] EXCEPT ![comp[e]] = ReserveRoot(Target(e), comp[e])]]
    BY <1>10 DEF Reserve
  <2>3. [chosen[e] EXCEPT ![comp[e]] = ReserveRoot(Target(e), comp[e])] \in [Components -> Indices \cup {NoRoot}]
    BY <1>a, <2>1
  <2> QED
    BY <1>a, <2>2, <2>3
<1>11. CASE RetriesExhausted(e)
  BY <1>11, <1>a DEF RetriesExhausted
<1>12. CASE SpawnChild(e)
  BY <1>12, <1>a DEF SpawnChild
<1>13. CASE RegisterChild(e)
  BY <1>13, <1>a DEF RegisterChild
<1>14. CASE ChildSucceeds(e)
  BY <1>14, <1>a DEF ChildSucceeds, NextComponent
<1>15. CASE ChildIsNoUse(e)
  BY <1>15, <1>a DEF ChildIsNoUse
<1>16. CASE Record(e)
  BY <1>16, <1>a DEF Record, WriteSummary
<1>17. CASE RecordNotEligible(e)
  BY <1>17, <1>a DEF RecordNotEligible
<1>18. CASE FinishSummary(e)
  BY <1>18, <1>a DEF FinishSummary, WriteSummary
<1>19. CASE FinishStatus(e)
  BY <1>19, <1>a DEF FinishStatus
<1>20. CASE Return(e)
  BY <1>20, <1>a DEF Return
<1>21. CASE StopChild(e)
  BY <1>21, <1>a DEF StopChild, KillChild
<1>22. CASE WriteFailedSummary(e)
  BY <1>22, <1>a DEF WriteFailedSummary, WriteSummary
<1>23. CASE WriteFailedStatus(e)
  BY <1>23, <1>a DEF WriteFailedStatus
<1>24. CASE Cleanup(e)
  BY <1>24, <1>a DEF Cleanup, KillChild
<1>25. CASE Launch(e)
  BY <1>25, <1>a DEF Launch
<1>26. CASE ChildOpens(e)
  BY <1>26, <1>a DEF ChildOpens, WriteRoot
<1>27. CASE ChildPublishes(e)
  BY <1>27, <1>a DEF ChildPublishes, WriteRoot
<1>28. CASE ChildReturns(e)
  BY <1>28, <1>a DEF ChildReturns
<1>29. CASE ChildFails(e)
  BY <1>29, <1>a DEF ChildFails, WriteRoot
<1>30. CASE Signal(e)
  BY <1>30, <1>a DEF Signal
<1>31. CASE Fail(e)
  BY <1>31, <1>a DEF Fail
<1>32. CASE FailureIsNotWritten(e)
  BY <1>32, <1>a DEF FailureIsNotWritten
<1>33. CASE Kill(e)
  BY <1>33, <1>a DEF Kill
<1>q. QED
  BY <1>1, <1>2, <1>3, <1>4, <1>5, <1>6, <1>7, <1>8, <1>9, <1>10, <1>11,
     <1>12, <1>13, <1>14, <1>15, <1>16, <1>17, <1>18, <1>19, <1>20, <1>21,
     <1>22, <1>23, <1>24, <1>25, <1>26, <1>27, <1>28, <1>29, <1>30, <1>31,
     <1>32, <1>33
  DEF ExecutionStep, Step, Child, Disturb

\* The summary holds rows, also when it is torn.
LEMMA SummaryTypes ==
  ASSUME NEW state \in {"none", "running", "complete", "failed"}, NEW list \in Seq(Row),
         WriteSummary(state, list)
  PROVE  summary' \in [state : {"none", "running", "complete", "failed"}, targets : Seq(Row)]
<1>1. << >> \in Seq(Row)
  OBVIOUS
<1>2. CASE summary' = [state |-> state, targets |-> list]
  BY <1>2
<1>3. CASE summary' = [state |-> "none", targets |-> << >>]
  BY <1>1, <1>3
<1> QED
  BY <1>2, <1>3 DEF WriteSummary

\* What it recorded.
LEMMA RowsTypes ==
  ASSUME NEW e \in Executions, TypeOK, Settled(e), ExecutionStep(e)
  PROVE  /\ rows' \in [Executions -> Seq(Row)]
         /\ summary' \in [state : {"none", "running", "complete", "failed"}, targets : Seq(Row)]
<1> USE DEF At, Goto, memory, files
<1>a. /\ rows \in [Executions -> Seq(Row)]
      /\ summary \in [state : {"none", "running", "complete", "failed"}, targets : Seq(Row)]
  BY DEF TypeOK, Row
<1>1. CASE ReturnPrevious(e)
  BY <1>1, <1>a DEF ReturnPrevious
<1>2. CASE LoadSummary(e)
  BY <1>2, <1>a DEF LoadSummary
<1>3. CASE WaitModels(e)
  BY <1>3, <1>a DEF WaitModels
<1>4. CASE GiveUp(e)
  BY <1>4, <1>a DEF GiveUp
<1>5. CASE ResetSummary(e)
  <2>1. << >> \in Seq(Row)
    OBVIOUS
  <2>2. WriteSummary("running", << >>) /\ UNCHANGED rows
    BY <1>5 DEF ResetSummary
  <2> QED
    BY <1>a, <2>1, <2>2, SummaryTypes
<1>6. CASE ResetStatus(e)
  BY <1>6, <1>a DEF ResetStatus
<1>7. CASE InstallHandlers(e)
  BY <1>7, <1>a DEF InstallHandlers
<1>8. CASE FindRoots(e)
  BY <1>8, <1>a DEF FindRoots
<1>9. CASE SkipComplete(e)
  BY <1>9, <1>a DEF SkipComplete, NextComponent
<1>10. CASE Reserve(e)
  <2>1. WriteSummary("running", rows[e]) /\ UNCHANGED rows
    BY <1>10 DEF Reserve
  <2> QED
    BY <1>a, <2>1, SummaryTypes
<1>11. CASE RetriesExhausted(e)
  BY <1>11, <1>a DEF RetriesExhausted
<1>12. CASE SpawnChild(e)
  BY <1>12, <1>a DEF SpawnChild
<1>13. CASE RegisterChild(e)
  BY <1>13, <1>a DEF RegisterChild
<1>14. CASE ChildSucceeds(e)
  BY <1>14, <1>a DEF ChildSucceeds, NextComponent
<1>15. CASE ChildIsNoUse(e)
  BY <1>15, <1>a DEF ChildIsNoUse
<1>16. CASE Record(e)
  <2>1. chosen[e] \in [Components -> Indices]
    <3>1. \A c \in Components : chosen[e][c] \in Indices
      BY <1>16 DEF Record, Settled
    <3> QED
      BY <3>1 DEF TypeOK
  <2>2. [target |-> Target(e), root |-> chosen[e]] \in Row
    BY <2>1, TargetIsTarget DEF Row
  <2>3. Append(rows[e], [target |-> Target(e), root |-> chosen[e]]) \in Seq(Row)
    BY <1>a, <2>2
  <2>4. rows' \in [Executions -> Seq(Row)] /\ rows'[e] \in Seq(Row)
    BY <1>16, <1>a, <2>3 DEF Record
  <2> QED
    <3>1. WriteSummary("running", rows'[e])
      BY <1>16 DEF Record
    <3> QED
      BY <2>4, <3>1, SummaryTypes
<1>17. CASE RecordNotEligible(e)
  BY <1>17, <1>a DEF RecordNotEligible
<1>18. CASE FinishSummary(e)
  <2>1. WriteSummary("complete", rows[e]) /\ UNCHANGED rows
    BY <1>18 DEF FinishSummary
  <2> QED
    BY <1>a, <2>1, SummaryTypes
<1>19. CASE FinishStatus(e)
  BY <1>19, <1>a DEF FinishStatus
<1>20. CASE Return(e)
  BY <1>20, <1>a DEF Return
<1>21. CASE StopChild(e)
  BY <1>21, <1>a DEF StopChild, KillChild
<1>22. CASE WriteFailedSummary(e)
  <2>1. WriteSummary("failed", rows[e]) /\ UNCHANGED rows
    BY <1>22 DEF WriteFailedSummary
  <2> QED
    BY <1>a, <2>1, SummaryTypes
<1>23. CASE WriteFailedStatus(e)
  BY <1>23, <1>a DEF WriteFailedStatus
<1>24. CASE Cleanup(e)
  BY <1>24, <1>a DEF Cleanup, KillChild
<1>25. CASE Launch(e)
  BY <1>25, <1>a DEF Launch
<1>26. CASE ChildOpens(e)
  BY <1>26, <1>a DEF ChildOpens, WriteRoot
<1>27. CASE ChildPublishes(e)
  BY <1>27, <1>a DEF ChildPublishes, WriteRoot
<1>28. CASE ChildReturns(e)
  BY <1>28, <1>a DEF ChildReturns
<1>29. CASE ChildFails(e)
  BY <1>29, <1>a DEF ChildFails, WriteRoot
<1>30. CASE Signal(e)
  BY <1>30, <1>a DEF Signal
<1>31. CASE Fail(e)
  BY <1>31, <1>a DEF Fail
<1>32. CASE FailureIsNotWritten(e)
  BY <1>32, <1>a DEF FailureIsNotWritten
<1>33. CASE Kill(e)
  BY <1>33, <1>a DEF Kill
<1>q. QED
  BY <1>1, <1>2, <1>3, <1>4, <1>5, <1>6, <1>7, <1>8, <1>9, <1>10, <1>11,
     <1>12, <1>13, <1>14, <1>15, <1>16, <1>17, <1>18, <1>19, <1>20, <1>21,
     <1>22, <1>23, <1>24, <1>25, <1>26, <1>27, <1>28, <1>29, <1>30, <1>31,
     <1>32, <1>33
  DEF ExecutionStep, Step, Child, Disturb

\* A write to the root of a child.
LEMMA WriteRootTypes ==
  ASSUME NEW e \in Executions, TypeOK, chosen[e][comp[e]] \in Indices,
         NEW state \in {"absent", "partial", "complete"}, WriteRoot(e, state)
  PROVE  /\ roots' \in [Targets -> [Components -> [Indices -> {"absent", "partial", "complete"}]]]
         /\ \A t \in Targets, c \in Components, k \in Indices :
                roots'[t][c][k] = IF t = Target(e) /\ c = comp[e] /\ k = chosen[e][comp[e]]
                                  THEN state ELSE roots[t][c][k]
<1> DEFINE T == Target(e)
           C == comp[e]
           K == chosen[e][comp[e]]
<1>1. T \in Targets /\ C \in Components /\ K \in Indices
  BY TargetIsTarget DEF TypeOK
<1>2. roots \in [Targets -> [Components -> [Indices -> {"absent", "partial", "complete"}]]]
  BY DEF TypeOK
<1>3. roots' = [roots EXCEPT ![T] = [roots[T] EXCEPT ![C] = [roots[T][C] EXCEPT ![K] = state]]]
  BY DEF WriteRoot
<1> HIDE DEF T, C, K
<1>4. [roots[T][C] EXCEPT ![K] = state] \in [Indices -> {"absent", "partial", "complete"}]
  BY <1>1, <1>2
<1>5. [roots[T] EXCEPT ![C] = [roots[T][C] EXCEPT ![K] = state]]
         \in [Components -> [Indices -> {"absent", "partial", "complete"}]]
  BY <1>1, <1>2, <1>4
<1>6. roots' \in [Targets -> [Components -> [Indices -> {"absent", "partial", "complete"}]]]
  BY <1>1, <1>2, <1>3, <1>5
<1>7. ASSUME NEW t \in Targets, NEW c \in Components, NEW k \in Indices
      PROVE  roots'[t][c][k] = IF t = T /\ c = C /\ k = K THEN state ELSE roots[t][c][k]
  BY <1>1, <1>2, <1>3
<1> QED
  BY <1>6, <1>7 DEF T, C, K

\* How a root may change: its child opens it, publishes or takes that back.
RootMoves(e, t, c, k) ==
    /\ t = Target(e) /\ c = comp[e] /\ k = chosen[e][c]
    /\ \/ life[e] = "fresh" /\ life'[e] = "live" /\ roots[t][c][k] = "absent" /\ roots'[t][c][k] = "partial"
       \/ life[e] = "live" /\ life'[e] = "published" /\ roots'[t][c][k] = "complete"
       \/ life[e] = "published" /\ life'[e] = "nonzero" /\ roots'[t][c][k] = "partial"

LEMMA RootsMove ==
  ASSUME NEW e \in Executions, TypeOK, Attached(e), ExecutionStep(e)
  PROVE  /\ roots' \in [Targets -> [Components -> [Indices -> {"absent", "partial", "complete"}]]]
         /\ \A t \in Targets, c \in Components, k \in Indices :
                roots'[t][c][k] = roots[t][c][k] \/ RootMoves(e, t, c, k)
<1> USE DEF At, Goto, memory, files
<1>a. roots' = roots => roots' \in [Targets -> [Components -> [Indices -> {"absent", "partial", "complete"}]]]
  BY DEF TypeOK
<1>b. Alive(e) => chosen[e][comp[e]] \in Indices
  BY DEF Attached, Bound
<1>c. life \in [Executions -> {"none", "fresh", "live", "published", "zero", "nonzero"}]
  BY DEF TypeOK
<1>1. CASE ReturnPrevious(e)
  BY <1>1, <1>a DEF ReturnPrevious
<1>2. CASE LoadSummary(e)
  BY <1>2, <1>a DEF LoadSummary
<1>3. CASE WaitModels(e)
  BY <1>3, <1>a DEF WaitModels
<1>4. CASE GiveUp(e)
  BY <1>4, <1>a DEF GiveUp
<1>5. CASE ResetSummary(e)
  BY <1>5, <1>a DEF ResetSummary, WriteSummary
<1>6. CASE ResetStatus(e)
  BY <1>6, <1>a DEF ResetStatus
<1>7. CASE InstallHandlers(e)
  BY <1>7, <1>a DEF InstallHandlers
<1>8. CASE FindRoots(e)
  BY <1>8, <1>a DEF FindRoots
<1>9. CASE SkipComplete(e)
  BY <1>9, <1>a DEF SkipComplete, NextComponent
<1>10. CASE Reserve(e)
  BY <1>10, <1>a DEF Reserve, WriteSummary
<1>11. CASE RetriesExhausted(e)
  BY <1>11, <1>a DEF RetriesExhausted
<1>12. CASE SpawnChild(e)
  BY <1>12, <1>a DEF SpawnChild
<1>13. CASE RegisterChild(e)
  BY <1>13, <1>a DEF RegisterChild
<1>14. CASE ChildSucceeds(e)
  BY <1>14, <1>a DEF ChildSucceeds, NextComponent
<1>15. CASE ChildIsNoUse(e)
  BY <1>15, <1>a DEF ChildIsNoUse
<1>16. CASE Record(e)
  BY <1>16, <1>a DEF Record, WriteSummary
<1>17. CASE RecordNotEligible(e)
  BY <1>17, <1>a DEF RecordNotEligible
<1>18. CASE FinishSummary(e)
  BY <1>18, <1>a DEF FinishSummary, WriteSummary
<1>19. CASE FinishStatus(e)
  BY <1>19, <1>a DEF FinishStatus
<1>20. CASE Return(e)
  BY <1>20, <1>a DEF Return
<1>21. CASE StopChild(e)
  BY <1>21, <1>a DEF StopChild, KillChild
<1>22. CASE WriteFailedSummary(e)
  BY <1>22, <1>a DEF WriteFailedSummary, WriteSummary
<1>23. CASE WriteFailedStatus(e)
  BY <1>23, <1>a DEF WriteFailedStatus
<1>24. CASE Cleanup(e)
  BY <1>24, <1>a DEF Cleanup, KillChild
<1>25. CASE Launch(e)
  BY <1>25, <1>a DEF Launch
<1>26. CASE ChildOpens(e)
  <2>1. CASE UNCHANGED roots
    BY <1>a, <2>1
  <2>2. CASE /\ roots[Target(e)][comp[e]][chosen[e][comp[e]]] = "absent"
             /\ life' = [life EXCEPT ![e] = "live"]
             /\ WriteRoot(e, "partial")
    <3>1. chosen[e][comp[e]] \in Indices
      BY <1>26, <1>b DEF ChildOpens, Alive
    <3> QED
      BY <1>26, <2>2, <3>1, <1>c, WriteRootTypes DEF ChildOpens, RootMoves
  <2> QED
    BY <1>26, <2>1, <2>2 DEF ChildOpens
<1>27. CASE ChildPublishes(e)
  <2>1. chosen[e][comp[e]] \in Indices
    BY <1>27, <1>b DEF ChildPublishes, Alive, Writing
  <2>2. CASE WriteRoot(e, "complete")
    BY <1>27, <2>1, <2>2, <1>c, WriteRootTypes DEF ChildPublishes, RootMoves
  <2>3. CASE UNCHANGED roots
    BY <1>a, <2>3
  <2> QED
    BY <1>27, <2>2, <2>3 DEF ChildPublishes
<1>28. CASE ChildReturns(e)
  BY <1>28, <1>a DEF ChildReturns
<1>29. CASE ChildFails(e)
  <2>1. CASE UNCHANGED roots
    BY <1>a, <2>1
  <2>2. CASE life[e] = "published" /\ WriteRoot(e, "partial")
    <3>1. chosen[e][comp[e]] \in Indices
      BY <1>29, <1>b DEF ChildFails
    <3> QED
      BY <1>29, <2>2, <3>1, <1>c, WriteRootTypes DEF ChildFails, RootMoves
  <2> QED
    BY <1>29, <2>1, <2>2 DEF ChildFails
<1>30. CASE Signal(e)
  BY <1>30, <1>a DEF Signal
<1>31. CASE Fail(e)
  BY <1>31, <1>a DEF Fail
<1>32. CASE FailureIsNotWritten(e)
  BY <1>32, <1>a DEF FailureIsNotWritten
<1>33. CASE Kill(e)
  BY <1>33, <1>a DEF Kill
<1>q. QED
  BY <1>1, <1>2, <1>3, <1>4, <1>5, <1>6, <1>7, <1>8, <1>9, <1>10, <1>11,
     <1>12, <1>13, <1>14, <1>15, <1>16, <1>17, <1>18, <1>19, <1>20, <1>21,
     <1>22, <1>23, <1>24, <1>25, <1>26, <1>27, <1>28, <1>29, <1>30, <1>31,
     <1>32, <1>33
  DEF ExecutionStep, Step, Child, Disturb

(***************************************************************************)
(* What a step leaves alone.                                               *)
(***************************************************************************)
\* It is a step of one execution.
LEMMA OthersStay ==
  ASSUME NEW e \in Executions, TypeOK, ExecutionStep(e), NEW d \in Executions, d # e
  PROVE  /\ pc'[d] = pc[d] /\ place'[d] = place[d] /\ comp'[d] = comp[d]
         /\ chosen'[d] = chosen[d] /\ rows'[d] = rows[d] /\ life'[d] = life[d]
         /\ signals'[d] = signals[d]
<1> USE DEF At, Goto, memory, files
<1>a. /\ DOMAIN pc = Executions /\ DOMAIN place = Executions /\ DOMAIN comp = Executions
      /\ DOMAIN chosen = Executions /\ DOMAIN rows = Executions /\ DOMAIN life = Executions
      /\ DOMAIN signals = Executions
  BY DEF TypeOK
<1>1. CASE ReturnPrevious(e)
  BY <1>1, <1>a DEF ReturnPrevious
<1>2. CASE LoadSummary(e)
  BY <1>2, <1>a DEF LoadSummary
<1>3. CASE WaitModels(e)
  BY <1>3, <1>a DEF WaitModels
<1>4. CASE GiveUp(e)
  BY <1>4, <1>a DEF GiveUp
<1>5. CASE ResetSummary(e)
  BY <1>5, <1>a DEF ResetSummary, WriteSummary
<1>6. CASE ResetStatus(e)
  BY <1>6, <1>a DEF ResetStatus
<1>7. CASE InstallHandlers(e)
  BY <1>7, <1>a DEF InstallHandlers
<1>8. CASE FindRoots(e)
  BY <1>8, <1>a DEF FindRoots
<1>9. CASE SkipComplete(e)
  BY <1>9, <1>a DEF SkipComplete, NextComponent
<1>10. CASE Reserve(e)
  BY <1>10, <1>a DEF Reserve, WriteSummary
<1>11. CASE RetriesExhausted(e)
  BY <1>11, <1>a DEF RetriesExhausted
<1>12. CASE SpawnChild(e)
  BY <1>12, <1>a DEF SpawnChild
<1>13. CASE RegisterChild(e)
  BY <1>13, <1>a DEF RegisterChild
<1>14. CASE ChildSucceeds(e)
  BY <1>14, <1>a DEF ChildSucceeds, NextComponent
<1>15. CASE ChildIsNoUse(e)
  BY <1>15, <1>a DEF ChildIsNoUse
<1>16. CASE Record(e)
  BY <1>16, <1>a DEF Record, WriteSummary
<1>17. CASE RecordNotEligible(e)
  BY <1>17, <1>a DEF RecordNotEligible
<1>18. CASE FinishSummary(e)
  BY <1>18, <1>a DEF FinishSummary, WriteSummary
<1>19. CASE FinishStatus(e)
  BY <1>19, <1>a DEF FinishStatus
<1>20. CASE Return(e)
  BY <1>20, <1>a DEF Return
<1>21. CASE StopChild(e)
  BY <1>21, <1>a DEF StopChild, KillChild
<1>22. CASE WriteFailedSummary(e)
  BY <1>22, <1>a DEF WriteFailedSummary, WriteSummary
<1>23. CASE WriteFailedStatus(e)
  BY <1>23, <1>a DEF WriteFailedStatus
<1>24. CASE Cleanup(e)
  BY <1>24, <1>a DEF Cleanup, KillChild
<1>25. CASE Launch(e)
  BY <1>25, <1>a DEF Launch
<1>26. CASE ChildOpens(e)
  BY <1>26, <1>a DEF ChildOpens, WriteRoot
<1>27. CASE ChildPublishes(e)
  BY <1>27, <1>a DEF ChildPublishes, WriteRoot
<1>28. CASE ChildReturns(e)
  BY <1>28, <1>a DEF ChildReturns
<1>29. CASE ChildFails(e)
  BY <1>29, <1>a DEF ChildFails, WriteRoot
<1>30. CASE Signal(e)
  BY <1>30, <1>a DEF Signal
<1>31. CASE Fail(e)
  BY <1>31, <1>a DEF Fail
<1>32. CASE FailureIsNotWritten(e)
  BY <1>32, <1>a DEF FailureIsNotWritten
<1>33. CASE Kill(e)
  BY <1>33, <1>a DEF Kill
<1>q. QED
  BY <1>1, <1>2, <1>3, <1>4, <1>5, <1>6, <1>7, <1>8, <1>9, <1>10, <1>11,
     <1>12, <1>13, <1>14, <1>15, <1>16, <1>17, <1>18, <1>19, <1>20, <1>21,
     <1>22, <1>23, <1>24, <1>25, <1>26, <1>27, <1>28, <1>29, <1>30, <1>31,
     <1>32, <1>33
  DEF ExecutionStep, Step, Child, Disturb

\* An execution whose child runs or has failed does not move on, and it
\* does not start another one after a failure.
LEMMA BoundStays ==
  ASSUME NEW e \in Executions, TypeOK, Attached(e), ExecutionStep(e), Bound(e)
  PROVE  /\ place'[e] = place[e] /\ comp'[e] = comp[e] /\ chosen'[e] = chosen[e]
         /\ rows'[e] = rows[e] /\ pc'[e] \in ChildPlaces
         /\ life[e] = "nonzero" => life'[e] = "nonzero"
<1> USE DEF At, Goto, memory, files
<1>a. pc[e] \in ChildPlaces
  BY DEF Attached
<1>b. pc \in [Executions -> Places] /\ DOMAIN life = Executions
  BY DEF TypeOK
<1>c. life[e] \in {"fresh", "live", "published", "nonzero"}
  BY DEF Bound, Alive, Writing
<1>1. CASE ReturnPrevious(e)
  BY <1>1, <1>a, <1>b, <1>c DEF ReturnPrevious, ChildPlaces, Terminal
<1>2. CASE LoadSummary(e)
  BY <1>2, <1>a, <1>b, <1>c DEF LoadSummary, ChildPlaces, Terminal
<1>3. CASE WaitModels(e)
  BY <1>3, <1>a, <1>b, <1>c DEF WaitModels, ChildPlaces, Terminal
<1>4. CASE GiveUp(e)
  BY <1>4, <1>a, <1>b, <1>c DEF GiveUp, ChildPlaces, Terminal
<1>5. CASE ResetSummary(e)
  BY <1>5, <1>a, <1>b, <1>c DEF ResetSummary, WriteSummary, ChildPlaces, Terminal
<1>6. CASE ResetStatus(e)
  BY <1>6, <1>a, <1>b, <1>c DEF ResetStatus, ChildPlaces, Terminal
<1>7. CASE InstallHandlers(e)
  BY <1>7, <1>a, <1>b, <1>c DEF InstallHandlers, ChildPlaces, Terminal
<1>8. CASE FindRoots(e)
  BY <1>8, <1>a, <1>b, <1>c DEF FindRoots, ChildPlaces, Terminal
<1>9. CASE SkipComplete(e)
  BY <1>9, <1>a, <1>b, <1>c DEF SkipComplete, NextComponent, ChildPlaces, Terminal
<1>10. CASE Reserve(e)
  BY <1>10, <1>a, <1>b, <1>c DEF Reserve, WriteSummary, ChildPlaces, Terminal
<1>11. CASE RetriesExhausted(e)
  BY <1>11, <1>a, <1>b, <1>c DEF RetriesExhausted, ChildPlaces, Terminal
<1>12. CASE SpawnChild(e)
  BY <1>12, <1>a, <1>b, <1>c DEF SpawnChild, ChildPlaces, Terminal
<1>13. CASE RegisterChild(e)
  BY <1>13, <1>a, <1>b, <1>c DEF RegisterChild, ChildPlaces, Terminal
<1>14. CASE ChildSucceeds(e)
  BY <1>14, <1>a, <1>b, <1>c DEF ChildSucceeds, NextComponent, ChildPlaces, Terminal, ChildReturned
<1>15. CASE ChildIsNoUse(e)
  BY <1>15, <1>a, <1>b, <1>c DEF ChildIsNoUse, ChildPlaces, Terminal
<1>16. CASE Record(e)
  BY <1>16, <1>a, <1>b, <1>c DEF Record, WriteSummary, ChildPlaces, Terminal
<1>17. CASE RecordNotEligible(e)
  BY <1>17, <1>a, <1>b, <1>c DEF RecordNotEligible, ChildPlaces, Terminal
<1>18. CASE FinishSummary(e)
  BY <1>18, <1>a, <1>b, <1>c DEF FinishSummary, WriteSummary, ChildPlaces, Terminal
<1>19. CASE FinishStatus(e)
  BY <1>19, <1>a, <1>b, <1>c DEF FinishStatus, ChildPlaces, Terminal
<1>20. CASE Return(e)
  BY <1>20, <1>a, <1>b, <1>c DEF Return, ChildPlaces, Terminal
<1>21. CASE StopChild(e)
  BY <1>21, <1>a, <1>b, <1>c DEF StopChild, KillChild, ChildPlaces, Terminal, Alive, Writing
<1>22. CASE WriteFailedSummary(e)
  BY <1>22, <1>a, <1>b, <1>c DEF WriteFailedSummary, WriteSummary, ChildPlaces, Terminal
<1>23. CASE WriteFailedStatus(e)
  BY <1>23, <1>a, <1>b, <1>c DEF WriteFailedStatus, ChildPlaces, Terminal
<1>24. CASE Cleanup(e)
  BY <1>24, <1>a, <1>b, <1>c DEF Cleanup, KillChild, ChildPlaces, Terminal, Alive, Writing
<1>25. CASE Launch(e)
  BY <1>25, <1>a, <1>b, <1>c DEF Launch, ChildPlaces, Terminal
<1>26. CASE ChildOpens(e)
  BY <1>26, <1>a, <1>b, <1>c DEF ChildOpens, WriteRoot, ChildPlaces, Terminal
<1>27. CASE ChildPublishes(e)
  BY <1>27, <1>a, <1>b, <1>c DEF ChildPublishes, WriteRoot, ChildPlaces, Terminal
<1>28. CASE ChildReturns(e)
  BY <1>28, <1>a, <1>b, <1>c DEF ChildReturns, ChildPlaces, Terminal
<1>29. CASE ChildFails(e)
  BY <1>29, <1>a, <1>b, <1>c DEF ChildFails, WriteRoot, ChildPlaces, Terminal
<1>30. CASE Signal(e)
  BY <1>30, <1>a, <1>b, <1>c DEF Signal, ChildPlaces, Terminal, Early, Body
<1>31. CASE Fail(e)
  BY <1>31, <1>a, <1>b, <1>c DEF Fail, ChildPlaces, Terminal
<1>32. CASE FailureIsNotWritten(e)
  BY <1>32, <1>a, <1>b, <1>c DEF FailureIsNotWritten, ChildPlaces, Terminal
<1>33. CASE Kill(e)
  BY <1>33, <1>a, <1>b, <1>c DEF Kill, ChildPlaces, Terminal
<1>q. QED
  BY <1>1, <1>2, <1>3, <1>4, <1>5, <1>6, <1>7, <1>8, <1>9, <1>10, <1>11,
     <1>12, <1>13, <1>14, <1>15, <1>16, <1>17, <1>18, <1>19, <1>20, <1>21,
     <1>22, <1>23, <1>24, <1>25, <1>26, <1>27, <1>28, <1>29, <1>30, <1>31,
     <1>32, <1>33
  DEF ExecutionStep, Step, Child, Disturb

LEMMA ChildStays ==
  ASSUME NEW e \in Executions, TypeOK, NEW d \in Executions, Attached(d), ExecutionStep(e),
         Bound(d)
  PROVE  /\ Target(d)' = Target(d) /\ comp'[d] = comp[d] /\ chosen'[d] = chosen[d]
         /\ rows'[d] = rows[d] /\ pc'[d] \in ChildPlaces
         /\ life[d] = "nonzero" => life'[d] = "nonzero"
<1>1. CASE d = e
  BY <1>1, BoundStays DEF Target
<1>2. CASE d # e
  BY <1>2, OthersStay DEF Target, Attached
<1> QED
  BY <1>1, <1>2

\* Evidence stays, or is taken back by a child of X.
LEMMA BackedStays ==
  ASSUME NEW e \in Executions, TypeOK, \A d \in Executions : Attached(d), ExecutionStep(e),
         NEW X \in SUBSET Executions, NEW t \in Targets, NEW c \in Components, NEW k \in Indices,
         e \in X \/ ~(Writing(e) /\ t = Target(e) /\ c = comp[e] /\ k = chosen[e][c]),
         Backed(X, t, c, k)
  PROVE  Backed(X, t, c, k)'
<1>1. CASE roots'[t][c][k] = roots[t][c][k]
  <2>1. CASE roots[t][c][k] = "complete"
    BY <1>1, <2>1 DEF Backed
  <2>2. CASE roots[t][c][k] # "complete"
    <3>1. PICK d \in X : IsRootOf(d, t, c, k) /\ life[d] = "nonzero"
      BY <2>2 DEF Backed
    <3>2. IsRootOf(d, t, c, k)' /\ life'[d] = "nonzero"
      BY <3>1, ChildStays DEF Bound, IsRootOf
    <3> QED
      BY <1>1, <2>2, <3>1, <3>2 DEF Backed
  <2> QED
    BY <2>1, <2>2
<1>2. CASE RootMoves(e, t, c, k)
  <2>1. CASE life[e] = "published" /\ life'[e] = "nonzero" /\ roots'[t][c][k] = "partial"
    <3>1. e \in X
      BY <1>2, <2>1 DEF RootMoves, Writing
    <3>2. IsRootOf(e, t, c, k)'
      BY <1>2, <2>1, ChildStays DEF Bound, Alive, Writing, IsRootOf, RootMoves
    <3> QED
      BY <2>1, <3>1, <3>2 DEF Backed
  <2> QED
    BY <1>2, <2>1 DEF RootMoves, Backed
<1> QED
  BY <1>1, <1>2, RootsMove

(***************************************************************************)
(* The child is bound to the root of its execution.                        *)
(***************************************************************************)
LEMMA BindsItsRoot ==
  ASSUME NEW e \in Executions, TypeOK, ExecutionStep(e), Attached(e), ~Bound(e)
  PROVE  /\ Bound(e)' => pc'[e] \in ChildPlaces
         /\ Bound(e)' \/ pc'[e] \in Running => chosen'[e][comp'[e]] \in Indices
<1> USE DEF At, Goto, memory, files
<1>a. /\ pc \in [Executions -> Places] /\ DOMAIN life = Executions /\ DOMAIN comp = Executions
      /\ chosen \in [Executions -> [Components -> Indices \cup {NoRoot}]]
      /\ comp[e] \in Components
  BY DEF TypeOK
<1>b. pc[e] \in Running => chosen[e][comp[e]] \in Indices
  BY DEF Attached
<1>1. CASE ReturnPrevious(e)
  BY <1>1, <1>a, <1>b DEF ReturnPrevious, Bound, Alive, Writing, Running, ChildPlaces, Terminal
<1>2. CASE LoadSummary(e)
  BY <1>2, <1>a, <1>b DEF LoadSummary, Bound, Alive, Writing, Running, ChildPlaces, Terminal
<1>3. CASE WaitModels(e)
  BY <1>3, <1>a, <1>b DEF WaitModels, Bound, Alive, Writing, Running, ChildPlaces, Terminal
<1>4. CASE GiveUp(e)
  BY <1>4, <1>a, <1>b DEF GiveUp, Bound, Alive, Writing, Running, ChildPlaces, Terminal
<1>5. CASE ResetSummary(e)
  BY <1>5, <1>a, <1>b DEF ResetSummary, WriteSummary, Bound, Alive, Writing, Running, ChildPlaces, Terminal
<1>6. CASE ResetStatus(e)
  BY <1>6, <1>a, <1>b DEF ResetStatus, Bound, Alive, Writing, Running, ChildPlaces, Terminal
<1>7. CASE InstallHandlers(e)
  BY <1>7, <1>a, <1>b DEF InstallHandlers, Bound, Alive, Writing, Running, ChildPlaces, Terminal
<1>8. CASE FindRoots(e)
  BY <1>8, <1>a, <1>b DEF FindRoots, Bound, Alive, Writing, Running, ChildPlaces, Terminal
<1>9. CASE SkipComplete(e)
  BY <1>9, <1>a, <1>b DEF SkipComplete, NextComponent, Bound, Alive, Writing, Running, ChildPlaces, Terminal
<1>10. CASE Reserve(e)
  <2>1. ReserveRoot(Target(e), comp[e]) \in Indices
    BY <1>10, ReservedIsAbsent DEF Reserve
  <2>2. chosen'[e][comp[e]] = ReserveRoot(Target(e), comp[e]) /\ comp'[e] = comp[e] /\ ~Bound(e)'
    BY <1>10, <1>a DEF Reserve, Bound, Alive, Writing
  <2> QED
    BY <2>1, <2>2
<1>11. CASE RetriesExhausted(e)
  BY <1>11, <1>a, <1>b DEF RetriesExhausted, Bound, Alive, Writing, Running, ChildPlaces, Terminal
<1>12. CASE SpawnChild(e)
  BY <1>12, <1>a, <1>b DEF SpawnChild, Bound, Alive, Writing, Running, ChildPlaces, Terminal
<1>13. CASE RegisterChild(e)
  BY <1>13, <1>a, <1>b DEF RegisterChild, Bound, Alive, Writing, Running, ChildPlaces, Terminal
<1>14. CASE ChildSucceeds(e)
  BY <1>14, <1>a, <1>b DEF ChildSucceeds, NextComponent, Bound, Alive, Writing, Running, ChildPlaces, Terminal
<1>15. CASE ChildIsNoUse(e)
  BY <1>15, <1>a, <1>b DEF ChildIsNoUse, Bound, Alive, Writing, Running, ChildPlaces, Terminal
<1>16. CASE Record(e)
  BY <1>16, <1>a, <1>b DEF Record, WriteSummary, Bound, Alive, Writing, Running, ChildPlaces, Terminal
<1>17. CASE RecordNotEligible(e)
  BY <1>17, <1>a, <1>b DEF RecordNotEligible, Bound, Alive, Writing, Running, ChildPlaces, Terminal
<1>18. CASE FinishSummary(e)
  BY <1>18, <1>a, <1>b DEF FinishSummary, WriteSummary, Bound, Alive, Writing, Running, ChildPlaces, Terminal
<1>19. CASE FinishStatus(e)
  BY <1>19, <1>a, <1>b DEF FinishStatus, Bound, Alive, Writing, Running, ChildPlaces, Terminal
<1>20. CASE Return(e)
  BY <1>20, <1>a, <1>b DEF Return, Bound, Alive, Writing, Running, ChildPlaces, Terminal
<1>21. CASE StopChild(e)
  BY <1>21, <1>a, <1>b DEF StopChild, KillChild, Bound, Alive, Writing, Running, ChildPlaces, Terminal
<1>22. CASE WriteFailedSummary(e)
  BY <1>22, <1>a, <1>b DEF WriteFailedSummary, WriteSummary, Bound, Alive, Writing, Running, ChildPlaces, Terminal
<1>23. CASE WriteFailedStatus(e)
  BY <1>23, <1>a, <1>b DEF WriteFailedStatus, Bound, Alive, Writing, Running, ChildPlaces, Terminal
<1>24. CASE Cleanup(e)
  BY <1>24, <1>a, <1>b DEF Cleanup, KillChild, Bound, Alive, Writing, Running, ChildPlaces, Terminal
<1>25. CASE Launch(e)
  BY <1>25, <1>a, <1>b DEF Launch, Bound, Alive, Writing, Running, ChildPlaces, Terminal
<1>26. CASE ChildOpens(e)
  BY <1>26, <1>a, <1>b DEF ChildOpens, WriteRoot, Bound, Alive, Writing, Running, ChildPlaces, Terminal
<1>27. CASE ChildPublishes(e)
  BY <1>27, <1>a, <1>b DEF ChildPublishes, WriteRoot, Bound, Alive, Writing, Running, ChildPlaces, Terminal
<1>28. CASE ChildReturns(e)
  BY <1>28, <1>a, <1>b DEF ChildReturns, Bound, Alive, Writing, Running, ChildPlaces, Terminal
<1>29. CASE ChildFails(e)
  BY <1>29, <1>a, <1>b DEF ChildFails, WriteRoot, Bound, Alive, Writing, Running, ChildPlaces, Terminal
<1>30. CASE Signal(e)
  BY <1>30, <1>a, <1>b DEF Signal, Bound, Alive, Writing, Running, ChildPlaces, Terminal, Early, Body
<1>31. CASE Fail(e)
  BY <1>31, <1>a, <1>b DEF Fail, Bound, Alive, Writing, Running, ChildPlaces, Terminal
<1>32. CASE FailureIsNotWritten(e)
  BY <1>32, <1>a, <1>b DEF FailureIsNotWritten, Bound, Alive, Writing, Running, ChildPlaces, Terminal
<1>33. CASE Kill(e)
  BY <1>33, <1>a, <1>b DEF Kill, Bound, Alive, Writing, Running, ChildPlaces, Terminal
<1>q. QED
  BY <1>1, <1>2, <1>3, <1>4, <1>5, <1>6, <1>7, <1>8, <1>9, <1>10, <1>11,
     <1>12, <1>13, <1>14, <1>15, <1>16, <1>17, <1>18, <1>19, <1>20, <1>21,
     <1>22, <1>23, <1>24, <1>25, <1>26, <1>27, <1>28, <1>29, <1>30, <1>31,
     <1>32, <1>33
  DEF ExecutionStep, Step, Child, Disturb

LEMMA AttachedStays ==
  ASSUME NEW e \in Executions, TypeOK, ExecutionStep(e), NEW d \in Executions, Attached(d)
  PROVE  Attached(d)'
<1>1. CASE d # e
  <2>1. /\ pc'[d] = pc[d] /\ comp'[d] = comp[d] /\ chosen'[d] = chosen[d] /\ life'[d] = life[d]
    BY <1>1, OthersStay
  <2> QED
    BY <2>1 DEF Attached, Bound, Alive, Writing
<1>2. CASE d = e /\ Bound(e)
  <2>1. pc'[e] \in ChildPlaces /\ comp'[e] = comp[e] /\ chosen'[e] = chosen[e]
    BY <1>2, ChildStays
  <2> QED
    BY <1>2, <2>1 DEF Attached
<1>3. CASE d = e /\ ~Bound(e)
  BY <1>3, BindsItsRoot DEF Attached
<1> QED
  BY <1>1, <1>2, <1>3

(***************************************************************************)
(* What was chosen has evidence.                                           *)
(***************************************************************************)
\* Which roots are needed when.
LEMMA ChoiceIsMade ==
  ASSUME NEW e \in Executions, TypeOK, ExecutionStep(e), Attached(e), Settled(e), NEW c \in Components
  PROVE  /\ pc'[e] \in Evaluating /\ comp'[e] = "blink" /\ c = "resident" => chosen'[e][c] \in Indices
         /\ pc'[e] = "record" => chosen'[e][c] \in Indices
<1> USE DEF At, Goto, memory, files
<1>a. /\ pc \in [Executions -> Places] /\ DOMAIN life = Executions /\ comp \in [Executions -> Components]
      /\ chosen \in [Executions -> [Components -> Indices \cup {NoRoot}]]
  BY DEF TypeOK
<1>b. /\ pc[e] \in Running => chosen[e][comp[e]] \in Indices
      /\ pc[e] \in Evaluating /\ comp[e] = "blink" => chosen[e]["resident"] \in Indices
      /\ pc[e] = "record" => chosen[e][c] \in Indices
  BY DEF Attached, Settled, Components
<1>1. CASE ReturnPrevious(e)
  BY <1>1, <1>a, <1>b DEF ReturnPrevious, Evaluating, Running, Components
<1>2. CASE LoadSummary(e)
  BY <1>2, <1>a, <1>b DEF LoadSummary, Evaluating, Running, Components
<1>3. CASE WaitModels(e)
  BY <1>3, <1>a, <1>b DEF WaitModels, Evaluating, Running, Components
<1>4. CASE GiveUp(e)
  BY <1>4, <1>a, <1>b DEF GiveUp, Evaluating, Running, Components
<1>5. CASE ResetSummary(e)
  BY <1>5, <1>a, <1>b DEF ResetSummary, WriteSummary, Evaluating, Running, Components
<1>6. CASE ResetStatus(e)
  BY <1>6, <1>a, <1>b DEF ResetStatus, Evaluating, Running, Components
<1>7. CASE InstallHandlers(e)
  BY <1>7, <1>a, <1>b DEF InstallHandlers, Evaluating, Running, Components
<1>8. CASE FindRoots(e)
  BY <1>8, <1>a, <1>b DEF FindRoots, Evaluating, Running, Components
<1>9. CASE SkipComplete(e)
  BY <1>9, <1>a, <1>b DEF SkipComplete, NextComponent, Evaluating, Running, Components
<1>10. CASE Reserve(e)
  BY <1>10, <1>a, <1>b DEF Reserve, WriteSummary, Evaluating, Running, Components
<1>11. CASE RetriesExhausted(e)
  BY <1>11, <1>a, <1>b DEF RetriesExhausted, Evaluating, Running, Components
<1>12. CASE SpawnChild(e)
  BY <1>12, <1>a, <1>b DEF SpawnChild, Evaluating, Running, Components
<1>13. CASE RegisterChild(e)
  BY <1>13, <1>a, <1>b DEF RegisterChild, Evaluating, Running, Components
<1>14. CASE ChildSucceeds(e)
  BY <1>14, <1>a, <1>b DEF ChildSucceeds, NextComponent, Evaluating, Running, Components
<1>15. CASE ChildIsNoUse(e)
  BY <1>15, <1>a, <1>b DEF ChildIsNoUse, Evaluating, Running, Components
<1>16. CASE Record(e)
  BY <1>16, <1>a, <1>b DEF Record, WriteSummary, Evaluating, Running, Components
<1>17. CASE RecordNotEligible(e)
  BY <1>17, <1>a, <1>b DEF RecordNotEligible, Evaluating, Running, Components
<1>18. CASE FinishSummary(e)
  BY <1>18, <1>a, <1>b DEF FinishSummary, WriteSummary, Evaluating, Running, Components
<1>19. CASE FinishStatus(e)
  BY <1>19, <1>a, <1>b DEF FinishStatus, Evaluating, Running, Components
<1>20. CASE Return(e)
  BY <1>20, <1>a, <1>b DEF Return, Evaluating, Running, Components
<1>21. CASE StopChild(e)
  BY <1>21, <1>a, <1>b DEF StopChild, KillChild, Evaluating, Running, Components
<1>22. CASE WriteFailedSummary(e)
  BY <1>22, <1>a, <1>b DEF WriteFailedSummary, WriteSummary, Evaluating, Running, Components
<1>23. CASE WriteFailedStatus(e)
  BY <1>23, <1>a, <1>b DEF WriteFailedStatus, Evaluating, Running, Components
<1>24. CASE Cleanup(e)
  BY <1>24, <1>a, <1>b DEF Cleanup, KillChild, Evaluating, Running, Components
<1>25. CASE Launch(e)
  BY <1>25, <1>a, <1>b DEF Launch, Evaluating, Running, Components
<1>26. CASE ChildOpens(e)
  BY <1>26, <1>a, <1>b DEF ChildOpens, WriteRoot, Evaluating, Running, Components
<1>27. CASE ChildPublishes(e)
  BY <1>27, <1>a, <1>b DEF ChildPublishes, WriteRoot, Evaluating, Running, Components
<1>28. CASE ChildReturns(e)
  BY <1>28, <1>a, <1>b DEF ChildReturns, Evaluating, Running, Components
<1>29. CASE ChildFails(e)
  BY <1>29, <1>a, <1>b DEF ChildFails, WriteRoot, Evaluating, Running, Components
<1>30. CASE Signal(e)
  BY <1>30, <1>a, <1>b DEF Signal, Evaluating, Running, Components, Early, Body
<1>31. CASE Fail(e)
  BY <1>31, <1>a, <1>b DEF Fail, Evaluating, Running, Components
<1>32. CASE FailureIsNotWritten(e)
  BY <1>32, <1>a, <1>b DEF FailureIsNotWritten, Evaluating, Running, Components
<1>33. CASE Kill(e)
  BY <1>33, <1>a, <1>b DEF Kill, Evaluating, Running, Components
<1>q. QED
  BY <1>1, <1>2, <1>3, <1>4, <1>5, <1>6, <1>7, <1>8, <1>9, <1>10, <1>11,
     <1>12, <1>13, <1>14, <1>15, <1>16, <1>17, <1>18, <1>19, <1>20, <1>21,
     <1>22, <1>23, <1>24, <1>25, <1>26, <1>27, <1>28, <1>29, <1>30, <1>31,
     <1>32, <1>33
  DEF ExecutionStep, Step, Child, Disturb

\* How an execution comes to be at a component or at its record: it was at
\* one before, and the root of the component it leaves has evidence.
LEMMA Advances ==
  ASSUME NEW e \in Executions, TypeOK, ExecutionStep(e), ~FindRoots(e), NEW c \in Components,
         pc'[e] \in Evaluating \cup {"record"},
         chosen'[e][c] \in Indices,
         ~(c = comp'[e] /\ pc'[e] \in Running)
  PROVE  /\ pc[e] \in Evaluating \cup {"record"}
         /\ place'[e] = place[e] /\ chosen'[e][c] = chosen[e][c]
         /\ \/ ~(c = comp[e] /\ pc[e] \in Running)
            \/ Evidence(e, c) /\ UNCHANGED roots
<1> USE DEF At, Goto, memory, files
<1>a. /\ pc \in [Executions -> Places] /\ DOMAIN life = Executions /\ comp \in [Executions -> Components]
      /\ chosen \in [Executions -> [Components -> Indices \cup {NoRoot}]]
      /\ DOMAIN place = Executions
  BY DEF TypeOK
<1>1. CASE ReturnPrevious(e)
  BY <1>1, <1>a DEF ReturnPrevious, Evaluating, Running, Components
<1>2. CASE LoadSummary(e)
  BY <1>2, <1>a DEF LoadSummary, Evaluating, Running, Components
<1>3. CASE WaitModels(e)
  BY <1>3, <1>a DEF WaitModels, Evaluating, Running, Components
<1>4. CASE GiveUp(e)
  BY <1>4, <1>a DEF GiveUp, Evaluating, Running, Components
<1>5. CASE ResetSummary(e)
  BY <1>5, <1>a DEF ResetSummary, WriteSummary, Evaluating, Running, Components
<1>6. CASE ResetStatus(e)
  BY <1>6, <1>a DEF ResetStatus, Evaluating, Running, Components
<1>7. CASE InstallHandlers(e)
  BY <1>7, <1>a DEF InstallHandlers, Evaluating, Running, Components
<1>8. CASE FindRoots(e)
  BY <1>8
<1>9. CASE SkipComplete(e)
  BY <1>9, <1>a DEF SkipComplete, NextComponent, Evaluating, Running, Components
<1>10. CASE Reserve(e)
  BY <1>10, <1>a DEF Reserve, WriteSummary, Evaluating, Running, Components
<1>11. CASE RetriesExhausted(e)
  BY <1>11, <1>a DEF RetriesExhausted, Evaluating, Running, Components
<1>12. CASE SpawnChild(e)
  BY <1>12, <1>a DEF SpawnChild, Evaluating, Running, Components
<1>13. CASE RegisterChild(e)
  BY <1>13, <1>a DEF RegisterChild, Evaluating, Running, Components
<1>14. CASE ChildSucceeds(e)
  BY <1>14, <1>a DEF ChildSucceeds, NextComponent, Evaluating, Running, Components
<1>15. CASE ChildIsNoUse(e)
  BY <1>15, <1>a DEF ChildIsNoUse, Evaluating, Running, Components
<1>16. CASE Record(e)
  BY <1>16, <1>a DEF Record, WriteSummary, Evaluating, Running, Components
<1>17. CASE RecordNotEligible(e)
  BY <1>17, <1>a DEF RecordNotEligible, Evaluating, Running, Components
<1>18. CASE FinishSummary(e)
  BY <1>18, <1>a DEF FinishSummary, WriteSummary, Evaluating, Running, Components
<1>19. CASE FinishStatus(e)
  BY <1>19, <1>a DEF FinishStatus, Evaluating, Running, Components
<1>20. CASE Return(e)
  BY <1>20, <1>a DEF Return, Evaluating, Running, Components
<1>21. CASE StopChild(e)
  BY <1>21, <1>a DEF StopChild, KillChild, Evaluating, Running, Components
<1>22. CASE WriteFailedSummary(e)
  BY <1>22, <1>a DEF WriteFailedSummary, WriteSummary, Evaluating, Running, Components
<1>23. CASE WriteFailedStatus(e)
  BY <1>23, <1>a DEF WriteFailedStatus, Evaluating, Running, Components
<1>24. CASE Cleanup(e)
  BY <1>24, <1>a DEF Cleanup, KillChild, Evaluating, Running, Components
<1>25. CASE Launch(e)
  BY <1>25, <1>a DEF Launch, Evaluating, Running, Components
<1>26. CASE ChildOpens(e)
  BY <1>26, <1>a DEF ChildOpens, WriteRoot, Evaluating, Running, Components
<1>27. CASE ChildPublishes(e)
  BY <1>27, <1>a DEF ChildPublishes, WriteRoot, Evaluating, Running, Components
<1>28. CASE ChildReturns(e)
  BY <1>28, <1>a DEF ChildReturns, Evaluating, Running, Components
<1>29. CASE ChildFails(e)
  BY <1>29, <1>a DEF ChildFails, WriteRoot, Evaluating, Running, Components
<1>30. CASE Signal(e)
  BY <1>30, <1>a DEF Signal, Evaluating, Running, Components, Early, Body
<1>31. CASE Fail(e)
  BY <1>31, <1>a DEF Fail, Evaluating, Running, Components
<1>32. CASE FailureIsNotWritten(e)
  BY <1>32, <1>a DEF FailureIsNotWritten, Evaluating, Running, Components
<1>33. CASE Kill(e)
  BY <1>33, <1>a DEF Kill, Evaluating, Running, Components
<1>q. QED
  BY <1>1, <1>2, <1>3, <1>4, <1>5, <1>6, <1>7, <1>8, <1>9, <1>10, <1>11,
     <1>12, <1>13, <1>14, <1>15, <1>16, <1>17, <1>18, <1>19, <1>20, <1>21,
     <1>22, <1>23, <1>24, <1>25, <1>26, <1>27, <1>28, <1>29, <1>30, <1>31,
     <1>32, <1>33
  DEF ExecutionStep, Step, Child, Disturb

LEMMA FoundIsBacked ==
  ASSUME NEW e \in Executions, TypeOK, FindRoots(e), NEW c \in Components,
         chosen'[e][c] \in Indices
  PROVE  Backed(Others(e), Target(e), c, chosen[e][c])'
<1> DEFINE k == FindCompleteRoot(Target(e), c)
<1>1. chosen'[e][c] = k /\ place' = place /\ roots' = roots
  BY DEF FindRoots, TypeOK
<1>2. k \in Indices
  BY <1>1
<1> HIDE DEF k
<1>3. roots[Target(e)][c][k] = "complete"
  BY <1>2, TargetIsTarget, FoundIsComplete, IndicesAreNumbers DEF k
<1>4. Target(e)' = Target(e)
  BY <1>1 DEF Target
<1> QED
  BY <1>1, <1>3, <1>4 DEF Backed

LEMMA SettledStays ==
  ASSUME NEW e \in Executions, TypeOK, ExecutionStep(e), \A d \in Executions : Attached(d),
         NEW d \in Executions, Settled(d)
  PROVE  Settled(d)'
<1> SUFFICES ASSUME NEW c \in Components
    PROVE  /\ pc'[d] \in Evaluating /\ comp'[d] = "blink" /\ c = "resident" => chosen'[d][c] \in Indices
           /\ pc'[d] = "record" => chosen'[d][c] \in Indices
           /\ /\ pc'[d] \in Evaluating \cup {"record"} /\ chosen'[d][c] \in Indices
              /\ ~(c = comp'[d] /\ pc'[d] \in Running)
              => Backed(Others(d), Target(d), c, chosen[d][c])'
  BY DEF Settled, At
<1>1. /\ pc'[d] \in Evaluating /\ comp'[d] = "blink" /\ c = "resident" => chosen'[d][c] \in Indices
      /\ pc'[d] = "record" => chosen'[d][c] \in Indices
  <2>1. CASE d # e
    BY <2>1, OthersStay DEF Settled, At
  <2>2. CASE d = e
    BY <2>2, ChoiceIsMade
  <2> QED
    BY <2>1, <2>2
<1>2. ASSUME pc'[d] \in Evaluating \cup {"record"}, chosen'[d][c] \in Indices,
             ~(c = comp'[d] /\ pc'[d] \in Running), ~(d = e /\ FindRoots(e))
      PROVE  Backed(Others(d), Target(d), c, chosen[d][c])'
  <2>1. /\ pc[d] \in Evaluating \cup {"record"} /\ place'[d] = place[d] /\ chosen'[d][c] = chosen[d][c]
        /\ \/ ~(c = comp[d] /\ pc[d] \in Running)
           \/ Evidence(d, c) /\ UNCHANGED roots
    <3>1. CASE d # e
      BY <1>2, <3>1, OthersStay
    <3>2. CASE d = e
      BY <1>2, <3>2, Advances
    <3> QED
      BY <3>1, <3>2
  <2>2. PICK t \in Targets, k \in Indices : t = Target(d) /\ k = chosen[d][c]
    BY <1>2, <2>1, TargetIsTarget
  <2>3. Target(d)' = t /\ chosen'[d][c] = k
    BY <2>1, <2>2 DEF Target
  <2>4. CASE ~(c = comp[d] /\ pc[d] \in Running)
    <3>1. Backed(Others(d), t, c, k)
      BY <1>2, <2>1, <2>2, <2>4 DEF Settled, At
    <3>2. ~(d = e /\ Writing(e) /\ c = comp[e])
      BY <2>1, <2>4 DEF Attached, Bound, Alive, Evaluating, Running, ChildPlaces, Terminal
    <3>3. Others(d) \in SUBSET Executions /\ (d # e => e \in Others(d))
      BY DEF Others
    <3>4. Backed(Others(d), t, c, k)'
      <4> DEFINE X == Others(d)
      <4>1. X \in SUBSET Executions /\ (e \in X \/ ~(Writing(e) /\ t = Target(e) /\ c = comp[e] /\ k = chosen[e][c]))
        BY <3>2, <3>3
      <4>2. Backed(X, t, c, k)
        BY <3>1
      <4> HIDE DEF X
      <4>3. Backed(X, t, c, k)'
        BY <4>1, <4>2, BackedStays
      <4> QED
        BY <4>3 DEF X, Others
    <3> QED
      BY <2>3, <3>4 DEF Backed
  <2>5. CASE Evidence(d, c) /\ UNCHANGED roots
    BY <2>2, <2>3, <2>5 DEF Evidence, Backed
  <2> QED
    BY <2>1, <2>4, <2>5
<1>3. ASSUME chosen'[d][c] \in Indices, d = e, FindRoots(e)
      PROVE  Backed(Others(d), Target(d), c, chosen[d][c])'
  BY <1>3, FoundIsBacked
<1> QED
  BY <1>1, <1>2, <1>3

(***************************************************************************)
(* What was recorded has evidence.                                         *)
(***************************************************************************)
\* Where the rows in memory come from.
LEMMA RowsChange ==
  ASSUME NEW e \in Executions, TypeOK, ExecutionStep(e)
  PROVE  \/ rows'[e] = rows[e]
         \/ ReturnPrevious(e) /\ rows'[e] = summary.targets
         \/ Record(e) /\ rows'[e] = Append(rows[e], [target |-> Target(e), root |-> chosen[e]])
<1> USE DEF At, Goto, memory, files
<1>a. DOMAIN rows = Executions
  BY DEF TypeOK
<1>1. CASE ReturnPrevious(e)
  BY <1>1, <1>a DEF ReturnPrevious
<1>2. CASE LoadSummary(e)
  BY <1>2, <1>a DEF LoadSummary
<1>3. CASE WaitModels(e)
  BY <1>3, <1>a DEF WaitModels
<1>4. CASE GiveUp(e)
  BY <1>4, <1>a DEF GiveUp
<1>5. CASE ResetSummary(e)
  BY <1>5, <1>a DEF ResetSummary, WriteSummary
<1>6. CASE ResetStatus(e)
  BY <1>6, <1>a DEF ResetStatus
<1>7. CASE InstallHandlers(e)
  BY <1>7, <1>a DEF InstallHandlers
<1>8. CASE FindRoots(e)
  BY <1>8, <1>a DEF FindRoots
<1>9. CASE SkipComplete(e)
  BY <1>9, <1>a DEF SkipComplete, NextComponent
<1>10. CASE Reserve(e)
  BY <1>10, <1>a DEF Reserve, WriteSummary
<1>11. CASE RetriesExhausted(e)
  BY <1>11, <1>a DEF RetriesExhausted
<1>12. CASE SpawnChild(e)
  BY <1>12, <1>a DEF SpawnChild
<1>13. CASE RegisterChild(e)
  BY <1>13, <1>a DEF RegisterChild
<1>14. CASE ChildSucceeds(e)
  BY <1>14, <1>a DEF ChildSucceeds, NextComponent
<1>15. CASE ChildIsNoUse(e)
  BY <1>15, <1>a DEF ChildIsNoUse
<1>16. CASE Record(e)
  BY <1>16, <1>a DEF Record, WriteSummary
<1>17. CASE RecordNotEligible(e)
  BY <1>17, <1>a DEF RecordNotEligible
<1>18. CASE FinishSummary(e)
  BY <1>18, <1>a DEF FinishSummary, WriteSummary
<1>19. CASE FinishStatus(e)
  BY <1>19, <1>a DEF FinishStatus
<1>20. CASE Return(e)
  BY <1>20, <1>a DEF Return
<1>21. CASE StopChild(e)
  BY <1>21, <1>a DEF StopChild, KillChild
<1>22. CASE WriteFailedSummary(e)
  BY <1>22, <1>a DEF WriteFailedSummary, WriteSummary
<1>23. CASE WriteFailedStatus(e)
  BY <1>23, <1>a DEF WriteFailedStatus
<1>24. CASE Cleanup(e)
  BY <1>24, <1>a DEF Cleanup, KillChild
<1>25. CASE Launch(e)
  BY <1>25, <1>a DEF Launch
<1>26. CASE ChildOpens(e)
  BY <1>26, <1>a DEF ChildOpens, WriteRoot
<1>27. CASE ChildPublishes(e)
  BY <1>27, <1>a DEF ChildPublishes, WriteRoot
<1>28. CASE ChildReturns(e)
  BY <1>28, <1>a DEF ChildReturns
<1>29. CASE ChildFails(e)
  BY <1>29, <1>a DEF ChildFails, WriteRoot
<1>30. CASE Signal(e)
  BY <1>30, <1>a DEF Signal
<1>31. CASE Fail(e)
  BY <1>31, <1>a DEF Fail
<1>32. CASE FailureIsNotWritten(e)
  BY <1>32, <1>a DEF FailureIsNotWritten
<1>33. CASE Kill(e)
  BY <1>33, <1>a DEF Kill
<1>q. QED
  BY <1>1, <1>2, <1>3, <1>4, <1>5, <1>6, <1>7, <1>8, <1>9, <1>10, <1>11,
     <1>12, <1>13, <1>14, <1>15, <1>16, <1>17, <1>18, <1>19, <1>20, <1>21,
     <1>22, <1>23, <1>24, <1>25, <1>26, <1>27, <1>28, <1>29, <1>30, <1>31,
     <1>32, <1>33
  DEF ExecutionStep, Step, Child, Disturb

\* Where those of the summary come from.
LEMMA SummaryChanges ==
  ASSUME NEW e \in Executions, TypeOK, ExecutionStep(e)
  PROVE  summary'.targets \in {summary.targets, rows'[e], << >>}
<1> USE DEF At, Goto, memory, files
<1>1. CASE ReturnPrevious(e)
  BY <1>1 DEF ReturnPrevious
<1>2. CASE LoadSummary(e)
  BY <1>2 DEF LoadSummary
<1>3. CASE WaitModels(e)
  BY <1>3 DEF WaitModels
<1>4. CASE GiveUp(e)
  BY <1>4 DEF GiveUp
<1>5. CASE ResetSummary(e)
  BY <1>5 DEF ResetSummary, WriteSummary
<1>6. CASE ResetStatus(e)
  BY <1>6 DEF ResetStatus
<1>7. CASE InstallHandlers(e)
  BY <1>7 DEF InstallHandlers
<1>8. CASE FindRoots(e)
  BY <1>8 DEF FindRoots
<1>9. CASE SkipComplete(e)
  BY <1>9 DEF SkipComplete, NextComponent
<1>10. CASE Reserve(e)
  BY <1>10 DEF Reserve, WriteSummary
<1>11. CASE RetriesExhausted(e)
  BY <1>11 DEF RetriesExhausted
<1>12. CASE SpawnChild(e)
  BY <1>12 DEF SpawnChild
<1>13. CASE RegisterChild(e)
  BY <1>13 DEF RegisterChild
<1>14. CASE ChildSucceeds(e)
  BY <1>14 DEF ChildSucceeds, NextComponent
<1>15. CASE ChildIsNoUse(e)
  BY <1>15 DEF ChildIsNoUse
<1>16. CASE Record(e)
  BY <1>16 DEF Record, WriteSummary
<1>17. CASE RecordNotEligible(e)
  BY <1>17 DEF RecordNotEligible
<1>18. CASE FinishSummary(e)
  BY <1>18 DEF FinishSummary, WriteSummary
<1>19. CASE FinishStatus(e)
  BY <1>19 DEF FinishStatus
<1>20. CASE Return(e)
  BY <1>20 DEF Return
<1>21. CASE StopChild(e)
  BY <1>21 DEF StopChild, KillChild
<1>22. CASE WriteFailedSummary(e)
  BY <1>22 DEF WriteFailedSummary, WriteSummary
<1>23. CASE WriteFailedStatus(e)
  BY <1>23 DEF WriteFailedStatus
<1>24. CASE Cleanup(e)
  BY <1>24 DEF Cleanup, KillChild
<1>25. CASE Launch(e)
  BY <1>25 DEF Launch
<1>26. CASE ChildOpens(e)
  BY <1>26 DEF ChildOpens, WriteRoot
<1>27. CASE ChildPublishes(e)
  BY <1>27 DEF ChildPublishes, WriteRoot
<1>28. CASE ChildReturns(e)
  BY <1>28 DEF ChildReturns
<1>29. CASE ChildFails(e)
  BY <1>29 DEF ChildFails, WriteRoot
<1>30. CASE Signal(e)
  BY <1>30 DEF Signal
<1>31. CASE Fail(e)
  BY <1>31 DEF Fail
<1>32. CASE FailureIsNotWritten(e)
  BY <1>32 DEF FailureIsNotWritten
<1>33. CASE Kill(e)
  BY <1>33 DEF Kill
<1>q. QED
  BY <1>1, <1>2, <1>3, <1>4, <1>5, <1>6, <1>7, <1>8, <1>9, <1>10, <1>11,
     <1>12, <1>13, <1>14, <1>15, <1>16, <1>17, <1>18, <1>19, <1>20, <1>21,
     <1>22, <1>23, <1>24, <1>25, <1>26, <1>27, <1>28, <1>29, <1>30, <1>31,
     <1>32, <1>33
  DEF ExecutionStep, Step, Child, Disturb

\* A child opens a root that does not exist.
LEMMA OpensAbsentRoot ==
  ASSUME NEW e \in Executions, TypeOK, ExecutionStep(e), ~Writing(e), Writing(e)'
  PROVE  life[e] = "fresh" /\ roots[Target(e)][comp[e]][chosen[e][comp[e]]] = "absent"
<1> USE DEF At, Goto, memory, files, Writing
<1>a. DOMAIN life = Executions
  BY DEF TypeOK
<1>1. CASE ReturnPrevious(e)
  BY <1>1, <1>a DEF ReturnPrevious
<1>2. CASE LoadSummary(e)
  BY <1>2, <1>a DEF LoadSummary
<1>3. CASE WaitModels(e)
  BY <1>3, <1>a DEF WaitModels
<1>4. CASE GiveUp(e)
  BY <1>4, <1>a DEF GiveUp
<1>5. CASE ResetSummary(e)
  BY <1>5, <1>a DEF ResetSummary, WriteSummary
<1>6. CASE ResetStatus(e)
  BY <1>6, <1>a DEF ResetStatus
<1>7. CASE InstallHandlers(e)
  BY <1>7, <1>a DEF InstallHandlers
<1>8. CASE FindRoots(e)
  BY <1>8, <1>a DEF FindRoots
<1>9. CASE SkipComplete(e)
  BY <1>9, <1>a DEF SkipComplete, NextComponent
<1>10. CASE Reserve(e)
  BY <1>10, <1>a DEF Reserve, WriteSummary
<1>11. CASE RetriesExhausted(e)
  BY <1>11, <1>a DEF RetriesExhausted
<1>12. CASE SpawnChild(e)
  BY <1>12, <1>a DEF SpawnChild
<1>13. CASE RegisterChild(e)
  BY <1>13, <1>a DEF RegisterChild
<1>14. CASE ChildSucceeds(e)
  BY <1>14, <1>a DEF ChildSucceeds, NextComponent
<1>15. CASE ChildIsNoUse(e)
  BY <1>15, <1>a DEF ChildIsNoUse
<1>16. CASE Record(e)
  BY <1>16, <1>a DEF Record, WriteSummary
<1>17. CASE RecordNotEligible(e)
  BY <1>17, <1>a DEF RecordNotEligible
<1>18. CASE FinishSummary(e)
  BY <1>18, <1>a DEF FinishSummary, WriteSummary
<1>19. CASE FinishStatus(e)
  BY <1>19, <1>a DEF FinishStatus
<1>20. CASE Return(e)
  BY <1>20, <1>a DEF Return
<1>21. CASE StopChild(e)
  BY <1>21, <1>a DEF StopChild, KillChild, Alive
<1>22. CASE WriteFailedSummary(e)
  BY <1>22, <1>a DEF WriteFailedSummary, WriteSummary
<1>23. CASE WriteFailedStatus(e)
  BY <1>23, <1>a DEF WriteFailedStatus
<1>24. CASE Cleanup(e)
  BY <1>24, <1>a DEF Cleanup, KillChild, Alive
<1>25. CASE Launch(e)
  BY <1>25, <1>a DEF Launch
<1>26. CASE ChildOpens(e)
  BY <1>26, <1>a DEF ChildOpens, WriteRoot
<1>27. CASE ChildPublishes(e)
  BY <1>27, <1>a DEF ChildPublishes, WriteRoot
<1>28. CASE ChildReturns(e)
  BY <1>28, <1>a DEF ChildReturns
<1>29. CASE ChildFails(e)
  BY <1>29, <1>a DEF ChildFails, WriteRoot
<1>30. CASE Signal(e)
  BY <1>30, <1>a DEF Signal
<1>31. CASE Fail(e)
  BY <1>31, <1>a DEF Fail
<1>32. CASE FailureIsNotWritten(e)
  BY <1>32, <1>a DEF FailureIsNotWritten
<1>33. CASE Kill(e)
  BY <1>33, <1>a DEF Kill
<1>q. QED
  BY <1>1, <1>2, <1>3, <1>4, <1>5, <1>6, <1>7, <1>8, <1>9, <1>10, <1>11,
     <1>12, <1>13, <1>14, <1>15, <1>16, <1>17, <1>18, <1>19, <1>20, <1>21,
     <1>22, <1>23, <1>24, <1>25, <1>26, <1>27, <1>28, <1>29, <1>30, <1>31,
     <1>32, <1>33
  DEF ExecutionStep, Step, Child, Disturb

LEMMA RowTypes ==
  ASSUME TypeOK
  PROVE  /\ \A e \in Executions : \A n \in DOMAIN rows[e] :
                rows[e][n].target \in Targets /\ \A c \in Components : rows[e][n].root[c] \in Indices
         /\ \A n \in DOMAIN summary.targets :
                summary.targets[n].target \in Targets /\ \A c \in Components : summary.targets[n].root[c] \in Indices
<1>1. ASSUME NEW s \in Seq(Row), NEW n \in DOMAIN s
      PROVE  s[n].target \in Targets /\ \A c \in Components : s[n].root[c] \in Indices
  <2>1. s[n] \in Row
    BY <1>1
  <2> QED
    BY <2>1 DEF Row
<1>2. \A e \in Executions : rows[e] \in Seq(Row)
  BY DEF TypeOK, Row
<1>3. summary.targets \in Seq(Row)
  BY DEF TypeOK, Row
<1> QED
  BY <1>1, <1>2, <1>3

LEMMA OwnRootStaysNew ==
  ASSUME NEW e \in Executions, TypeOK, ExecutionStep(e), RowsBacked,
         NEW d \in Executions, Attached(d), OwnRootIsNew(d)
  PROVE  OwnRootIsNew(d)'
<1>1. CASE d # e
  <2>1. /\ Target(d)' = Target(d) /\ comp'[d] = comp[d] /\ chosen'[d] = chosen[d]
        /\ rows'[d] = rows[d] /\ life'[d] = life[d]
    BY <1>1, OthersStay DEF Target
  <2> QED
    BY <2>1 DEF OwnRootIsNew, Writing
<1>2. CASE d = e /\ Writing(e)
  <2>1. /\ Target(d)' = Target(d) /\ comp'[d] = comp[d] /\ chosen'[d] = chosen[d]
        /\ rows'[d] = rows[d]
    BY <1>2, ChildStays DEF Bound, Alive
  <2> QED
    BY <1>2, <2>1 DEF OwnRootIsNew
<1>3. CASE d = e /\ ~Writing(e)
  <2>1. SUFFICES ASSUME Writing(e)', NEW n \in DOMAIN rows'[e], rows'[e][n].target = Target(e)',
                        rows'[e][n].root[comp'[e]] = chosen'[e][comp'[e]]
                 PROVE  FALSE
    BY <1>3 DEF OwnRootIsNew
  <2>2. life[e] = "fresh" /\ roots[Target(e)][comp[e]][chosen[e][comp[e]]] = "absent"
    BY <1>3, <2>1, OpensAbsentRoot
  <2>3. /\ Target(e)' = Target(e) /\ comp'[e] = comp[e] /\ chosen'[e] = chosen[e]
        /\ rows'[e] = rows[e]
    BY <1>3, <2>2, ChildStays DEF Bound, Alive
  <2>4. Backed(Others(e), Target(e), comp[e], chosen[e][comp[e]])
    BY <2>1, <2>3 DEF RowsBacked, TypeOK
  <2> QED
    BY <2>2, <2>4 DEF Backed
<1> QED
  BY <1>1, <1>2, <1>3

LEMMA RowsStayBacked ==
  ASSUME NEW e \in Executions, IInv, ExecutionStep(e), NEW d \in Executions,
         NEW n \in DOMAIN rows'[d], NEW c \in Components
  PROVE  Backed(Others(d), rows[d][n].target, c, rows[d][n].root[c])'
<1>a. /\ TypeOK /\ RowsBacked
      /\ \A f \in Executions : Attached(f) /\ Settled(f) /\ OwnRootIsNew(f)
  BY DEF IInv
<1>1. CASE rows'[d] = rows[d]
  <2>1. PICK t \in Targets, k \in Indices : t = rows[d][n].target /\ k = rows[d][n].root[c]
    BY <1>a, <1>1, RowTypes
  <2>2. Backed(Others(d), t, c, k)
    BY <1>a, <1>1, <2>1 DEF RowsBacked
  <2> DEFINE X == Others(d)
  <2>3. X \in SUBSET Executions /\ (d # e => e \in X)
    BY DEF Others
  <2>4. e \in X \/ ~(Writing(e) /\ t = Target(e) /\ c = comp[e] /\ k = chosen[e][c])
    BY <1>a, <1>1, <2>1, <2>3 DEF OwnRootIsNew
  <2>5. Backed(X, t, c, k)
    BY <2>2
  <2> HIDE DEF X
  <2>6. Backed(X, t, c, k)'
    BY <1>a, <2>3, <2>4, <2>5, BackedStays
  <2> QED
    BY <1>1, <2>1, <2>6 DEF X, Others, Backed
<1>2. CASE d = e /\ ReturnPrevious(e) /\ rows'[e] = summary.targets
  <2>1. PICK t \in Targets, k \in Indices : t = summary.targets[n].target /\ k = summary.targets[n].root[c]
    BY <1>a, <1>2, RowTypes
  <2>2. Backed(Executions, t, c, k)
    BY <1>a, <1>2, <2>1 DEF RowsBacked
  <2>3. roots' = roots /\ life' = life
    BY <1>2 DEF ReturnPrevious
  <2>4. ASSUME NEW f \in Executions, IsRootOf(f, t, c, k), life[f] = "nonzero"
        PROVE  f \in Others(d) /\ IsRootOf(f, t, c, k)'
    <3>1. f # e
      BY <1>a, <1>2, <2>4 DEF Attached, Bound, ReturnPrevious, At, ChildPlaces, Terminal
    <3> QED
      BY <1>a, <1>2, <2>4, <3>1, ChildStays DEF Others, IsRootOf, Bound
  <2> QED
    BY <1>2, <2>1, <2>2, <2>3, <2>4 DEF Backed
<1>3. CASE d = e /\ Record(e) /\ rows'[e] = Append(rows[e], [target |-> Target(e), root |-> chosen[e]])
  <2>1. At(e, "record") /\ ~Writing(e) /\ life' = life /\ roots' = roots
    BY <1>a, <1>3 DEF Record, At, Attached, Bound, Alive, ChildPlaces, Terminal
  <2>2. PICK t \in Targets, k \in Indices :
            /\ t = rows'[d][n].target /\ k = rows'[d][n].root[c]
            /\ Backed(Others(d), t, c, k)
    <3>1. rows[e] \in Seq(Row)
      BY <1>a DEF TypeOK, Row
    <3>2. CASE n \in DOMAIN rows[e]
      <4>1. rows'[d][n] = rows[e][n]
        BY <1>3, <3>1, <3>2
      <4> QED
        BY <1>3, <1>a, <3>2, <4>1, RowTypes DEF RowsBacked
    <3>3. CASE n \notin DOMAIN rows[e]
      <4>1. rows'[d][n] = [target |-> Target(e), root |-> chosen[e]]
        BY <1>3, <3>1, <3>3
      <4>2. chosen[e][c] \in Indices /\ Backed(Others(e), Target(e), c, chosen[e][c])
        BY <1>a, <2>1 DEF Settled, Running, At
      <4> QED
        BY <1>3, <1>a, <4>1, <4>2, TargetIsTarget
    <3> QED
      BY <3>2, <3>3
  <2> DEFINE X == Others(d)
  <2>3. X \in SUBSET Executions /\ Backed(X, t, c, k)
    BY <2>2 DEF Others
  <2> HIDE DEF X
  <2>4. Backed(X, t, c, k)'
    BY <1>a, <2>1, <2>3, BackedStays
  <2> QED
    BY <2>2, <2>4 DEF X, Others, Backed
<1> QED
  <2>1. d # e => rows'[d] = rows[d]
    BY <1>a, OthersStay
  <2> QED
    BY <1>a, <1>1, <1>2, <1>3, <2>1, RowsChange

LEMMA SummaryStaysBacked ==
  ASSUME NEW e \in Executions, IInv, ExecutionStep(e),
         NEW n \in DOMAIN summary'.targets, NEW c \in Components
  PROVE  Backed(Executions, summary.targets[n].target, c, summary.targets[n].root[c])'
<1>a. TypeOK /\ RowsBacked /\ \A f \in Executions : Attached(f)
  BY DEF IInv
<1>1. CASE summary'.targets = summary.targets
  <2>1. PICK t \in Targets, k \in Indices : t = summary.targets[n].target /\ k = summary.targets[n].root[c]
    BY <1>a, <1>1, RowTypes
  <2>2. Backed(Executions, t, c, k)
    BY <1>a, <1>1, <2>1 DEF RowsBacked
  <2>3. Backed(Executions, t, c, k)'
    BY <1>a, <2>2, BackedStays
  <2> QED
    BY <1>1, <2>1, <2>3 DEF Backed
<1>2. CASE summary'.targets = rows'[e]
  <2>1. Backed(Others(e), rows[e][n].target, c, rows[e][n].root[c])'
    BY <1>2, RowsStayBacked
  <2> QED
    BY <1>2, <2>1 DEF Backed, Others
<1>3. CASE summary'.targets = << >>
  BY <1>3
<1> QED
  BY <1>a, <1>1, <1>2, <1>3, SummaryChanges

(***************************************************************************)
(* The invariant is inductive.                                             *)
(***************************************************************************)
LEMMA InitIInv == Init => IInv
<1> SUFFICES ASSUME Init PROVE IInv
  OBVIOUS
<1>1. TypeOK
  <2>1. \A d \in Executions : Len(TargetsOf[d]) \in Nat /\ 1 <= Len(TargetsOf[d])
    <3>1. ASSUME NEW s \in Seq(Targets), s # << >> PROVE Len(s) \in Nat /\ 1 <= Len(s)
      BY <3>1, EmptySeq
    <3> QED
      BY <3>1, QueueAssumption
  <2>2. << >> \in Seq(Row)
    OBVIOUS
  <2> QED
    BY <2>1, <2>2, QueueAssumption DEF Init, TypeOK, Places, Components, Row
<1>2. ASSUME NEW e \in Executions PROVE Attached(e) /\ Settled(e) /\ OwnRootIsNew(e)
  BY DEF Init, Attached, Settled, OwnRootIsNew, Bound, Alive, Writing, Running, Evaluating, At
<1>3. RowsBacked
  BY DEF Init, RowsBacked
<1> QED
  BY <1>1, <1>2, <1>3 DEF IInv

LEMMA StepTypes ==
  ASSUME NEW e \in Executions, IInv, ExecutionStep(e)
  PROVE  TypeOK'
<1>1. TypeOK /\ Attached(e) /\ Settled(e)
  BY DEF IInv
<1>2. chosen' \in [Executions -> [Components -> Indices \cup {NoRoot}]]
  BY <1>1, ChosenTypes
<1>3. /\ rows' \in [Executions -> Seq(Row)]
      /\ summary' \in [state : {"none", "running", "complete", "failed"}, targets : Seq(Row)]
  BY <1>1, RowsTypes
<1>4. roots' \in [Targets -> [Components -> [Indices -> {"absent", "partial", "complete"}]]]
  BY <1>1, RootsMove
<1>5. /\ pc' \in [Executions -> Places]
      /\ place' \in [Executions -> Nat \ {0}]
      /\ \A d \in Executions : place'[d] <= Len(TargetsOf[d])
      /\ comp' \in [Executions -> Components]
      /\ outcome' \in [Executions -> {"none", "complete", "failed"}]
      /\ signals' \in [Executions -> 0 .. MaxSignals]
      /\ registered' \in [Executions -> BOOLEAN]
      /\ life' \in [Executions -> {"none", "fresh", "live", "published", "zero", "nonzero"}]
      /\ status' \in {"none", "running", "complete", "failed"}
      /\ model' \in [Targets -> {"pending", "ready", "failed"}]
  BY <1>1, MemoryTypes
<1> QED
  BY <1>2, <1>3, <1>4, <1>5 DEF TypeOK, Row

LEMMA StepIInv ==
  ASSUME IInv, [Next]_vars
  PROVE  IInv'
<1>1. ASSUME NEW e \in Executions, ExecutionStep(e)
      PROVE  IInv'
  <2>1. TypeOK'
    BY <1>1, StepTypes
  <2>2. ASSUME NEW d \in Executions PROVE (Attached(d) /\ Settled(d) /\ OwnRootIsNew(d))'
    BY <1>1, AttachedStays, SettledStays, OwnRootStaysNew DEF IInv
  <2>3. RowsBacked'
    <3>1. \A d \in Executions : \A n \in DOMAIN rows'[d] : \A c \in Components :
              Backed(Others(d), rows[d][n].target, c, rows[d][n].root[c])'
      BY <1>1, RowsStayBacked
    <3>2. \A n \in DOMAIN summary'.targets : \A c \in Components :
              Backed(Executions, summary.targets[n].target, c, summary.targets[n].root[c])'
      BY <1>1, SummaryStaysBacked
    <3> QED
      BY <3>1, <3>2 DEF RowsBacked
  <2> QED
    BY <2>1, <2>2, <2>3 DEF IInv
<1>2. ASSUME NEW t \in Targets, TrainingEnds(t)
      PROVE  IInv'
  <2>1. UNCHANGED <<pc, place, comp, chosen, rows, outcome, signals, registered,
                    life, summary, status, roots>>
    BY <1>2 DEF TrainingEnds, memory, files
  <2>2. TypeOK'
    BY <1>2, <2>1 DEF IInv, TypeOK, TrainingEnds
  <2>3. ASSUME NEW e \in Executions
        PROVE  (Attached(e) /\ Settled(e) /\ OwnRootIsNew(e))'
    BY <2>1 DEF IInv, Attached, Settled, OwnRootIsNew, Bound, Alive, Writing, At, Target, Backed, IsRootOf
  <2>4. RowsBacked'
    BY <2>1 DEF IInv, RowsBacked, Backed, IsRootOf, Target
  <2> QED
    BY <2>2, <2>3, <2>4 DEF IInv
<1>3. CASE UNCHANGED vars
  <2>1. UNCHANGED <<pc, place, comp, chosen, rows, outcome, signals, registered,
                    life, summary, status, roots, model>>
    BY <1>3 DEF vars, memory, files
  <2>2. TypeOK'
    BY <2>1 DEF IInv, TypeOK
  <2>3. ASSUME NEW e \in Executions
        PROVE  (Attached(e) /\ Settled(e) /\ OwnRootIsNew(e))'
    BY <2>1 DEF IInv, Attached, Settled, OwnRootIsNew, Bound, Alive, Writing, At, Target, Backed, IsRootOf
  <2>4. RowsBacked'
    BY <2>1 DEF IInv, RowsBacked, Backed, IsRootOf, Target
  <2> QED
    BY <2>2, <2>3, <2>4 DEF IInv
<1> QED
  BY <1>1, <1>2, <1>3 DEF Next, ExecutionStep

LEMMA Invariance == Spec => []IInv
BY InitIInv, StepIInv, PTL DEF Spec

(***************************************************************************)
(* The theorems.                                                           *)
(***************************************************************************)
\* Every variable keeps its type.
THEOREM TypeCorrect == Spec => []TypeOK
<1>1. IInv => TypeOK
  BY DEF IInv
<1> QED
  BY <1>1, Invariance, PTL

\* What an execution has recorded (_target_record) is evidence on the disk
\* (_resident_complete), or a child of another execution took it back.
THEOREM RecordsHaveEvidence == Spec => []RowsAreEvidence
<1>1. IInv => RowsAreEvidence
  BY DEF IInv, RowsBacked, Backed, RowsAreEvidence, Others
<1> QED
  BY <1>1, Invariance, PTL

\* A root without a writer keeps what it holds, whatever runs beside it: the
\* runners refuse a root that exists (_ensure_fresh_directory) and the queue
\* reserves names only (_reserve_root).
THEOREM ClosedRootsAreKept == Spec => RootsArePreserved
<1> DEFINE Kept == \A t \in Targets : \A c \in Components : \A k \in Indices :
                      Closed(t, c, k) => Closed(t, c, k)' /\ roots'[t][c][k] = roots[t][c][k]
<1>1. ASSUME IInv, [Next]_vars PROVE [Kept]_vars
  <2>1. ASSUME NEW e \in Executions, ExecutionStep(e), NEW t \in Targets, NEW c \in Components,
               NEW k \in Indices, Closed(t, c, k)
        PROVE  Closed(t, c, k)' /\ roots'[t][c][k] = roots[t][c][k]
    <3>a. TypeOK /\ \A d \in Executions : Attached(d)
      BY <1>1 DEF IInv
    <3>1. roots'[t][c][k] = roots[t][c][k]
      BY <2>1, <3>a, RootsMove DEF RootMoves, Closed, IsRootOf, Writing
    <3>2. ASSUME NEW d \in Executions, Writing(d)', IsRootOf(d, t, c, k)'
          PROVE  FALSE
      <4>1. CASE Writing(d)
        <5>1. IsRootOf(d, t, c, k)
          BY <2>1, <3>2, <3>a, <4>1, ChildStays DEF Bound, Alive, Writing, IsRootOf
        <5> QED
          BY <2>1, <4>1, <5>1 DEF Closed
      <4>2. CASE ~Writing(d)
        <5>1. d = e
          BY <2>1, <3>2, <3>a, <4>2, OthersStay DEF Writing
        <5>2. life[d] = "fresh" /\ roots[Target(d)][comp[d]][chosen[d][comp[d]]] = "absent"
          BY <2>1, <3>2, <3>a, <4>2, <5>1, OpensAbsentRoot
        <5>3. IsRootOf(d, t, c, k)
          BY <2>1, <3>2, <3>a, <5>2, ChildStays DEF Bound, Alive, IsRootOf
        <5> QED
          BY <2>1, <5>2, <5>3 DEF Closed, IsRootOf
      <4> QED
        BY <4>1, <4>2
    <3> QED
      BY <2>1, <3>1, <3>2 DEF Closed
  <2>2. ASSUME NEW t \in Targets, TrainingEnds(t) PROVE Kept
    BY <2>2 DEF TrainingEnds, memory, files, Closed, IsRootOf, Writing, Target
  <2>3. CASE UNCHANGED vars
    BY <2>3
  <2> QED
    BY <1>1, <2>1, <2>2, <2>3 DEF Next, ExecutionStep
<1>2. Spec => [][Next]_vars
  BY DEF Spec
<1> QED
  BY <1>1, <1>2, Invariance, PTL DEF RootsArePreserved

(***************************************************************************)
(* Executions that do not overlap, and nothing disturbs them.              *)
(***************************************************************************)
\* Only a launch makes an execution active.
LEMMA LaunchActivates ==
  ASSUME NEW e \in Executions, TypeOK, ExecutionStep(e), ~Active(e), Active(e)'
  PROVE  Launch(e)
<1> USE DEF At, Goto, memory, files, Active, Over, Terminal
<1>a. pc \in [Executions -> Places]
  BY DEF TypeOK
<1>1. CASE ReturnPrevious(e)
  BY <1>1, <1>a DEF ReturnPrevious
<1>2. CASE LoadSummary(e)
  BY <1>2, <1>a DEF LoadSummary
<1>3. CASE WaitModels(e)
  BY <1>3, <1>a DEF WaitModels
<1>4. CASE GiveUp(e)
  BY <1>4, <1>a DEF GiveUp
<1>5. CASE ResetSummary(e)
  BY <1>5, <1>a DEF ResetSummary, WriteSummary
<1>6. CASE ResetStatus(e)
  BY <1>6, <1>a DEF ResetStatus
<1>7. CASE InstallHandlers(e)
  BY <1>7, <1>a DEF InstallHandlers
<1>8. CASE FindRoots(e)
  BY <1>8, <1>a DEF FindRoots
<1>9. CASE SkipComplete(e)
  BY <1>9, <1>a DEF SkipComplete, NextComponent
<1>10. CASE Reserve(e)
  BY <1>10, <1>a DEF Reserve, WriteSummary
<1>11. CASE RetriesExhausted(e)
  BY <1>11, <1>a DEF RetriesExhausted
<1>12. CASE SpawnChild(e)
  BY <1>12, <1>a DEF SpawnChild
<1>13. CASE RegisterChild(e)
  BY <1>13, <1>a DEF RegisterChild
<1>14. CASE ChildSucceeds(e)
  BY <1>14, <1>a DEF ChildSucceeds, NextComponent
<1>15. CASE ChildIsNoUse(e)
  BY <1>15, <1>a DEF ChildIsNoUse
<1>16. CASE Record(e)
  BY <1>16, <1>a DEF Record, WriteSummary
<1>17. CASE RecordNotEligible(e)
  BY <1>17, <1>a DEF RecordNotEligible
<1>18. CASE FinishSummary(e)
  BY <1>18, <1>a DEF FinishSummary, WriteSummary
<1>19. CASE FinishStatus(e)
  BY <1>19, <1>a DEF FinishStatus
<1>20. CASE Return(e)
  BY <1>20, <1>a DEF Return
<1>21. CASE StopChild(e)
  BY <1>21, <1>a DEF StopChild, KillChild
<1>22. CASE WriteFailedSummary(e)
  BY <1>22, <1>a DEF WriteFailedSummary, WriteSummary
<1>23. CASE WriteFailedStatus(e)
  BY <1>23, <1>a DEF WriteFailedStatus
<1>24. CASE Cleanup(e)
  BY <1>24, <1>a DEF Cleanup, KillChild
<1>25. CASE Launch(e)
  BY <1>25, <1>a DEF Launch
<1>26. CASE ChildOpens(e)
  BY <1>26, <1>a DEF ChildOpens, WriteRoot
<1>27. CASE ChildPublishes(e)
  BY <1>27, <1>a DEF ChildPublishes, WriteRoot
<1>28. CASE ChildReturns(e)
  BY <1>28, <1>a DEF ChildReturns
<1>29. CASE ChildFails(e)
  BY <1>29, <1>a DEF ChildFails, WriteRoot
<1>30. CASE Signal(e)
  BY <1>30, <1>a DEF Signal, Early, Body
<1>31. CASE Fail(e)
  BY <1>31, <1>a DEF Fail
<1>32. CASE FailureIsNotWritten(e)
  BY <1>32, <1>a DEF FailureIsNotWritten
<1>33. CASE Kill(e)
  BY <1>33, <1>a DEF Kill
<1>q. QED
  BY <1>1, <1>2, <1>3, <1>4, <1>5, <1>6, <1>7, <1>8, <1>9, <1>10, <1>11,
     <1>12, <1>13, <1>14, <1>15, <1>16, <1>17, <1>18, <1>19, <1>20, <1>21,
     <1>22, <1>23, <1>24, <1>25, <1>26, <1>27, <1>28, <1>29, <1>30, <1>31,
     <1>32, <1>33
  DEF ExecutionStep, Step, Child, Disturb

\* A signal and a kill are not forgotten.
LEMMA DisturbanceStays ==
  ASSUME NEW e \in Executions, TypeOK, ExecutionStep(e), ~Disturbed(e)'
  PROVE  ~Disturbed(e) /\ ~Signal(e) /\ ~Kill(e)
<1> USE DEF At, Goto, memory, files, Disturbed, Over, Terminal
<1>a. pc \in [Executions -> Places] /\ signals \in [Executions -> Nat]
  BY QueueAssumption DEF TypeOK
<1>1. CASE ReturnPrevious(e)
  BY <1>1, <1>a DEF ReturnPrevious, ReturnPrevious, Signal, Kill
<1>2. CASE LoadSummary(e)
  BY <1>2, <1>a DEF LoadSummary, ReturnPrevious, Signal, Kill
<1>3. CASE WaitModels(e)
  BY <1>3, <1>a DEF WaitModels, ReturnPrevious, Signal, Kill
<1>4. CASE GiveUp(e)
  BY <1>4, <1>a DEF GiveUp, ReturnPrevious, Signal, Kill
<1>5. CASE ResetSummary(e)
  BY <1>5, <1>a DEF ResetSummary, WriteSummary, ReturnPrevious, Signal, Kill
<1>6. CASE ResetStatus(e)
  BY <1>6, <1>a DEF ResetStatus, ReturnPrevious, Signal, Kill
<1>7. CASE InstallHandlers(e)
  BY <1>7, <1>a DEF InstallHandlers, ReturnPrevious, Signal, Kill
<1>8. CASE FindRoots(e)
  BY <1>8, <1>a DEF FindRoots, ReturnPrevious, Signal, Kill
<1>9. CASE SkipComplete(e)
  BY <1>9, <1>a DEF SkipComplete, NextComponent, ReturnPrevious, Signal, Kill
<1>10. CASE Reserve(e)
  BY <1>10, <1>a DEF Reserve, WriteSummary, ReturnPrevious, Signal, Kill
<1>11. CASE RetriesExhausted(e)
  BY <1>11, <1>a DEF RetriesExhausted, ReturnPrevious, Signal, Kill
<1>12. CASE SpawnChild(e)
  BY <1>12, <1>a DEF SpawnChild, ReturnPrevious, Signal, Kill
<1>13. CASE RegisterChild(e)
  BY <1>13, <1>a DEF RegisterChild, ReturnPrevious, Signal, Kill
<1>14. CASE ChildSucceeds(e)
  BY <1>14, <1>a DEF ChildSucceeds, NextComponent, ReturnPrevious, Signal, Kill
<1>15. CASE ChildIsNoUse(e)
  BY <1>15, <1>a DEF ChildIsNoUse, ReturnPrevious, Signal, Kill
<1>16. CASE Record(e)
  BY <1>16, <1>a DEF Record, WriteSummary, ReturnPrevious, Signal, Kill
<1>17. CASE RecordNotEligible(e)
  BY <1>17, <1>a DEF RecordNotEligible, ReturnPrevious, Signal, Kill
<1>18. CASE FinishSummary(e)
  BY <1>18, <1>a DEF FinishSummary, WriteSummary, ReturnPrevious, Signal, Kill
<1>19. CASE FinishStatus(e)
  BY <1>19, <1>a DEF FinishStatus, ReturnPrevious, Signal, Kill
<1>20. CASE Return(e)
  BY <1>20, <1>a DEF Return, ReturnPrevious, Signal, Kill
<1>21. CASE StopChild(e)
  BY <1>21, <1>a DEF StopChild, KillChild, ReturnPrevious, Signal, Kill
<1>22. CASE WriteFailedSummary(e)
  BY <1>22, <1>a DEF WriteFailedSummary, WriteSummary, ReturnPrevious, Signal, Kill
<1>23. CASE WriteFailedStatus(e)
  BY <1>23, <1>a DEF WriteFailedStatus, ReturnPrevious, Signal, Kill
<1>24. CASE Cleanup(e)
  BY <1>24, <1>a DEF Cleanup, KillChild, ReturnPrevious, Signal, Kill
<1>25. CASE Launch(e)
  BY <1>25, <1>a DEF Launch, ReturnPrevious, Signal, Kill
<1>26. CASE ChildOpens(e)
  BY <1>26, <1>a DEF ChildOpens, WriteRoot, ReturnPrevious, Signal, Kill
<1>27. CASE ChildPublishes(e)
  BY <1>27, <1>a DEF ChildPublishes, WriteRoot, ReturnPrevious, Signal, Kill
<1>28. CASE ChildReturns(e)
  BY <1>28, <1>a DEF ChildReturns, ReturnPrevious, Signal, Kill
<1>29. CASE ChildFails(e)
  BY <1>29, <1>a DEF ChildFails, WriteRoot, ReturnPrevious, Signal, Kill
<1>30. CASE Signal(e)
  BY <1>30, <1>a DEF Signal, ReturnPrevious, Signal, Kill
<1>31. CASE Fail(e)
  BY <1>31, <1>a DEF Fail, ReturnPrevious, Signal, Kill
<1>32. CASE FailureIsNotWritten(e)
  BY <1>32, <1>a DEF FailureIsNotWritten, ReturnPrevious, Signal, Kill
<1>33. CASE Kill(e)
  BY <1>33, <1>a DEF Kill, ReturnPrevious, Signal, Kill
<1>q. QED
  BY <1>1, <1>2, <1>3, <1>4, <1>5, <1>6, <1>7, <1>8, <1>9, <1>10, <1>11,
     <1>12, <1>13, <1>14, <1>15, <1>16, <1>17, <1>18, <1>19, <1>20, <1>21,
     <1>22, <1>23, <1>24, <1>25, <1>26, <1>27, <1>28, <1>29, <1>30, <1>31,
     <1>32, <1>33
  DEF ExecutionStep, Step, Child, Disturb

\* Who is not disturbed waits until its child has ended.
LEMMA WaitsForChild ==
  ASSUME NEW e \in Executions, TypeOK, ExecutionStep(e), ~Signal(e), ~Kill(e),
         Alive(e) => pc[e] \in {"register", "wait"}, Alive(e)'
  PROVE  pc'[e] \in {"register", "wait"}
<1> USE DEF At, Goto, memory, files, Alive, Writing
<1>a. pc \in [Executions -> Places] /\ DOMAIN life = Executions
  BY DEF TypeOK
<1>1. CASE ReturnPrevious(e)
  BY <1>1, <1>a DEF ReturnPrevious
<1>2. CASE LoadSummary(e)
  BY <1>2, <1>a DEF LoadSummary
<1>3. CASE WaitModels(e)
  BY <1>3, <1>a DEF WaitModels
<1>4. CASE GiveUp(e)
  BY <1>4, <1>a DEF GiveUp
<1>5. CASE ResetSummary(e)
  BY <1>5, <1>a DEF ResetSummary, WriteSummary
<1>6. CASE ResetStatus(e)
  BY <1>6, <1>a DEF ResetStatus
<1>7. CASE InstallHandlers(e)
  BY <1>7, <1>a DEF InstallHandlers
<1>8. CASE FindRoots(e)
  BY <1>8, <1>a DEF FindRoots
<1>9. CASE SkipComplete(e)
  BY <1>9, <1>a DEF SkipComplete, NextComponent
<1>10. CASE Reserve(e)
  BY <1>10, <1>a DEF Reserve, WriteSummary
<1>11. CASE RetriesExhausted(e)
  BY <1>11, <1>a DEF RetriesExhausted
<1>12. CASE SpawnChild(e)
  BY <1>12, <1>a DEF SpawnChild
<1>13. CASE RegisterChild(e)
  BY <1>13, <1>a DEF RegisterChild
<1>14. CASE ChildSucceeds(e)
  BY <1>14, <1>a DEF ChildSucceeds, NextComponent, ChildReturned
<1>15. CASE ChildIsNoUse(e)
  BY <1>15, <1>a DEF ChildIsNoUse, ChildReturned
<1>16. CASE Record(e)
  BY <1>16, <1>a DEF Record, WriteSummary
<1>17. CASE RecordNotEligible(e)
  BY <1>17, <1>a DEF RecordNotEligible
<1>18. CASE FinishSummary(e)
  BY <1>18, <1>a DEF FinishSummary, WriteSummary
<1>19. CASE FinishStatus(e)
  BY <1>19, <1>a DEF FinishStatus
<1>20. CASE Return(e)
  BY <1>20, <1>a DEF Return
<1>21. CASE StopChild(e)
  BY <1>21, <1>a DEF StopChild, KillChild
<1>22. CASE WriteFailedSummary(e)
  BY <1>22, <1>a DEF WriteFailedSummary, WriteSummary
<1>23. CASE WriteFailedStatus(e)
  BY <1>23, <1>a DEF WriteFailedStatus
<1>24. CASE Cleanup(e)
  BY <1>24, <1>a DEF Cleanup, KillChild
<1>25. CASE Launch(e)
  BY <1>25, <1>a DEF Launch
<1>26. CASE ChildOpens(e)
  BY <1>26, <1>a DEF ChildOpens, WriteRoot
<1>27. CASE ChildPublishes(e)
  BY <1>27, <1>a DEF ChildPublishes, WriteRoot
<1>28. CASE ChildReturns(e)
  BY <1>28, <1>a DEF ChildReturns
<1>29. CASE ChildFails(e)
  BY <1>29, <1>a DEF ChildFails, WriteRoot
<1>30. CASE Signal(e)
  BY <1>30
<1>31. CASE Fail(e)
  BY <1>31, <1>a DEF Fail
<1>32. CASE FailureIsNotWritten(e)
  BY <1>32, <1>a DEF FailureIsNotWritten
<1>33. CASE Kill(e)
  BY <1>33
<1>q. QED
  BY <1>1, <1>2, <1>3, <1>4, <1>5, <1>6, <1>7, <1>8, <1>9, <1>10, <1>11,
     <1>12, <1>13, <1>14, <1>15, <1>16, <1>17, <1>18, <1>19, <1>20, <1>21,
     <1>22, <1>23, <1>24, <1>25, <1>26, <1>27, <1>28, <1>29, <1>30, <1>31,
     <1>32, <1>33
  DEF ExecutionStep, Step, Child, Disturb

\* What is ahead of an execution was ahead of it before.
LEMMA AheadBefore ==
  ASSUME NEW e \in Executions, TypeOK, ExecutionStep(e), ~FindRoots(e), NEW c \in Components,
         pc'[e] \in Evaluating, c = comp'[e] \/ comp'[e] = "resident"
  PROVE  /\ pc[e] \in Evaluating /\ place'[e] = place[e]
         /\ c = comp[e] \/ comp[e] = "resident"
         /\ chosen'[e][c] = chosen[e][c] \/ chosen[e][c] = NoRoot
<1> USE DEF At, Goto, memory, files, Evaluating, Running
<1>a. /\ pc \in [Executions -> Places] /\ DOMAIN place = Executions
      /\ comp \in [Executions -> Components]
      /\ chosen \in [Executions -> [Components -> Indices \cup {NoRoot}]]
  BY DEF TypeOK
<1>1. CASE ReturnPrevious(e)
  BY <1>1, <1>a DEF ReturnPrevious
<1>2. CASE LoadSummary(e)
  BY <1>2, <1>a DEF LoadSummary
<1>3. CASE WaitModels(e)
  BY <1>3, <1>a DEF WaitModels
<1>4. CASE GiveUp(e)
  BY <1>4, <1>a DEF GiveUp
<1>5. CASE ResetSummary(e)
  BY <1>5, <1>a DEF ResetSummary, WriteSummary
<1>6. CASE ResetStatus(e)
  BY <1>6, <1>a DEF ResetStatus
<1>7. CASE InstallHandlers(e)
  BY <1>7, <1>a DEF InstallHandlers
<1>8. CASE FindRoots(e)
  BY <1>8
<1>9. CASE SkipComplete(e)
  BY <1>9, <1>a DEF SkipComplete, NextComponent
<1>10. CASE Reserve(e)
  BY <1>10, <1>a DEF Reserve, WriteSummary
<1>11. CASE RetriesExhausted(e)
  BY <1>11, <1>a DEF RetriesExhausted
<1>12. CASE SpawnChild(e)
  BY <1>12, <1>a DEF SpawnChild
<1>13. CASE RegisterChild(e)
  BY <1>13, <1>a DEF RegisterChild
<1>14. CASE ChildSucceeds(e)
  BY <1>14, <1>a DEF ChildSucceeds, NextComponent
<1>15. CASE ChildIsNoUse(e)
  BY <1>15, <1>a DEF ChildIsNoUse
<1>16. CASE Record(e)
  BY <1>16, <1>a DEF Record, WriteSummary
<1>17. CASE RecordNotEligible(e)
  BY <1>17, <1>a DEF RecordNotEligible
<1>18. CASE FinishSummary(e)
  BY <1>18, <1>a DEF FinishSummary, WriteSummary
<1>19. CASE FinishStatus(e)
  BY <1>19, <1>a DEF FinishStatus
<1>20. CASE Return(e)
  BY <1>20, <1>a DEF Return
<1>21. CASE StopChild(e)
  BY <1>21, <1>a DEF StopChild, KillChild
<1>22. CASE WriteFailedSummary(e)
  BY <1>22, <1>a DEF WriteFailedSummary, WriteSummary
<1>23. CASE WriteFailedStatus(e)
  BY <1>23, <1>a DEF WriteFailedStatus
<1>24. CASE Cleanup(e)
  BY <1>24, <1>a DEF Cleanup, KillChild
<1>25. CASE Launch(e)
  BY <1>25, <1>a DEF Launch
<1>26. CASE ChildOpens(e)
  BY <1>26, <1>a DEF ChildOpens, WriteRoot
<1>27. CASE ChildPublishes(e)
  BY <1>27, <1>a DEF ChildPublishes, WriteRoot
<1>28. CASE ChildReturns(e)
  BY <1>28, <1>a DEF ChildReturns
<1>29. CASE ChildFails(e)
  BY <1>29, <1>a DEF ChildFails, WriteRoot
<1>30. CASE Signal(e)
  BY <1>30, <1>a DEF Signal, Early, Body
<1>31. CASE Fail(e)
  BY <1>31, <1>a DEF Fail
<1>32. CASE FailureIsNotWritten(e)
  BY <1>32, <1>a DEF FailureIsNotWritten
<1>33. CASE Kill(e)
  BY <1>33, <1>a DEF Kill
<1>q. QED
  BY <1>1, <1>2, <1>3, <1>4, <1>5, <1>6, <1>7, <1>8, <1>9, <1>10, <1>11,
     <1>12, <1>13, <1>14, <1>15, <1>16, <1>17, <1>18, <1>19, <1>20, <1>21,
     <1>22, <1>23, <1>24, <1>25, <1>26, <1>27, <1>28, <1>29, <1>30, <1>31,
     <1>32, <1>33
  DEF ExecutionStep, Step, Child, Disturb

LEMMA CalmBefore ==
  ASSUME NEW e \in Executions, TypeOK, ExecutionStep(e), Calm'
  PROVE  Calm /\ ~Signal(e) /\ ~Kill(e)
<1>1. ASSUME NEW d \in Executions, d # e PROVE ~Disturbed(d)
  <2>1. pc'[d] = pc[d] /\ signals'[d] = signals[d]
    BY <1>1, OthersStay
  <2> QED
    BY <2>1 DEF Calm, Disturbed, At
<1>2. ~Disturbed(e) /\ ~Signal(e) /\ ~Kill(e)
  BY DisturbanceStays DEF Calm
<1> QED
  BY <1>1, <1>2 DEF Calm

LEMMA OneIsActive ==
  ASSUME ~Overlapping, NEW e \in Executions, TypeOK, ExecutionStep(e),
         \A d, f \in Executions : Active(d) /\ Active(f) => d = f
  PROVE  \A d, f \in Executions : Active(d)' /\ Active(f)' => d = f
<1>1. ASSUME NEW d \in Executions, Active(d)' PROVE Active(d) \/ (d = e /\ Launch(e))
  <2>1. CASE d # e
    BY <1>1, <2>1, OthersStay DEF Active, At, Over
  <2>2. CASE d = e
    BY <1>1, <2>2, LaunchActivates
  <2> QED
    BY <2>1, <2>2
<1>2. ASSUME Launch(e), NEW d \in Executions PROVE ~Active(d)
  BY <1>2 DEF Launch, Active, At, Over
<1> QED
  BY <1>1, <1>2

\* Who is not active has no root to look for, and nobody else's child
\* completes a root.
LEMMA FoundStays ==
  ASSUME NEW e \in Executions, IInv, Tidy, Calm, ExecutionStep(e), NEW d \in Executions
  PROVE  Found(d)'
<1>a. /\ TypeOK /\ \A f \in Executions : Attached(f)
      /\ Accompanied /\ OneComplete /\ \A f \in Executions : Found(f)
      /\ \A f, g \in Executions : Active(f) /\ Active(g) => f = g
  BY DEF IInv, Tidy
<1> SUFFICES ASSUME pc'[d] \in Evaluating, NEW c \in Components, c = comp'[d] \/ comp'[d] = "resident",
                    NEW k \in Complete(Target(d), c)'
             PROVE  k = chosen'[d][c]
  BY DEF Found
<1>1. PICK t \in Targets : t = Target(d)'
  <2>1. TypeOK'
    BY StepTypes
  <2>2. place'[d] \in 1..Len(TargetsOf[d]) /\ TargetsOf[d] \in Seq(Targets)
    BY <2>1, QueueAssumption DEF TypeOK
  <2> QED
    BY <2>2 DEF Target
<1>2. k \in Indices /\ roots'[t][c][k] = "complete"
  BY <1>1 DEF Complete, RootsIn
<1>3. CASE d # e
  <2>1. pc[d] = pc'[d] /\ comp[d] = comp'[d] /\ chosen[d] = chosen'[d] /\ Target(d) = t
    BY <1>1, <1>3, <1>a, OthersStay DEF Target
  <2>2. CASE roots[t][c][k] = "complete"
    BY <1>2, <1>a, <2>1, <2>2 DEF Found, Complete, RootsIn
  <2>3. CASE RootMoves(e, t, c, k)
    <3>1. Active(e)
      BY <1>2, <1>a, <2>3 DEF RootMoves, Accompanied, Alive, Writing, Active, At, Over, Terminal
    <3>2. Active(d)
      BY <2>1 DEF Active, At, Over, Terminal, Evaluating, Running
    <3> QED
      BY <1>3, <1>a, <3>1, <3>2
  <2> QED
    BY <1>2, <1>a, <2>2, <2>3, RootsMove
<1>4. CASE d = e /\ FindRoots(e)
  <2>1. chosen'[e][c] = FindCompleteRoot(t, c) /\ t = Target(e) /\ roots' = roots
    BY <1>1, <1>4, <1>a DEF FindRoots, TypeOK, Target
  <2>2. k \in RootsIn(t, c, "complete")
    BY <1>2, <2>1 DEF RootsIn
  <2>3. FindCompleteRoot(t, c) \in RootsIn(t, c, "complete")
    BY <1>a, <2>2, FoundIsComplete DEF RootsIn
  <2> QED
    BY <1>4, <1>a, <2>1, <2>2, <2>3 DEF OneComplete, Complete
<1>5. CASE d = e /\ ~FindRoots(e)
  <2>1. /\ pc[e] \in Evaluating /\ place'[e] = place[e]
        /\ c = comp[e] \/ comp[e] = "resident"
        /\ chosen'[e][c] = chosen[e][c] \/ chosen[e][c] = NoRoot
    BY <1>5, <1>a, AheadBefore
  <2>2. t = Target(e)
    BY <1>1, <1>5, <2>1 DEF Target
  <2>3. chosen[e][c] = k
    <3>1. CASE roots[t][c][k] = "complete"
      BY <1>2, <1>a, <2>1, <2>2, <3>1 DEF Found, Complete, RootsIn
    <3>2. CASE RootMoves(e, t, c, k)
      BY <3>2 DEF RootMoves
    <3> QED
      BY <1>2, <1>a, <3>1, <3>2, RootsMove
  <2> QED
    BY <1>2, <1>5, <2>1, <2>3, IndicesAreNumbers
<1> QED
  BY <1>3, <1>4, <1>5

\* The root that becomes complete is the only one.
LEMMA OneStaysComplete ==
  ASSUME NEW e \in Executions, IInv, Tidy, Calm, ExecutionStep(e)
  PROVE  OneComplete'
<1>a. /\ TypeOK /\ \A f \in Executions : Attached(f)
      /\ Accompanied /\ OneComplete /\ \A f \in Executions : Found(f)
  BY DEF IInv, Tidy
<1> SUFFICES ASSUME NEW t \in Targets, NEW c \in Components, NEW j \in Indices, NEW k \in Indices,
                    roots'[t][c][j] = "complete", roots'[t][c][k] = "complete"
             PROVE  j = k
  BY DEF OneComplete, Complete, RootsIn
<1>1. ASSUME NEW i \in Indices, roots'[t][c][i] = "complete", roots[t][c][i] # "complete"
      PROVE  t = Target(e) /\ c = comp[e] /\ i = chosen[e][c] /\ life[e] = "live"
  BY <1>1, <1>a, RootsMove DEF RootMoves
<1>2. ASSUME NEW i \in Indices, roots[t][c][i] = "complete",
             t = Target(e), c = comp[e], life[e] = "live"
      PROVE  i = chosen[e][c]
  <2>1. pc[e] \in Evaluating
    BY <1>2, <1>a DEF Accompanied, Alive, Writing, Evaluating, Running
  <2> QED
    BY <1>2, <1>a, <2>1 DEF Found, Complete, RootsIn
<1>3. CASE roots[t][c][j] = "complete" /\ roots[t][c][k] = "complete"
  BY <1>3, <1>a DEF OneComplete, Complete, RootsIn
<1> QED
  BY <1>1, <1>2, <1>3

LEMMA StepTidy ==
  ASSUME ~Overlapping, IInv, Tidy, [Next]_vars
  PROVE  Tidy'
<1>1. ASSUME NEW e \in Executions, ExecutionStep(e)
      PROVE  Tidy'
  <2>1. TypeOK
    BY DEF IInv
  <2>2. \A d, f \in Executions : Active(d)' /\ Active(f)' => d = f
    BY <1>1, <2>1, OneIsActive DEF Tidy
  <2>3. ASSUME Calm'
        PROVE  Accompanied' /\ (\A d \in Executions : Found(d)') /\ OneComplete'
    <3>1. Calm /\ ~Signal(e) /\ ~Kill(e)
      BY <1>1, <2>1, <2>3, CalmBefore
    <3>2. ASSUME NEW d \in Executions, Alive(d)' PROVE pc'[d] \in {"register", "wait"}
      <4>1. CASE d # e
        BY <1>1, <2>1, <3>1, <3>2, <4>1, OthersStay DEF Tidy, Accompanied, Alive, Writing
      <4>2. CASE d = e
        BY <1>1, <2>1, <3>1, <3>2, <4>2, WaitsForChild DEF Tidy, Accompanied
      <4> QED
        BY <4>1, <4>2
    <3>3. \A d \in Executions : Found(d)'
      BY <1>1, <3>1, FoundStays
    <3>4. OneComplete'
      BY <1>1, <3>1, OneStaysComplete
    <3> QED
      BY <3>2, <3>3, <3>4 DEF Accompanied
  <2> QED
    BY <2>2, <2>3 DEF Tidy
<1>2. ASSUME UNCHANGED <<pc, place, comp, chosen, signals, life, roots>>
      PROVE  Tidy'
  BY <1>2 DEF Tidy, Active, At, Over, Calm, Disturbed, Accompanied, Alive, Writing, Found, OneComplete,
      Complete, RootsIn, Target
<1>3. ASSUME NEW t \in Targets, TrainingEnds(t) PROVE Tidy'
  BY <1>2, <1>3 DEF TrainingEnds, memory
<1>4. CASE UNCHANGED vars
  BY <1>2, <1>4 DEF vars, memory
<1> QED
  BY <1>1, <1>3, <1>4 DEF Next, ExecutionStep

LEMMA InitTidy == Init => Tidy
BY DEF Init, Tidy, Active, At, Accompanied, Alive, Writing, Found, Evaluating, Running, OneComplete,
    Complete, RootsIn

\* When executions follow each other (_load_summary, _find_complete_root), a
\* component gets a second complete root only after a signal or a kill: the
\* child that it left running published beside the retry of its successor.
THEOREM SecondEvaluationNeedsOrphan ==
  ASSUME ~Overlapping
  PROVE  Spec => []ReevaluationNeedsOrphan
<1>1. Init => IInv /\ Tidy
  BY InitIInv, InitTidy
<1>2. IInv /\ Tidy /\ [Next]_vars => (IInv /\ Tidy)'
  BY StepIInv, StepTidy
<1>3. Tidy => ReevaluationNeedsOrphan
  <2> SUFFICES ASSUME Tidy, NEW t \in Targets, NEW c \in Components, Calm
               PROVE  ~(Cardinality(RootsIn(t, c, "complete")) > 1)
    BY DEF ReevaluationNeedsOrphan, Calm
  <2> DEFINE S == RootsIn(t, c, "complete")
  <2>1. \A j, k \in S : j = k
    BY DEF Tidy, OneComplete, Complete
  <2> HIDE DEF S
  <2>2. S = {} \/ \E k : S = {k}
    BY <2>1
  <2>3. Cardinality(S) \in {0, 1}
    BY <2>2, FS_EmptySet, FS_Singleton
  <2> QED
    BY <2>3 DEF S
<1> QED
  BY <1>1, <1>2, <1>3, PTL DEF Spec

=============================================================================
