----------------------------- MODULE ZoomProofs -----------------------------
(***************************************************************************)
(* The ZoomBench evaluation for any number of invocations, roots, samples, *)
(* passes and faults: its types, the exclusion of its model servers, what  *)
(* the judge's status says of its server, and what an authority means.    *)
(***************************************************************************)
EXTENDS ZoomProperties, FiniteSetTheorems, TLAPS

Answer == {None, Error} \cup Nat
Verdict == [says : [Rows -> {"yes", "no", "outage"}], judge : {None} \cup Nat]
Protocol == [judge : Nat, controls : BOOLEAN]
Report == {None, "running", "initialized", "starting", "judging", "complete", "failed"}

(* The full types of what the steps compute with.                          *)
Shape ==
    /\ answers \in [Roots -> {None} \cup [Rows -> Answer]]
    /\ verdicts \in [Roots -> {None} \cup Verdict]
    /\ protocol \in [Roots -> {None} \cup Protocol]
    /\ status \in [{"candidate", "judge"} -> [Roots -> [Runs -> Report]]]
    /\ weights \in [Roots \cup {"judge"} -> Nat]
    /\ op \in [Runs -> [mode : {"execute", "resume"}, root : Roots \cup {None}]]
    /\ pc \in [Runs -> Own \cup Candidate \cup Matrix \cup Ended]
    /\ lives \in [Runs -> BOOLEAN]
    /\ server \in [Runs -> {None} \cup Nat]
    /\ known \in [Runs -> BOOLEAN]
    /\ pass \in [Runs -> 0..Passes]

(* Only an execution launches and judges, on a root it was given, and it   *)
(* binds controls into a protocol that exists.                             *)
Phase ==
    \A p \in Runs :
        /\ pc[p] # "none" => Root(p) \in Roots
        /\ pc[p] \in {"none", "look"} => server[p] = None
        /\ pc[p] \in {"launch", "matrix", "controls"} \cup Candidate \cup Matrix => ~Resumes(p)
        /\ pc[p] \in {"cleanup", "controls"} => protocol[Root(p)] \in Protocol

(* The descriptor of the lease, which servers inherit, has one holder.     *)
OneHolder == \A p, q \in Runs : Holds(p) /\ Holds(q) => p = q

(* Up to the trap of the matrix nothing says that the judge has ended.     *)
Running == {"none", "look", "identify", "launch", "identifyJudge", "matrix"} \cup Candidate \cup Matrix
Untold ==
    \A p \in Runs : pc[p] \in Running =>
        \A r \in Roots : status["judge"][r][p] \notin {"complete", "failed"}

IInv == Shape /\ Phase /\ OneHolder /\ Untold /\ StatusTellsServer

(***************************************************************************)
(* The initial state.                                                      *)
(***************************************************************************)
LEMMA InitIsInductive == Init => IInv
<1> SUFFICES ASSUME Init PROVE IInv
    OBVIOUS
<1>1. Shape
    BY ZoomAssumption DEF Init, Shape, Answer, Verdict, Protocol, Report, Own, Candidate,
       Matrix, Ended
<1>2. Phase
    BY DEF Init, Phase, Candidate, Matrix
<1>3. OneHolder
    BY DEF Init, OneHolder, Holds, Own, Candidate, Matrix
<1>4. Untold /\ StatusTellsServer
    BY ZoomAssumption DEF Init, Untold, StatusTellsServer
<1> QED BY <1>1, <1>2, <1>3, <1>4 DEF IInv

(* A status.env is replaced by one process, in one lifecycle of its root.  *)
LEMMA Marked ==
    ASSUME Shape, NEW k \in {"candidate", "judge"}, NEW p \in Runs, Root(p) \in Roots,
           NEW s \in Report, Mark(k, p, s)
    PROVE  /\ status' \in [{"candidate", "judge"} -> [Roots -> [Runs -> Report]]]
           /\ \A j \in {"candidate", "judge"}, r \in Roots, q \in Runs :
                 status'[j][r][q] = IF j = k /\ r = Root(p) /\ q = p THEN s ELSE status[j][r][q]
<1> DEFINE of == [status[k] EXCEPT ![Root(p)][p] = s]
<1>1. of \in [Roots -> [Runs -> Report]]
    BY DEF Shape
<1>2. \A r \in Roots, q \in Runs : of[r][q] = IF r = Root(p) /\ q = p THEN s ELSE status[k][r][q]
    BY DEF Shape
<1>3. status' = [status EXCEPT ![k] = of]
    BY DEF Shape, Mark
<1> HIDE DEF of
<1> QED BY <1>1, <1>2, <1>3 DEF Shape

LEMMA LookFreshKeeps ==
    ASSUME NEW p \in Runs, NEW r \in Roots, IInv, LookFresh(p, r)
    PROVE  IInv'
<1>1. Shape'
    BY DEF IInv, LookFresh, rootFiles, inputs, procs, Go, Shape, Own, Candidate, Matrix, Ended
<1>2. Phase'
    BY DEF IInv, LookFresh, rootFiles, Go, Shape, Phase, Root, Resumes, Candidate, Matrix
<1>3. OneHolder'
    BY DEF IInv, LookFresh, Go, Phase, OneHolder, Holds, Resumes, Own, Candidate, Matrix
<1>4. Untold'
    BY DEF IInv, LookFresh, rootFiles, Go, Untold, Running
<1>5. StatusTellsServer'
    BY DEF IInv, LookFresh, rootFiles, procs, Go, StatusTellsServer
<1> QED BY <1>1, <1>2, <1>3, <1>4, <1>5 DEF IInv

LEMMA LookCompleteKeeps ==
    ASSUME NEW p \in Runs, NEW r \in Roots, IInv, LookComplete(p, r)
    PROVE  IInv'
<1>1. Shape'
    BY DEF IInv, LookComplete, rootFiles, inputs, procs, Go, Shape, Own, Candidate, Matrix, Ended
<1>2. Phase'
    BY DEF IInv, LookComplete, rootFiles, Go, Shape, Phase, Root, Resumes, Candidate, Matrix
<1>3. OneHolder'
    BY DEF IInv, LookComplete, procs, Go, Shape, Phase, OneHolder, Holds, Resumes, Matrix
<1>4. Untold'
    BY DEF IInv, LookComplete, rootFiles, Go, Untold, Running
<1>5. StatusTellsServer'
    BY DEF IInv, LookComplete, rootFiles, procs, Go, StatusTellsServer
<1> QED BY <1>1, <1>2, <1>3, <1>4, <1>5 DEF IInv

LEMMA TakeLeaseKeeps ==
    ASSUME NEW p \in Runs, IInv, TakeLease(p)
    PROVE  IInv'
<1>1. Shape'
    BY DEF IInv, TakeLease, Busy, rootFiles, inputs, procs, Go, Shape, Own, Candidate, Matrix, Ended
<1>2. Phase'
    BY DEF IInv, TakeLease, Busy, rootFiles, Go, Phase, Root, Resumes, Candidate, Matrix
<1>3. OneHolder'
    BY DEF IInv, TakeLease, Busy, Go, Phase, OneHolder, Holds, Resumes, Own, Candidate, Matrix
<1>4. Untold'
    BY DEF IInv, TakeLease, Busy, rootFiles, Go, Untold, Running
<1>5. StatusTellsServer'
    BY DEF IInv, TakeLease, Busy, rootFiles, procs, Go, StatusTellsServer
<1> QED BY <1>1, <1>2, <1>3, <1>4, <1>5 DEF IInv

LEMMA IdentifyKeeps ==
    ASSUME NEW p \in Runs, IInv, Identify(p)
    PROVE  IInv'
<1>1. Shape'
    BY DEF IInv, Identify, rootFiles, inputs, procs, Go, Shape, Own, Candidate, Matrix, Ended
<1>2. Phase'
    BY DEF IInv, Identify, rootFiles, Go, Shape, Phase, Root, Resumes, Candidate, Matrix
<1>3. OneHolder'
    BY DEF IInv, Identify, procs, Go, Shape, Phase, OneHolder, Holds, Resumes, Own, Matrix
<1>4. Untold'
    BY DEF IInv, Identify, rootFiles, Go, Shape, Untold, Running
<1>5. StatusTellsServer'
    BY DEF IInv, Identify, rootFiles, procs, Go, StatusTellsServer
<1> QED BY <1>1, <1>2, <1>3, <1>4, <1>5 DEF IInv

LEMMA LaunchKeeps ==
    ASSUME NEW p \in Runs, IInv, Launch(p)
    PROVE  IInv'
<1>1. Root(p) \in Roots
    BY DEF IInv, Phase, Launch, Candidate, Matrix
<1>2. /\ status' \in [{"candidate", "judge"} -> [Roots -> [Runs -> Report]]]
      /\ \A j \in {"candidate", "judge"}, r \in Roots, q \in Runs :
            status'[j][r][q] = status[j][r][q] \/ (j = "candidate")
  <2>1. CASE Mark("candidate", p, "running")
    BY <1>1, <2>1, Marked DEF IInv, Report, Launch
  <2> QED BY <2>1 DEF Launch
<1>3. Shape'
    BY <1>1, <1>2 DEF IInv, Launch, inputs, procs, Go, Shape, Candidate, Matrix
<1>4. Phase'
    BY <1>1, <1>2 DEF IInv, Launch, Go, Phase, Root, Resumes, Candidate, Matrix
<1>5. OneHolder'
    BY <1>1, <1>2 DEF IInv, Launch, Go, Phase, OneHolder, Holds, Resumes, Own, Matrix
<1>6. Untold'
    BY <1>1, <1>2 DEF IInv, Launch, Go, Untold, Running
<1>7. StatusTellsServer'
    BY <1>1, <1>2 DEF IInv, Launch, Untold, Running, StatusTellsServer, Own
<1> QED BY <1>3, <1>4, <1>5, <1>6, <1>7 DEF IInv

LEMMA VerifyKeeps ==
    ASSUME NEW p \in Runs, IInv, Verify(p)
    PROVE  IInv'
<1>1. Shape'
  <2>1. pass' \in [Runs -> 0..Passes]
    <3>1. \A n \in 0..Passes : n < Passes => n + 1 \in 0..Passes
      BY ZoomAssumption
    <3>2. pass' = pass \/ (pass[p] < Passes /\ pass' = [pass EXCEPT ![p] = @ + 1])
      BY DEF Verify
    <3> QED BY <3>1, <3>2 DEF IInv, Shape
  <2>2. pc' \in [Runs -> Own \cup Candidate \cup Matrix \cup Ended]
    BY DEF IInv, Shape, Verify, Go, Candidate
  <2> QED BY <2>1, <2>2 DEF IInv, Shape, Verify, rootFiles, inputs
<1>2. Phase'
    BY DEF IInv, Verify, rootFiles, Go, Shape, Phase, Root, Resumes, Candidate, Matrix
<1>3. OneHolder'
    BY DEF IInv, Verify, procs, Go, Shape, Phase, OneHolder, Holds, Resumes, Candidate, Matrix
<1>4. Untold'
    BY DEF IInv, Verify, rootFiles, Go, Shape, Untold, Running, Candidate, Matrix
<1>5. StatusTellsServer'
    BY DEF IInv, Verify, rootFiles, procs, Go, StatusTellsServer
<1> QED BY <1>1, <1>2, <1>3, <1>4, <1>5 DEF IInv

LEMMA InferKeeps ==
    ASSUME NEW p \in Runs, IInv, Infer(p)
    PROVE  IInv'
<1>1. Shape'
    BY DEF IInv, Infer, inputs, procs, Go, Shape, Phase, Root, Resumes, Answer, Verdict,
       Protocol, Report, Candidate, Matrix
<1>2. Phase'
    BY DEF IInv, Infer, Go, Phase, Root, Resumes, Candidate, Matrix
<1>3. OneHolder'
    BY DEF IInv, Infer, Go, Phase, OneHolder, Holds, Resumes, Candidate, Matrix
<1>4. Untold'
    BY DEF IInv, Infer, Go, Untold, Running, Candidate, Matrix
<1>5. StatusTellsServer'
    BY DEF IInv, Infer, StatusTellsServer
<1> QED BY <1>1, <1>2, <1>3, <1>4, <1>5 DEF IInv

LEMMA EndCandidateKeeps ==
    ASSUME NEW p \in Runs, IInv, EndCandidate(p)
    PROVE  IInv'
<1>1. Root(p) \in Roots
    BY DEF IInv, Phase, EndCandidate, Candidate, Matrix
<1>2. /\ status' \in [{"candidate", "judge"} -> [Roots -> [Runs -> Report]]]
      /\ \A j \in {"candidate", "judge"}, r \in Roots, q \in Runs :
            status'[j][r][q] = status[j][r][q] \/ (j = "candidate")
  <2>1. CASE Mark("candidate", p, "complete")
    BY <1>1, <2>1, Marked DEF IInv, Report, EndCandidate
  <2>2. CASE Mark("candidate", p, "failed")
    BY <1>1, <2>2, Marked DEF IInv, Report, EndCandidate
  <2> QED BY <2>1, <2>2 DEF EndCandidate
<1>3. Shape'
    BY <1>1, <1>2 DEF IInv, EndCandidate, inputs, procs, Return, Go, Shape, Own, Candidate,
       Matrix, Ended
<1>4. Phase'
    BY <1>1, <1>2 DEF IInv, EndCandidate, Return, Go, Phase, Root, Resumes, Candidate, Matrix
<1>5. OneHolder'
    BY <1>1, <1>2 DEF IInv, EndCandidate, Return, Go, Phase, OneHolder, Holds, Resumes,
       Candidate, Matrix
<1>6. Untold'
    BY <1>1, <1>2 DEF IInv, EndCandidate, Return, Go, Untold, Running, Candidate, Matrix
<1>7. StatusTellsServer'
    BY <1>1, <1>2 DEF IInv, EndCandidate, Return, StatusTellsServer
<1> QED BY <1>3, <1>4, <1>5, <1>6, <1>7 DEF IInv

LEMMA BeginMatrixKeeps ==
    ASSUME NEW p \in Runs, IInv, BeginMatrix(p)
    PROVE  IInv'
<1>1. Root(p) \in Roots
    BY DEF IInv, Phase, BeginMatrix, Candidate, Matrix
<1>2. /\ status' \in [{"candidate", "judge"} -> [Roots -> [Runs -> Report]]]
      /\ \A j \in {"candidate", "judge"}, r \in Roots, q \in Runs :
            status'[j][r][q] = status[j][r][q] \/ (j = "judge" /\ q = p /\ status'[j][r][q] \in {"starting", "initialized"})
  <2>1. CASE Mark("judge", p, "starting")
    BY <1>1, <2>1, Marked DEF IInv, Report, BeginMatrix
  <2>2. CASE Mark("judge", p, "initialized")
    BY <1>1, <2>2, Marked DEF IInv, Report, BeginMatrix
  <2> QED BY <2>1, <2>2 DEF BeginMatrix
<1>3. /\ pc[p] = "matrix" /\ pc'[p] \in {"spawn", "failed"}
      /\ \A q \in Runs \ {p} : pc'[q] = pc[q]
      /\ pc' \in [Runs -> Own \cup Candidate \cup Matrix \cup Ended]
    BY DEF IInv, Shape, BeginMatrix, Go, Own, Candidate, Matrix, Ended
<1>4. Shape'
    BY <1>1, <1>2, <1>3 DEF IInv, BeginMatrix, inputs, procs, Shape
<1>5. Phase'
    BY <1>1, <1>2, <1>3 DEF IInv, BeginMatrix, Phase, Root, Resumes, Candidate, Matrix
<1>6. OneHolder'
    BY <1>1, <1>2, <1>3 DEF IInv, BeginMatrix, Phase, OneHolder, Holds, Resumes, Own, Matrix
<1>7. Untold'
    BY <1>1, <1>2, <1>3 DEF IInv, BeginMatrix, Untold, Running
<1>8. StatusTellsServer'
    BY <1>1, <1>2, <1>3 DEF IInv, BeginMatrix, StatusTellsServer
<1> QED BY <1>4, <1>5, <1>6, <1>7, <1>8 DEF IInv

LEMMA SpawnKeeps ==
    ASSUME NEW p \in Runs, IInv, Spawn(p)
    PROVE  IInv'
<1>1. Shape'
    BY DEF IInv, Spawn, rootFiles, inputs, procs, Go, Shape, Candidate, Matrix
<1>2. Phase'
    BY DEF IInv, Spawn, rootFiles, Go, Phase, Root, Resumes, Candidate, Matrix
<1>3. OneHolder'
    BY DEF IInv, Spawn, Go, Phase, OneHolder, Holds, Resumes, Matrix
<1>4. Untold'
    BY DEF IInv, Spawn, rootFiles, Go, Untold, Running, Candidate, Matrix
<1>5. StatusTellsServer'
    BY DEF IInv, Spawn, rootFiles, procs, Go, Untold, Running, StatusTellsServer, Own,
       Candidate, Matrix
<1> QED BY <1>1, <1>2, <1>3, <1>4, <1>5 DEF IInv

LEMMA NoteServerKeeps ==
    ASSUME NEW p \in Runs, IInv, NoteServer(p)
    PROVE  IInv'
<1>1. Shape'
    BY DEF IInv, NoteServer, rootFiles, inputs, procs, Go, Shape, Candidate, Matrix
<1>2. Phase'
    BY DEF IInv, NoteServer, rootFiles, Go, Phase, Root, Resumes, Candidate, Matrix
<1>3. OneHolder'
    BY DEF IInv, NoteServer, Go, Phase, OneHolder, Holds, Resumes, Matrix
<1>4. Untold'
    BY DEF IInv, NoteServer, rootFiles, Go, Untold, Running, Candidate, Matrix
<1>5. StatusTellsServer'
    BY DEF IInv, NoteServer, rootFiles, procs, Go, Untold, Running, StatusTellsServer, Own,
       Candidate, Matrix
<1> QED BY <1>1, <1>2, <1>3, <1>4, <1>5 DEF IInv

LEMMA AwaitReadyKeeps ==
    ASSUME NEW p \in Runs, IInv, AwaitReady(p)
    PROVE  IInv'
<1>1. Root(p) \in Roots
    BY DEF IInv, Phase, AwaitReady, Candidate, Matrix
<1>2. /\ status' \in [{"candidate", "judge"} -> [Roots -> [Runs -> Report]]]
      /\ \A j \in {"candidate", "judge"}, r \in Roots, q \in Runs :
            status'[j][r][q] = status[j][r][q] \/ (j = "judge" /\ q = p /\ status'[j][r][q] = "judging")
  <2>1. CASE Mark("judge", p, "judging")
    BY <1>1, <2>1, Marked DEF IInv, Report, AwaitReady
  <2>2. CASE UNCHANGED status
    BY <2>2 DEF IInv, Shape
  <2> QED BY <2>1, <2>2 DEF AwaitReady
<1>3. /\ pc[p] = "waiting" /\ pc'[p] \in {"judging", "cleanupFailed"}
      /\ \A q \in Runs \ {p} : pc'[q] = pc[q]
      /\ pc' \in [Runs -> Own \cup Candidate \cup Matrix \cup Ended]
    BY DEF IInv, Shape, AwaitReady, Go, Own, Candidate, Matrix, Ended
<1>4. Shape'
    BY <1>1, <1>2, <1>3 DEF IInv, AwaitReady, inputs, procs, Shape
<1>5. Phase'
    BY <1>1, <1>2, <1>3 DEF IInv, AwaitReady, Phase, Root, Resumes, Candidate, Matrix
<1>6. OneHolder'
    BY <1>1, <1>2, <1>3 DEF IInv, AwaitReady, Phase, OneHolder, Holds, Resumes, Matrix
<1>7. Untold'
    BY <1>1, <1>2, <1>3 DEF IInv, AwaitReady, Untold, Running, Candidate, Matrix
<1>8. StatusTellsServer'
    BY <1>1, <1>2, <1>3 DEF IInv, AwaitReady, StatusTellsServer
<1> QED BY <1>4, <1>5, <1>6, <1>7, <1>8 DEF IInv

LEMMA JudgeRowsKeeps ==
    ASSUME NEW p \in Runs, IInv, JudgeRows(p)
    PROVE  IInv'
<1>1. Shape'
  <2>1. verdicts' \in [Roots -> {None} \cup Verdict]
    <3>1. \A says \in [Rows -> {"yes", "no", "outage"}] : [says |-> says, judge |-> server[p]] \in Verdict
      BY DEF IInv, Shape, Verdict
    <3>2. \A says \in [Rows -> {"yes", "no"}] : says \in [Rows -> {"yes", "no", "outage"}]
        OBVIOUS
    <3>3. verdicts' = verdicts \/ \E v \in Verdict : verdicts' = [verdicts EXCEPT ![Root(p)] = v]
      BY <3>1, <3>2 DEF JudgeRows
    <3> QED BY <3>3 DEF IInv, Shape
  <2>2. pc' \in [Runs -> Own \cup Candidate \cup Matrix \cup Ended]
    BY DEF IInv, Shape, JudgeRows, Go, Matrix
  <2> QED BY <2>1, <2>2 DEF IInv, Shape, JudgeRows, inputs
<1>2. Phase'
    BY DEF IInv, JudgeRows, Go, Shape, Phase, Root, Resumes, Candidate, Matrix
<1>3. OneHolder'
    BY DEF IInv, JudgeRows, procs, Go, Shape, Phase, OneHolder, Holds, Resumes, Matrix
<1>4. Untold'
    BY DEF IInv, JudgeRows, Go, Shape, Untold, Running, Candidate, Matrix
<1>5. StatusTellsServer'
    BY DEF IInv, JudgeRows, StatusTellsServer
<1> QED BY <1>1, <1>2, <1>3, <1>4, <1>5 DEF IInv

LEMMA WriteProtocolKeeps ==
    ASSUME NEW p \in Runs, IInv, WriteProtocol(p)
    PROVE  IInv'
<1>1. Root(p) \in Roots
    BY DEF IInv, Phase, WriteProtocol, Matrix
<1>2. weights["judge"] \in Nat
    BY DEF IInv, Shape
<1>3. \/ UNCHANGED protocol
      \/ \E b \in Protocol : protocol' = [protocol EXCEPT ![Root(p)] = b]
    BY <1>2 DEF WriteProtocol, Protocol
<1>4. /\ protocol' \in [Roots -> {None} \cup Protocol]
      /\ \A r \in Roots : protocol'[r] = protocol[r] \/ protocol'[r] \in Protocol
      /\ UNCHANGED protocol \/ protocol'[Root(p)] \in Protocol
  <2>1. ASSUME NEW b \in Protocol, protocol' = [protocol EXCEPT ![Root(p)] = b]
        PROVE  /\ protocol' \in [Roots -> {None} \cup Protocol]
               /\ \A r \in Roots : protocol'[r] = protocol[r] \/ protocol'[r] \in Protocol
               /\ protocol'[Root(p)] \in Protocol
      BY <1>1, <2>1 DEF IInv, Shape
  <2>2. CASE UNCHANGED protocol
    BY <2>2 DEF IInv, Shape
  <2> QED BY <1>3, <2>1, <2>2
<1>5. /\ pc[p] = "judged" /\ pc'[p] \in {"cleanup", "cleanupFailed"}
      /\ \A q \in Runs \ {p} : pc'[q] = pc[q]
      /\ pc' \in [Runs -> Own \cup Candidate \cup Matrix \cup Ended]
      /\ pc'[p] = "cleanup" => protocol'[Root(p)] \in Protocol
  <2>1. CASE Go(p, "cleanupFailed")
    BY <2>1 DEF IInv, Shape, WriteProtocol, Go, Matrix
  <2>2. CASE protocol' = [protocol EXCEPT ![Root(p)] = [judge |-> weights["judge"], controls |-> FALSE]] /\ Go(p, "cleanup")
    <3>1. protocol'[Root(p)] \in Protocol
      BY <1>1, <1>2, <2>2 DEF IInv, Shape, Protocol
    <3> QED BY <2>2, <3>1 DEF IInv, Shape, WriteProtocol, Go, Matrix
  <2> QED BY <2>1, <2>2 DEF WriteProtocol
<1>6. Shape'
    BY <1>1, <1>4, <1>5 DEF IInv, WriteProtocol, inputs, procs, Shape, Candidate, Matrix
<1>7. Phase'
    BY <1>1, <1>4, <1>5 DEF IInv, WriteProtocol, Phase, Root, Resumes, Candidate, Matrix
<1>8. OneHolder'
    BY <1>1, <1>4, <1>5 DEF IInv, WriteProtocol, Phase, OneHolder, Holds, Resumes, Matrix
<1>9. Untold'
    BY <1>1, <1>4, <1>5 DEF IInv, WriteProtocol, Untold, Running, Candidate, Matrix
<1>10. StatusTellsServer'
    BY <1>1, <1>4, <1>5 DEF IInv, WriteProtocol, StatusTellsServer
<1> QED BY <1>6, <1>7, <1>8, <1>9, <1>10 DEF IInv

LEMMA CleanupKeeps ==
    ASSUME NEW p \in Runs, IInv, Cleanup(p)
    PROVE  IInv'
<1>1. Root(p) \in Roots
    BY DEF IInv, Phase, Cleanup, Candidate, Matrix
<1>2. /\ status' \in [{"candidate", "judge"} -> [Roots -> [Runs -> Report]]]
      /\ \A j \in {"candidate", "judge"}, r \in Roots, q \in Runs :
            status'[j][r][q] = status[j][r][q] \/ (j = "judge" /\ q = p /\ ~(known[p] /\ server[p] # None))
  <2>1. CASE Mark("judge", p, "complete")
    BY <1>1, <2>1, Marked DEF IInv, Report, Cleanup
  <2>2. CASE Mark("judge", p, "failed")
    BY <1>1, <2>2, Marked DEF IInv, Report, Cleanup
  <2>3. CASE UNCHANGED status
    BY <2>3 DEF IInv, Shape
  <2> QED BY <2>1, <2>2, <2>3 DEF Cleanup
<1>3. /\ pc[p] \in {"cleanup", "cleanupFailed"} /\ pc'[p] \in {pc[p], "controls", "failed", "killed"}
      /\ pc'[p] = "controls" => pc[p] = "cleanup"
      /\ pc'[p] = pc[p] => known[p] /\ server[p] # None
      /\ \A q \in Runs \ {p} : pc'[q] = pc[q]
      /\ pc' \in [Runs -> Own \cup Candidate \cup Matrix \cup Ended]
    BY DEF IInv, Shape, Cleanup, Return, Go, Own, Candidate, Matrix, Ended
<1>4. Shape'
    BY <1>1, <1>2, <1>3 DEF IInv, Cleanup, inputs, procs, Shape, Candidate, Matrix
<1>5. Phase'
    BY <1>1, <1>2, <1>3 DEF IInv, Cleanup, Shape, Phase, Root, Resumes, Candidate, Matrix
<1>6. OneHolder'
  <2>1. \A q \in Runs : server'[q] \in {server[q], None}
    BY DEF IInv, Shape, Cleanup
  <2>2. \A q \in Runs : Holds(q)' => Holds(q)
    BY <1>3, <2>1 DEF IInv, Phase, Cleanup, Holds, Resumes, Own, Candidate, Matrix
  <2> QED BY <2>2 DEF IInv, OneHolder
<1>7. Untold'
    BY <1>1, <1>2, <1>3 DEF IInv, Cleanup, Untold, Running, Candidate, Matrix
<1>8. StatusTellsServer'
    BY <1>1, <1>2, <1>3 DEF IInv, Cleanup, Shape, StatusTellsServer
<1> QED BY <1>4, <1>5, <1>6, <1>7, <1>8 DEF IInv

LEMMA BindControlsKeeps ==
    ASSUME NEW p \in Runs, IInv, BindControls(p)
    PROVE  IInv'
<1>1. Root(p) \in Roots /\ protocol[Root(p)] \in Protocol
    BY DEF IInv, Phase, BindControls, Candidate, Matrix
<1>2. \E b \in Protocol : protocol' = [protocol EXCEPT ![Root(p)] = b]
  <2>1. [protocol[Root(p)] EXCEPT !.controls = TRUE] \in Protocol
    BY <1>1 DEF Protocol
  <2> QED BY <1>1, <2>1 DEF BindControls, IInv, Shape
<1>3. Shape'
    BY <1>1, <1>2 DEF IInv, BindControls, inputs, procs, Go, Shape, Own, Candidate, Matrix, Ended
<1>4. Phase'
    BY <1>1, <1>2 DEF IInv, BindControls, Go, Phase, Root, Resumes, Candidate, Matrix
<1>5. OneHolder'
    BY <1>1, <1>2 DEF IInv, BindControls, Go, Phase, OneHolder, Holds, Resumes, Own, Matrix
<1>6. Untold'
    BY <1>1, <1>2 DEF IInv, BindControls, Go, Untold, Running, Candidate, Matrix
<1>7. StatusTellsServer'
    BY <1>1, <1>2 DEF IInv, BindControls, StatusTellsServer
<1> QED BY <1>3, <1>4, <1>5, <1>6, <1>7 DEF IInv

LEMMA SealKeeps ==
    ASSUME NEW p \in Runs, IInv, Seal(p)
    PROVE  IInv'
<1>1. Shape'
    BY DEF IInv, Seal, rootFiles, inputs, procs, Go, Shape, Own, Candidate, Matrix, Ended
<1>2. Phase'
    BY DEF IInv, Seal, rootFiles, Go, Shape, Phase, Root, Resumes, Candidate, Matrix
<1>3. OneHolder'
    BY DEF IInv, Seal, procs, Go, Shape, Phase, OneHolder, Holds, Resumes, Own, Matrix
<1>4. Untold'
  <2>1. pc[p] = "seal" /\ status' = status
    BY DEF Seal, rootFiles
  <2>2. pc' \in {[pc EXCEPT ![p] = "link"], [pc EXCEPT ![p] = "failed"]}
    BY DEF Seal, Go
  <2>3. \A q \in Runs : pc'[q] = pc[q] \/ pc'[q] \notin Running
    BY <2>2 DEF IInv, Shape, Running, Candidate, Matrix
  <2> QED BY <2>1, <2>3 DEF IInv, Untold
<1>5. StatusTellsServer'
    BY DEF IInv, Seal, rootFiles, procs, Go, StatusTellsServer
<1> QED BY <1>1, <1>2, <1>3, <1>4, <1>5 DEF IInv

LEMMA LinkKeeps ==
    ASSUME NEW p \in Runs, IInv, Link(p)
    PROVE  IInv'
<1>1. /\ pc[p] = "link" /\ pc'[p] \in {"ok", "failed"}
      /\ \A q \in Runs \ {p} : pc'[q] = pc[q]
      /\ pc' \in [Runs -> Own \cup Candidate \cup Matrix \cup Ended]
    BY DEF IInv, Shape, Link, Go, Own, Candidate, Matrix, Ended
<1>2. Shape'
    BY <1>1 DEF IInv, Link, inputs, procs, Shape
<1>3. Phase'
    BY <1>1 DEF IInv, Link, Phase, Root, Resumes, Candidate, Matrix
<1>4. OneHolder'
    BY <1>1 DEF IInv, Link, Phase, OneHolder, Holds, Resumes, Own, Matrix
<1>5. Untold'
    BY <1>1 DEF IInv, Link, Untold, Running, Candidate, Matrix
<1>6. StatusTellsServer'
    BY <1>1 DEF IInv, Link, StatusTellsServer
<1> QED BY <1>2, <1>3, <1>4, <1>5, <1>6 DEF IInv

LEMMA FailKeeps ==
    ASSUME NEW p \in Runs, IInv, Fail(p)
    PROVE  IInv'
<1>1. Shape'
    BY DEF IInv, Fail, rootFiles, inputs, procs, Go, Shape, Own, Candidate, Matrix, Ended
<1>2. Phase'
    BY DEF IInv, Fail, rootFiles, procs, Go, Phase, Root, Resumes, Own, Candidate, Matrix
<1>3. OneHolder'
    BY DEF IInv, Fail, Go, Phase, OneHolder, Holds, Resumes, Matrix
<1>4. Untold'
    BY DEF IInv, Fail, rootFiles, Go, Untold, Running, Candidate, Matrix
<1>5. StatusTellsServer'
    BY DEF IInv, Fail, rootFiles, procs, Go, StatusTellsServer
<1> QED BY <1>1, <1>2, <1>3, <1>4, <1>5 DEF IInv

LEMMA KillOrchestratorKeeps ==
    ASSUME NEW p \in Runs, IInv, KillOrchestrator(p)
    PROVE  IInv'
<1>1. Shape'
    BY DEF IInv, KillOrchestrator, Fault, rootFiles, inputs, procs, Shape, Candidate, Matrix
<1>2. Phase'
    BY DEF IInv, KillOrchestrator, Fault, rootFiles, Phase, Root, Resumes, Candidate, Matrix
<1>3. OneHolder'
    BY DEF IInv, KillOrchestrator, Fault, Phase, OneHolder, Holds, Resumes, Matrix
<1>4. Untold'
    BY DEF IInv, KillOrchestrator, Fault, rootFiles, Untold, Running
<1>5. StatusTellsServer'
    BY DEF IInv, KillOrchestrator, Fault, rootFiles, procs, StatusTellsServer
<1> QED BY <1>1, <1>2, <1>3, <1>4, <1>5 DEF IInv

LEMMA KillChildKeeps ==
    ASSUME NEW p \in Runs, IInv, KillChild(p)
    PROVE  IInv'
<1>1. Shape'
    BY DEF IInv, KillChild, Fault, rootFiles, inputs, procs, Return, Go, Shape, Own,
       Candidate, Matrix, Ended
<1>2. Phase'
    BY DEF IInv, KillChild, Fault, rootFiles, Return, Go, Phase, Root, Resumes, Candidate, Matrix
<1>3. OneHolder'
    BY DEF IInv, KillChild, Fault, Return, Go, Phase, OneHolder, Holds, Resumes, Matrix
<1>4. Untold'
    BY DEF IInv, KillChild, Fault, rootFiles, Return, Go, Untold, Running
<1>5. StatusTellsServer'
    BY DEF IInv, KillChild, Fault, rootFiles, procs, Return, Go, StatusTellsServer
<1> QED BY <1>1, <1>2, <1>3, <1>4, <1>5 DEF IInv

LEMMA SignalMatrixKeeps ==
    ASSUME NEW p \in Runs, IInv, SignalMatrix(p)
    PROVE  IInv'
<1>1. Shape'
    BY DEF IInv, SignalMatrix, Fault, rootFiles, inputs, procs, Go, Shape, Candidate, Matrix
<1>2. Phase'
    BY DEF IInv, SignalMatrix, Fault, rootFiles, Go, Phase, Root, Resumes, Candidate, Matrix
<1>3. OneHolder'
    BY DEF IInv, SignalMatrix, Fault, Go, Phase, OneHolder, Holds, Resumes, Matrix
<1>4. Untold'
    BY DEF IInv, SignalMatrix, Fault, rootFiles, Go, Untold, Running
<1>5. StatusTellsServer'
    BY DEF IInv, SignalMatrix, Fault, rootFiles, procs, Go, StatusTellsServer
<1> QED BY <1>1, <1>2, <1>3, <1>4, <1>5 DEF IInv

LEMMA ServerEndsKeeps ==
    ASSUME NEW p \in Runs, IInv, ServerEnds(p)
    PROVE  IInv'
<1>1. Shape'
    BY DEF IInv, ServerEnds, Fault, rootFiles, inputs, procs, Shape, Candidate, Matrix
<1>2. Phase'
    BY DEF IInv, ServerEnds, Fault, rootFiles, Phase, Root, Resumes, Candidate, Matrix
<1>3. OneHolder'
    BY DEF IInv, ServerEnds, Fault, Phase, OneHolder, Holds, Resumes, Matrix
<1>4. Untold'
    BY DEF IInv, ServerEnds, Fault, rootFiles, Untold, Running
<1>5. StatusTellsServer'
    BY DEF IInv, ServerEnds, Fault, rootFiles, procs, StatusTellsServer
<1> QED BY <1>1, <1>2, <1>3, <1>4, <1>5 DEF IInv

LEMMA ChangeKeeps ==
    ASSUME IInv, Change
    PROVE  IInv'
<1>1. Shape'
  <2>1. UNCHANGED <<rootFiles, procs>>
    BY DEF Change
  <2>2. weights' = weights \/ \E m \in DOMAIN weights : weights' = [weights EXCEPT ![m] = @ + 1]
    BY DEF Change
  <2>3. weights' \in [Roots \cup {"judge"} -> Nat]
    <3>1. weights \in [Roots \cup {"judge"} -> Nat]
      BY DEF IInv, Shape
    <3>2. ASSUME NEW m \in DOMAIN weights, weights' = [weights EXCEPT ![m] = @ + 1]
          PROVE  weights' \in [Roots \cup {"judge"} -> Nat]
      <4>1. weights[m] + 1 \in Nat
        BY <3>1
      <4> QED BY <3>1, <3>2, <4>1
    <3> QED BY <2>2, <3>1, <3>2
  <2> QED BY <2>1, <2>3 DEF IInv, rootFiles, procs, Shape
<1>2. Phase'
    BY DEF IInv, Change, rootFiles, procs, Phase, Root, Resumes, Candidate, Matrix
<1>3. OneHolder'
    BY DEF IInv, Change, procs, Shape, Phase, OneHolder, Holds, Resumes, Matrix
<1>4. Untold'
    BY DEF IInv, Change, rootFiles, procs, Phase, Untold, Running, Root
<1>5. StatusTellsServer'
    BY DEF IInv, Change, rootFiles, procs, StatusTellsServer
<1> QED BY <1>1, <1>2, <1>3, <1>4, <1>5 DEF IInv

(***************************************************************************)
(* The invariant and what follows from it.                                 *)
(***************************************************************************)
LEMMA StepKeeps == IInv /\ [Next]_vars => IInv'
<1> SUFFICES ASSUME IInv, [Next]_vars PROVE IInv'
    OBVIOUS
<1>1. ASSUME NEW p \in Runs, NEW r \in Roots, LookFresh(p, r) \/ LookComplete(p, r) PROVE IInv'
    BY <1>1, LookFreshKeeps, LookCompleteKeeps
<1>2. ASSUME NEW p \in Runs, Step(p) PROVE IInv'
    BY <1>2, TakeLeaseKeeps, IdentifyKeeps, LaunchKeeps, VerifyKeeps, InferKeeps, EndCandidateKeeps,
       BeginMatrixKeeps, SpawnKeeps, NoteServerKeeps, AwaitReadyKeeps, JudgeRowsKeeps,
       WriteProtocolKeeps, CleanupKeeps, BindControlsKeeps, SealKeeps, LinkKeeps DEF Step
<1>3. ASSUME NEW p \in Runs,
             Fail(p) \/ KillOrchestrator(p) \/ KillChild(p) \/ SignalMatrix(p) \/ ServerEnds(p)
      PROVE  IInv'
    BY <1>3, FailKeeps, KillOrchestratorKeeps, KillChildKeeps, SignalMatrixKeeps, ServerEndsKeeps
<1>4. CASE UNCHANGED vars
    BY <1>4 DEF vars, rootFiles, inputs, procs, IInv, Shape, Phase, OneHolder, Untold,
       StatusTellsServer, Holds, Root, Resumes
<1> QED BY <1>1, <1>2, <1>3, <1>4, ChangeKeeps DEF Next

(* The inductive invariant holds in every reachable state.                 *)
THEOREM Inductive == Spec => []IInv
<1> QED BY InitIsInductive, StepKeeps, PTL DEF Spec

(* Every variable keeps its type, and no candidate gets one pass too many. *)
THEOREM TypeCorrect == Spec => []TypeOK
<1>1. IInv => TypeOK
    BY DEF IInv, Shape, TypeOK, Answer, Verdict, Protocol, Report
<1> QED BY <1>1, Inductive, PTL

(* The descriptor of the GPU lease passes from the orchestrator to its     *)
(* children and to their servers, none of which closes it: two model       *)
(* servers never share the GPUs, whoever was killed.                       *)
THEOREM ServersExclude == Spec => []OneServer
<1>1. IInv => OneServer
    BY DEF IInv, OneHolder, OneServer, Holds
<1> QED BY <1>1, Inductive, PTL

(* A judge's status that says its server is stopped is true, but for a     *)
(* server whose process id the trap did not know.                          *)
THEOREM StatusIsTrue == Spec => []StatusTellsServer
<1>1. IInv => StatusTellsServer
    BY DEF IInv
<1> QED BY <1>1, Inductive, PTL

(***************************************************************************)
(* What an authority stands for.                                           *)
(***************************************************************************)
Lifecycles == {"candidate", "judge"}

\* The places of an execution before and after it has made its attempt.
Early == {"none", "look", "identify", "launch"}
Launched == {"identifyJudge", "matrix", "controls", "seal", "link"} \cup Candidate \cup Matrix

Authority == [mode : {"execute", "resume"}, candidate : ({None} \cup Nat) \X Nat, judge : ({None} \cup Nat) \X Nat,
              answers : [Rows -> Answer], verdicts : Verdict, controls : BOOLEAN]
Recorded ==
    /\ seen \in [Runs -> [candidate : {None} \cup Nat, judge : {None} \cup Nat,
                          receipt : {None} \cup Authority]]
    /\ aggregate \in [Roots -> {None} \cup Authority]

(* An attempt is of an execution that was launched on its root, and judges *)
(* after it; nobody goes on from there without one.                        *)
Attempted(p) ==
    /\ \A k \in Lifecycles, r \in Roots : status[k][r][p] # None =>
           /\ Root(p) = r /\ ~Resumes(p) /\ pc[p] \notin Early
           /\ status["candidate"][r][p] # None
    /\ pc[p] \in Launched /\ ~Resumes(p) => status["candidate"][Root(p)][p] # None

(* Which lifecycles have ended well, by place.                             *)
Finished(p) ==
    /\ pc[p] \in Candidate => \A r \in Roots : status["candidate"][r][p] # "complete"
    /\ ~Resumes(p) =>
        /\ pc[p] \in Launched \ Candidate => status["candidate"][Root(p)][p] = "complete"
        /\ pc[p] \in {"controls", "seal", "link"} => status["judge"][Root(p)][p] = "complete"
        /\ pc[p] \in {"seal", "link"} => protocol[Root(p)] \in Protocol

(* A version that was loaded or that answered lies between the one of the  *)
(* identification and the one of now, for versions are counted.            *)
Between(before, version, now) ==
    version \in Nat => before \in Nat /\ before <= version /\ version <= now

LEMMA BetweenGrows ==
    ASSUME NEW before, NEW version, NEW now \in Nat, NEW later \in Nat,
           Between(before, version, now), now <= later
    PROVE  Between(before, version, later)
<1> QED BY DEF Between

Identified(p) ==
    ~Resumes(p) =>
        /\ pc[p] = "launch" =>
              /\ seen[p].candidate \in Nat
              /\ Between(seen[p].candidate, seen[p].candidate, weights[Root(p)])
        /\ pc[p] \in {"matrix", "spawn"} =>
              seen[p].judge \in Nat /\ Between(seen[p].judge, seen[p].judge, weights["judge"])
        /\ pc[p] \in Candidate => Between(seen[p].candidate, server[p], weights[Root(p)])
        /\ pc[p] \in {"spawned", "waiting", "judging"} =>
              Between(seen[p].judge, server[p], weights["judge"])

(* A root with the attempt of p alone has the work of p and of no other.   *)
Fresh(r) == \A q \in Runs : status["candidate"][r][q] = None
Sole(r, p) == \A q \in Runs : status["candidate"][r][q] # None <=> q = p

Untried(r) == Fresh(r) => answers[r] = None /\ verdicts[r] = None /\ aggregate[r] = None

SoleWork(r, p) ==
    Sole(r, p) =>
        /\ answers[r] # None => \A row \in Rows :
              Between(seen[p].candidate, answers[r][row], weights[r])
        /\ verdicts[r] # None => Between(seen[p].judge, verdicts[r].judge, weights["judge"])
        /\ pc[p] \in Candidate \cup {"identifyJudge"} => verdicts[r] = None
        /\ status["candidate"][r][p] = "complete" \/ pc[p] = "candidateDone" => Complete(r)
        /\ pc[p] \in {"seal", "link"} => protocol[r].controls

(* A receipt of the work of p on r.                                        *)
Whole(receipt, r, p) ==
    /\ \A k \in Lifecycles : status[k][r][p] = "complete"
    /\ receipt.answers = answers[r] /\ receipt.verdicts = verdicts[r]
    /\ \A row \in Rows : receipt.answers[row] \notin {None, Error}
    /\ receipt.mode = "execute" =>
        /\ \A row \in Rows : Named(r, receipt.candidate, receipt.answers[row])
        /\ receipt.verdicts.judge = None \/ Named("judge", receipt.judge, receipt.verdicts.judge)
        /\ receipt.controls

Sealed(r, p) ==
    Sole(r, p) =>
        /\ \A q \in Runs : pc[q] = "link" /\ Root(q) = r => Whole(seen[q].receipt, r, p)
        /\ aggregate[r] # None => Whole(aggregate[r], r, p)

\* Who is about to link has a root on which there was an attempt.
Linkable(q) == pc[q] = "link" => ~Fresh(Root(q))

FewAttempts == \A r \in Roots : IsFiniteSet(Attempts("candidate", r))

AInv ==
    /\ Recorded /\ FewAttempts
    /\ \A p \in Runs : Attempted(p) /\ Finished(p) /\ Identified(p) /\ Linkable(p)
    /\ \A r \in Roots : Untried(r) /\ \A p \in Runs : SoleWork(r, p) /\ Sealed(r, p)

LEMMA RecordedKeeps ==
    ASSUME IInv, Recorded, [Next]_vars
    PROVE  Recorded'
<1> USE DEF IInv, rootFiles, inputs, procs
<1>1. ASSUME NEW p \in Runs, NEW s \in Roots, LookFresh(p, s) PROVE Recorded'
    BY <1>1 DEF LookFresh, Recorded
<1>2. ASSUME NEW p \in Runs, NEW s \in Roots, LookComplete(p, s) PROVE Recorded'
    BY <1>2 DEF LookComplete, Recorded
<1>3. ASSUME NEW p \in Runs, TakeLease(p) PROVE Recorded'
    BY <1>3 DEF TakeLease, Recorded
<1>4. ASSUME NEW p \in Runs, Identify(p) PROVE Recorded'
  <2>1. CASE pc[p] = "identify" /\ seen' = [seen EXCEPT ![p].candidate = weights[Root(p)]]
    <3>1. weights[Root(p)] \in Nat
      BY <2>1 DEF Shape, Phase
    <3> QED
      BY <1>4, <2>1, <3>1 DEF Identify, Recorded
  <2>2. CASE seen' = [seen EXCEPT ![p].judge = weights["judge"]]
    <3>1. weights["judge"] \in Nat
      BY DEF Shape
    <3> QED
      BY <1>4, <2>2, <3>1 DEF Identify, Recorded
  <2> QED
    BY <1>4, <2>1, <2>2 DEF Identify
<1>5. ASSUME NEW p \in Runs, Launch(p) PROVE Recorded'
    BY <1>5 DEF Launch, Go, Recorded
<1>6. ASSUME NEW p \in Runs, Verify(p) PROVE Recorded'
    BY <1>6 DEF Verify, Recorded
<1>7. ASSUME NEW p \in Runs, Infer(p) PROVE Recorded'
    BY <1>7 DEF Infer, Recorded
<1>8. ASSUME NEW p \in Runs, EndCandidate(p) PROVE Recorded'
    BY <1>8 DEF EndCandidate, Go, Recorded
<1>9. ASSUME NEW p \in Runs, BeginMatrix(p) PROVE Recorded'
    BY <1>9 DEF BeginMatrix, Recorded
<1>10. ASSUME NEW p \in Runs, Spawn(p) PROVE Recorded'
    BY <1>10 DEF Spawn, Recorded
<1>11. ASSUME NEW p \in Runs, NoteServer(p) PROVE Recorded'
    BY <1>11 DEF NoteServer, Recorded
<1>12. ASSUME NEW p \in Runs, AwaitReady(p) PROVE Recorded'
    BY <1>12 DEF AwaitReady, Recorded
<1>13. ASSUME NEW p \in Runs, JudgeRows(p) PROVE Recorded'
    BY <1>13 DEF JudgeRows, Recorded
<1>14. ASSUME NEW p \in Runs, WriteProtocol(p) PROVE Recorded'
    BY <1>14 DEF WriteProtocol, Recorded
<1>15. ASSUME NEW p \in Runs, Cleanup(p) PROVE Recorded'
    BY <1>15 DEF Cleanup, Go, Recorded
<1>16. ASSUME NEW p \in Runs, BindControls(p) PROVE Recorded'
    BY <1>16 DEF BindControls, Recorded
<1>17. ASSUME NEW p \in Runs, Seal(p) PROVE Recorded'
  <2>1. CASE UNCHANGED seen
    BY <1>17, <2>1 DEF Seal, Recorded
  <2>2. CASE Sealable(p) /\ seen' = [seen EXCEPT ![p].receipt = Receipt(p)]
    <3>1. Root(p) \in Roots
      BY <1>17 DEF Seal, Phase
    <3>2. /\ answers[Root(p)] \in [Rows -> Answer] /\ verdicts[Root(p)] \in Verdict
          /\ protocol[Root(p)] \in Protocol
      BY <2>2, <3>1 DEF Sealable, SameRows, ProtocolHolds, Shape
    <3>3. /\ <<seen[p].candidate, weights[Root(p)]>> \in ({None} \cup Nat) \X Nat
          /\ <<seen[p].judge, weights["judge"]>> \in ({None} \cup Nat) \X Nat
      BY <3>1 DEF Recorded, Shape
    <3>4. protocol[Root(p)].controls \in BOOLEAN /\ op[p].mode \in {"execute", "resume"}
      BY <3>2 DEF Shape, Protocol
    <3>5. Receipt(p) \in Authority
      BY <3>2, <3>3, <3>4 DEF Receipt, Authority
    <3> QED
      BY <1>17, <2>2, <3>5 DEF Seal, Recorded
  <2> QED
    BY <1>17, <2>1, <2>2 DEF Seal
<1>18. ASSUME NEW p \in Runs, Link(p) PROVE Recorded'
    BY <1>18 DEF Link, Recorded, Phase
<1>19. ASSUME NEW p \in Runs, Fail(p) PROVE Recorded'
    BY <1>19 DEF Fail, Go, Recorded
<1>20. ASSUME NEW p \in Runs, KillOrchestrator(p) PROVE Recorded'
    BY <1>20 DEF KillOrchestrator, Recorded
<1>21. ASSUME NEW p \in Runs, KillChild(p) PROVE Recorded'
    BY <1>21 DEF KillChild, Return, Recorded
<1>22. ASSUME NEW p \in Runs, SignalMatrix(p) PROVE Recorded'
    BY <1>22 DEF SignalMatrix, Recorded
<1>23. ASSUME NEW p \in Runs, ServerEnds(p) PROVE Recorded'
    BY <1>23 DEF ServerEnds, Recorded
<1>24. CASE Change
    BY <1>24 DEF Change, Recorded
<1>25. CASE UNCHANGED vars
    BY <1>25 DEF vars, Recorded
<1> QED BY <1>1, <1>2, <1>3, <1>4, <1>5, <1>6, <1>7, <1>8, <1>9, <1>10, <1>11, <1>12, <1>13, <1>14,
       <1>15, <1>16, <1>17, <1>18, <1>19, <1>20, <1>21, <1>22, <1>23, <1>24, <1>25 DEF Next, Step

(* A step is one of one process, or a change from outside.                 *)
Acts(p) ==
    \/ \E r \in Roots : LookFresh(p, r) \/ LookComplete(p, r)
    \/ Step(p) \/ Fail(p)
    \/ KillOrchestrator(p) \/ KillChild(p) \/ SignalMatrix(p) \/ ServerEnds(p)

Rests(q) ==
    /\ op'[q] = op[q] /\ pc'[q] = pc[q] /\ server'[q] = server[q] /\ seen'[q] = seen[q]
    /\ \A k \in Lifecycles, r \in Roots : status'[k][r][q] = status[k][r][q]

(* All that a mark changes.                                                *)
OnlyMarked(k, p, s) ==
    \A j \in Lifecycles, r \in Roots, q \in Runs :
        status'[j][r][q] = IF j = k /\ r = Root(p) /\ q = p THEN s ELSE status[j][r][q]

LEMMA MarkedOnly ==
    ASSUME Shape, NEW k \in Lifecycles, NEW p \in Runs, Root(p) \in Roots,
           NEW s \in Report, Mark(k, p, s)
    PROVE  OnlyMarked(k, p, s)
BY Marked DEF OnlyMarked, Lifecycles

LEMMA OthersRest ==
    ASSUME IInv, Recorded, NEW p \in Runs, Acts(p)
    PROVE  \A q \in Runs \ {p} : Rests(q)
<1> DEFINE G == \A q \in Runs \ {p} : Rests(q)
<1> SUFFICES G
    OBVIOUS
<1> USE DEF IInv, rootFiles, inputs, procs
<1>1. ASSUME NEW s \in Roots, LookFresh(p, s) PROVE G
    BY <1>1 DEF LookFresh, Go, Shape, Recorded, Rests, Lifecycles
<1>2. ASSUME NEW s \in Roots, LookComplete(p, s) PROVE G
    BY <1>2 DEF LookComplete, Go, Rests
<1>3. CASE TakeLease(p)
    BY <1>3 DEF TakeLease, Go, Rests
<1>4. CASE Identify(p)
    BY <1>4 DEF Identify, Go, Shape, Recorded, Rests
<1>5. CASE Launch(p)
  <2>1. Root(p) \in Roots /\ ~Resumes(p)
    BY <1>5 DEF Launch, Phase, Candidate, Matrix
  <2>2. CASE Mark("candidate", p, "running")
    <3>1. OnlyMarked("candidate", p, "running")
      BY <2>1, <2>2, MarkedOnly DEF Report, Lifecycles
    <3> QED
      BY <1>5, <2>1, <2>2, <3>1 DEF Launch, Go, Shape, Rests, OnlyMarked
  <2> QED
    BY <1>5, <2>2 DEF Launch
<1>6. CASE Verify(p)
    BY <1>6 DEF Verify, Go, Shape, Recorded, Rests, Lifecycles
<1>7. CASE Infer(p)
    BY <1>7 DEF Infer, Go, Shape, Rests
<1>8. CASE EndCandidate(p)
  <2>1. Root(p) \in Roots /\ ~Resumes(p)
    BY <1>8 DEF EndCandidate, Phase, Candidate
  <2>2. CASE Mark("candidate", p, "complete")
    <3>1. OnlyMarked("candidate", p, "complete")
      BY <2>1, <2>2, MarkedOnly DEF Report, Lifecycles
    <3> QED
      BY <1>8, <2>1, <2>2, <3>1 DEF EndCandidate, Return, Go, Rests, OnlyMarked
  <2>3. CASE Mark("candidate", p, "failed")
    <3>1. OnlyMarked("candidate", p, "failed")
      BY <2>1, <2>3, MarkedOnly DEF Report, Lifecycles
    <3> QED
      BY <1>8, <2>1, <2>3, <3>1 DEF EndCandidate, Return, Go, Rests, OnlyMarked
  <2> QED
    BY <1>8, <2>2, <2>3 DEF EndCandidate
<1>9. CASE BeginMatrix(p)
  <2>1. Root(p) \in Roots /\ ~Resumes(p)
    BY <1>9 DEF BeginMatrix, Phase, Candidate, Matrix
  <2>2. CASE Mark("judge", p, "starting")
    <3>1. OnlyMarked("judge", p, "starting")
      BY <2>1, <2>2, MarkedOnly DEF Report, Lifecycles
    <3> QED
      BY <1>9, <2>1, <2>2, <3>1 DEF BeginMatrix, Go, Shape, Rests, OnlyMarked
  <2>3. CASE Mark("judge", p, "initialized")
    <3>1. OnlyMarked("judge", p, "initialized")
      BY <2>1, <2>3, MarkedOnly DEF Report, Lifecycles
    <3> QED
      BY <1>9, <2>1, <2>3, <3>1 DEF BeginMatrix, Go, Shape, Rests, OnlyMarked
  <2> QED
    BY <1>9, <2>2, <2>3 DEF BeginMatrix
<1>10. CASE Spawn(p)
    BY <1>10 DEF Spawn, Go, Shape, Recorded, Rests, Lifecycles
<1>11. CASE NoteServer(p)
    BY <1>11 DEF NoteServer, Go, Rests
<1>12. CASE AwaitReady(p)
  <2>1. Root(p) \in Roots /\ ~Resumes(p)
    BY <1>12 DEF AwaitReady, Phase, Matrix
  <2>2. CASE Mark("judge", p, "judging")
    <3>1. OnlyMarked("judge", p, "judging")
      BY <2>1, <2>2, MarkedOnly, ZoomAssumption DEF Report, Lifecycles
    <3> QED
      BY <1>12, <2>1, <2>2, <3>1, ZoomAssumption DEF AwaitReady, Go, Shape, Rests, Lifecycles,
         OnlyMarked
  <2>3. CASE UNCHANGED status
    BY <1>12, <2>1, <2>3 DEF AwaitReady, Go, Shape, Rests
  <2> QED
    BY <1>12, <2>2, <2>3 DEF AwaitReady
<1>13. CASE JudgeRows(p)
    BY <1>13 DEF JudgeRows, Go, Shape, Recorded, Rests, Lifecycles
<1>14. CASE WriteProtocol(p)
    BY <1>14 DEF WriteProtocol, Go, Shape, Rests
<1>15. CASE Cleanup(p)
  <2>1. Root(p) \in Roots /\ ~Resumes(p)
    BY <1>15 DEF Cleanup, Phase, Candidate, Matrix
  <2>2. CASE Mark("judge", p, "complete")
    <3>1. OnlyMarked("judge", p, "complete")
      BY <2>1, <2>2, MarkedOnly, ZoomAssumption DEF Report, Lifecycles
    <3> QED
      BY <1>15, <2>1, <2>2, <3>1, ZoomAssumption DEF Cleanup, Return, Go, Shape, Recorded, Rests,
         Lifecycles, OnlyMarked
  <2>3. CASE Mark("judge", p, "failed")
    <3>1. OnlyMarked("judge", p, "failed")
      BY <2>1, <2>3, MarkedOnly, ZoomAssumption DEF Report, Lifecycles
    <3> QED
      BY <1>15, <2>1, <2>3, <3>1, ZoomAssumption DEF Cleanup, Return, Go, Shape, Recorded, Rests,
         Lifecycles, OnlyMarked
  <2>4. CASE UNCHANGED status
    BY <1>15, <2>1, <2>4 DEF Cleanup, Return, Go, Shape, Rests
  <2> QED
    BY <1>15, <2>2, <2>3, <2>4 DEF Cleanup
<1>16. CASE BindControls(p)
    BY <1>16 DEF BindControls, Go, Shape, Recorded, Rests, Lifecycles
<1>17. CASE Seal(p)
    BY <1>17 DEF Seal, Go, Shape, Recorded, Rests
<1>18. CASE Link(p)
    BY <1>18 DEF Link, Go, Shape, Recorded, Rests
<1>19. CASE Fail(p)
    BY <1>19 DEF Fail, Go, Shape, Rests
<1>20. CASE KillOrchestrator(p)
    BY <1>20 DEF KillOrchestrator, Fault, Rests
<1>21. CASE KillChild(p)
    BY <1>21 DEF KillChild, Return, Go, Shape, Rests
<1>22. CASE SignalMatrix(p)
    BY <1>22 DEF SignalMatrix, Go, Shape, Rests, Lifecycles
<1>23. CASE ServerEnds(p)
    BY <1>23 DEF ServerEnds, Shape, Rests, Lifecycles
<1> QED BY <1>1, <1>2, <1>3, <1>4, <1>5, <1>6, <1>7, <1>8, <1>9, <1>10, <1>11, <1>12, <1>13, <1>14,
       <1>15, <1>16, <1>17, <1>18, <1>19, <1>20, <1>21, <1>22, <1>23 DEF Acts, Step

LEMMA ActsOrRests ==
    ASSUME IInv, Recorded, [Next]_vars, NEW q \in Runs
    PROVE  Acts(q) \/ Rests(q)
<1>1. ASSUME NEW p \in Runs, Acts(p), p # q PROVE Rests(q)
    BY <1>1, OthersRest
<1>2. CASE Change
    BY <1>2 DEF Change, rootFiles, procs, Rests
<1>3. CASE UNCHANGED vars
    BY <1>3 DEF vars, rootFiles, procs, Rests
<1> QED
    BY <1>1, <1>2, <1>3 DEF Next, Acts

(* Versions are counted, and a protocol stays.                             *)
Grows ==
    /\ \A m \in Roots \cup {"judge"} :
           weights[m] \in Nat => weights'[m] \in Nat /\ weights[m] <= weights'[m]
    /\ \A r \in Roots : protocol[r] \in Protocol => protocol'[r] \in Protocol

LEMMA InputsGrow ==
    ASSUME IInv, [Next]_vars
    PROVE  Grows
<1> USE DEF IInv, rootFiles, inputs, procs
<1>a. ASSUME NEW p \in Runs, Acts(p) PROVE Grows
  <2>1. ASSUME NEW s \in Roots, LookFresh(p, s) PROVE Grows
    BY <2>1 DEF LookFresh, Grows
  <2>2. ASSUME NEW s \in Roots, LookComplete(p, s) PROVE Grows
    BY <2>2 DEF LookComplete, Grows
  <2>3. CASE TakeLease(p)
    BY <2>3 DEF TakeLease, Grows
  <2>4. CASE Identify(p)
    BY <2>4 DEF Identify, Grows
  <2>5. CASE Launch(p)
    BY <2>5 DEF Launch, Grows
  <2>6. CASE Verify(p)
    BY <2>6 DEF Verify, Grows
  <2>7. CASE Infer(p)
    BY <2>7 DEF Infer, Grows
  <2>8. CASE EndCandidate(p)
    BY <2>8 DEF EndCandidate, Shape, Grows
  <2>9. CASE BeginMatrix(p)
    BY <2>9 DEF BeginMatrix, Grows
  <2>10. CASE Spawn(p)
    BY <2>10 DEF Spawn, Grows
  <2>11. CASE NoteServer(p)
    BY <2>11 DEF NoteServer, Grows
  <2>12. CASE AwaitReady(p)
    BY <2>12 DEF AwaitReady, Grows
  <2>13. CASE JudgeRows(p)
    BY <2>13 DEF JudgeRows, Grows
  <2>14. CASE WriteProtocol(p)
      <3>1. [judge |-> weights["judge"], controls |-> FALSE] \in Protocol
        BY DEF Shape, Protocol
      <3>2. \A r \in Roots : protocol'[r] = protocol[r] \/ protocol'[r] \in Protocol
        BY <2>14, <3>1 DEF WriteProtocol, Shape
      <3> QED
        BY <2>14, <3>2 DEF WriteProtocol, Grows
  <2>15. CASE Cleanup(p)
    BY <2>15 DEF Cleanup, Go, Shape, Grows
  <2>16. CASE BindControls(p)
      <3>1. protocol' = [protocol EXCEPT ![Root(p)].controls = TRUE]
        BY <2>16 DEF BindControls
      <3>2. \A r \in Roots : protocol[r] \in Protocol => protocol'[r] \in Protocol
        BY <3>1 DEF Shape, Protocol
      <3>3. weights' = weights
        BY <2>16 DEF BindControls
      <3> QED
        BY <3>2, <3>3 DEF Grows
  <2>17. CASE Seal(p)
    BY <2>17 DEF Seal, Shape, Grows
  <2>18. CASE Link(p)
    BY <2>18 DEF Link, Grows
  <2>19. CASE Fail(p)
    BY <2>19 DEF Fail, Grows
  <2>20. CASE KillOrchestrator(p)
    BY <2>20 DEF KillOrchestrator, Grows
  <2>21. CASE KillChild(p)
    BY <2>21 DEF KillChild, Go, Grows
  <2>22. CASE SignalMatrix(p)
    BY <2>22 DEF SignalMatrix, Grows
  <2>23. CASE ServerEnds(p)
    BY <2>23 DEF ServerEnds, Grows
  <2> QED BY <1>a, <2>1, <2>2, <2>3, <2>4, <2>5, <2>6, <2>7, <2>8, <2>9, <2>10, <2>11, <2>12, <2>13,
     <2>14,
         <2>15, <2>16, <2>17, <2>18, <2>19, <2>20, <2>21, <2>22, <2>23 DEF Acts, Step
<1>b. CASE Change
    BY <1>b DEF Change, Shape, Grows
<1>c. CASE UNCHANGED vars
    BY <1>c DEF vars, Grows
<1> QED
    BY <1>a, <1>b, <1>c DEF Next, Acts

LEMMA AttemptedKeeps ==
    ASSUME IInv, Recorded, NEW p \in Runs, Attempted(p), [Next]_vars
    PROVE  Attempted(p)'
<1> USE DEF IInv, rootFiles, inputs, procs
<1>r. CASE Rests(p)
    BY <1>r DEF Rests, Attempted, Phase, Root, Resumes, Lifecycles, Launched, Candidate, Matrix
<1>a. CASE Acts(p)
  <2>1. ASSUME NEW s \in Roots, LookFresh(p, s) PROVE Attempted(p)'
    BY <2>1 DEF LookFresh, Go, Shape, Phase, Attempted, Root, Resumes, Launched, Early,
       Lifecycles, Own, Candidate, Matrix, Ended
  <2>2. ASSUME NEW s \in Roots, LookComplete(p, s) PROVE Attempted(p)'
    BY <2>2 DEF LookComplete, Go, Attempted, Launched, Early, Candidate, Matrix
  <2>3. CASE TakeLease(p)
    BY <2>3 DEF TakeLease, Go, Attempted, Launched, Early, Candidate, Matrix
  <2>4. CASE Identify(p)
    BY <2>4 DEF Identify, Go, Shape, Attempted, Root, Resumes, Launched, Early, Candidate, Matrix
  <2>5. CASE Launch(p)
    <3>1. Root(p) \in Roots /\ ~Resumes(p)
      BY <2>5 DEF Launch, Phase, Candidate
    <3>2. CASE Mark("candidate", p, "running")
      <4>1. OnlyMarked("candidate", p, "running")
        BY <3>1, <3>2, MarkedOnly DEF Report, Lifecycles
      <4> QED
        BY <2>5, <3>1, <3>2, <4>1, ZoomAssumption DEF Launch, Go, Shape, Attempted, Root, Resumes,
           Early, Lifecycles, OnlyMarked
    <3> QED
      BY <2>5, <3>2 DEF Launch
  <2>6. CASE Verify(p)
    BY <2>6 DEF Verify, Go, Shape, Phase, Attempted, Root, Resumes, Launched, Early, Lifecycles,
       Own, Candidate, Matrix, Ended
  <2>7. CASE Infer(p)
    BY <2>7 DEF Infer, Go, Shape, Attempted, Root, Resumes, Launched, Early, Candidate
  <2>8. CASE EndCandidate(p)
    <3>1. Root(p) \in Roots /\ ~Resumes(p)
      BY <2>8 DEF EndCandidate, Phase, Candidate
    <3>2. CASE Mark("candidate", p, "complete")
      <4>1. OnlyMarked("candidate", p, "complete")
        BY <3>1, <3>2, MarkedOnly DEF Report, Lifecycles
      <4> QED
        BY <2>8, <3>1, <3>2, <4>1, ZoomAssumption DEF EndCandidate, Return, Go, Attempted, Root,
           Resumes, Early, Lifecycles, OnlyMarked
    <3>3. CASE Mark("candidate", p, "failed")
      <4>1. OnlyMarked("candidate", p, "failed")
        BY <3>1, <3>3, MarkedOnly DEF Report, Lifecycles
      <4> QED
        BY <2>8, <3>1, <3>3, <4>1, ZoomAssumption DEF EndCandidate, Return, Go, Attempted, Root,
           Resumes, Early, Lifecycles, OnlyMarked
    <3> QED
      BY <2>8, <3>2, <3>3 DEF EndCandidate
  <2>9. CASE BeginMatrix(p)
    <3>1. Root(p) \in Roots /\ ~Resumes(p)
      BY <2>9 DEF BeginMatrix, Phase, Candidate, Matrix
    <3>2. CASE Mark("judge", p, "starting")
      <4>1. OnlyMarked("judge", p, "starting")
        BY <3>1, <3>2, MarkedOnly DEF Report, Lifecycles
      <4> QED
        BY <2>9, <3>1, <3>2, <4>1 DEF BeginMatrix, Go, Shape, Attempted, Root, Resumes, Launched,
           Early, Lifecycles, OnlyMarked
    <3>3. CASE Mark("judge", p, "initialized")
      <4>1. OnlyMarked("judge", p, "initialized")
        BY <3>1, <3>3, MarkedOnly DEF Report, Lifecycles
      <4> QED
        BY <2>9, <3>1, <3>3, <4>1 DEF BeginMatrix, Go, Shape, Attempted, Root, Resumes, Launched,
           Early, Lifecycles, OnlyMarked
    <3> QED
      BY <2>9, <3>2, <3>3 DEF BeginMatrix
  <2>10. CASE Spawn(p)
    BY <2>10 DEF Spawn, Go, Shape, Phase, Attempted, Root, Resumes, Launched, Early, Lifecycles,
       Own, Candidate, Matrix, Ended
  <2>11. CASE NoteServer(p)
    BY <2>11 DEF NoteServer, Go, Attempted, Root, Resumes, Launched, Early, Matrix
  <2>12. CASE AwaitReady(p)
    <3>1. Root(p) \in Roots /\ ~Resumes(p)
      BY <2>12 DEF AwaitReady, Phase, Matrix
    <3>2. CASE Mark("judge", p, "judging")
      <4>1. OnlyMarked("judge", p, "judging")
        BY <3>1, <3>2, MarkedOnly, ZoomAssumption DEF Report, Lifecycles
      <4> QED
        BY <2>12, <3>1, <3>2, <4>1, ZoomAssumption DEF AwaitReady, Go, Shape, Attempted, Root,
           Resumes, Launched, Early, Lifecycles, Own, Candidate, Matrix, Ended, OnlyMarked
    <3>3. CASE UNCHANGED status
      BY <2>12, <3>1, <3>3 DEF AwaitReady, Go, Shape, Attempted, Root, Resumes, Launched, Early,
         Lifecycles, Matrix
    <3> QED
      BY <2>12, <3>2, <3>3 DEF AwaitReady
  <2>13. CASE JudgeRows(p)
    BY <2>13 DEF JudgeRows, Go, Shape, Phase, Attempted, Root, Resumes, Launched, Early,
       Lifecycles, Own, Candidate, Matrix, Ended
  <2>14. CASE WriteProtocol(p)
    BY <2>14 DEF WriteProtocol, Go, Shape, Attempted, Root, Resumes, Launched, Early, Matrix
  <2>15. CASE Cleanup(p)
    <3>1. Root(p) \in Roots /\ ~Resumes(p)
      BY <2>15 DEF Cleanup, Phase, Candidate, Matrix
    <3>2. CASE Mark("judge", p, "complete")
      <4>1. OnlyMarked("judge", p, "complete")
        BY <3>1, <3>2, MarkedOnly, ZoomAssumption DEF Report, Lifecycles
      <4> QED
        BY <2>15, <3>1, <3>2, <4>1, ZoomAssumption DEF Cleanup, Return, Go, Shape, Phase, Attempted,
           Root, Resumes, Launched, Early, Lifecycles, Own, Candidate, Matrix, Ended, OnlyMarked
    <3>3. CASE Mark("judge", p, "failed")
      <4>1. OnlyMarked("judge", p, "failed")
        BY <3>1, <3>3, MarkedOnly, ZoomAssumption DEF Report, Lifecycles
      <4> QED
        BY <2>15, <3>1, <3>3, <4>1, ZoomAssumption DEF Cleanup, Return, Go, Shape, Phase, Attempted,
           Root, Resumes, Launched, Early, Lifecycles, Own, Candidate, Matrix, Ended, OnlyMarked
    <3>4. CASE UNCHANGED status
      BY <2>15, <3>1, <3>4 DEF Cleanup, Return, Go, Shape, Attempted, Root, Resumes, Launched,
         Early, Lifecycles, Matrix
    <3> QED
      BY <2>15, <3>2, <3>3, <3>4 DEF Cleanup
  <2>16. CASE BindControls(p)
    BY <2>16 DEF BindControls, Go, Shape, Phase, Attempted, Root, Resumes, Launched, Early,
       Lifecycles, Own, Candidate, Matrix, Ended
  <2>17. CASE Seal(p)
    BY <2>17 DEF Seal, Go, Shape, Attempted, Root, Resumes, Launched, Early
  <2>18. CASE Link(p)
    BY <2>18 DEF Link, Go, Shape, Attempted, Root, Resumes, Launched, Early
  <2>19. CASE Fail(p)
    BY <2>19 DEF Fail, Go, Shape, Attempted, Root, Resumes, Launched, Early, Candidate, Matrix
  <2>20. CASE KillOrchestrator(p)
    BY <2>20 DEF KillOrchestrator, Fault, Attempted, Root, Resumes, Launched, Early, Candidate,
       Matrix
  <2>21. CASE KillChild(p)
    BY <2>21 DEF KillChild, Return, Go, Shape, Phase, Attempted, Root, Resumes, Launched, Early
  <2>22. CASE SignalMatrix(p)
    BY <2>22 DEF SignalMatrix, Go, Shape, Attempted, Root, Resumes, Launched, Early, Lifecycles
  <2>23. CASE ServerEnds(p)
    BY <2>23 DEF ServerEnds, Shape, Attempted, Root, Resumes, Launched, Early, Lifecycles
  <2> QED BY <1>a, <2>1, <2>2, <2>3, <2>4, <2>5, <2>6, <2>7, <2>8, <2>9, <2>10, <2>11, <2>12, <2>13,
     <2>14,
         <2>15, <2>16, <2>17, <2>18, <2>19, <2>20, <2>21, <2>22, <2>23 DEF Acts, Step
<1> QED
    BY <1>r, <1>a, ActsOrRests DEF IInv

LEMMA FinishedKeeps ==
    ASSUME IInv, Recorded, NEW p \in Runs, Attempted(p), Finished(p), [Next]_vars
    PROVE  Finished(p)'
<1> USE DEF IInv, rootFiles, inputs, procs
<1>0. Grows
    BY InputsGrow DEF IInv
<1>r. CASE Rests(p)
    BY <1>r, <1>0 DEF Rests, Grows, Finished, Root, Resumes, Lifecycles, Launched, Phase,
       Candidate, Matrix
<1>a. CASE Acts(p)
  <2>1. ASSUME NEW s \in Roots, LookFresh(p, s) PROVE Finished(p)'
    BY <2>1, <1>0 DEF LookFresh, Go, Shape, Phase, Finished, Attempted, Root, Resumes, Launched,
       Early, Lifecycles, Own, Candidate, Matrix, Ended, Protocol, Grows
  <2>2. ASSUME NEW s \in Roots, LookComplete(p, s) PROVE Finished(p)'
    BY <2>2, <1>0 DEF LookComplete, Go, Finished, Launched, Candidate, Matrix
  <2>3. CASE TakeLease(p)
    BY <2>3, <1>0 DEF TakeLease, Go, Finished, Launched, Candidate, Matrix
  <2>4. CASE Identify(p)
    BY <2>4, <1>0 DEF Identify, Go, Shape, Finished, Root, Resumes, Launched, Candidate, Matrix
  <2>5. CASE Launch(p)
    <3>1. Root(p) \in Roots /\ Mark("candidate", p, "running") /\ op' = op /\ pc'[p] = "verify"
      BY <2>5 DEF Launch, Go, Phase, Shape, Candidate
    <3>2. \A r \in Roots : status["candidate"][r][p] = None
      BY <2>5 DEF Launch, Attempted, Early, Lifecycles
    <3>3. OnlyMarked("candidate", p, "running")
      BY <3>1, MarkedOnly DEF Report, Lifecycles
    <3>4. \A r \in Roots : status'["candidate"][r][p] \in {None, "running"}
      BY <3>2, <3>3 DEF OnlyMarked, Lifecycles
    <3> QED
      BY <3>1, <3>4, ZoomAssumption DEF Finished, Launched, Candidate, Matrix
  <2>6. CASE Verify(p)
    BY <2>6, <1>0 DEF Verify, Go, Shape, Finished, Attempted, Root, Resumes, Launched, Early,
       Lifecycles, Own, Candidate, Matrix, Ended, Protocol, Grows
  <2>7. CASE Infer(p)
    BY <2>7, <1>0 DEF Infer, Go, Shape, Finished, Candidate
  <2>8. CASE EndCandidate(p)
    <3>1. Root(p) \in Roots /\ ~Resumes(p) /\ op' = op
      BY <2>8 DEF EndCandidate, Phase, Candidate
    <3>2. CASE pc[p] = "candidateDone"
      <4>1. Mark("candidate", p, "complete") /\ pc'[p] \in {"identifyJudge", "killed"}
        BY <2>8, <3>2 DEF EndCandidate, Return, Go, Shape
      <4>2. status'["candidate"][Root(p)][p] = "complete"
        BY <3>1, <4>1, Marked DEF Report
      <4> QED
        BY <3>1, <4>1, <4>2 DEF Finished, Root, Launched, Candidate, Matrix
    <3>3. CASE pc[p] = "candidateFailed"
      <4>1. pc'[p] \in {"failed", "killed"}
        BY <2>8, <3>3 DEF EndCandidate, Return, Go, Shape
      <4> QED
        BY <4>1 DEF Finished, Launched, Candidate, Matrix
    <3> QED
      BY <2>8, <3>2, <3>3 DEF EndCandidate
  <2>9. CASE BeginMatrix(p)
    <3>1. Root(p) \in Roots /\ ~Resumes(p)
      BY <2>9 DEF BeginMatrix, Phase, Candidate, Matrix
    <3>2. CASE Mark("judge", p, "starting")
      <4>1. OnlyMarked("judge", p, "starting")
        BY <3>1, <3>2, MarkedOnly DEF Report, Lifecycles
      <4> QED
        BY <2>9, <3>1, <3>2, <4>1, <1>0 DEF BeginMatrix, Go, Shape, Finished, Root, Launched,
           Lifecycles, Candidate, OnlyMarked
    <3>3. CASE Mark("judge", p, "initialized")
      <4>1. OnlyMarked("judge", p, "initialized")
        BY <3>1, <3>3, MarkedOnly DEF Report, Lifecycles
      <4> QED
        BY <2>9, <3>1, <3>3, <4>1, <1>0 DEF BeginMatrix, Go, Shape, Finished, Root, Launched,
           Lifecycles, Candidate, OnlyMarked
    <3> QED
      BY <2>9, <3>2, <3>3 DEF BeginMatrix
  <2>10. CASE Spawn(p)
    BY <2>10, <1>0 DEF Spawn, Go, Shape, Phase, Finished, Attempted, Root, Resumes, Launched,
       Early, Lifecycles, Own, Candidate, Matrix, Ended, Protocol, Grows
  <2>11. CASE NoteServer(p)
    BY <2>11, <1>0 DEF NoteServer, Go, Finished, Root, Resumes, Launched, Candidate, Matrix
  <2>12. CASE AwaitReady(p)
    <3>1. Root(p) \in Roots /\ ~Resumes(p)
      BY <2>12 DEF AwaitReady, Phase, Matrix
    <3>2. CASE Mark("judge", p, "judging")
      <4>1. OnlyMarked("judge", p, "judging")
        BY <3>1, <3>2, MarkedOnly, ZoomAssumption DEF Report, Lifecycles
      <4> QED
        BY <2>12, <3>1, <3>2, <4>1, ZoomAssumption, <1>0 DEF AwaitReady, Go, Shape, Finished,
           Attempted, Root, Resumes, Launched, Early, Lifecycles, Own, Candidate, Matrix, Ended,
           Protocol, Grows, OnlyMarked
    <3>3. CASE UNCHANGED status
      BY <2>12, <3>1, <3>3, <1>0 DEF AwaitReady, Go, Shape, Finished, Root, Launched, Lifecycles,
         Candidate, Matrix
    <3> QED
      BY <2>12, <3>2, <3>3 DEF AwaitReady
  <2>13. CASE JudgeRows(p)
    BY <2>13, <1>0 DEF JudgeRows, Go, Shape, Phase, Finished, Attempted, Root, Resumes, Launched,
       Early, Lifecycles, Own, Candidate, Matrix, Ended, Protocol, Grows
  <2>14. CASE WriteProtocol(p)
    BY <2>14, <1>0 DEF WriteProtocol, Go, Shape, Finished, Root, Resumes, Launched, Candidate,
       Matrix
  <2>15. CASE Cleanup(p)
    <3>1. Root(p) \in Roots /\ ~Resumes(p) /\ op' = op /\ protocol' = protocol
      BY <2>15 DEF Cleanup, Phase, Candidate, Matrix
    <3>2. CASE UNCHANGED <<pc, status>>
      BY <3>1, <3>2 DEF Finished, Root
    <3>3. CASE pc[p] = "cleanup" /\ Mark("judge", p, "complete") /\ Return(p, "controls")
      <4>1. pc'[p] \in {"controls", "killed"}
        BY <3>3 DEF Return, Go, Shape
      <4>2. status["candidate"][Root(p)][p] = "complete"
        BY <3>1, <3>3 DEF Finished, Launched, Candidate, Matrix
      <4>3. status'["judge"][Root(p)][p] = "complete" /\ status'["candidate"][Root(p)][p] = "complete"
        BY <3>1, <3>3, <4>2, Marked DEF Report
      <4> QED
        BY <3>1, <4>1, <4>3 DEF Finished, Root, Launched, Candidate, Matrix
    <3>4. CASE pc[p] = "cleanupFailed" /\ Return(p, "failed")
      <4>1. pc'[p] \in {"failed", "killed"}
        BY <3>4 DEF Return, Go, Shape
      <4> QED
        BY <4>1 DEF Finished, Launched, Candidate, Matrix
    <3> QED
      BY <2>15, <3>2, <3>3, <3>4 DEF Cleanup
  <2>16. CASE BindControls(p)
    <3>1. pc[p] = "controls" /\ pc'[p] = "seal" /\ UNCHANGED <<op, status>>
      BY <2>16 DEF BindControls, Go, Shape
    <3>2. protocol'[Root(p)] \in Protocol
      BY <1>0, <3>1 DEF Phase, Grows
    <3> QED
      BY <3>1, <3>2 DEF Finished, Root, Resumes, Launched, Candidate, Matrix
  <2>17. CASE Seal(p)
    BY <2>17, <1>0 DEF Seal, Go, Shape, Phase, Finished, Attempted, Root, Resumes, Launched,
       Early, Lifecycles, Own, Candidate, Matrix, Ended, Grows
  <2>18. CASE Link(p)
    BY <2>18, <1>0 DEF Link, Go, Shape, Finished, Root, Resumes, Launched, Candidate
  <2>19. CASE Fail(p)
    BY <2>19, <1>0 DEF Fail, Go, Shape, Finished, Launched, Candidate, Matrix
  <2>20. CASE KillOrchestrator(p)
    BY <2>20, <1>0 DEF KillOrchestrator, Fault, Finished, Root, Resumes, Launched, Candidate, Matrix
  <2>21. CASE KillChild(p)
    BY <2>21, <1>0 DEF KillChild, Return, Go, Shape, Finished, Attempted, Launched, Candidate,
       Matrix
  <2>22. CASE SignalMatrix(p)
    BY <2>22, <1>0 DEF SignalMatrix, Go, Shape, Finished, Attempted, Root, Resumes, Launched,
       Early, Candidate, Matrix, Ended
  <2>23. CASE ServerEnds(p)
    BY <2>23, <1>0 DEF ServerEnds, Shape, Finished, Attempted, Root, Resumes, Launched, Early,
       Matrix, Ended
  <2> QED BY <1>a, <2>1, <2>2, <2>3, <2>4, <2>5, <2>6, <2>7, <2>8, <2>9, <2>10, <2>11, <2>12, <2>13,
     <2>14,
         <2>15, <2>16, <2>17, <2>18, <2>19, <2>20, <2>21, <2>22, <2>23 DEF Acts, Step
<1> QED
    BY <1>r, <1>a, ActsOrRests DEF IInv

LEMMA IdentifiedKeeps ==
    ASSUME IInv, Recorded, NEW p \in Runs, Identified(p), [Next]_vars
    PROVE  Identified(p)'
<1> USE DEF IInv, rootFiles, inputs, procs
<1>0. Grows
    BY InputsGrow DEF IInv
<1>r. CASE Rests(p)
  <2>1. ASSUME NEW m \in Roots \cup {"judge"}, NEW before, NEW version,
               Between(before, version, weights[m])
        PROVE  Between(before, version, weights'[m])
    <3>1. weights[m] \in Nat /\ weights'[m] \in Nat /\ weights[m] <= weights'[m]
      BY <1>0 DEF Grows, Shape
    <3> QED
      BY <2>1, <3>1, BetweenGrows
  <2>2. pc[p] # "none" => Root(p) \in Roots
    BY DEF Phase
  <2> QED
    BY <1>r, <2>1, <2>2 DEF Rests, Identified, Root, Resumes, Candidate
<1>a. CASE Acts(p)
  <2>1. ASSUME NEW s \in Roots, LookFresh(p, s) PROVE Identified(p)'
    BY <2>1, ZoomAssumption DEF LookFresh, Go, Shape, Recorded, Phase, Identified, Between, Own,
       Candidate, Matrix, Ended
  <2>2. ASSUME NEW s \in Roots, LookComplete(p, s) PROVE Identified(p)'
    BY <2>2 DEF LookComplete, Go, Identified, Candidate
  <2>3. CASE TakeLease(p)
    BY <2>3 DEF TakeLease, Go, Identified, Candidate
  <2>4. CASE Identify(p)
    BY <2>4 DEF Identify, Go, Shape, Recorded, Phase, Identified, Between, Root, Candidate
  <2>5. CASE Launch(p)
    BY <2>5 DEF Launch, Go, Shape, Recorded, Phase, Identified, Between, Root, Candidate
  <2>6. CASE Verify(p)
    BY <2>6 DEF Verify, Go, Shape, Identified, Between, Root, Resumes, Candidate
  <2>7. CASE Infer(p)
    BY <2>7 DEF Infer, Go, Shape, Identified, Root, Resumes, Candidate
  <2>8. CASE EndCandidate(p)
    BY <2>8, ZoomAssumption DEF EndCandidate, Return, Go, Phase, Identified, Between, Root,
       Own, Candidate
  <2>9. CASE BeginMatrix(p)
    BY <2>9 DEF BeginMatrix, Go, Shape, Identified, Between, Resumes, Candidate, Matrix
  <2>10. CASE Spawn(p)
    BY <2>10 DEF Spawn, Go, Shape, Identified, Between, Resumes, Candidate
  <2>11. CASE NoteServer(p)
    BY <2>11 DEF NoteServer, Go, Shape, Identified, Between, Resumes, Candidate
  <2>12. CASE AwaitReady(p)
    BY <2>12 DEF AwaitReady, Go, Shape, Identified, Resumes, Candidate
  <2>13. CASE JudgeRows(p)
    BY <2>13 DEF JudgeRows, Go, Shape, Identified, Resumes, Candidate
  <2>14. CASE WriteProtocol(p)
    BY <2>14 DEF WriteProtocol, Go, Shape, Identified, Candidate
  <2>15. CASE Cleanup(p)
    BY <2>15 DEF Cleanup, Return, Go, Shape, Phase, Identified, Own, Candidate
  <2>16. CASE BindControls(p)
    BY <2>16 DEF BindControls, Go, Shape, Recorded, Identified, Between, Candidate, Matrix
  <2>17. CASE Seal(p)
    BY <2>17 DEF Seal, Go, Shape, Identified, Candidate
  <2>18. CASE Link(p)
    BY <2>18 DEF Link, Go, Shape, Identified, Candidate
  <2>19. CASE Fail(p)
    BY <2>19 DEF Fail, Go, Shape, Identified, Candidate
  <2>20. CASE KillOrchestrator(p)
    BY <2>20 DEF KillOrchestrator, Fault, Identified, Root, Resumes, Candidate
  <2>21. CASE KillChild(p)
    BY <2>21 DEF KillChild, Return, Go, Recorded, Identified, Between, Root, Resumes,
       Candidate
  <2>22. CASE SignalMatrix(p)
    BY <2>22 DEF SignalMatrix, Go, Shape, Identified, Between, Resumes, Own, Candidate, Matrix
  <2>23. CASE ServerEnds(p)
    BY <2>23, ZoomAssumption DEF ServerEnds, Shape, Identified, Between, Root, Resumes, Matrix
  <2> QED BY <1>a, <2>1, <2>2, <2>3, <2>4, <2>5, <2>6, <2>7, <2>8, <2>9, <2>10, <2>11, <2>12, <2>13,
     <2>14,
         <2>15, <2>16, <2>17, <2>18, <2>19, <2>20, <2>21, <2>22, <2>23 DEF Acts, Step
<1> QED
    BY <1>r, <1>a, ActsOrRests DEF IInv

(* Only a launch makes an attempt, and it is the first of its process.     *)
LEMMA AttemptsGrow ==
    ASSUME IInv, Recorded, NEW p \in Runs, Attempted(p), NEW r \in Roots, [Next]_vars
    PROVE  \/ status'["candidate"][r][p] # None <=> status["candidate"][r][p] # None
           \/ Launch(p) /\ Root(p) = r /\ status["candidate"][r][p] = None
<1> DEFINE G == \/ status'["candidate"][r][p] # None <=> status["candidate"][r][p] # None
                \/ Launch(p) /\ Root(p) = r /\ status["candidate"][r][p] = None
<1> SUFFICES G
    OBVIOUS
<1> USE DEF IInv, rootFiles, inputs, procs
<1>r. CASE Rests(p)
    BY <1>r DEF Rests, Lifecycles
<1>a. CASE Acts(p)
  <2>1. ASSUME NEW s \in Roots, LookFresh(p, s) PROVE G
    BY <2>1 DEF LookFresh, Go
  <2>2. ASSUME NEW s \in Roots, LookComplete(p, s) PROVE G
    BY <2>2 DEF LookComplete
  <2>3. CASE TakeLease(p)
    BY <2>3 DEF TakeLease
  <2>4. CASE Identify(p)
    BY <2>4 DEF Identify
  <2>5. CASE Launch(p)
    <3>1. Root(p) \in Roots /\ Mark("candidate", p, "running")
      BY <2>5 DEF Launch, Phase
    <3>2. status["candidate"][r][p] = None
      BY <2>5 DEF Launch, Attempted, Early, Lifecycles
    <3> QED
      BY <2>5, <3>1, <3>2, Marked DEF Report
  <2>6. CASE Verify(p)
    BY <2>6 DEF Verify, Go
  <2>7. CASE Infer(p)
    BY <2>7 DEF Infer
  <2>8. CASE EndCandidate(p)
    <3>1. Root(p) \in Roots /\ ~Resumes(p)
      BY <2>8 DEF EndCandidate, Phase, Candidate
    <3>2. CASE Mark("candidate", p, "complete")
      <4>1. OnlyMarked("candidate", p, "complete")
        BY <3>1, <3>2, MarkedOnly DEF Report, Lifecycles
      <4> QED
        BY <2>8, <3>1, <3>2, <4>1, ZoomAssumption DEF EndCandidate, Return, Go, Attempted, Launched,
           Lifecycles, Candidate, OnlyMarked
    <3>3. CASE Mark("candidate", p, "failed")
      <4>1. OnlyMarked("candidate", p, "failed")
        BY <3>1, <3>3, MarkedOnly DEF Report, Lifecycles
      <4> QED
        BY <2>8, <3>1, <3>3, <4>1, ZoomAssumption DEF EndCandidate, Return, Go, Attempted, Launched,
           Lifecycles, Candidate, OnlyMarked
    <3> QED
      BY <2>8, <3>2, <3>3 DEF EndCandidate
  <2>9. CASE BeginMatrix(p)
    <3>1. Root(p) \in Roots /\ ~Resumes(p)
      BY <2>9 DEF BeginMatrix, Phase, Candidate, Matrix
    <3>2. CASE Mark("judge", p, "starting")
      <4>1. OnlyMarked("judge", p, "starting")
        BY <3>1, <3>2, MarkedOnly DEF Report, Lifecycles
      <4> QED
        BY <2>9, <3>1, <3>2, <4>1 DEF BeginMatrix, Go, Phase, Lifecycles, OnlyMarked
    <3>3. CASE Mark("judge", p, "initialized")
      <4>1. OnlyMarked("judge", p, "initialized")
        BY <3>1, <3>3, MarkedOnly DEF Report, Lifecycles
      <4> QED
        BY <2>9, <3>1, <3>3, <4>1 DEF BeginMatrix, Go, Phase, Lifecycles, OnlyMarked
    <3> QED
      BY <2>9, <3>2, <3>3 DEF BeginMatrix
  <2>10. CASE Spawn(p)
    BY <2>10 DEF Spawn, Go
  <2>11. CASE NoteServer(p)
    BY <2>11 DEF NoteServer
  <2>12. CASE AwaitReady(p)
    <3>1. Root(p) \in Roots /\ ~Resumes(p)
      BY <2>12 DEF AwaitReady, Phase, Matrix
    <3>2. CASE Mark("judge", p, "judging")
      <4>1. OnlyMarked("judge", p, "judging")
        BY <3>1, <3>2, MarkedOnly, ZoomAssumption DEF Report, Lifecycles
      <4> QED
        BY <2>12, <3>1, <3>2, <4>1, ZoomAssumption DEF AwaitReady, Go, Phase, Launched, Early,
           Lifecycles, Candidate, Matrix, OnlyMarked
    <3>3. CASE UNCHANGED status
      BY <2>12, <3>1, <3>3 DEF Lifecycles
    <3> QED
      BY <2>12, <3>2, <3>3 DEF AwaitReady
  <2>13. CASE JudgeRows(p)
    BY <2>13 DEF JudgeRows, Go
  <2>14. CASE WriteProtocol(p)
    BY <2>14 DEF WriteProtocol
  <2>15. CASE Cleanup(p)
    <3>1. Root(p) \in Roots /\ ~Resumes(p)
      BY <2>15 DEF Cleanup, Phase, Matrix
    <3>2. CASE Mark("judge", p, "complete")
      <4>1. OnlyMarked("judge", p, "complete")
        BY <3>1, <3>2, MarkedOnly, ZoomAssumption DEF Report, Lifecycles
      <4> QED
        BY <2>15, <3>1, <3>2, <4>1, ZoomAssumption DEF Cleanup, Return, Go, Attempted, Launched,
           Early, Lifecycles, Candidate, Matrix, OnlyMarked
    <3>3. CASE Mark("judge", p, "failed")
      <4>1. OnlyMarked("judge", p, "failed")
        BY <3>1, <3>3, MarkedOnly DEF Report, Lifecycles
      <4> QED
        BY <2>15, <3>1, <3>3, <4>1 DEF Cleanup, Return, Go, Lifecycles, OnlyMarked
    <3>4. CASE UNCHANGED status
      BY <2>15, <3>1, <3>4 DEF Lifecycles
    <3> QED
      BY <2>15, <3>2, <3>3, <3>4 DEF Cleanup
  <2>16. CASE BindControls(p)
    BY <2>16 DEF BindControls, Go
  <2>17. CASE Seal(p)
    BY <2>17 DEF Seal
  <2>18. CASE Link(p)
    BY <2>18 DEF Link
  <2>19. CASE Fail(p)
    BY <2>19 DEF Fail
  <2>20. CASE KillOrchestrator(p)
    BY <2>20 DEF KillOrchestrator
  <2>21. CASE KillChild(p)
    BY <2>21 DEF KillChild
  <2>22. CASE SignalMatrix(p)
    BY <2>22 DEF SignalMatrix
  <2>23. CASE ServerEnds(p)
    BY <2>23 DEF ServerEnds
  <2> QED BY <1>a, <2>1, <2>2, <2>3, <2>4, <2>5, <2>6, <2>7, <2>8, <2>9, <2>10, <2>11, <2>12, <2>13,
     <2>14,
         <2>15, <2>16, <2>17, <2>18, <2>19, <2>20, <2>21, <2>22, <2>23 DEF Acts, Step
<1> QED
    BY <1>r, <1>a, ActsOrRests DEF IInv

LEMMA SoleFollows ==
    ASSUME IInv, Recorded, \A q \in Runs : Attempted(q), NEW r \in Roots, [Next]_vars
    PROVE  /\ Fresh(r)' => Fresh(r)
           /\ \A p \in Runs : Sole(r, p)' => Sole(r, p) \/ (Fresh(r) /\ Launch(p) /\ Root(p) = r)
<1>1. \A q \in Runs : status'["candidate"][r][q] = None => status["candidate"][r][q] = None
    BY AttemptsGrow
<1>2. ASSUME NEW p \in Runs, Sole(r, p)'
      PROVE  Sole(r, p) \/ (Fresh(r) /\ Launch(p) /\ Root(p) = r)
  <2>1. \A q \in Runs \ {p} : status["candidate"][r][q] = None
    BY <1>1, <1>2 DEF Sole
  <2>2. CASE status["candidate"][r][p] # None
    BY <2>1, <2>2 DEF Sole
  <2>3. CASE status["candidate"][r][p] = None
    <3>1. Fresh(r)
      BY <2>1, <2>3 DEF Fresh
    <3>2. status'["candidate"][r][p] # None
      BY <1>2 DEF Sole
    <3> QED
      BY <2>3, <3>1, <3>2, AttemptsGrow
  <2> QED
    BY <2>2, <2>3
<1> QED
    BY <1>1, <1>2 DEF Fresh

(* Who writes to the files of a root has an attempt on it; who links its   *)
(* authority has a receipt.                                                *)
WritesAsAttempt(p, r) ==
    /\ \/ answers'[r] = answers[r] /\ verdicts'[r] = verdicts[r] /\ protocol'[r] = protocol[r]
       \/ status["candidate"][r][p] # None
    /\ \/ aggregate'[r] = aggregate[r]
       \/ /\ pc[p] = "link" /\ Root(p) = r /\ aggregate[r] = None
          /\ aggregate'[r] = seen[p].receipt

LEMMA WritersAttempted ==
    ASSUME IInv, Recorded, NEW p \in Runs, Attempted(p), NEW r \in Roots, Acts(p)
    PROVE  WritesAsAttempt(p, r)
<1> USE DEF WritesAsAttempt, IInv, rootFiles, inputs, procs
<1>1. ASSUME NEW s \in Roots, LookFresh(p, s) PROVE WritesAsAttempt(p, r)
    BY <1>1 DEF LookFresh, Go
<1>2. ASSUME NEW s \in Roots, LookComplete(p, s) PROVE WritesAsAttempt(p, r)
    BY <1>2 DEF LookComplete
<1>3. CASE TakeLease(p)
    BY <1>3 DEF TakeLease
<1>4. CASE Identify(p)
    BY <1>4 DEF Identify
<1>5. CASE Launch(p)
    BY <1>5 DEF Launch
<1>6. CASE Verify(p)
    BY <1>6 DEF Verify
<1>7. CASE Infer(p)
  <2>1. Root(p) \in Roots /\ status["candidate"][Root(p)][p] # None
    BY <1>7 DEF Infer, Phase, Attempted, Launched, Candidate
  <2>2. CASE Root(p) = r
    BY <1>7, <2>1, <2>2 DEF Infer
  <2>3. CASE Root(p) # r
    BY <1>7, <2>1, <2>3 DEF Infer, Shape
  <2> QED
    BY <2>2, <2>3
<1>8. CASE EndCandidate(p)
    BY <1>8 DEF EndCandidate, Return, Go
<1>9. CASE BeginMatrix(p)
    BY <1>9 DEF BeginMatrix
<1>10. CASE Spawn(p)
    BY <1>10 DEF Spawn
<1>11. CASE NoteServer(p)
    BY <1>11 DEF NoteServer
<1>12. CASE AwaitReady(p)
    BY <1>12 DEF AwaitReady
<1>13. CASE JudgeRows(p)
  <2>1. Root(p) \in Roots /\ status["candidate"][Root(p)][p] # None
    BY <1>13 DEF JudgeRows, Phase, Attempted, Launched, Matrix
  <2>2. CASE Root(p) = r
    BY <1>13, <2>1, <2>2 DEF JudgeRows
  <2>3. CASE Root(p) # r
    BY <1>13, <2>1, <2>3 DEF JudgeRows, Shape
  <2> QED
    BY <2>2, <2>3
<1>14. CASE WriteProtocol(p)
  <2>1. Root(p) \in Roots /\ status["candidate"][Root(p)][p] # None
    BY <1>14 DEF WriteProtocol, Phase, Attempted, Launched, Candidate, Matrix
  <2>2. CASE Root(p) = r
    BY <1>14, <2>1, <2>2 DEF WriteProtocol
  <2>3. CASE Root(p) # r
    BY <1>14, <2>1, <2>3 DEF WriteProtocol, Shape
  <2> QED
    BY <2>2, <2>3
<1>15. CASE Cleanup(p)
    BY <1>15 DEF Cleanup, Return, Go
<1>16. CASE BindControls(p)
  <2>1. Root(p) \in Roots /\ status["candidate"][Root(p)][p] # None
    BY <1>16 DEF BindControls, Phase, Attempted, Launched, Candidate, Matrix
  <2>2. CASE Root(p) = r
    BY <1>16, <2>1, <2>2 DEF BindControls
  <2>3. CASE Root(p) # r
    BY <1>16, <2>1, <2>3 DEF BindControls, Shape
  <2> QED
    BY <2>2, <2>3
<1>17. CASE Seal(p)
    BY <1>17 DEF Seal, Go
<1>18. CASE Link(p)
    BY <1>18 DEF Link, Recorded, Phase
<1>19. CASE Fail(p)
    BY <1>19 DEF Fail, Go
<1>20. CASE KillOrchestrator(p)
    BY <1>20 DEF KillOrchestrator
<1>21. CASE KillChild(p)
    BY <1>21 DEF KillChild
<1>22. CASE SignalMatrix(p)
    BY <1>22 DEF SignalMatrix
<1>23. CASE ServerEnds(p)
    BY <1>23 DEF ServerEnds
<1> QED BY <1>1, <1>2, <1>3, <1>4, <1>5, <1>6, <1>7, <1>8, <1>9, <1>10, <1>11, <1>12, <1>13, <1>14,
       <1>15, <1>16, <1>17, <1>18, <1>19, <1>20, <1>21, <1>22, <1>23 DEF Acts, Step

(* A change from outside, or nothing at all.                               *)
LEMMA OnlyActsWrite ==
    ASSUME IInv, [Next]_vars, \A p \in Runs : ~Acts(p)
    PROVE  UNCHANGED <<rootFiles, procs>>
BY DEF Next, Acts, Change, vars

LEMMA UntriedKeeps ==
    ASSUME IInv, Recorded, \A p \in Runs : Attempted(p) /\ Linkable(p),
           NEW r \in Roots, Untried(r), [Next]_vars
    PROVE  Untried(r)'
<1> SUFFICES ASSUME Fresh(r)'
             PROVE  answers'[r] = None /\ verdicts'[r] = None /\ aggregate'[r] = None
    BY DEF Untried
<1>1. Fresh(r) /\ answers[r] = None /\ verdicts[r] = None /\ aggregate[r] = None
    BY SoleFollows DEF Untried
<1>2. ASSUME NEW p \in Runs, Acts(p)
      PROVE  answers'[r] = answers[r] /\ verdicts'[r] = verdicts[r] /\ aggregate'[r] = aggregate[r]
    BY <1>1, <1>2, WritersAttempted DEF WritesAsAttempt, Fresh, Linkable
<1>3. CASE \A p \in Runs : ~Acts(p)
    BY <1>1, <1>3, OnlyActsWrite DEF rootFiles
<1> QED
    BY <1>1, <1>2, <1>3

LEMMA LinkableKeeps ==
    ASSUME IInv, Recorded, \A q \in Runs : Attempted(q), \A r \in Roots : Untried(r),
           NEW p \in Runs, Linkable(p), [Next]_vars
    PROVE  Linkable(p)'
<1>1. \A r \in Roots : Fresh(r)' => Fresh(r)
    BY SoleFollows
<1> DEFINE G == pc'[p] = "link" => Root(p)' = Root(p) /\ Root(p) \in Roots /\ ~Fresh(Root(p))
<1>2. G
  <2> USE DEF IInv, rootFiles, inputs, procs
  <2>r. CASE Rests(p)
    BY <2>r DEF Rests, Linkable, Root, Phase
  <2>a. CASE Acts(p)
    <3>1. ASSUME NEW s \in Roots, LookFresh(p, s) PROVE G
      BY <3>1 DEF LookFresh, Go, Shape, Phase, Linkable, Root
    <3>2. ASSUME NEW s \in Roots, LookComplete(p, s) PROVE G
      BY <3>2 DEF LookComplete, Go
    <3>3. CASE TakeLease(p)
      BY <3>3 DEF TakeLease, Go
    <3>4. CASE Identify(p)
      BY <3>4 DEF Identify, Go, Shape
    <3>5. CASE Launch(p)
      BY <3>5 DEF Launch, Go, Shape
    <3>6. CASE Verify(p)
      BY <3>6 DEF Verify, Go, Shape
    <3>7. CASE Infer(p)
      BY <3>7 DEF Infer, Go, Shape
    <3>8. CASE EndCandidate(p)
      BY <3>8 DEF EndCandidate, Return, Go
    <3>9. CASE BeginMatrix(p)
      BY <3>9 DEF BeginMatrix, Go, Shape
    <3>10. CASE Spawn(p)
      BY <3>10 DEF Spawn, Go, Shape
    <3>11. CASE NoteServer(p)
      BY <3>11 DEF NoteServer, Go
    <3>12. CASE AwaitReady(p)
      BY <3>12 DEF AwaitReady, Go, Shape
    <3>13. CASE JudgeRows(p)
      BY <3>13 DEF JudgeRows, Go, Shape
    <3>14. CASE WriteProtocol(p)
      BY <3>14 DEF WriteProtocol, Go, Shape
    <3>15. CASE Cleanup(p)
      BY <3>15 DEF Cleanup, Return, Go, Shape
    <3>16. CASE BindControls(p)
      BY <3>16 DEF BindControls, Go, Shape, Phase
    <3>17. CASE Seal(p)
        <4>1. Root(p) \in Roots /\ (Sealable(p) => ~Fresh(Root(p)))
          BY <3>17 DEF Seal, Sealable, SameRows, Untried, Phase
        <4> QED
          BY <3>17, <4>1 DEF Seal, Go, Root, Shape
    <3>18. CASE Link(p)
      BY <3>18 DEF Link, Go, Shape, Phase, Linkable, Root
    <3>19. CASE Fail(p)
      BY <3>19 DEF Fail, Go, Phase, Linkable, Root
    <3>20. CASE KillOrchestrator(p)
      BY <3>20 DEF KillOrchestrator, Fault, Phase, Linkable, Root
    <3>21. CASE KillChild(p)
      BY <3>21 DEF KillChild, Return, Go, Shape, Phase
    <3>22. CASE SignalMatrix(p)
      BY <3>22 DEF SignalMatrix, Go, Shape
    <3>23. CASE ServerEnds(p)
      BY <3>23 DEF ServerEnds, Shape, Phase, Linkable, Root
    <3> QED BY <2>a, <3>1, <3>2, <3>3, <3>4, <3>5, <3>6, <3>7, <3>8, <3>9, <3>10, <3>11, <3>12, <3>13,
       <3>14,
           <3>15, <3>16, <3>17, <3>18, <3>19, <3>20, <3>21, <3>22, <3>23 DEF Acts, Step
  <2> QED
    BY <2>r, <2>a, ActsOrRests DEF IInv
<1> QED
    BY <1>1, <1>2 DEF Linkable, Fresh

(* Nobody else writes to a root with one attempt.                          *)
LEMMA SoleRests ==
    ASSUME IInv, Recorded, \A q \in Runs : Attempted(q), NEW r \in Roots, NEW p \in Runs,
           Sole(r, p), ~Acts(p), [Next]_vars
    PROVE  answers'[r] = answers[r] /\ verdicts'[r] = verdicts[r] /\ protocol'[r] = protocol[r]
<1>1. ASSUME NEW q \in Runs, q # p, Acts(q)
      PROVE  answers'[r] = answers[r] /\ verdicts'[r] = verdicts[r] /\ protocol'[r] = protocol[r]
    BY <1>1, WritersAttempted DEF WritesAsAttempt, Sole
<1>2. CASE \A q \in Runs : ~Acts(q)
    BY <1>2, OnlyActsWrite DEF rootFiles
<1> QED
    BY <1>1, <1>2

LEMMA SoleWorkKeeps ==
    ASSUME IInv, Recorded, \A q \in Runs : Attempted(q) /\ Finished(q) /\ Identified(q),
           NEW r \in Roots, NEW p \in Runs, Untried(r), SoleWork(r, p), [Next]_vars
    PROVE  SoleWork(r, p)'
<1> DEFINE W == /\ answers'[r] # None => \A row \in Rows :
                      Between(seen'[p].candidate, answers'[r][row], weights'[r])
                /\ verdicts'[r] # None => Between(seen'[p].judge, verdicts'[r].judge, weights'["judge"])
                /\ pc'[p] \in Candidate \cup {"identifyJudge"} => verdicts'[r] = None
                /\ status'["candidate"][r][p] = "complete" \/ pc'[p] = "candidateDone" => Complete(r)'
                /\ pc'[p] \in {"seal", "link"} => protocol'[r].controls
<1> SUFFICES ASSUME Sole(r, p)' PROVE W
    BY DEF SoleWork
<1> USE DEF IInv, rootFiles, inputs, procs
<1>0. Grows
    BY InputsGrow
<1>1. CASE Fresh(r) /\ Launch(p) /\ Root(p) = r
  <2>1. answers'[r] = None /\ verdicts'[r] = None /\ pc'[p] = "verify"
    BY <1>1 DEF Untried, Launch, Go, Shape
  <2>2. status'["candidate"][r][p] = "running"
    BY <1>1, Marked DEF Launch, Report
  <2> QED
    BY <2>1, <2>2, ZoomAssumption DEF Candidate
<1>2. CASE Sole(r, p)
  <2>0. /\ Root(p) = r /\ ~Resumes(p) /\ pc[p] \notin Early
        /\ answers[r] # None => \A row \in Rows :
              Between(seen[p].candidate, answers[r][row], weights[r])
        /\ verdicts[r] # None => Between(seen[p].judge, verdicts[r].judge, weights["judge"])
        /\ pc[p] \in Candidate \cup {"identifyJudge"} => verdicts[r] = None
        /\ status["candidate"][r][p] = "complete" \/ pc[p] = "candidateDone" => Complete(r)
        /\ pc[p] \in {"seal", "link"} => protocol[r].controls
    BY <1>2 DEF SoleWork, Sole, Attempted, Lifecycles
  <2>r. CASE Rests(p) /\ ~Acts(p)
    <3>1. answers'[r] = answers[r] /\ verdicts'[r] = verdicts[r] /\ protocol'[r] = protocol[r]
      BY <1>2, <2>r, SoleRests
    <3>2. ASSUME NEW m \in Roots \cup {"judge"}, NEW before, NEW version,
                 Between(before, version, weights[m])
          PROVE  Between(before, version, weights'[m])
      <4>1. weights[m] \in Nat /\ weights'[m] \in Nat /\ weights[m] <= weights'[m]
        BY <1>0 DEF Grows, Shape
      <4> QED
        BY <3>2, <4>1, BetweenGrows
    <3> QED
      BY <2>0, <2>r, <3>1, <3>2 DEF Rests, Complete, Lifecycles
  <2>a. CASE Acts(p)
    <3>1. ASSUME NEW s \in Roots, LookFresh(p, s) PROVE W
      BY <3>1, <2>0 DEF LookFresh, Go, Shape, Recorded, Early, Candidate, Matrix, Lifecycles, Own,
         Complete
    <3>2. ASSUME NEW s \in Roots, LookComplete(p, s) PROVE W
      BY <3>2, <2>0 DEF LookComplete, Early, Lifecycles
    <3>3. CASE TakeLease(p)
      BY <3>3, <2>0 DEF TakeLease, Early
    <3>4. CASE Identify(p)
        <4>1. pc[p] = "identifyJudge" /\ seen'[p].candidate = seen[p].candidate /\ pc'[p] = "matrix"
          BY <3>4, <2>0 DEF Identify, Early, Go, Shape, Recorded
        <4> QED
          BY <3>4, <2>0, <4>1, ZoomAssumption DEF Identify, Candidate, Complete
    <3>5. CASE Launch(p)
      <4>1. Root(p) \in Roots /\ ~Resumes(p)
        BY <3>5 DEF Launch, Phase, Candidate
      <4>2. CASE Mark("candidate", p, "running")
        <5>1. OnlyMarked("candidate", p, "running")
          BY <4>1, <4>2, MarkedOnly DEF Report, Lifecycles
        <5> QED
          BY <3>5, <4>1, <4>2, <5>1, <2>0 DEF Launch, Go, Shape, Early, OnlyMarked
      <4> QED
        BY <3>5, <4>2 DEF Launch
    <3>6. CASE Verify(p)
        <4>1. /\ pc[p] = "verify" /\ pc'[p] \in Candidate
              /\ UNCHANGED <<answers, verdicts, status, weights, seen>>
          BY <3>6 DEF Verify, Go, Shape, Candidate
        <4>2. pc'[p] = "candidateDone" => Complete(r)
          BY <3>6, <2>0 DEF Verify, VerifierExits, Go, Shape
        <4>3. pc'[p] \notin {"seal", "link"}
          BY <4>1 DEF Candidate
        <4> QED
          BY <2>0, <4>1, <4>2, <4>3 DEF Candidate, Complete
    <3>7. CASE Infer(p)
        <4>1. /\ pc[p] = "infer" /\ pc'[p] = "verify"
              /\ UNCHANGED <<verdicts, status, weights, seen>>
          BY <3>7 DEF Infer, Go, Shape
        <4>2. Between(seen[p].candidate, server[p], weights[r])
          BY <2>0, <4>1 DEF Identified, Candidate
        <4>3. \A row \in Rows : Between(seen[p].candidate, answers'[r][row], weights[r])
          <5>1. \A row \in Rows : \/ answers[r] # None /\ answers'[r][row] = answers[r][row]
                                \/ answers'[r][row] \in {None, Error, server[p]}
            BY <3>7, <2>0 DEF Infer, Shape
          <5> QED
            BY <2>0, <4>2, <5>1, ZoomAssumption DEF Between
        <4>4. status["candidate"][r][p] # "complete"
          BY <4>1 DEF Finished, Candidate
        <4> QED
          BY <2>0, <4>1, <4>3, <4>4 DEF Candidate
    <3>8. CASE EndCandidate(p)
        <4>1. UNCHANGED <<answers, verdicts, weights, seen>> /\ pc[p] \in Candidate
          BY <3>8 DEF EndCandidate, Candidate
        <4>2. pc'[p] \notin {"candidateDone", "seal", "link"}
          BY <3>8 DEF EndCandidate, Return, Go, Shape
        <4>3. CASE pc[p] = "candidateDone"
          BY <2>0, <4>1, <4>2, <4>3 DEF Complete
        <4>4. CASE pc[p] = "candidateFailed"
          <5>1. Mark("candidate", p, "failed")
            BY <3>8, <4>4 DEF EndCandidate
          <5>2. status'["candidate"][r][p] = "failed"
            BY <2>0, <5>1, Marked DEF Report
          <5> QED
            BY <2>0, <4>1, <4>2, <5>2
        <4> QED
          BY <3>8, <4>3, <4>4 DEF EndCandidate
    <3>9. CASE BeginMatrix(p)
      <4>1. Root(p) \in Roots /\ ~Resumes(p)
        BY <3>9 DEF BeginMatrix, Phase, Candidate, Matrix
      <4>2. CASE Mark("judge", p, "starting")
        <5>1. OnlyMarked("judge", p, "starting")
          BY <4>1, <4>2, MarkedOnly DEF Report, Lifecycles
        <5> QED
          BY <3>9, <4>1, <4>2, <5>1, <2>0 DEF BeginMatrix, Go, Shape, Candidate, Lifecycles, Complete,
             OnlyMarked
      <4>3. CASE Mark("judge", p, "initialized")
        <5>1. OnlyMarked("judge", p, "initialized")
          BY <4>1, <4>3, MarkedOnly DEF Report, Lifecycles
        <5> QED
          BY <3>9, <4>1, <4>3, <5>1, <2>0 DEF BeginMatrix, Go, Shape, Candidate, Lifecycles, Complete,
             OnlyMarked
      <4> QED
        BY <3>9, <4>2, <4>3 DEF BeginMatrix
    <3>10. CASE Spawn(p)
      BY <3>10, <2>0 DEF Spawn, Go, Shape, Recorded, Early, Candidate, Matrix, Lifecycles, Own,
         Complete
    <3>11. CASE NoteServer(p)
      BY <3>11, <2>0 DEF NoteServer, Go, Candidate, Lifecycles, Complete
    <3>12. CASE AwaitReady(p)
      <4>1. Root(p) \in Roots /\ ~Resumes(p)
        BY <3>12 DEF AwaitReady, Phase, Matrix
      <4>2. CASE Mark("judge", p, "judging")
        <5>1. OnlyMarked("judge", p, "judging")
          BY <4>1, <4>2, MarkedOnly, ZoomAssumption DEF Report, Lifecycles
        <5> QED
          BY <3>12, <4>1, <4>2, <5>1, ZoomAssumption, <2>0 DEF AwaitReady, Go, Shape, Early,
             Candidate, Matrix, Lifecycles, Own, Complete, OnlyMarked
      <4>3. CASE UNCHANGED status
        BY <3>12, <4>1, <4>3, <2>0 DEF AwaitReady, Go, Shape, Candidate, Lifecycles, Complete
      <4> QED
        BY <3>12, <4>2, <4>3 DEF AwaitReady
    <3>13. CASE JudgeRows(p)
        <4>1. pc[p] = "judging" /\ UNCHANGED <<answers, status, weights, seen>>
          BY <3>13 DEF JudgeRows
        <4>2. pc'[p] \in {"judged", "cleanupFailed"}
          BY <3>13 DEF JudgeRows, Go, Shape
        <4>3. Between(seen[p].judge, server[p], weights["judge"])
          BY <2>0, <4>1 DEF Identified
        <4>4. verdicts'[r] = verdicts[r] \/ verdicts'[r].judge = server[p]
          BY <3>13, <2>0 DEF JudgeRows, Shape
        <4> QED
          BY <2>0, <4>1, <4>2, <4>3, <4>4 DEF Candidate, Complete
    <3>14. CASE WriteProtocol(p)
      BY <3>14, <2>0 DEF WriteProtocol, Go, Shape, Recorded, Early, Candidate, Matrix, Lifecycles,
         Own, Complete
    <3>15. CASE Cleanup(p)
      <4>1. Root(p) \in Roots /\ ~Resumes(p)
        BY <3>15 DEF Cleanup, Phase, Candidate, Matrix
      <4>2. CASE Mark("judge", p, "complete")
        <5>1. OnlyMarked("judge", p, "complete")
          BY <4>1, <4>2, MarkedOnly, ZoomAssumption DEF Report, Lifecycles
        <5> QED
          BY <3>15, <4>1, <4>2, <5>1, ZoomAssumption, <2>0 DEF Cleanup, Return, Go, Shape, Recorded,
             Early, Candidate, Matrix, Lifecycles, Own, Complete, OnlyMarked
      <4>3. CASE Mark("judge", p, "failed")
        <5>1. OnlyMarked("judge", p, "failed")
          BY <4>1, <4>3, MarkedOnly, ZoomAssumption DEF Report, Lifecycles
        <5> QED
          BY <3>15, <4>1, <4>3, <5>1, ZoomAssumption, <2>0 DEF Cleanup, Return, Go, Shape, Recorded,
             Early, Candidate, Matrix, Lifecycles, Own, Complete, OnlyMarked
      <4>4. CASE UNCHANGED status
        BY <3>15, <4>1, <4>4, <2>0 DEF Cleanup, Return, Go, Shape, Candidate, Lifecycles, Complete
      <4> QED
        BY <3>15, <4>2, <4>3, <4>4 DEF Cleanup
    <3>16. CASE BindControls(p)
      BY <3>16, <2>0 DEF BindControls, Go, Shape, Recorded, Early, Candidate, Matrix, Lifecycles,
         Own, Complete
    <3>17. CASE Seal(p)
        <4>1. pc[p] = "seal" /\ UNCHANGED <<answers, verdicts, protocol, status, weights>>
          BY <3>17 DEF Seal
        <4>2. pc'[p] \in {"link", "failed"}
          BY <3>17 DEF Seal, Go, Shape
        <4>3. seen'[p].candidate = seen[p].candidate /\ seen'[p].judge = seen[p].judge
          BY <3>17 DEF Seal, Recorded
        <4> QED
          BY <2>0, <4>1, <4>2, <4>3 DEF Candidate, Complete
    <3>18. CASE Link(p)
      BY <3>18, <2>0 DEF Link, Go, Shape, Recorded, Early, Candidate, Matrix, Lifecycles, Own,
         Complete
    <3>19. CASE Fail(p)
      BY <3>19, <2>0 DEF Fail, Go, Shape, Candidate, Lifecycles, Complete
    <3>20. CASE KillOrchestrator(p)
      BY <3>20, <2>0 DEF KillOrchestrator, Fault, Candidate, Complete
    <3>21. CASE KillChild(p)
      BY <3>21, <2>0 DEF KillChild, Return, Go, Candidate, Lifecycles, Complete
    <3>22. CASE SignalMatrix(p)
      BY <3>22, <2>0 DEF SignalMatrix, Go, Shape, Candidate, Matrix, Complete
    <3>23. CASE ServerEnds(p)
      BY <3>23, <2>0 DEF ServerEnds, Shape, Matrix, Complete
    <3> QED BY <2>a, <3>1, <3>2, <3>3, <3>4, <3>5, <3>6, <3>7, <3>8, <3>9, <3>10, <3>11, <3>12, <3>13,
       <3>14,
           <3>15, <3>16, <3>17, <3>18, <3>19, <3>20, <3>21, <3>22, <3>23 DEF Acts, Step
  <2> QED
    BY <2>r, <2>a, ActsOrRests
<1> QED
    BY <1>1, <1>2, SoleFollows

(* Work that has ended is not touched any more: the attempt is the only    *)
(* one that may write, and it is beyond both of its lifecycles.            *)
LEMMA EndedRests ==
    ASSUME IInv, Recorded, \A q \in Runs : Attempted(q) /\ Finished(q),
           NEW r \in Roots, NEW p \in Runs, Sole(r, p),
           \A k \in Lifecycles : status[k][r][p] = "complete", [Next]_vars
    PROVE  /\ answers'[r] = answers[r] /\ verdicts'[r] = verdicts[r]
           /\ \A k \in Lifecycles : status'[k][r][p] = "complete"
<1> DEFINE G == /\ answers'[r] = answers[r] /\ verdicts'[r] = verdicts[r]
                /\ \A k \in Lifecycles : status'[k][r][p] = "complete"
<1> SUFFICES G
    OBVIOUS
<1> USE DEF IInv, rootFiles, inputs, procs
<1>0. pc[p] \notin Early \cup Candidate \cup Matrix \cup {"matrix"} /\ Root(p) = r /\ ~Resumes(p)
  <2>1. status["candidate"][r][p] = "complete" /\ status["judge"][r][p] = "complete"
    BY DEF Lifecycles
  <2>2. pc[p] \notin Candidate \cup Matrix \cup {"matrix"}
    BY <2>1 DEF Finished, Untold, Running
  <2> QED
    BY <2>2 DEF Sole, Attempted, Lifecycles
<1>r. CASE Rests(p) /\ ~Acts(p)
    BY <1>r, SoleRests DEF Rests
<1>a. CASE Acts(p)
  <2>1. ASSUME NEW s \in Roots, LookFresh(p, s) PROVE G
    BY <1>0, <2>1 DEF LookFresh, Early, Candidate, Matrix
  <2>2. ASSUME NEW s \in Roots, LookComplete(p, s) PROVE G
    BY <1>0, <2>2 DEF LookComplete
  <2>3. CASE TakeLease(p)
    BY <1>0, <2>3 DEF TakeLease
  <2>4. CASE Identify(p)
    BY <2>4 DEF Identify
  <2>5. CASE Launch(p)
    BY <1>0, <2>5 DEF Launch, Early
  <2>6. CASE Verify(p)
    BY <1>0, <2>6 DEF Verify, Early
  <2>7. CASE Infer(p)
    BY <1>0, <2>7 DEF Infer, Candidate
  <2>8. CASE EndCandidate(p)
    BY <1>0, <2>8 DEF EndCandidate, Candidate
  <2>9. CASE BeginMatrix(p)
    BY <1>0, <2>9 DEF BeginMatrix, Candidate
  <2>10. CASE Spawn(p)
    BY <1>0, <2>10 DEF Spawn
  <2>11. CASE NoteServer(p)
    BY <1>0, <2>11 DEF NoteServer
  <2>12. CASE AwaitReady(p)
    BY <1>0, <2>12 DEF AwaitReady, Matrix
  <2>13. CASE JudgeRows(p)
    BY <1>0, <2>13 DEF JudgeRows, Matrix
  <2>14. CASE WriteProtocol(p)
    BY <1>0, <2>14 DEF WriteProtocol, Matrix
  <2>15. CASE Cleanup(p)
    BY <1>0, <2>15 DEF Cleanup, Matrix
  <2>16. CASE BindControls(p)
    BY <2>16 DEF BindControls
  <2>17. CASE Seal(p)
    BY <2>17 DEF Seal
  <2>18. CASE Link(p)
    BY <2>18 DEF Link
  <2>19. CASE Fail(p)
    BY <2>19 DEF Fail
  <2>20. CASE KillOrchestrator(p)
    BY <1>0, <2>20 DEF KillOrchestrator
  <2>21. CASE KillChild(p)
    BY <1>0, <2>21 DEF KillChild
  <2>22. CASE SignalMatrix(p)
    BY <1>0, <2>22 DEF SignalMatrix
  <2>23. CASE ServerEnds(p)
    BY <2>23 DEF ServerEnds
  <2> QED BY <1>a, <2>1, <2>2, <2>3, <2>4, <2>5, <2>6, <2>7, <2>8, <2>9, <2>10, <2>11, <2>12, <2>13,
     <2>14,
         <2>15, <2>16, <2>17, <2>18, <2>19, <2>20, <2>21, <2>22, <2>23 DEF Acts, Step
<1> QED
    BY <1>r, <1>a, ActsOrRests

(* What the aggregator makes of a root with one attempt.                   *)
LEMMA ReceiptIsWhole ==
    ASSUME IInv, Recorded, \A q \in Runs : Attempted(q) /\ Finished(q),
           NEW r \in Roots, NEW p \in Runs, NEW q \in Runs, SoleWork(r, p), Sole(r, p),
           pc[q] = "seal", Root(q) = r, Sealable(q)
    PROVE  Whole(Receipt(q), r, p)
<1> USE DEF IInv
<1>1. ~Resumes(q) => q = p
    BY DEF Attempted, Launched, Sole
<1>2. \A k \in Lifecycles : status[k][r][p] = "complete"
  <2>1. CASE ~Resumes(q)
    BY <1>1, <2>1 DEF Finished, Launched, Candidate, Lifecycles
  <2>2. CASE Resumes(q)
    <3>1. ASSUME NEW k \in Lifecycles PROVE status[k][r][p] = "complete"
      <4>1. LifecycleComplete(k, r)
        BY <2>2 DEF Sealable, BothComplete, Lifecycles
      <4>2. PICK o \in Runs : Attempts(k, r) = {o} /\ status[k][r][o] = "complete"
        BY <4>1 DEF LifecycleComplete
      <4>3. status["candidate"][r][o] # None
        BY <4>2 DEF Attempts, Attempted
      <4> QED
        BY <4>2, <4>3 DEF Sole
    <3> QED
      BY <3>1
  <2> QED
    BY <2>1, <2>2
<1>3. answers[r] # None /\ verdicts[r] # None
    BY DEF Sealable, SameRows
<1>4. Complete(r)
    BY <1>2, <1>3 DEF SoleWork, Lifecycles
<1>5. ASSUME op[q].mode = "execute"
      PROVE  /\ \A row \in Rows : Named(r, <<seen[q].candidate, weights[r]>>, answers[r][row])
             /\ \/ verdicts[r].judge = None
                \/ Named("judge", <<seen[q].judge, weights["judge"]>>, verdicts[r].judge)
             /\ protocol[r].controls
  <2>1. q = p
    BY <1>1, <1>5 DEF Resumes
  <2>2. /\ Identity(r, weights[r]) = Identity(r, seen[p].candidate)
        /\ Identity("judge", weights["judge"]) = Identity("judge", seen[p].judge)
    BY <2>1 DEF Sealable, Unchanged, Same
  <2>3. \A row \in Rows : answers[r][row] \in Nat
    BY <1>3, <1>4 DEF Complete, Shape, Answer
  <2>4. \A row \in Rows : Between(seen[p].candidate, answers[r][row], weights[r])
    BY <1>3 DEF SoleWork
  <2>5. /\ verdicts[r].judge \in {None} \cup Nat
        /\ Between(seen[p].judge, verdicts[r].judge, weights["judge"])
    BY <1>3 DEF SoleWork, Shape, Verdict
  <2>6. protocol[r].controls
    BY <2>1 DEF SoleWork
  <2>7. weights[r] \in Nat /\ weights["judge"] \in Nat
    BY DEF Shape
  <2>8. ASSUME NEW row \in Rows
        PROVE  Named(r, <<seen[q].candidate, weights[r]>>, answers[r][row])
    BY <2>1, <2>2, <2>3, <2>4, <2>7 DEF Between, Named
  <2>9. CASE verdicts[r].judge # None
    <3>1. Named("judge", <<seen[q].judge, weights["judge"]>>, verdicts[r].judge)
      BY <2>1, <2>2, <2>5, <2>7, <2>9 DEF Between, Named
    <3> QED
      BY <2>6, <2>8, <3>1
  <2> QED
    BY <2>6, <2>8, <2>9
<1>6. /\ Receipt(q).mode = op[q].mode /\ Receipt(q).candidate = <<seen[q].candidate, weights[r]>>
      /\ Receipt(q).judge = <<seen[q].judge, weights["judge"]>> /\ Receipt(q).answers = answers[r]
      /\ Receipt(q).verdicts = verdicts[r] /\ Receipt(q).controls = protocol[r].controls
    BY DEF Receipt
<1> QED
    BY <1>2, <1>4, <1>5, <1>6 DEF Whole, Complete

LEMMA SealedKeeps ==
    ASSUME IInv, Recorded, \A q \in Runs : Attempted(q) /\ Finished(q) /\ Linkable(q),
           NEW r \in Roots, NEW p \in Runs, Untried(r), SoleWork(r, p), Sealed(r, p), [Next]_vars
    PROVE  Sealed(r, p)'
<1> USE DEF IInv
<1> SUFFICES ASSUME Sole(r, p)'
             PROVE  /\ \A q \in Runs : pc'[q] = "link" /\ Root(q)' = r => Whole(seen[q].receipt, r, p)'
                    /\ aggregate'[r] # None => Whole(aggregate[r], r, p)'
    BY DEF Sealed
<1>1. \/ aggregate'[r] = aggregate[r]
      \/ \E q \in Runs : pc[q] = "link" /\ Root(q) = r /\ aggregate'[r] = seen[q].receipt
  <2>1. CASE \A q \in Runs : ~Acts(q)
    BY <2>1, OnlyActsWrite DEF rootFiles
  <2> QED
    BY <2>1, WritersAttempted DEF WritesAsAttempt
<1>2. \A q \in Runs : pc'[q] = "link" /\ Root(q)' = r =>
        /\ Root(q) = r
        /\ \/ pc[q] = "link" /\ seen'[q].receipt = seen[q].receipt
           \/ /\ pc[q] = "seal" /\ Sealable(q) /\ seen'[q].receipt = Receipt(q)
              /\ UNCHANGED <<answers, verdicts, status>>
  <2> SUFFICES ASSUME NEW q \in Runs, pc'[q] = "link", Root(q)' = r
               PROVE  /\ Root(q) = r
                      /\ \/ pc[q] = "link" /\ seen'[q].receipt = seen[q].receipt
                         \/ /\ pc[q] = "seal" /\ Sealable(q) /\ seen'[q].receipt = Receipt(q)
                            /\ UNCHANGED <<answers, verdicts, status>>
    OBVIOUS
  <2> DEFINE G == /\ Root(q) = r
                  /\ \/ pc[q] = "link" /\ seen'[q].receipt = seen[q].receipt
                     \/ /\ pc[q] = "seal" /\ Sealable(q) /\ seen'[q].receipt = Receipt(q)
                        /\ UNCHANGED <<answers, verdicts, status>>
  <2> SUFFICES G
    OBVIOUS
  <2> USE DEF rootFiles, inputs, procs
  <2>r. CASE Rests(q)
    BY <2>r DEF Rests, Root
  <2>a. CASE Acts(q)
    <3>1. ASSUME NEW s \in Roots, LookFresh(q, s) PROVE G
      BY <3>1 DEF LookFresh, Go, Shape, Root
    <3>2. ASSUME NEW s \in Roots, LookComplete(q, s) PROVE G
      BY <3>2 DEF LookComplete, Go
    <3>3. CASE TakeLease(q)
      BY <3>3 DEF TakeLease, Go
    <3>4. CASE Identify(q)
      BY <3>4 DEF Identify, Go, Shape
    <3>5. CASE Launch(q)
      BY <3>5 DEF Launch, Go, Shape
    <3>6. CASE Verify(q)
      BY <3>6 DEF Verify, Go, Shape
    <3>7. CASE Infer(q)
      BY <3>7 DEF Infer, Go, Shape
    <3>8. CASE EndCandidate(q)
      BY <3>8 DEF EndCandidate, Return, Go
    <3>9. CASE BeginMatrix(q)
      BY <3>9 DEF BeginMatrix, Go, Shape
    <3>10. CASE Spawn(q)
      BY <3>10 DEF Spawn, Go, Shape
    <3>11. CASE NoteServer(q)
      BY <3>11 DEF NoteServer, Go
    <3>12. CASE AwaitReady(q)
      BY <3>12 DEF AwaitReady, Go, Shape
    <3>13. CASE JudgeRows(q)
      BY <3>13 DEF JudgeRows, Go, Shape
    <3>14. CASE WriteProtocol(q)
      BY <3>14 DEF WriteProtocol, Go, Shape
    <3>15. CASE Cleanup(q)
      BY <3>15 DEF Cleanup, Return, Go, Shape
    <3>16. CASE BindControls(q)
      BY <3>16 DEF BindControls, Go, Shape, Root
    <3>17. CASE Seal(q)
      BY <3>17 DEF Seal, Go, Shape, Root, Recorded
    <3>18. CASE Link(q)
      BY <3>18 DEF Link, Go, Shape, Root
    <3>19. CASE Fail(q)
      BY <3>19 DEF Fail, Go, Root
    <3>20. CASE KillOrchestrator(q)
      BY <3>20 DEF KillOrchestrator, Fault, Root
    <3>21. CASE KillChild(q)
      BY <3>21 DEF KillChild, Return, Go, Root
    <3>22. CASE SignalMatrix(q)
      BY <3>22 DEF SignalMatrix, Go, Shape
    <3>23. CASE ServerEnds(q)
      BY <3>23 DEF ServerEnds, Shape, Root
    <3> QED BY <2>a, <3>1, <3>2, <3>3, <3>4, <3>5, <3>6, <3>7, <3>8, <3>9, <3>10, <3>11, <3>12, <3>13,
       <3>14,
           <3>15, <3>16, <3>17, <3>18, <3>19, <3>20, <3>21, <3>22, <3>23 DEF Acts, Step
  <2> QED
    BY <2>r, <2>a, ActsOrRests
<1>3. CASE Fresh(r) /\ Launch(p) /\ Root(p) = r
  <2>1. aggregate[r] = None /\ verdicts[r] = None
    BY <1>3 DEF Untried
  <2>2. \A q \in Runs : Root(q) = r => pc[q] # "link" /\ ~(pc[q] = "seal" /\ Sealable(q))
    BY <1>3, <2>1 DEF Linkable, Sealable, SameRows
  <2>3. aggregate'[r] = None
    BY <1>1, <2>1, <2>2
  <2> QED
    BY <1>2, <2>2, <2>3
<1>4. CASE Sole(r, p)
  <2>2. ASSUME NEW q \in Runs, pc'[q] = "link", Root(q)' = r
        PROVE  Whole(seen[q].receipt, r, p)'
    <3>1. CASE pc[q] = "link" /\ Root(q) = r /\ seen'[q].receipt = seen[q].receipt
      <4>1. Whole(seen[q].receipt, r, p)
        BY <1>4, <3>1 DEF Sealed
      <4>2. /\ answers'[r] = answers[r] /\ verdicts'[r] = verdicts[r]
            /\ \A k \in Lifecycles : status'[k][r][p] = "complete"
        BY <1>4, <4>1, EndedRests DEF Whole
      <4> QED
        BY <3>1, <4>1, <4>2 DEF Whole
    <3>2. CASE /\ pc[q] = "seal" /\ Root(q) = r /\ Sealable(q) /\ seen'[q].receipt = Receipt(q)
               /\ UNCHANGED <<answers, verdicts, status>>
      <4>1. Whole(Receipt(q), r, p)
        BY <1>4, <3>2, ReceiptIsWhole
      <4> QED
        BY <3>2, <4>1 DEF Whole
    <3> QED
      BY <1>2, <2>2, <3>1, <3>2
  <2>3. ASSUME aggregate'[r] # None
        PROVE  Whole(aggregate[r], r, p)'
    <3>1. \/ Whole(aggregate[r], r, p) /\ aggregate'[r] = aggregate[r]
          \/ \E q \in Runs : Whole(seen[q].receipt, r, p) /\ aggregate'[r] = seen[q].receipt
      BY <1>1, <1>4, <2>3 DEF Sealed
    <3>2. \A k \in Lifecycles : status[k][r][p] = "complete"
      BY <3>1 DEF Whole
    <3>3. /\ answers'[r] = answers[r] /\ verdicts'[r] = verdicts[r]
          /\ \A k \in Lifecycles : status'[k][r][p] = "complete"
      BY <1>4, <3>2, EndedRests
    <3> QED
      BY <3>1, <3>3 DEF Whole
  <2> QED
    BY <2>2, <2>3
<1> QED
    BY <1>3, <1>4, SoleFollows

LEMMA FewAttemptsKeeps ==
    ASSUME IInv, Recorded, \A q \in Runs : Attempted(q), FewAttempts, [Next]_vars
    PROVE  FewAttempts'
<1> SUFFICES ASSUME NEW r \in Roots PROVE IsFiniteSet(Attempts("candidate", r)')
    BY DEF FewAttempts
<1>1. IsFiniteSet(Attempts("candidate", r))
    BY DEF FewAttempts
<1>2. CASE \A p \in Runs : ~Launch(p)
  <2>1. Attempts("candidate", r)' = Attempts("candidate", r)
    BY <1>2, AttemptsGrow DEF Attempts
  <2> QED
    BY <1>1, <2>1
<1>3. ASSUME NEW p \in Runs, Launch(p)
      PROVE  IsFiniteSet(Attempts("candidate", r)')
  <2>1. \A q \in Runs \ {p} : status'["candidate"][r][q] = status["candidate"][r][q]
    BY <1>3, OthersRest DEF Acts, Step, Rests, Lifecycles
  <2>2. Attempts("candidate", r)' \subseteq Attempts("candidate", r) \cup {p}
    BY <2>1 DEF Attempts
  <2>3. IsFiniteSet(Attempts("candidate", r) \cup {p})
    BY <1>1, FS_AddElement
  <2> QED
    BY <2>2, <2>3, FS_Subset
<1> QED
    BY <1>2, <1>3

LEMMA InitIsAuthentic == Init => AInv
<1> SUFFICES ASSUME Init PROVE AInv
    OBVIOUS
<1>1. Recorded
    BY DEF Init, Recorded
<1>2. \A r \in Roots, p \in Runs, k \in Lifecycles : status[k][r][p] = None
    BY DEF Init, Lifecycles
<1>3. FewAttempts
  <2>1. \A r \in Roots : Attempts("candidate", r) = {}
    BY <1>2 DEF Attempts, Lifecycles
  <2> QED
    BY <2>1, FS_EmptySet DEF FewAttempts
<1>4. \A p \in Runs : Attempted(p) /\ Finished(p) /\ Identified(p) /\ Linkable(p)
  <2>1. \A p \in Runs : pc[p] = "none"
    BY DEF Init
  <2>2. \A p \in Runs : pc[p] \notin Launched /\ pc[p] \notin Candidate
    BY <2>1 DEF Launched, Candidate, Matrix
  <2> QED
    BY <1>2, <2>1, <2>2 DEF Attempted, Finished, Identified, Linkable, Launched
<1>5. \A r \in Roots : Untried(r)
    BY DEF Init, Untried
<1>6. \A r \in Roots, p \in Runs : ~Sole(r, p)
    BY <1>2 DEF Sole, Lifecycles
<1> QED
    BY <1>1, <1>3, <1>4, <1>5, <1>6 DEF AInv, SoleWork, Sealed

LEMMA StepIsAuthentic == IInv /\ AInv /\ [Next]_vars => AInv'
<1> SUFFICES ASSUME IInv, AInv, [Next]_vars PROVE AInv'
    OBVIOUS
<1>1. Recorded' /\ FewAttempts'
    BY RecordedKeeps, FewAttemptsKeeps DEF AInv
<1>2. \A p \in Runs : Attempted(p)' /\ Finished(p)' /\ Identified(p)' /\ Linkable(p)'
    BY AttemptedKeeps, FinishedKeeps, IdentifiedKeeps, LinkableKeeps DEF AInv
<1>3. \A r \in Roots : Untried(r)'
    BY UntriedKeeps DEF AInv
<1>4. \A r \in Roots, p \in Runs : SoleWork(r, p)' /\ Sealed(r, p)'
    BY SoleWorkKeeps, SealedKeeps DEF AInv
<1> QED
    BY <1>1, <1>2, <1>3, <1>4 DEF AInv

(* The work of a sole attempt is its own, in every reachable state.        *)
THEOREM Authentic == Spec => []AInv
<1> QED BY InitIsInductive, StepKeeps, InitIsAuthentic, StepIsAuthentic, PTL DEF Spec

LEMMA OneAttemptIsSole ==
    ASSUME FewAttempts, NEW r \in Roots, Cardinality(Attempts("candidate", r)) = 1
    PROVE  \E p \in Runs : Sole(r, p)
<1>1. PICK p : Attempts("candidate", r) = {p}
    BY FS_Singleton DEF FewAttempts
<1> QED
    BY <1>1 DEF Attempts, Sole

(* The checkpoints an authority of an execution names are those that gave  *)
(* every answer and every verdict it counts: checkpoints only change in    *)
(* one direction, and are compared with what they were before they were    *)
(* loaded when all is over.                                                *)
THEOREM AuthoritiesNameTheirModels == Spec => []IdentityIsOfLifecycle
<1>1. AInv => IdentityIsOfLifecycle
    BY OneAttemptIsSole DEF AInv, IdentityIsOfLifecycle, Sealed, Whole
<1> QED BY <1>1, Authentic, PTL

(* An authority counts the answers and verdicts that stay on the disk, and *)
(* both lifecycles of the one attempt have ended well, whether it was      *)
(* sealed at once or by a resumption.                                      *)
THEOREM AuthoritiesAreWhole == Spec => []AuthorityIsWhole
<1>1. AInv => AuthorityIsWhole
    BY OneAttemptIsSole DEF AInv, AuthorityIsWhole, Sealed, Whole, Lifecycles
<1> QED BY <1>1, Authentic, PTL
=============================================================================
