-------------------------- MODULE ReferenceProofs --------------------------
(***************************************************************************)
(* The reference evaluation for any number of invocations, targets, rows,  *)
(* jobs, faults and preparations: the receipts form one chain, the answers *)
(* under them are of one data set, the score is the judge's, the matrix is *)
(* uniform, and certified answers are never given to the inferencer.       *)
(***************************************************************************)
EXTENDS ReferenceProperties, TLAPS

(***************************************************************************)
(* Receipts.  A publication with the name n and the content v is grounded  *)
(* in the publications P when what it says it was made from is in P.       *)
(***************************************************************************)
Grounded(P, n, v) ==
    /\ n = Runtime => P[Gate] # None /\ v.gate = P[Gate]
    /\ \A t \in Targets :
        /\ n = RunOf(t) => P[Data] # None /\ v.data = P[Data]
        /\ n = Answers(t) =>
              /\ P[RunOf(t)] # None /\ v.run = P[RunOf(t)]
        /\ n = Judge(t) =>
              /\ P[Answers(t)] # None /\ v.answers = P[Answers(t)]
              /\ P[Model] # None /\ v.model = P[Model]
              /\ v.runtime = None \/ (P[Runtime] # None /\ v.runtime = P[Runtime])
        /\ n = Score(t) => P[Judge(t)] # None /\ v.correct = P[Judge(t)].correct
        /\ n = Gate => P[Answers(t)] # None /\ v.answers[t] = P[Answers(t)]
        /\ n = Matrix =>
              /\ P[Data] # None /\ v.judges[t].answers.run.data = P[Data]
              /\ v.judges[t].runtime = v.runtime
              /\ v.judges[t].model = v.runtime.model
              /\ v.judges[t].answers = v.runtime.gate.answers[t]

Linked(P) == \A n \in Names : P[n] # None => Grounded(P, n, P[n])

(* Only verdicts are ever changed, by an operator.                         *)
Fixed == Names \ {Verdicts(t) : t \in Targets}
Keeps(P, Q) == \A n \in Fixed : P[n] # None => Q[n] = P[n]

(* What a step of another invocation leaves alone for the target t.        *)
Spares(P, Q, t) == Q[Answers(t)] = P[Answers(t)] /\ Q[Verdicts(t)] = P[Verdicts(t)]

(***************************************************************************)
(* Invocations.  May(a, b): the command b may follow the command a.        *)
(***************************************************************************)
May(a, b) ==
    /\ a = "callJudge" <=> b = "stagedGate"
    /\ a \in {"stagedGate", "callScore"} <=> b = "publish"
    /\ b = "chooseInfer" => a = "run"
    /\ b = "callScore" => a = "judge"
    /\ b = "resume" => a = "partial"
    /\ b \notin {"prepare", "tryAnswers", "partial"}

Follows(q) == \A i \in 1..(Len(q) - 1) : May(q[i], q[i + 1])

Bare == {"model", "runtime", "matrix"}
Opening == {"tryAnswers", "partial", "resume"}
Holders == Gates \cup {"prepare", "stagedGate", "publish"}

(* What holds of the publications P when the command c is about to run for *)
(* t with h in its hands: what a gate has built is grounded, the way to    *)
(* the inferencer is open only to answers without a receipt, and the score *)
(* is of the verdicts that the judge's receipt is about.                   *)
Owes(P, c, t, h) ==
    /\ c \in Gates /\ h # None => Grounded(P, NameOf(c, t), h)
    /\ c \in Opening => P[Answers(t)] = None
    /\ c \in Opening \cup {"chooseInfer"} => P[Data] # None
    /\ c = "judge" /\ h # None => h.correct = Correct(P[Verdicts(t)])
    /\ c = "callScore" => P[Judge(t)] # None /\ P[Judge(t)].correct = Correct(P[Verdicts(t)])
    /\ c = "stagedGate" => "says" \in DOMAIN h
    /\ c = "publish" /\ "says" \notin DOMAIN h =>
          P[Judge(t)] # None /\ h.correct = P[Judge(t)].correct

Due(P, q, t, h) ==
    /\ Follows(q)
    /\ h # None => q # <<>> /\ Head(q) \in Holders
    /\ q # <<>> => /\ Owes(P, Head(q), t, h)
                   /\ t \in Targets \/ (Head(q) \in Bare /\ Tail(q) = <<>>)

Orderly == \A p \in Runs : Due(pub, todo[p], Target(p), held[p])

(* The artifact lock of a target.                                          *)
Locked ==
    \A p, q \in Runs :
        todo[p] # <<>> /\ todo[q] # <<>> /\ Target(p) = Target(q) /\ Target(p) \in Targets => p = q

(***************************************************************************)
(* Data.  The tree only ages: it is changed, or another preparation takes  *)
(* its place.  What was read from it is never newer than it is, but for    *)
(* the parts that were put back.                                           *)
(***************************************************************************)
Contents == [preparation : 1..MaxAttempts, json : SUBSET {"json"}, images : SUBSET {"image"}]
Sheets == [lines : [Rows -> [said : {"text", "error", "edited", "foreign"}, on : Contents] \cup {None}],
           torn : BOOLEAN]
Staging == [attempt : 1..MaxAttempts, stage : {"empty", "acquired", "converted", "sealed"}]

Before(a, b, restored) ==
    \/ a.preparation < b.preparation
    \/ /\ a.preparation = b.preparation
       /\ a.json \subseteq b.json \cup restored
       /\ a.images \subseteq b.images \cup restored

ContentOf(tr) ==
    [preparation |-> tr.attempt, json |-> tr.changed \cap {"json"}, images |-> tr.changed \cap {"image"}]

(* The content a was read before now: the tree is tr, n preparations have  *)
(* begun, and one of them may be under way.                                *)
Dated(a, tr, n, underWay, restored) ==
    /\ a \in Contents /\ a.preparation <= n
    /\ tr # None => Before(a, ContentOf(tr), restored)
    /\ underWay => a.preparation < n

(* A file of answers was given on the content of the data receipt.         *)
Alike(file, P, restored) ==
    P[Data] # None /\ \A r \in Rows : AlikeBut(file.lines[r].on, P[Data], restored)

Readers == {"data", "answers", "tryAnswers"}

(* What the command c has read and not yet published, and what was.        *)
ReadIn(P, c, h, tr, n, underWay, restored) ==
    /\ c = "data" => Dated(h, tr, n, underWay, restored)
    /\ c \in {"answers", "tryAnswers"} => Alike(h.file, P, restored)

PublishedIn(P, tr, n, underWay, restored) ==
    /\ P[Data] # None => Dated(P[Data], tr, n, underWay, restored)
    /\ \A t \in Targets : P[Answers(t)] # None => Alike(P[Answers(t)].file, P, restored)

SheetsIn(P, sheets, tr, n, underWay, restored) ==
    \A t \in Targets : sheets[t] # None =>
        /\ sheets[t] \in Sheets
        /\ \A r \in Rows : sheets[t].lines[r] # None =>
              /\ Dated(sheets[t].lines[r].on, tr, n, underWay, restored)
              /\ P[Data] # None /\ Before(P[Data], sheets[t].lines[r].on, restored)

AgedIn(P, sheets, queue, hand, tr, n, underWay, restored) ==
    /\ PublishedIn(P, tr, n, underWay, restored)
    /\ \A p \in Runs : queue[p] # <<>> /\ hand[p] # None =>
          ReadIn(P, Head(queue[p]), hand[p], tr, n, underWay, restored)
    /\ SheetsIn(P, sheets, tr, n, underWay, restored)

Aged == AgedIn(pub, rows, todo, held, tree, spent.attempts, PreparationLocked, spent.restored)

(* The preparation under way is the last one and the only one.             *)
OnePreparation ==
    /\ tree # None => tree.attempt <= spent.attempts
    /\ \A q \in Runs : Preparing(q) =>
          /\ tree = None /\ held[q] \in Staging /\ held[q].attempt = spent.attempts
          /\ \A r \in Runs : Preparing(r) => q = r

IInv == TypeOK /\ Linked(pub) /\ Orderly /\ Locked /\ OnePreparation /\ Aged

(***************************************************************************)
(* Lemmas on receipts.                                                     *)
(***************************************************************************)
LEMMA NamesAreFixed ==
    /\ {Data, Model, Gate, Runtime, Matrix} \subseteq Fixed
    /\ \A t \in Targets : {RunOf(t), Answers(t), Judge(t), Score(t)} \subseteq Fixed
    /\ \A t \in Targets : Verdicts(t) \in Names /\ Verdicts(t) \notin Fixed
    /\ Fixed \subseteq Names
<1>1. {Data, Model, Gate, Runtime, Matrix} \subseteq Fixed
    BY DEF Fixed, Names, Data, Model, Gate, Runtime, Matrix, Verdicts
<1>2. \A t \in Targets : {RunOf(t), Answers(t), Judge(t), Score(t)} \subseteq Fixed
    BY DEF Fixed, Names, RunOf, Answers, Judge, Score, Verdicts
<1> QED BY <1>1, <1>2 DEF Names, Verdicts, Fixed

(* A receipt stays grounded when the others stay.                          *)
LEMMA GroundedStays ==
    ASSUME NEW P, NEW Q, Keeps(P, Q), NEW n, NEW v, Grounded(P, n, v)
    PROVE  Grounded(Q, n, v)
<1>1. n = Runtime => Q[Gate] # None /\ v.gate = Q[Gate]
    BY NamesAreFixed DEF Keeps, Grounded
<1>2. ASSUME NEW t \in Targets PROVE
        /\ n = RunOf(t) => Q[Data] # None /\ v.data = Q[Data]
        /\ n = Score(t) => Q[Judge(t)] # None /\ v.correct = Q[Judge(t)].correct
    BY NamesAreFixed DEF Keeps, Grounded
<1>3. ASSUME NEW t \in Targets, n = Answers(t) PROVE
        Q[RunOf(t)] # None /\ v.run = Q[RunOf(t)]
    BY <1>3, NamesAreFixed DEF Keeps, Grounded
<1>4. ASSUME NEW t \in Targets, n = Judge(t) PROVE
        /\ Q[Answers(t)] # None /\ v.answers = Q[Answers(t)]
        /\ Q[Model] # None /\ v.model = Q[Model]
        /\ v.runtime = None \/ (Q[Runtime] # None /\ v.runtime = Q[Runtime])
    BY <1>4, NamesAreFixed DEF Keeps, Grounded
<1>5. ASSUME NEW t \in Targets PROVE
        /\ n = Gate => Q[Answers(t)] # None /\ v.answers[t] = Q[Answers(t)]
        /\ n = Matrix =>
              /\ Q[Data] # None /\ v.judges[t].answers.run.data = Q[Data]
              /\ v.judges[t].runtime = v.runtime
              /\ v.judges[t].model = v.runtime.model
              /\ v.judges[t].answers = v.runtime.gate.answers[t]
    BY NamesAreFixed DEF Keeps, Grounded
<1> QED BY <1>1, <1>2, <1>3, <1>4, <1>5 DEF Grounded

(* One publication that is grounded, under a name that is free or is not   *)
(* fixed, keeps the others and the links.                                  *)
LEMMA LinkOne ==
    ASSUME NEW P, DOMAIN P = Names, Linked(P), NEW n \in Names, NEW v, Grounded(P, n, v),
           n \in Fixed => P[n] \in {None, v},
           NEW Q, Q = [P EXCEPT ![n] = v]
    PROVE  Keeps(P, Q) /\ Linked(Q) /\ DOMAIN Q = Names
<1>1. DOMAIN Q = Names /\ \A m \in Names : Q[m] = IF m = n THEN v ELSE P[m]
    OBVIOUS
<1>2. Keeps(P, Q)
    BY <1>1 DEF Keeps, Fixed
<1>3. ASSUME NEW m \in Names, Q[m] # None PROVE Grounded(Q, m, Q[m])
  <2>1. Grounded(P, m, Q[m])
      BY <1>1, <1>3 DEF Linked
  <2> QED BY <1>2, <2>1, GroundedStays
<1> QED BY <1>1, <1>2, <1>3 DEF Linked

LEMMA NothingChanged ==
    ASSUME NEW P
    PROVE  Keeps(P, P) /\ \A t \in Targets : Spares(P, P, t)
BY DEF Keeps, Spares

(* The names under which a gate publishes: its target's own, or shared.    *)
LEMMA GateNames ==
    ASSUME NEW c \in Gates, NEW t, t \in Targets \/ c \in Bare
    PROVE  /\ NameOf(c, t) \in Fixed
           /\ c \notin {"answers", "tryAnswers"} => \A u \in Targets : NameOf(c, t) # Answers(u)
           /\ \A u \in Targets : u # t => NameOf(c, t) # Answers(u)
           /\ \A u \in Targets : NameOf(c, t) # Verdicts(u)
<1>1. CASE c \in {"data", "model", "runtime", "matrix"}
    BY <1>1, NamesAreFixed DEF NameOf, Data, Model, Runtime, Matrix, Answers, Verdicts
<1>2. CASE c \in {"run", "judge"}
    BY <1>2, NamesAreFixed DEF NameOf, RunOf, Judge, Answers, Verdicts, Bare
<1>3. CASE c \in {"answers", "tryAnswers"}
    BY <1>3, NamesAreFixed DEF NameOf, Answers, Verdicts, Bare
<1> QED BY <1>1, <1>2, <1>3 DEF Gates

(***************************************************************************)
(* Lemmas on lists of commands.                                            *)
(***************************************************************************)
LEMMA TailFollows ==
    ASSUME NEW q \in Seq(Commands), q # <<>>, Follows(q)
    PROVE  /\ Tail(q) \in Seq(Commands) /\ Follows(Tail(q)) /\ Head(q) \in Commands
           /\ Tail(q) # <<>> => May(Head(q), Head(Tail(q)))
<1>1. /\ Tail(q) \in Seq(Commands) /\ Len(Tail(q)) = Len(q) - 1 /\ Len(q) \in Nat \ {0}
      /\ \A i \in 1..Len(Tail(q)) : Tail(q)[i] = q[i + 1]
    OBVIOUS
<1>2. ASSUME NEW i \in 1..(Len(Tail(q)) - 1) PROVE May(Tail(q)[i], Tail(q)[i + 1])
  <2>1. i + 1 \in 1..(Len(q) - 1) /\ i \in 1..Len(Tail(q)) /\ i + 1 \in 1..Len(Tail(q))
      BY <1>1
  <2>2. May(q[i + 1], q[(i + 1) + 1])
      BY <2>1 DEF Follows
  <2> QED BY <1>1, <2>1, <2>2
<1>3. ASSUME Tail(q) # <<>> PROVE May(Head(q), Head(Tail(q)))
  <2>1. Len(q) >= 2
      BY <1>1, <1>3
  <2>2. 1 \in 1..(Len(q) - 1) /\ 1 + 1 = 2
      BY <1>1, <2>1
  <2>3. Head(Tail(q)) = q[2] /\ Head(q) = q[1]
      BY <1>1, <1>3, <2>1
  <2>4. May(q[1], q[1 + 1])
      BY <2>2 DEF Follows
  <2> QED BY <2>2, <2>3, <2>4
<1>4. Head(q) \in Commands
    OBVIOUS
<1> QED BY <1>1, <1>2, <1>3, <1>4 DEF Follows

LEMMA OneFollows == ASSUME NEW c PROVE Follows(<<c>>)
BY DEF Follows

LEMMA TwoFollow == ASSUME NEW a, NEW b, May(a, b) PROVE Follows(<<a, b>>)
BY DEF Follows

LEMMA ThreeFollow == ASSUME NEW a, NEW b, NEW c, May(a, b), May(b, c) PROVE Follows(<<a, b, c>>)
<1> DEFINE q == <<a, b, c>>
<1>1. Len(q) = 3 /\ q[1] = a /\ q[2] = b /\ q[3] = c
    OBVIOUS
<1> HIDE DEF q
<1>2. ASSUME NEW i \in 1..(Len(q) - 1) PROVE May(q[i], q[i + 1])
  <2>1. i = 1 \/ i = 2
      BY <1>1
  <2>2. CASE i = 1
    <3>1. q[i] = a /\ q[i + 1] = b
        BY <1>1, <2>2
    <3> QED BY <3>1
  <2>3. CASE i = 2
    <3>1. q[i] = b /\ q[i + 1] = c
        BY <1>1, <2>3
    <3> QED BY <3>1
  <2> QED BY <2>1, <2>2, <2>3
<1> QED BY <1>2 DEF Follows, q

(* A list may be put before another whose first command needs nothing.     *)
LEMMA JoinFollows ==
    ASSUME NEW a \in Seq(Commands), NEW b \in Seq(Commands), Follows(a), Follows(b), a # <<>>,
           b # <<>> => May(a[Len(a)], Head(b))
    PROVE  /\ a \o b \in Seq(Commands) /\ Follows(a \o b) /\ Head(a \o b) = Head(a) /\ a \o b # <<>>
           /\ b # <<>> => (a \o b)[Len(a \o b)] = b[Len(b)]
<1>1. /\ a \o b \in Seq(Commands) /\ Len(a \o b) = Len(a) + Len(b)
      /\ Len(a) \in Nat \ {0} /\ Len(b) \in Nat
      /\ \A i \in 1..Len(a) : (a \o b)[i] = a[i]
      /\ \A i \in 1..Len(b) : (a \o b)[Len(a) + i] = b[i]
    OBVIOUS
<1>2. ASSUME NEW i \in 1..(Len(a \o b) - 1) PROVE May((a \o b)[i], (a \o b)[i + 1])
  <2>1. CASE i < Len(a)
    <3>1. i \in 1..Len(a) /\ i + 1 \in 1..Len(a) /\ i \in 1..(Len(a) - 1)
        BY <1>1, <2>1
    <3>2. May(a[i], a[i + 1])
        BY <3>1 DEF Follows
    <3> QED BY <1>1, <3>1, <3>2
  <2>2. CASE i = Len(a)
    <3>1. b # <<>> /\ Head(b) = b[1] /\ 1 \in 1..Len(b) /\ i \in 1..Len(a)
        BY <1>1, <2>2
    <3> QED BY <1>1, <2>2, <3>1
  <2>3. CASE i > Len(a)
    <3>1. PICK j \in 1..(Len(b) - 1) : i = Len(a) + j
      <4>1. i - Len(a) \in 1..(Len(b) - 1) /\ i = Len(a) + (i - Len(a))
          BY <1>1, <2>3
      <4> QED BY <4>1, <1>1
    <3>2. j \in 1..Len(b) /\ j + 1 \in 1..Len(b) /\ i + 1 = Len(a) + (j + 1)
        BY <1>1, <3>1
    <3>3. May(b[j], b[j + 1])
        BY DEF Follows
    <3> QED BY <1>1, <3>1, <3>2, <3>3
  <2> QED BY <1>1, <2>1, <2>2, <2>3
<1> QED BY <1>1, <1>2 DEF Follows

(* Every invocation starts with a verification, a preparation or a command *)
(* of the helper that needs no target.                                     *)
LEMMA PlansAreDue ==
    ASSUME NEW m \in Modes
    PROVE  /\ Plan(m) \in Seq(Commands) /\ Follows(Plan(m)) /\ Plan(m) # <<>>
           /\ Head(Plan(m)) \in {"verify", "prepare"} \cup Bare
           /\ m \in Lifecycles \/ (Head(Plan(m)) \in Bare /\ Tail(Plan(m)) = <<>>)
<1>1. /\ Freeze \in Seq(Commands) /\ Freeze # <<>> /\ Head(Freeze) = "verify"
      /\ Freeze[Len(Freeze)] = "run" /\ Follows(Freeze)
  <2>1. May("verify", "data") /\ May("data", "run")
      BY DEF May
  <2>2. Follows(<<"verify", "data", "run">>)
      BY <2>1, ThreeFollow
  <2> QED BY <2>2 DEF Freeze, Commands, Gates
<1>2. /\ ScorePlan \in Seq(Commands) /\ ScorePlan # <<>> /\ Head(ScorePlan) = "answers"
      /\ Follows(ScorePlan)
  <2>1. May("answers", "judge") /\ May("judge", "callScore") /\ May("callScore", "publish")
      BY DEF May
  <2>2. Follows(<<"answers", "judge">>) /\ Follows(<<"callScore", "publish">>)
      BY <2>1, TwoFollow
  <2>3. ScorePlan = <<"answers", "judge">> \o <<"callScore", "publish">>
      BY DEF ScorePlan
  <2>4. <<"answers", "judge">> \in Seq(Commands) /\ <<"callScore", "publish">> \in Seq(Commands)
      BY DEF Commands, Gates
  <2>5. /\ <<"answers", "judge">>[Len(<<"answers", "judge">>)] = "judge" /\ <<"answers", "judge">> # <<>>
        /\ Head(<<"answers", "judge">>) = "answers" /\ Head(<<"callScore", "publish">>) = "callScore"
      OBVIOUS
  <2> QED BY <2>1, <2>2, <2>3, <2>4, <2>5, JoinFollows
<1>3. ASSUME NEW a \in Commands, May("run", a)
      PROVE  /\ Freeze \o <<a>> \in Seq(Commands) /\ Follows(Freeze \o <<a>>)
             /\ Freeze \o <<a>> # <<>> /\ Head(Freeze \o <<a>>) = "verify"
  <2>1. <<a>> \in Seq(Commands) /\ <<a>> # <<>> /\ Head(<<a>>) = a
      OBVIOUS
  <2> QED BY <1>1, <1>3, <2>1, OneFollows, JoinFollows
<1>4. May("run", "answers") /\ May("run", "chooseInfer") /\ May("prepare", "verify")
      /\ May("answers", "chooseJudge") /\ May("chooseJudge", "answers")
    BY DEF May
<1>5. CASE m \in {"preflight", "answers", "infer"}
  <2>1. \/ Plan(m) = Freeze
        \/ \E a \in {"answers", "chooseInfer"} : Plan(m) = Freeze \o <<a>>
      BY <1>5 DEF Plan
  <2> QED BY <1>1, <1>3, <1>4, <1>5, <2>1 DEF Lifecycles, Commands, Gates
<1>6. CASE m = "prepare"
  <2>1. Plan(m) = <<"prepare">> \o Freeze
      BY <1>6 DEF Plan
  <2>2. <<"prepare">> \in Seq(Commands) /\ <<"prepare">> # <<>> /\ Head(<<"prepare">>) = "prepare"
        /\ <<"prepare">>[Len(<<"prepare">>)] = "prepare"
      BY DEF Commands
  <2> QED BY <1>1, <1>4, <1>6, <2>1, <2>2, OneFollows, JoinFollows DEF Lifecycles
<1>7. CASE m = "score"
  <2>1. Plan(m) = Freeze \o ScorePlan
      BY <1>7 DEF Plan
  <2> QED BY <1>1, <1>2, <1>4, <1>7, <2>1, JoinFollows DEF Lifecycles
<1>8. CASE m \in {"judge", "judge-score"}
  <2> DEFINE pair == <<"answers", "chooseJudge">>
  <2>1. /\ pair \in Seq(Commands) /\ pair # <<>> /\ Head(pair) = "answers"
        /\ pair[Len(pair)] = "chooseJudge"
      BY DEF Commands, Gates
  <2>2. Follows(pair)
      BY <1>4, TwoFollow
  <2> HIDE DEF pair
  <2>3. /\ Freeze \o pair \in Seq(Commands) /\ Follows(Freeze \o pair) /\ Freeze \o pair # <<>>
        /\ Head(Freeze \o pair) = "verify" /\ (Freeze \o pair)[Len(Freeze \o pair)] = "chooseJudge"
      BY <1>1, <1>4, <2>1, <2>2, JoinFollows
  <2>4. /\ (Freeze \o pair) \o ScorePlan \in Seq(Commands) /\ Follows((Freeze \o pair) \o ScorePlan)
        /\ (Freeze \o pair) \o ScorePlan # <<>> /\ Head((Freeze \o pair) \o ScorePlan) = "verify"
      BY <1>2, <1>4, <2>3, JoinFollows
  <2>5. Plan(m) = Freeze \o pair \/ Plan(m) = (Freeze \o pair) \o ScorePlan
      BY <1>8 DEF Plan, pair
  <2> QED BY <1>8, <2>3, <2>4, <2>5 DEF Lifecycles
<1>9. CASE m \in Bare
  <2>1. Plan(m) = <<m>>
      BY <1>9 DEF Plan, Bare
  <2> QED BY <1>9, <2>1, OneFollows DEF Bare, Commands, Gates
<1> QED BY <1>5, <1>6, <1>7, <1>8, <1>9, ModesAssumption DEF Lifecycles, Bare

(***************************************************************************)
(* Lemmas on invocations.                                                  *)
(***************************************************************************)
(* What an invocation owes stays true when nothing is lost and its target  *)
(* is spared.                                                              *)
LEMMA DueStays ==
    ASSUME NEW P, NEW Q, Keeps(P, Q), NEW q, NEW t, t \in Targets => Spares(P, Q, t), NEW h,
           Due(P, q, t, h)
    PROVE  Due(Q, q, t, h)
<1> SUFFICES ASSUME q # <<>> PROVE Owes(Q, Head(q), t, h)
    BY DEF Due
<1> DEFINE c == Head(q)
<1>1. Owes(P, c, t, h) /\ (t \in Targets \/ c \in Bare)
    BY DEF Due
<1> HIDE DEF c
<1>2. c \in Gates /\ h # None => Grounded(Q, NameOf(c, t), h)
    BY <1>1, GroundedStays DEF Owes
<1>3. CASE c \in Bare
    BY <1>2, <1>3 DEF Owes, Bare, Opening, c
<1>4. CASE t \in Targets
  <2>1. (P[Data] # None => Q[Data] # None) /\ (P[Judge(t)] # None => Q[Judge(t)] = P[Judge(t)])
      BY <1>4, NamesAreFixed DEF Keeps
  <2> QED BY <1>1, <1>2, <1>4, <2>1 DEF Owes, Spares, c
<1> QED BY <1>1, <1>3, <1>4

(* What the command c establishes for those that follow it, having made m. *)
Leaves(P, c, t, m) ==
    /\ m # None => c \in {"callJudge", "stagedGate", "callScore"}
    /\ c \in {"callJudge", "stagedGate"} => "says" \in DOMAIN m
    /\ c \in {"run", "partial"} => P[Data] # None
    /\ c = "partial" => P[Answers(t)] = None
    /\ c = "judge" => P[Judge(t)] # None /\ P[Judge(t)].correct = Correct(P[Verdicts(t)])
    /\ c = "callScore" => P[Judge(t)] # None /\ m.correct = P[Judge(t)].correct

LEMMA TailIsDue ==
    ASSUME NEW P, NEW Q, NEW q \in Seq(Commands), q # <<>>, NEW t, NEW h, Due(P, q, t, h), NEW m,
           Leaves(Q, Head(q), t, m)
    PROVE  Due(Q, Tail(q), t, IF Tail(q) = <<>> THEN None ELSE m)
<1>1. Tail(q) = <<>> \/ (t \in Targets /\ May(Head(q), Head(Tail(q))))
    BY TailFollows DEF Due
<1>2. Follows(Tail(q))
    BY TailFollows DEF Due
<1>3. CASE Tail(q) = <<>>
    BY <1>2, <1>3 DEF Due
<1>4. CASE Tail(q) # <<>>
  <2> DEFINE c == Head(q)
             d == Head(Tail(q))
  <2>1. May(c, d) /\ t \in Targets /\ Leaves(Q, c, t, m)
      BY <1>1, <1>4
  <2> HIDE DEF c, d
  <2>2. m # None => d \in {"stagedGate", "publish"}
      BY <2>1 DEF May, Leaves
  <2>3. Owes(Q, d, t, m)
    <3>1. m # None => d \notin Gates
        BY <2>2 DEF Gates
    <3>2. d \in Opening => d = "resume" /\ c = "partial"
        BY <2>1 DEF May, Opening
    <3>3. d = "chooseInfer" => c = "run"
        BY <2>1 DEF May
    <3>4. d = "judge" => m = None
        BY <2>2
    <3>5. d = "callScore" => c = "judge"
        BY <2>1 DEF May
    <3>6. d = "stagedGate" => c = "callJudge"
        BY <2>1 DEF May
    <3>7. d = "publish" => c \in {"stagedGate", "callScore"}
        BY <2>1 DEF May
    <3> QED BY <2>1, <3>1, <3>2, <3>3, <3>4, <3>5, <3>6, <3>7 DEF Owes, Leaves
  <2>4. m # None => d \in Holders
      BY <2>2 DEF Holders
  <2> QED BY <1>2, <1>4, <2>1, <2>3, <2>4 DEF Due, d
<1> QED BY <1>3, <1>4

(* One invocation goes on, and what it does to the publications spares the *)
(* targets of the others.                                                  *)
Control(p, next, h) ==
    /\ todo' = [todo EXCEPT ![p] = next]
    /\ DOMAIN held' = DOMAIN held /\ held'[p] = h /\ \A q \in Runs \ {p} : held'[q] = held[q]
    /\ job' = job

LEMMA OthersKeep ==
    ASSUME TypeOK, Locked, Orderly, NEW p \in Runs, todo[p] # <<>>,
           NEW next \in Seq(Commands), NEW h, Control(p, next, h),
           Keeps(pub, pub'), \A t \in Targets : t # Target(p) => Spares(pub, pub', t),
           Due(pub', next, Target(p), h)
    PROVE  Orderly' /\ Locked' /\ todo' \in [Runs -> Seq(Commands)] /\ DOMAIN held' = Runs /\ DOMAIN job' = Runs
<1>1. /\ todo \in [Runs -> Seq(Commands)] /\ DOMAIN held = Runs /\ DOMAIN job = Runs
    BY DEF TypeOK
<1>2. /\ \A q \in Runs : q # p => todo'[q] = todo[q] /\ held'[q] = held[q]
      /\ todo'[p] = next /\ held'[p] = h
      /\ todo' \in [Runs -> Seq(Commands)] /\ DOMAIN held' = Runs /\ DOMAIN job' = Runs
      /\ \A q \in Runs : Target(q)' = Target(q)
    BY <1>1 DEF Control, Target
<1>3. ASSUME NEW q \in Runs PROVE Due(pub', todo'[q], Target(q)', held'[q])
  <2>1. CASE q = p
      BY <1>2, <2>1
  <2>2. CASE q # p /\ todo[q] # <<>>
    <3>1. Target(q) \in Targets => Target(q) # Target(p)
        BY <2>2 DEF Locked
    <3>2. Due(pub, todo[q], Target(q), held[q])
        BY DEF Orderly
    <3>3. Due(pub', todo[q], Target(q), held[q])
        BY <3>1, <3>2, DueStays
    <3> QED BY <1>2, <2>2, <3>3
  <2>3. CASE q # p /\ todo[q] = <<>>
    <3>1. Due(pub, todo[q], Target(q), held[q])
        BY DEF Orderly
    <3> QED BY <1>2, <2>3, <3>1 DEF Due
  <2> QED BY <2>1, <2>2, <2>3
<1>4. Locked'
    BY <1>2 DEF Locked
<1> QED BY <1>2, <1>3, <1>4 DEF Orderly

(***************************************************************************)
(* Lemmas on the age of data.                                              *)
(***************************************************************************)
(* Time passes: preparations begin, the tree is changed, put back, lost,   *)
(* or comes from the preparation that was under way.                       *)
Ages(tr, n, underWay, restored, tr2, n2, underWay2, restored2) ==
    /\ n \in Nat /\ n2 \in Nat /\ n <= n2 /\ restored \subseteq restored2
    /\ tr2 # None =>
          \/ tr # None /\ tr2.attempt = tr.attempt /\ tr.changed \subseteq tr2.changed \cup restored2
          \/ underWay /\ tr2.attempt = n
    /\ underWay2 => underWay \/ n < n2

LEMMA BeforeStays ==
    ASSUME NEW a, NEW b, NEW R, NEW R2, Before(a, b, R), R \subseteq R2
    PROVE  Before(a, b, R2)
BY DEF Before

LEMMA DatedStays ==
    ASSUME NEW a, NEW tr, NEW n, NEW b, NEW R, Dated(a, tr, n, b, R),
           NEW tr2, NEW n2, NEW b2, NEW R2, Ages(tr, n, b, R, tr2, n2, b2, R2), MaxAttempts \in Nat
    PROVE  Dated(a, tr2, n2, b2, R2)
<1>1. a.preparation \in Nat /\ a.preparation <= n /\ a \in Contents /\ n \in Nat /\ n2 \in Nat /\ n <= n2
    BY DEF Dated, Contents, Ages
<1>2. a.preparation <= n2
    BY <1>1
<1>3. ASSUME tr2 # None PROVE Before(a, ContentOf(tr2), R2)
  <2>1. CASE tr # None /\ tr2.attempt = tr.attempt /\ tr.changed \subseteq tr2.changed \cup R2
    <3>1. Before(a, ContentOf(tr), R) /\ R \subseteq R2
        BY <2>1 DEF Dated, Ages
    <3>2. CASE a.preparation < tr.attempt
        BY <2>1, <3>2 DEF Before, ContentOf
    <3>3. CASE /\ a.preparation = tr.attempt
               /\ a.json \subseteq (tr.changed \cap {"json"}) \cup R
               /\ a.images \subseteq (tr.changed \cap {"image"}) \cup R
      <4>1. a.json \subseteq {"json"} /\ a.images \subseteq {"image"}
          BY <1>1 DEF Contents
      <4>2. /\ a.json \subseteq (tr2.changed \cap {"json"}) \cup R2
            /\ a.images \subseteq (tr2.changed \cap {"image"}) \cup R2
          BY <2>1, <3>1, <3>3, <4>1
      <4> QED BY <2>1, <3>3, <4>2 DEF Before, ContentOf
    <3> QED BY <3>1, <3>2, <3>3 DEF Before, ContentOf
  <2>2. CASE b /\ tr2.attempt = n
      BY <1>1, <2>2 DEF Dated, Before, ContentOf
  <2> QED BY <1>3, <2>1, <2>2 DEF Ages
<1>4. b2 => a.preparation < n2
  <2>1. b => a.preparation < n
      BY DEF Dated
  <2>2. b2 => b \/ n < n2
      BY DEF Ages
  <2> QED BY <1>1, <2>1, <2>2
<1> QED BY <1>1, <1>2, <1>3, <1>4 DEF Dated

(* Answers stay alike when more is put back, and when others are published.*)
LEMMA AlikeStays ==
    ASSUME NEW file, NEW P, NEW Q, NEW R, NEW R2, Alike(file, P, R), R \subseteq R2, Keeps(P, Q)
    PROVE  Alike(file, Q, R2)
<1>1. Q[Data] = P[Data] /\ P[Data] # None
    BY NamesAreFixed DEF Alike, Keeps
<1>2. \A r \in Rows : AlikeBut(file.lines[r].on, P[Data], R)
    BY DEF Alike
<1>3. \A r \in Rows : AlikeBut(file.lines[r].on, P[Data], R2)
    BY <1>2 DEF AlikeBut
<1> QED BY <1>1, <1>3 DEF Alike

LEMMA AgedStays ==
    ASSUME NEW P, NEW sheets, NEW queue, NEW hand, NEW tr, NEW n, NEW b, NEW R,
           AgedIn(P, sheets, queue, hand, tr, n, b, R), NEW tr2, NEW n2, NEW b2, NEW R2,
           Ages(tr, n, b, R, tr2, n2, b2, R2), MaxAttempts \in Nat
    PROVE  AgedIn(P, sheets, queue, hand, tr2, n2, b2, R2)
<1>1. \A a : Dated(a, tr, n, b, R) => Dated(a, tr2, n2, b2, R2)
    BY DatedStays
<1>2. R \subseteq R2
    BY DEF Ages
<1>3. \A file : Alike(file, P, R) => Alike(file, P, R2)
    BY <1>2, AlikeStays, NothingChanged
<1>4. \A a, c : Before(a, c, R) => Before(a, c, R2)
    BY <1>2, BeforeStays
<1>5. PublishedIn(P, tr2, n2, b2, R2)
    BY <1>1, <1>3 DEF AgedIn, PublishedIn
<1>6. \A c, h : ReadIn(P, c, h, tr, n, b, R) => ReadIn(P, c, h, tr2, n2, b2, R2)
    BY <1>1, <1>3 DEF ReadIn
<1>7. SheetsIn(P, sheets, tr2, n2, b2, R2)
    BY <1>1, <1>4 DEF AgedIn, SheetsIn
<1> QED BY <1>5, <1>6, <1>7 DEF AgedIn

(* What is read from the tree now is no older than what was read before.   *)
LEMMA ReadIsDated ==
    ASSUME TypeOK, OnePreparation, Aged, tree # None
    PROVE  /\ Dated(DataPayload, tree, spent.attempts, PreparationLocked, spent.restored)
           /\ pub[Data] # None => Before(pub[Data], DataPayload, spent.restored)
<1>1. DataPayload = ContentOf(tree)
    BY DEF DataPayload, Preparation, BenchmarkRows, BenchmarkImages, ContentOf
<1>2. tree.attempt \in 1..MaxAttempts /\ tree.attempt <= spent.attempts /\ ~PreparationLocked
    BY DEF TypeOK, OnePreparation, PreparationLocked
<1>3. ContentOf(tree) \in Contents
    BY <1>2 DEF ContentOf, Contents
<1>4. Dated(DataPayload, tree, spent.attempts, PreparationLocked, spent.restored)
    BY <1>1, <1>2, <1>3 DEF Dated, Before, ContentOf
<1> QED BY <1>1, <1>4 DEF Aged, AgedIn, PublishedIn, Dated

(* The preparation stays the only one while no other begins.               *)
LEMMA NoNewPreparation ==
    ASSUME OnePreparation, spent'.attempts = spent.attempts,
           tree' # None => tree # None /\ tree'.attempt = tree.attempt,
           \A q \in Runs : Preparing(q)' => Preparing(q) /\ held'[q] = held[q]
    PROVE  OnePreparation' /\ (PreparationLocked' => PreparationLocked)
<1>1. ASSUME NEW q \in Runs, Preparing(q)'
      PROVE  /\ tree' = None /\ held'[q] \in Staging /\ held'[q].attempt = spent'.attempts
             /\ \A r \in Runs : Preparing(r)' => q = r
    BY <1>1 DEF OnePreparation
<1>2. tree' # None => tree'.attempt <= spent'.attempts
    BY DEF OnePreparation
<1>3. PreparationLocked' => PreparationLocked
    BY DEF PreparationLocked
<1> QED BY <1>1, <1>2, <1>3 DEF OnePreparation

(***************************************************************************)
(* Steps that make nothing new but a publication.                          *)
(***************************************************************************)
FilesOK ==
    /\ sources \in BOOLEAN
    /\ weights \in [Targets \cup {"judge"} -> {"pinned", "changed"}]
    /\ tree = None \/ tree \in [attempt : 1..MaxAttempts, changed : SUBSET Parts]
    /\ staging \subseteq 1..MaxAttempts
    /\ DOMAIN rows = Targets /\ DOMAIN pub = Names

CountersOK ==
    /\ exit \in [Runs -> {"none", "ok", "failed", "killed"}]
    /\ spent \in [jobs : 0..MaxJobs, faults : 0..MaxFaults, attempts : 0..MaxAttempts,
                 restored : SUBSET Parts]

LEMMA TypeParts ==
    /\ TypeOK => FilesOK /\ CountersOK
    /\ FilesOK' /\ CountersOK' /\ todo' \in [Runs -> Seq(Commands)] /\ DOMAIN job' = Runs
       /\ DOMAIN held' = Runs => TypeOK'
BY DEF TypeOK, FilesOK, CountersOK

LEMMA BoundsAreNumbers == MaxJobs \in Nat /\ MaxFaults \in Nat /\ MaxAttempts \in Nat
BY BoundsAssumption

LEMMA StepKeeps ==
    ASSUME IInv, NEW p \in Runs, todo[p] # <<>>, NEW next \in Seq(Commands), NEW h,
           Control(p, next, h), FilesOK', CountersOK', spent'.attempts = spent.attempts,
           spent.restored \subseteq spent'.restored,
           h # None => Head(next) # "prepare",
           h # None => ReadIn(pub, Head(next), h, tree, spent.attempts, PreparationLocked, spent.restored),
           UNCHANGED tree, SheetsIn(pub, rows', tree, spent.attempts, PreparationLocked, spent.restored),
           Keeps(pub, pub'), Linked(pub'),
           \A t \in Targets : t # Target(p) => Spares(pub, pub', t),
           PublishedIn(pub', tree, spent.attempts, PreparationLocked, spent.restored),
           Due(pub', next, Target(p), h)
    PROVE  IInv'
<1>1. Orderly' /\ Locked' /\ todo' \in [Runs -> Seq(Commands)] /\ DOMAIN held' = Runs /\ DOMAIN job' = Runs
    BY OthersKeep DEF IInv
<1>2. TypeOK'
    BY <1>1, TypeParts
<1>3. /\ todo'[p] = next /\ held'[p] = h
      /\ \A q \in Runs : q # p => todo'[q] = todo[q] /\ held'[q] = held[q]
    BY DEF Control, IInv, TypeOK
<1>4. h # None => next # <<>>
    BY DEF Due
<1>5. \A q \in Runs : Preparing(q)' => Preparing(q) /\ held'[q] = held[q]
    BY <1>3, <1>4 DEF Preparing, Doing
<1>6. OnePreparation' /\ (PreparationLocked' => PreparationLocked)
    BY <1>5, NoNewPreparation DEF IInv
<1>7. AgedIn(pub', rows', todo', held', tree, spent.attempts, PreparationLocked, spent.restored)
  <2>1. AgedIn(pub, rows, todo, held, tree, spent.attempts, PreparationLocked, spent.restored)
      BY DEF IInv, Aged
  <2>2. pub[Data] # None => pub'[Data] = pub[Data]
      BY NamesAreFixed DEF Keeps
  <2>3. ASSUME NEW q \in Runs, todo'[q] # <<>>, held'[q] # None
        PROVE  ReadIn(pub', Head(todo'[q]), held'[q], tree, spent.attempts, PreparationLocked, spent.restored)
    <3>1. ReadIn(pub, Head(todo'[q]), held'[q], tree, spent.attempts, PreparationLocked, spent.restored)
        BY <1>3, <2>1, <2>3 DEF AgedIn
    <3> QED BY <3>1, AlikeStays DEF ReadIn
  <2>4. SheetsIn(pub', rows', tree, spent.attempts, PreparationLocked, spent.restored)
      BY <2>2 DEF SheetsIn
  <2> QED BY <2>3, <2>4 DEF AgedIn
<1>8. Ages(tree, spent.attempts, PreparationLocked, spent.restored,
         tree', spent'.attempts, PreparationLocked', spent'.restored)
    BY <1>6 DEF Ages, IInv, TypeOK
<1>9. Aged'
    BY <1>7, <1>8, AgedStays, BoundsAreNumbers DEF Aged
<1> QED BY <1>1, <1>2, <1>6, <1>9 DEF IInv

LEMMA MoveKeeps ==
    ASSUME IInv, NEW p \in Runs, todo[p] # <<>>, NEW next \in Seq(Commands), NEW h,
           Control(p, next, h), FilesOK', CountersOK', spent'.attempts = spent.attempts,
           spent.restored \subseteq spent'.restored,
           h # None => Head(next) # "prepare",
           h # None => ReadIn(pub, Head(next), h, tree, spent.attempts, PreparationLocked, spent.restored),
           UNCHANGED <<tree, rows>>, Keeps(pub, pub'), Linked(pub'),
           \A t \in Targets : t # Target(p) => Spares(pub, pub', t),
           PublishedIn(pub', tree, spent.attempts, PreparationLocked, spent.restored),
           Due(pub', next, Target(p), h)
    PROVE  IInv'
<1>1. SheetsIn(pub, rows', tree, spent.attempts, PreparationLocked, spent.restored)
    BY DEF IInv, Aged, AgedIn
<1> QED BY <1>1, StepKeeps

LEMMA AdvanceIsControl ==
    ASSUME TypeOK, NEW p \in Runs, NEW next, NEW m, Advance(p, next, m)
    PROVE  Control(p, next, IF next = <<>> THEN None ELSE m) /\ CountersOK' /\ spent' = spent
BY DEF Advance, Control, CountersOK, TypeOK

LEMMA AbortIsControl ==
    ASSUME TypeOK, NEW p \in Runs, Abort(p)
    PROVE  Control(p, <<>>, None) /\ CountersOK' /\ spent' = spent
BY DEF Abort, Control, CountersOK, TypeOK

LEMMA NothingIsDue == ASSUME NEW P, NEW t PROVE Due(P, <<>>, t, None)
BY DEF Due, Follows

LEMMA DataIsDated ==
    IInv => PublishedIn(pub, tree, spent.attempts, PreparationLocked, spent.restored)
BY DEF IInv, Aged, AgedIn

LEMMA AbortKeeps ==
    ASSUME IInv, NEW p \in Runs, todo[p] # <<>>, Abort(p), UNCHANGED files
    PROVE  IInv'
<1>1. Control(p, <<>>, None) /\ CountersOK' /\ spent' = spent
    BY AbortIsControl DEF IInv
<1>2. FilesOK' /\ UNCHANGED <<tree, rows>> /\ pub' = pub
    BY TypeParts DEF IInv, FilesOK, files
<1>3. Due(pub', <<>>, Target(p), None) /\ <<>> \in Seq(Commands)
    BY NothingIsDue
<1>4. Keeps(pub, pub') /\ \A t \in Targets : Spares(pub, pub', t)
    BY <1>2, NothingChanged
<1> QED BY <1>1, <1>2, <1>3, <1>4, DataIsDated, MoveKeeps DEF IInv

(* An invocation that goes on with a list that is due, on the files as     *)
(* they are.                                                               *)
LEMMA AdvanceKeeps ==
    ASSUME IInv, NEW p \in Runs, todo[p] # <<>>, NEW next \in Seq(Commands), NEW m,
           Advance(p, next, m), UNCHANGED files,
           next # <<>> /\ m # None => Head(next) \notin {"prepare"} \cup Readers,
           Due(pub, next, Target(p), IF next = <<>> THEN None ELSE m)
    PROVE  IInv'
<1> DEFINE h == IF next = <<>> THEN None ELSE m
<1>1. Control(p, next, h) /\ CountersOK' /\ spent' = spent
    BY AdvanceIsControl DEF IInv
<1>2. FilesOK' /\ UNCHANGED <<tree, rows>> /\ pub' = pub
    BY TypeParts DEF IInv, FilesOK, files
<1>3. Due(pub', next, Target(p), h) /\ (h # None => Head(next) \notin {"prepare"} \cup Readers)
    BY <1>2
<1>5. h # None => ReadIn(pub, Head(next), h, tree, spent.attempts, PreparationLocked, spent.restored)
    BY <1>3 DEF ReadIn, Readers
<1> HIDE DEF h
<1>4. Keeps(pub, pub') /\ \A t \in Targets : Spares(pub, pub', t)
    BY <1>2, NothingChanged
<1> QED BY <1>1, <1>2, <1>3, <1>4, <1>5, DataIsDated, MoveKeeps DEF IInv

LEMMA MadeIsPassedOn ==
    ASSUME NEW q \in Seq(Commands), q # <<>>, Follows(q), Tail(q) # <<>>, NEW P, NEW t, NEW m,
           Leaves(P, Head(q), t, m), m # None
    PROVE  Head(Tail(q)) \in {"stagedGate", "publish"}
BY TailFollows DEF Leaves, May

LEMMA NextCommandKeeps ==
    ASSUME IInv, NEW p \in Runs, todo[p] # <<>>, NEW m, Advance(p, Tail(todo[p]), m),
           UNCHANGED files, Leaves(pub, Head(todo[p]), Target(p), m)
    PROVE  IInv'
<1>1. todo[p] \in Seq(Commands) /\ Due(pub, todo[p], Target(p), held[p])
    BY DEF IInv, TypeOK, Orderly
<1>2. Tail(todo[p]) \in Seq(Commands)
    BY <1>1, TailFollows DEF Due
<1>3. Due(pub, Tail(todo[p]), Target(p), IF Tail(todo[p]) = <<>> THEN None ELSE m)
    BY <1>1, TailIsDue
<1>4. Tail(todo[p]) # <<>> /\ m # None => Head(Tail(todo[p])) \notin {"prepare"} \cup Readers
    BY <1>1, MadeIsPassedOn DEF Due, Readers
<1> QED BY <1>2, <1>3, <1>4, AdvanceKeeps

(***************************************************************************)
(* The commands of the helper.                                             *)
(***************************************************************************)
LEMMA Antisymmetric ==
    ASSUME NEW a \in Contents, NEW b \in Contents, NEW R, Before(a, b, R), Before(b, a, R),
           MaxAttempts \in Nat
    PROVE  AlikeBut(a, b, R)
<1>1. a.preparation \in Nat /\ b.preparation \in Nat
    BY DEF Contents
<1>2. a.preparation = b.preparation
    BY <1>1 DEF Before
<1>3. /\ a.json \subseteq b.json \cup R /\ b.json \subseteq a.json \cup R
      /\ a.images \subseteq b.images \cup R /\ b.images \subseteq a.images \cup R
    BY <1>1, <1>2 DEF Before
<1>4. a.json \ R = b.json \ R /\ a.images \ R = b.images \ R
    BY <1>3
<1> QED BY <1>2, <1>4 DEF AlikeBut

(* Where the tree still has the content of the data receipt, so has every  *)
(* line of the answers: it is no older than the receipt, no newer than the *)
(* tree.                                                                   *)
LEMMA LinesAreOnData ==
    ASSUME IInv, NEW t \in Targets, DataLineage(TRUE), Complete(t)
    PROVE  Alike(rows[t], pub, spent.restored)
<1>1. DataPayload = ContentOf(tree)
    BY DEF DataPayload, Preparation, BenchmarkRows, BenchmarkImages, ContentOf
<1>2. pub[Data] # None /\ tree # None /\ pub[Data] \in Contents
    BY DEF DataLineage, IInv, Aged, AgedIn, PublishedIn, Dated
<1>3. pub[Data] = ContentOf(tree)
    BY <1>1, <1>2 DEF DataLineage, Preparation, BenchmarkRows, BenchmarkImages, ContentOf, Contents
<1>4. ASSUME NEW r \in Rows PROVE AlikeBut(rows[t].lines[r].on, pub[Data], spent.restored)
  <2>1. rows[t] # None /\ rows[t].lines[r] # None
      BY DEF Complete
  <2>2. /\ Dated(rows[t].lines[r].on, tree, spent.attempts, PreparationLocked, spent.restored)
        /\ Before(pub[Data], rows[t].lines[r].on, spent.restored)
      BY <2>1 DEF IInv, Aged, AgedIn, SheetsIn
  <2>3. /\ rows[t].lines[r].on \in Contents
        /\ Before(rows[t].lines[r].on, pub[Data], spent.restored)
      BY <1>2, <1>3, <2>2 DEF Dated
  <2> QED BY <1>2, <2>2, <2>3, Antisymmetric, BoundsAreNumbers
<1> QED BY <1>2, <1>4 DEF Alike

(* What the helper builds is grounded in what it has loaded.               *)
LEMMA BuiltIsGrounded ==
    ASSUME IInv, NEW c \in Gates, NEW t, t \in Targets \/ c \in Bare, NEW bound,
           Admits(c, t, bound)
    PROVE  Grounded(pub, NameOf(c, t), Payload(c, t, bound))
<1> USE DEF Data, Model, Gate, Runtime, Matrix, RunOf, Answers, Judge, Verdicts, Score
<1>1. CASE c \in {"data", "model"}
    BY <1>1 DEF Grounded, NameOf
<1>2. CASE c = "run"
    BY <1>2 DEF Grounded, NameOf, Payload, RunPayload, Admits, CanFreezeRun, DataLineage, Bare
<1>3. CASE c \in {"answers", "tryAnswers"}
  <2>1. t \in Targets /\ CanFreezeAnswers(t)
      BY <1>3 DEF Bare, Admits
  <2>2. pub[RunOf(t)] # None
      BY <2>1 DEF CanFreezeAnswers, RunLineage
  <2>3. Payload(c, t, bound) = [run |-> pub[RunOf(t)], file |-> rows[t]] /\ NameOf(c, t) = Answers(t)
      BY <1>3 DEF Payload, AnswersPayload, NameOf
  <2> QED BY <2>2, <2>3 DEF Grounded
<1>4. CASE c = "judge"
    BY <1>4 DEF Grounded, NameOf, Payload, JudgePayload, Admits, CanFreezeJudge, AnswersLineage,
       ModelLineage, RuntimeLineage, Bare
<1>5. CASE c = "runtime"
    BY <1>5 DEF Grounded, NameOf, Payload, RuntimePayload, Admits, CanFreezeRuntime, GateLineage,
       GateHasModel
<1>6. CASE c = "matrix"
  <2>1. /\ pub[Runtime].gate = pub[Gate]
        /\ \A u \in Targets :
              /\ pub[Judge(u)].model = pub[Runtime].model /\ pub[Judge(u)].runtime = pub[Runtime]
              /\ pub[Judge(u)].answers = pub[Answers(u)]
              /\ pub[Judge(u)].answers = pub[Gate].answers[u]
              /\ pub[Answers(u)].run = pub[RunOf(u)]
              /\ pub[RunOf(u)].data = pub[Data] /\ pub[Data] # None
      BY <1>6 DEF Admits, CanFreezeMatrix, RuntimeLineage, JudgeLineage, AnswersLineage, RunLineage,
         DataLineage
  <2> DEFINE v == Payload(c, t, bound)
  <2>2. v.runtime = pub[Runtime] /\ \A u \in Targets : v.judges[u] = pub[Judge(u)]
      BY <1>6 DEF Payload, MatrixPayload
  <2>3. NameOf(c, t) = Matrix
      BY <1>6 DEF NameOf
  <2>4. /\ Matrix # Runtime /\ Matrix # Gate
        /\ \A u \in Targets : Matrix \notin {RunOf(u), Answers(u), Judge(u), Score(u)}
      OBVIOUS
  <2> HIDE DEF v, Data, Model, Gate, Runtime, Matrix, RunOf, Answers, Judge, Verdicts, Score
  <2>5. Grounded(pub, Matrix, v)
      BY <2>1, <2>2, <2>4 DEF Grounded
  <2> QED BY <2>3, <2>5 DEF v
<1> QED BY <1>1, <1>2, <1>3, <1>4, <1>5, <1>6 DEF Gates

(* A gate that fails ends its invocation, or sends it to the inferencer    *)
(* where no answers are certified.                                         *)
LEMMA RefuseKeeps ==
    ASSUME IInv, NEW p \in Runs, todo[p] # <<>>, Refuse(p), UNCHANGED files
    PROVE  IInv'
<1>1. CASE Abort(p)
    BY <1>1, AbortKeeps
<1>2. CASE ~Abort(p)
  <2> DEFINE next == <<"partial", "resume", "answers">>
             t == Target(p)
  <2>1. Head(todo[p]) = "tryAnswers" /\ Control(p, next, None) /\ CountersOK' /\ spent' = spent
      BY <1>2 DEF Refuse, Doing, Control, CountersOK, IInv, TypeOK
  <2>2. FilesOK' /\ UNCHANGED <<tree, rows>> /\ pub' = pub
      BY TypeParts DEF IInv, FilesOK, files
  <2>3. Owes(pub, "tryAnswers", t, held[p]) /\ t \in Targets
      BY <2>1 DEF IInv, Orderly, Due, Bare
  <2>4. Owes(pub, "partial", t, None)
      BY <2>3 DEF Owes, Opening, Gates
  <2>5. next \in Seq(Commands) /\ next # <<>> /\ Head(next) = "partial"
      BY DEF Commands, Gates
  <2>6. Follows(next)
      BY ThreeFollow DEF May
  <2> HIDE DEF next
  <2>7. Due(pub', next, t, None)
      BY <2>2, <2>3, <2>4, <2>5, <2>6 DEF Due
  <2>8. Keeps(pub, pub') /\ \A u \in Targets : Spares(pub, pub', u)
      BY <2>2, NothingChanged
  <2> QED BY <2>1, <2>2, <2>5, <2>7, <2>8, DataIsDated, MoveKeeps DEF IInv
<1> QED BY <1>1, <1>2

LEMMA RunHasData ==
    ASSUME NEW P, Linked(P), NEW t \in Targets, P[RunOf(t)] # None
    PROVE  P[Data] # None
<1>1. RunOf(t) \in Names
    BY NamesAreFixed
<1> QED BY <1>1 DEF Linked, Grounded

LEMMA BuildKeeps ==
    ASSUME IInv, NEW p \in Runs, Build(p)
    PROVE  IInv'
<1> DEFINE c == Head(todo[p])
           t == Target(p)
           made == Payload(c, t, job[p].bound)
           n == NameOf(c, t)
<1>1. /\ todo[p] # <<>> /\ c \in Gates /\ held[p] = None /\ UNCHANGED files
      /\ \/ ~Admits(c, t, job[p].bound) /\ Refuse(p)
         \/ Admits(c, t, job[p].bound) /\ pub[n] # None /\ pub[n] = made /\ Advance(p, Tail(todo[p]), None)
         \/ pub[n] # None /\ Refuse(p)
         \/ Admits(c, t, job[p].bound) /\ held' = [held EXCEPT ![p] = made] /\ UNCHANGED <<job, todo, exit, spent>>
    BY DEF Build
<1>2. Due(pub, todo[p], t, held[p]) /\ (t \in Targets \/ c \in Bare)
    BY <1>1 DEF IInv, Orderly, Due
<1>3. CASE Refuse(p)
    BY <1>1, <1>3, RefuseKeeps
<1>4. CASE pub[n] # None /\ pub[n] = made /\ Advance(p, Tail(todo[p]), None)
  <2>1. ASSUME c = "run" PROVE pub[Data] # None
    <3>1. t \in Targets /\ n = RunOf(t)
        BY <1>2, <2>1 DEF Bare, NameOf
    <3> QED BY <1>4, <3>1, RunHasData DEF IInv
  <2>2. ASSUME c = "judge" PROVE pub[Judge(t)] # None /\ pub[Judge(t)].correct = Correct(pub[Verdicts(t)])
    <3>1. n = Judge(t) /\ made = JudgePayload(t, pub[Verdicts(t)], job[p].bound)
        BY <2>2 DEF NameOf, Payload
    <3> QED BY <1>4, <3>1 DEF JudgePayload
  <2>3. Leaves(pub, c, t, None)
      BY <1>1, <2>1, <2>2 DEF Leaves, Gates
  <2> QED BY <1>1, <1>4, <2>3, NextCommandKeeps
<1>5. CASE /\ Admits(c, t, job[p].bound) /\ held' = [held EXCEPT ![p] = made]
           /\ UNCHANGED <<job, todo, exit, spent>>
  <2>1. todo[p] \in Seq(Commands) /\ Control(p, todo[p], made)
      BY <1>5 DEF Control, IInv, TypeOK
  <2>2. FilesOK' /\ CountersOK' /\ UNCHANGED <<tree, rows>> /\ pub' = pub /\ spent' = spent
      BY <1>1, <1>5, TypeParts DEF IInv, FilesOK, CountersOK, files
  <2>3. c # "prepare" /\ c \in Holders
      BY <1>1 DEF Gates, Holders
  <2>4. ReadIn(pub, c, made, tree, spent.attempts, PreparationLocked, spent.restored)
    <3>1. ASSUME c = "data" PROVE Dated(made, tree, spent.attempts, PreparationLocked, spent.restored)
      <4>1. tree # None /\ made = DataPayload
          BY <1>5, <3>1 DEF Admits, CanFreezeData, Payload
      <4> QED BY <4>1, ReadIsDated DEF IInv
    <3>2. ASSUME c \in {"answers", "tryAnswers"} PROVE Alike(made.file, pub, spent.restored)
      <4>1. t \in Targets /\ CanFreezeAnswers(t) /\ made.file = rows[t]
          BY <1>2, <1>5, <3>2 DEF Bare, Admits, Payload, AnswersPayload
      <4> QED BY <4>1, LinesAreOnData DEF CanFreezeAnswers, RunLineage
    <3> HIDE DEF made
    <3> QED BY <3>1, <3>2 DEF ReadIn
  <2>5. Grounded(pub, n, made)
      BY <1>1, <1>2, <1>5, BuiltIsGrounded
  <2>6. c = "judge" => made.correct = Correct(pub[Verdicts(t)])
      BY DEF Payload, JudgePayload
  <2>7. Owes(pub, c, t, made)
    <3>1. Owes(pub, c, t, held[p])
        BY <1>1, <1>2 DEF Due
    <3> QED BY <1>1, <2>5, <2>6, <3>1 DEF Owes, Gates
  <2>8. Due(pub', todo[p], t, made)
      BY <1>1, <1>2, <2>2, <2>3, <2>7 DEF Due
  <2>9. Keeps(pub, pub') /\ \A u \in Targets : Spares(pub, pub', u)
      BY <2>2, NothingChanged
  <2> HIDE DEF made
  <2> QED BY <1>1, <2>1, <2>2, <2>3, <2>4, <2>8, <2>9, DataIsDated, MoveKeeps DEF IInv
<1> QED BY <1>1, <1>3, <1>4, <1>5

(* A publication that is grounded in the others, under a name that other   *)
(* targets do not use.                                                     *)
LEMMA PublishingKeeps ==
    ASSUME IInv, NEW p \in Runs, todo[p] # <<>>, NEW n \in Names, Grounded(pub, n, held[p]),
           pub[n] \in {None, held[p]}, pub' = [pub EXCEPT ![n] = held[p]],
           Advance(p, Tail(todo[p]), None), UNCHANGED <<sources, weights, tree, staging, rows>>,
           \A u \in Targets : u # Target(p) => n \notin {Answers(u), Verdicts(u)},
           n = Data /\ held[p] # None =>
               Dated(held[p], tree, spent.attempts, PreparationLocked, spent.restored),
           \A u \in Targets : n = Answers(u) /\ held[p] # None => Alike(held[p].file, pub, spent.restored),
           Leaves(pub', Head(todo[p]), Target(p), None)
    PROVE  IInv'
<1>1. DOMAIN pub = Names /\ Linked(pub) /\ todo[p] \in Seq(Commands) /\ Due(pub, todo[p], Target(p), held[p])
    BY DEF IInv, TypeOK, Orderly
<1>2. Keeps(pub, pub') /\ Linked(pub') /\ DOMAIN pub' = Names
    BY <1>1, LinkOne
<1>3. Control(p, Tail(todo[p]), None) /\ CountersOK' /\ spent' = spent
    BY AdvanceIsControl DEF IInv
<1>4. FilesOK'
    BY <1>2, TypeParts DEF IInv, FilesOK
<1>5. Tail(todo[p]) \in Seq(Commands)
    BY <1>1, TailFollows DEF Due
<1>6. Due(pub', Tail(todo[p]), Target(p), None)
    BY <1>1, TailIsDue
<1>7. \A u \in Targets : u # Target(p) => Spares(pub, pub', u)
    BY <1>1, NamesAreFixed DEF Spares, Fixed
<1>8. PublishedIn(pub', tree, spent.attempts, PreparationLocked, spent.restored)
  <2>1. PublishedIn(pub, tree, spent.attempts, PreparationLocked, spent.restored)
      BY DataIsDated
  <2>2. \A m \in Names : pub'[m] = IF m = n THEN held[p] ELSE pub[m]
      BY <1>1
  <2>3. pub'[Data] # None => Dated(pub'[Data], tree, spent.attempts, PreparationLocked, spent.restored)
      BY <2>1, <2>2, NamesAreFixed DEF PublishedIn, Fixed
  <2>4. ASSUME NEW u \in Targets, pub'[Answers(u)] # None
        PROVE  Alike(pub'[Answers(u)].file, pub', spent.restored)
    <3>1. Alike(pub'[Answers(u)].file, pub, spent.restored)
        BY <2>1, <2>2, <2>4, NamesAreFixed DEF PublishedIn, Fixed
    <3> QED BY <1>2, <3>1, AlikeStays
  <2> QED BY <2>3, <2>4 DEF PublishedIn
<1> QED BY <1>2, <1>3, <1>4, <1>5, <1>6, <1>7, <1>8, MoveKeeps

LEMMA PublishKeeps ==
    ASSUME IInv, NEW p \in Runs, Publish(p)
    PROVE  IInv'
<1> DEFINE c == Head(todo[p])
           t == Target(p)
           n == NameOf(c, t)
<1>1. /\ todo[p] # <<>> /\ c \in Gates /\ held[p] # None
      /\ UNCHANGED <<sources, weights, tree, staging, rows>>
      /\ \/ Refuse(p) /\ UNCHANGED pub
         \/ /\ pub[n] \in {None, held[p]} /\ pub' = [pub EXCEPT ![n] = held[p]]
            /\ Advance(p, Tail(todo[p]), None)
    BY DEF Publish, PublishOnce
<1>2. Owes(pub, c, t, held[p]) /\ (t \in Targets \/ c \in Bare) /\ DOMAIN pub = Names
    BY <1>1 DEF IInv, Orderly, Due, TypeOK
<1>3. CASE Refuse(p) /\ UNCHANGED pub
    BY <1>1, <1>3, RefuseKeeps DEF files
<1>4. CASE /\ pub[n] \in {None, held[p]} /\ pub' = [pub EXCEPT ![n] = held[p]]
           /\ Advance(p, Tail(todo[p]), None)
  <2>1. n \in Names /\ n \in Fixed /\ \A u \in Targets : (u # t => n # Answers(u)) /\ n # Verdicts(u)
      BY <1>1, <1>2, GateNames, NamesAreFixed
  <2>2. Grounded(pub, n, held[p])
      BY <1>1, <1>2 DEF Owes
  <2>3. ASSUME n = Data PROVE Dated(held[p], tree, spent.attempts, PreparationLocked, spent.restored)
    <3>1. c = "data"
        BY <1>1, <2>3 DEF NameOf, Gates, Data, RunOf, Answers, Judge, Model, Runtime, Matrix
    <3> QED BY <1>1, <3>1 DEF IInv, Aged, AgedIn, ReadIn
  <2>8. ASSUME NEW u \in Targets, n = Answers(u) PROVE Alike(held[p].file, pub, spent.restored)
    <3>1. c \in {"answers", "tryAnswers"}
        BY <1>1, <2>8 DEF NameOf, Gates, Data, RunOf, Answers, Judge, Model, Runtime, Matrix
    <3> QED BY <1>1, <3>1 DEF IInv, Aged, AgedIn, ReadIn
  <2>4. Linked(pub') /\ pub'[n] = held[p] /\ \A m \in Names : m # n => pub'[m] = pub[m]
    <3>1. Linked(pub')
        BY <1>2, <1>4, <2>1, <2>2, LinkOne DEF IInv
    <3> QED BY <1>2, <1>4, <2>1, <3>1
  <2>5. ASSUME c = "run" PROVE pub'[Data] # None
    <3>1. t \in Targets /\ n = RunOf(t)
        BY <1>2, <2>5 DEF Bare, NameOf
    <3> QED BY <1>1, <2>4, <3>1, RunHasData
  <2>6. ASSUME c = "judge" PROVE pub'[Judge(t)] # None /\ pub'[Judge(t)].correct = Correct(pub'[Verdicts(t)])
    <3>1. t \in Targets /\ n = Judge(t) /\ Verdicts(t) \in Names
        BY <1>2, <2>6, NamesAreFixed DEF Bare, NameOf
    <3>2. pub'[Verdicts(t)] = pub[Verdicts(t)] /\ pub'[Judge(t)] = held[p]
        BY <2>1, <2>4, <3>1
    <3> QED BY <1>1, <1>2, <2>6, <3>2 DEF Owes
  <2>7. Leaves(pub', c, t, None)
      BY <1>1, <2>5, <2>6 DEF Leaves, Gates
  <2> QED BY <1>1, <1>4, <2>1, <2>2, <2>3, <2>7, <2>8, PublishingKeeps
<1> QED BY <1>1, <1>3, <1>4

(* Verdicts are no receipt, and a score has to be the one in the judge's.  *)
LEMMA PublishFileKeeps ==
    ASSUME IInv, NEW p \in Runs, PublishFile(p)
    PROVE  IInv'
<1> DEFINE t == Target(p)
           n == IF "says" \in DOMAIN held[p] THEN Verdicts(t) ELSE Score(t)
<1>1. /\ todo[p] # <<>> /\ Head(todo[p]) = "publish"
      /\ UNCHANGED <<sources, weights, tree, staging, rows>>
      /\ \/ Abort(p) /\ UNCHANGED pub
         \/ /\ pub[n] \in {None, held[p]} /\ pub' = [pub EXCEPT ![n] = held[p]]
            /\ Advance(p, Tail(todo[p]), None)
    BY DEF PublishFile, PublishOnce, Doing
<1>2. Owes(pub, "publish", t, held[p]) /\ t \in Targets
    BY <1>1 DEF IInv, Orderly, Due, Bare
<1>3. CASE Abort(p) /\ UNCHANGED pub
    BY <1>1, <1>3, AbortKeeps DEF files
<1>4. CASE /\ pub[n] \in {None, held[p]} /\ pub' = [pub EXCEPT ![n] = held[p]]
           /\ Advance(p, Tail(todo[p]), None)
  <2>1. n \in Names /\ n # Data /\ \A u \in Targets : u # t => n \notin {Answers(u), Verdicts(u)}
      BY <1>2, NamesAreFixed DEF Verdicts, Score, Answers, Data
  <2>2. Grounded(pub, n, held[p])
    <3>1. /\ n # Runtime
          /\ \A u \in Targets : n \notin {RunOf(u), Answers(u), Judge(u), Gate, Matrix}
        BY DEF Verdicts, Score, Runtime, Gate, Matrix, RunOf, Answers, Judge
    <3>2. ASSUME NEW u \in Targets, n = Score(u)
          PROVE  pub[Judge(u)] # None /\ held[p].correct = pub[Judge(u)].correct
      <4>1. "says" \notin DOMAIN held[p] /\ u = t
          BY <3>2 DEF Verdicts, Score
      <4> QED BY <1>2, <4>1 DEF Owes
    <3> HIDE DEF n
    <3> QED BY <3>1, <3>2 DEF Grounded
  <2>3. Leaves(pub', "publish", t, None)
      BY DEF Leaves
  <2>4. \A u \in Targets : n # Answers(u)
      BY DEF Verdicts, Score, Answers
  <2> QED BY <1>1, <1>4, <2>1, <2>2, <2>3, <2>4, PublishingKeeps
<1> QED BY <1>1, <1>3, <1>4

(***************************************************************************)
(* The commands of the script.                                             *)
(***************************************************************************)
LEMMA AtCommand ==
    ASSUME IInv, NEW p \in Runs, todo[p] # <<>>
    PROVE  /\ todo[p] \in Seq(Commands) /\ Follows(todo[p])
           /\ Due(pub, todo[p], Target(p), held[p])
           /\ Owes(pub, Head(todo[p]), Target(p), held[p])
           /\ Head(todo[p]) \notin Bare => Target(p) \in Targets
           /\ Head(todo[p]) \notin Holders => held[p] = None
BY DEF IInv, Orderly, Due, TypeOK

LEMMA ScriptKeeps ==
    ASSUME IInv, NEW p \in Runs,
           Verify(p) \/ AcceptPartial(p) \/ EndResume(p) \/ CallJudge(p) \/ StagedGate(p) \/ CallScore(p)
    PROVE  IInv'
<1> USE DEF Doing
<1>1. CASE Verify(p)
  <2>1. /\ todo[p] # <<>> /\ Head(todo[p]) = "verify" /\ UNCHANGED files
        /\ Advance(p, Tail(todo[p]), held[p]) \/ Abort(p)
      BY <1>1 DEF Verify
  <2>2. Leaves(pub, Head(todo[p]), Target(p), held[p])
      BY <2>1, AtCommand DEF Leaves, Holders, Gates
  <2> QED BY <2>1, <2>2, AbortKeeps, NextCommandKeeps
<1>2. CASE AcceptPartial(p)
  <2>1. /\ todo[p] # <<>> /\ Head(todo[p]) = "partial" /\ UNCHANGED files
        /\ Advance(p, Tail(todo[p]), held[p]) \/ Abort(p)
      BY <1>2 DEF AcceptPartial
  <2>2. Leaves(pub, Head(todo[p]), Target(p), held[p])
      BY <2>1, AtCommand DEF Leaves, Holders, Gates, Owes, Opening
  <2> QED BY <2>1, <2>2, AbortKeeps, NextCommandKeeps
<1>3. CASE EndResume(p)
  <2>1. /\ todo[p] # <<>> /\ Head(todo[p]) = "resume" /\ UNCHANGED files
        /\ Advance(p, Tail(todo[p]), held[p]) \/ Abort(p)
      BY <1>3 DEF EndResume
  <2>2. Leaves(pub, Head(todo[p]), Target(p), held[p])
      BY <2>1, AtCommand DEF Leaves, Holders, Gates
  <2> QED BY <2>1, <2>2, AbortKeeps, NextCommandKeeps
<1>4. CASE CallJudge(p)
  <2>1. /\ todo[p] # <<>> /\ Head(todo[p]) = "callJudge" /\ UNCHANGED files
        /\ \/ \E says \in Replies :
                 Advance(p, Tail(todo[p]), [lines |-> Staged(Target(p)), says |-> says])
           \/ Abort(p)
      BY <1>4 DEF CallJudge
  <2>2. ASSUME NEW says PROVE Leaves(pub, Head(todo[p]), Target(p), [lines |-> Staged(Target(p)), says |-> says])
      BY <2>1 DEF Leaves
  <2> QED BY <2>1, <2>2, AbortKeeps, NextCommandKeeps
<1>5. CASE StagedGate(p)
  <2>1. /\ todo[p] # <<>> /\ Head(todo[p]) = "stagedGate" /\ UNCHANGED files
        /\ Advance(p, Tail(todo[p]), held[p]) \/ Abort(p)
      BY <1>5 DEF StagedGate
  <2>2. Leaves(pub, Head(todo[p]), Target(p), held[p])
      BY <2>1, AtCommand DEF Leaves, Owes
  <2> QED BY <2>1, <2>2, AbortKeeps, NextCommandKeeps
<1>6. CASE CallScore(p)
  <2> DEFINE made == [correct |-> Correct(pub[Verdicts(Target(p))])]
  <2>1. /\ todo[p] # <<>> /\ Head(todo[p]) = "callScore" /\ UNCHANGED files
        /\ Advance(p, Tail(todo[p]), made) \/ Abort(p)
      BY <1>6 DEF CallScore
  <2>2. Leaves(pub, Head(todo[p]), Target(p), made)
      BY <2>1, AtCommand DEF Leaves, Owes
  <2> QED BY <2>1, <2>2, AbortKeeps, NextCommandKeeps
<1> QED BY <1>1, <1>2, <1>3, <1>4, <1>5, <1>6

(* Only where no answers are certified is the inferencer on the way.       *)
LEMMA ChooseInferKeeps ==
    ASSUME IInv, NEW p \in Runs, ChooseInfer(p)
    PROVE  IInv'
<1> DEFINE t == Target(p)
<1>1. /\ todo[p] # <<>> /\ Head(todo[p]) = "chooseInfer" /\ UNCHANGED files
      /\ \/ Advance(p, <<"answers">>, None)
         \/ pub[Answers(t)] = None /\ Advance(p, <<"tryAnswers">>, None)
         \/ pub[Answers(t)] = None /\ Advance(p, <<"resume", "answers">>, None)
    BY DEF ChooseInfer, Doing
<1>2. t \in Targets /\ pub[Data] # None
    BY <1>1, AtCommand DEF Owes, Bare
<1>3. ASSUME NEW next \in Seq(Commands), next # <<>>, Follows(next), Head(next) \in {"answers"} \cup Opening,
             Head(next) = "answers" \/ pub[Answers(t)] = None, Advance(p, next, None)
      PROVE  IInv'
  <2>1. Owes(pub, Head(next), t, None)
      BY <1>2, <1>3 DEF Owes, Opening
  <2>2. Due(pub, next, t, None)
      BY <1>2, <1>3, <2>1 DEF Due
  <2> QED BY <1>1, <1>3, <2>2, AdvanceKeeps
<1>4. /\ <<"answers">> \in Seq(Commands) /\ <<"answers">> # <<>> /\ Head(<<"answers">>) = "answers"
      /\ <<"tryAnswers">> \in Seq(Commands) /\ <<"tryAnswers">> # <<>> /\ Head(<<"tryAnswers">>) = "tryAnswers"
      /\ <<"resume", "answers">> \in Seq(Commands) /\ <<"resume", "answers">> # <<>>
      /\ Head(<<"resume", "answers">>) = "resume"
    BY DEF Commands, Gates
<1>5. Follows(<<"answers">>) /\ Follows(<<"tryAnswers">>) /\ Follows(<<"resume", "answers">>)
    BY OneFollows, TwoFollow DEF May
<1> QED BY <1>1, <1>3, <1>4, <1>5 DEF Opening

LEMMA ChooseJudgeKeeps ==
    ASSUME IInv, NEW p \in Runs, ChooseJudge(p)
    PROVE  IInv'
<1> DEFINE t == Target(p)
           again == <<"judge">>
           fresh == <<"callJudge", "stagedGate", "publish", "judge">>
<1>1. /\ todo[p] # <<>> /\ Head(todo[p]) = "chooseJudge" /\ UNCHANGED files
      /\ Advance(p, again \o Tail(todo[p]), None) \/ Advance(p, fresh \o Tail(todo[p]), None)
    BY DEF ChooseJudge, Doing
<1>2. /\ t \in Targets /\ Tail(todo[p]) \in Seq(Commands) /\ Follows(Tail(todo[p]))
      /\ Tail(todo[p]) # <<>> => May("chooseJudge", Head(Tail(todo[p])))
    BY <1>1, AtCommand, TailFollows DEF Bare
<1>3. Tail(todo[p]) # <<>> => May("judge", Head(Tail(todo[p])))
    BY <1>2 DEF May
<1>4. /\ again \in Seq(Commands) /\ again # <<>> /\ Head(again) = "judge" /\ again[Len(again)] = "judge"
      /\ Follows(again)
  <2>1. Follows(<<"judge">>)
      BY OneFollows
  <2> QED BY <2>1 DEF Commands, Gates
<1>5. /\ fresh \in Seq(Commands) /\ fresh # <<>> /\ Head(fresh) = "callJudge" /\ fresh[Len(fresh)] = "judge"
      /\ Follows(fresh)
  <2> DEFINE a == <<"callJudge", "stagedGate">>
             b == <<"publish", "judge">>
  <2>1. May("callJudge", "stagedGate") /\ May("stagedGate", "publish") /\ May("publish", "judge")
      BY DEF May
  <2>2. Follows(a) /\ Follows(b)
      BY <2>1, TwoFollow
  <2>3. /\ a \in Seq(Commands) /\ a # <<>> /\ a[Len(a)] = "stagedGate"
        /\ b \in Seq(Commands) /\ b # <<>> /\ Head(b) = "publish"
      BY DEF Commands, Gates
  <2>4. fresh = a \o b
      OBVIOUS
  <2>5. fresh # <<>> /\ Head(fresh) = "callJudge" /\ fresh[Len(fresh)] = "judge"
      OBVIOUS
  <2> HIDE DEF a, b, fresh
  <2>6. fresh \in Seq(Commands) /\ Follows(fresh)
      BY <2>1, <2>2, <2>3, <2>4, JoinFollows
  <2> QED BY <2>5, <2>6
<1>6. ASSUME NEW a \in {again, fresh}, Advance(p, a \o Tail(todo[p]), None) PROVE IInv'
  <2> DEFINE next == a \o Tail(todo[p])
  <2> HIDE DEF again, fresh
  <2>1. next \in Seq(Commands) /\ Follows(next) /\ next # <<>> /\ Head(next) \in {"judge", "callJudge"}
    <3>1. /\ a \in Seq(Commands) /\ a # <<>> /\ Head(a) \in {"judge", "callJudge"}
          /\ a[Len(a)] = "judge" /\ Follows(a)
        BY <1>4, <1>5, <1>6
    <3>2. Tail(todo[p]) # <<>> => May(a[Len(a)], Head(Tail(todo[p])))
        BY <1>3, <3>1
    <3> QED BY <1>2, <3>1, <3>2, JoinFollows DEF next
  <2> HIDE DEF next
  <2>2. Owes(pub, Head(next), t, None)
      BY <2>1 DEF Owes, Opening
  <2>3. Due(pub, next, t, None)
      BY <1>2, <2>1, <2>2 DEF Due
  <2>4. Advance(p, next, None)
      BY <1>6 DEF next
  <2> QED BY <1>1, <2>1, <2>3, <2>4, AdvanceKeeps
<1> QED BY <1>1, <1>6

(***************************************************************************)
(* What happens to the files beside the commands.                          *)
(***************************************************************************)
LEMMA FilesChange ==
    ASSUME IInv, UNCHANGED <<job, todo, held>>, FilesOK', CountersOK',
           spent'.attempts = spent.attempts,
           spent.restored \subseteq spent'.restored,
           tree' # None => /\ tree # None /\ tree'.attempt = tree.attempt
                           /\ tree.changed \subseteq tree'.changed \cup spent'.restored,
           SheetsIn(pub, rows', tree, spent.attempts, PreparationLocked, spent.restored),
           Keeps(pub, pub'), Linked(pub'), pub'[Data] = pub[Data],
           \A t \in Targets : pub'[Answers(t)] = pub[Answers(t)],
           \A q \in Runs : todo[q] # <<>> /\ Target(q) \in Targets => Spares(pub, pub', Target(q))
    PROVE  IInv'
<1>1. TypeOK'
    BY TypeParts DEF IInv, TypeOK
<1>2. ASSUME NEW q \in Runs PROVE Due(pub', todo[q], Target(q), held[q])
  <2>1. Due(pub, todo[q], Target(q), held[q])
      BY DEF IInv, Orderly
  <2>2. CASE todo[q] = <<>>
      BY <2>1, <2>2 DEF Due
  <2>3. CASE todo[q] # <<>>
      BY <2>1, <2>3, DueStays
  <2> QED BY <2>2, <2>3
<1>3. Orderly'
    BY <1>2 DEF Orderly, Target
<1>4. Locked'
    BY DEF IInv, Locked, Target
<1>5. \A q \in Runs : Preparing(q)' => Preparing(q) /\ held'[q] = held[q]
    BY DEF Preparing, Doing
<1>6. OnePreparation' /\ (PreparationLocked' => PreparationLocked)
    BY <1>5, NoNewPreparation DEF IInv
<1>7. AgedIn(pub', rows', todo', held', tree, spent.attempts, PreparationLocked, spent.restored)
  <2>1. AgedIn(pub, rows, todo, held, tree, spent.attempts, PreparationLocked, spent.restored)
      BY DEF IInv, Aged
  <2>2. SheetsIn(pub', rows', tree, spent.attempts, PreparationLocked, spent.restored)
      BY DEF SheetsIn
  <2>3. PublishedIn(pub', tree, spent.attempts, PreparationLocked, spent.restored)
      BY <2>1 DEF AgedIn, PublishedIn, Alike
  <2>4. \A c, h : ReadIn(pub, c, h, tree, spent.attempts, PreparationLocked, spent.restored) =>
                  ReadIn(pub', c, h, tree, spent.attempts, PreparationLocked, spent.restored)
      BY DEF ReadIn, Alike
  <2> QED BY <2>1, <2>2, <2>3, <2>4 DEF AgedIn
<1>8. Ages(tree, spent.attempts, PreparationLocked, spent.restored,
         tree', spent'.attempts, PreparationLocked', spent'.restored)
    BY <1>6 DEF Ages, IInv, TypeOK
<1>9. Aged'
    BY <1>7, <1>8, AgedStays, BoundsAreNumbers DEF Aged
<1> QED BY <1>1, <1>3, <1>4, <1>6, <1>9 DEF IInv

LEMMA SheetsAreDated == IInv => SheetsIn(pub, rows, tree, spent.attempts, PreparationLocked, spent.restored)
BY DEF IInv, Aged, AgedIn

(* A step that leaves the publications alone.                              *)
LEMMA OtherFilesChange ==
    ASSUME IInv, UNCHANGED <<job, todo, held, pub>>, FilesOK', CountersOK',
           spent'.attempts = spent.attempts,
           spent.restored \subseteq spent'.restored,
           tree' # None => /\ tree # None /\ tree'.attempt = tree.attempt
                           /\ tree.changed \subseteq tree'.changed \cup spent'.restored,
           SheetsIn(pub, rows', tree, spent.attempts, PreparationLocked, spent.restored)
    PROVE  IInv'
<1>1. Keeps(pub, pub') /\ \A t \in Targets : Spares(pub, pub', t)
    BY NothingChanged
<1> QED BY <1>1, FilesChange DEF IInv

LEMMA DriftCounts ==
    ASSUME IInv, spent.faults < MaxFaults, spent' = [spent EXCEPT !.faults = @ + 1],
           exit' \in [Runs -> {"none", "ok", "failed", "killed"}]
    PROVE  CountersOK' /\ spent'.attempts = spent.attempts /\ spent'.restored = spent.restored
<1>1. spent \in [jobs : 0..MaxJobs, faults : 0..MaxFaults, attempts : 0..MaxAttempts,
                 restored : SUBSET Parts]
    BY DEF IInv, TypeOK
<1>2. spent.faults + 1 \in 0..MaxFaults
    BY <1>1, BoundsAreNumbers
<1>3. spent' \in [jobs : 0..MaxJobs, faults : 0..MaxFaults, attempts : 0..MaxAttempts,
                 restored : SUBSET Parts]
    BY <1>1, <1>2
<1> QED BY <1>1, <1>3 DEF CountersOK

LEMMA DriftKeeps ==
    ASSUME IInv, ChangeTree \/ ChangeSources \/ (\E m \in DOMAIN weights : ChangeWeights(m)) \/ Quarantine
    PROVE  IInv'
<1>1. /\ UNCHANGED <<job, todo, held, pub, rows>> /\ CountersOK'
      /\ spent'.attempts = spent.attempts /\ spent'.restored = spent.restored
  <2>1. CASE Quarantine
      BY <2>1 DEF Quarantine, control, CountersOK, IInv, TypeOK
  <2>2. CASE \E kind : Drift(kind) /\ UNCHANGED <<pub, rows>>
      BY <2>2, DriftCounts DEF Drift, control, IInv, TypeOK
  <2> QED BY <2>1, <2>2 DEF ChangeTree, ChangeSources, ChangeWeights
<1>2. FilesOK'
  <2>1. FilesOK
      BY DEF IInv, TypeOK, FilesOK
  <2>2. CASE ChangeTree
    <3>1. tree' = None \/ \E part \in Parts : tree' = [tree EXCEPT !.changed = @ \cup {part}]
        BY <2>2 DEF ChangeTree
    <3>2. tree \in [attempt : 1..MaxAttempts, changed : SUBSET Parts]
        BY <2>1, <2>2 DEF ChangeTree, FilesOK
    <3>3. tree' = None \/ tree' \in [attempt : 1..MaxAttempts, changed : SUBSET Parts]
        BY <3>1, <3>2
    <3> QED BY <1>1, <2>1, <2>2, <3>3 DEF ChangeTree, FilesOK
  <2>3. CASE ChangeSources
      BY <1>1, <2>1, <2>3 DEF ChangeSources, FilesOK
  <2>4. CASE \E m \in DOMAIN weights : ChangeWeights(m)
      BY <1>1, <2>1, <2>4 DEF ChangeWeights, FilesOK
  <2>5. CASE Quarantine
      BY <1>1, <2>1, <2>5 DEF Quarantine, FilesOK
  <2> QED BY <2>2, <2>3, <2>4, <2>5
<1>3. tree' # None => /\ tree # None /\ tree'.attempt = tree.attempt
                      /\ tree.changed \subseteq tree'.changed \cup spent'.restored
    BY DEF IInv, TypeOK, ChangeTree, ChangeSources, ChangeWeights, Quarantine
<1>4. SheetsIn(pub, rows', tree, spent.attempts, PreparationLocked, spent.restored)
    BY <1>1, SheetsAreDated
<1> QED BY <1>1, <1>2, <1>3, <1>4, OtherFilesChange

(* What is put back makes the tree no older, but for that part.            *)
LEMMA PutBackKeeps ==
    ASSUME IInv, PutBackPart \/ PutBack
    PROVE  IInv'
<1>1. FilesOK /\ CountersOK
    BY TypeParts DEF IInv
<1>2. UNCHANGED <<job, todo, held, exit, pub, rows, staging>>
    BY DEF PutBackPart, PutBack, control
<1>3. SheetsIn(pub, rows', tree, spent.attempts, PreparationLocked, spent.restored)
    BY <1>2, SheetsAreDated
<1>4. CASE PutBackPart
  <2>1. tree \in [attempt : 1..MaxAttempts, changed : SUBSET Parts]
      BY <1>1, <1>4 DEF PutBackPart, FilesOK
  <2>2. PICK part \in tree.changed : /\ tree' = [tree EXCEPT !.changed = @ \ {part}]
                                     /\ spent' = [spent EXCEPT !.restored = @ \cup {part}]
      BY <1>4 DEF PutBackPart
  <2>3. part \in Parts
      BY <2>1, <2>2
  <2>4. /\ tree' \in [attempt : 1..MaxAttempts, changed : SUBSET Parts]
        /\ tree'.attempt = tree.attempt /\ tree'.changed = tree.changed \ {part}
      BY <2>1, <2>2
  <2>5. FilesOK'
      BY <1>1, <1>2, <1>4, <2>4 DEF FilesOK, PutBackPart
  <2>6. CountersOK' /\ spent'.attempts = spent.attempts /\ spent'.restored = spent.restored \cup {part}
      BY <1>1, <1>2, <2>2, <2>3 DEF CountersOK
  <2>7. tree # None
      BY <1>4 DEF PutBackPart
  <2>8. tree.changed \subseteq tree'.changed \cup spent'.restored /\ spent.restored \subseteq spent'.restored
      BY <2>4, <2>6
  <2> QED BY <1>2, <1>3, <2>4, <2>5, <2>6, <2>7, <2>8, OtherFilesChange
<1>5. CASE PutBack
  <2>1. UNCHANGED <<tree, spent>> /\ FilesOK' /\ CountersOK'
      BY <1>1, <1>2, <1>5 DEF PutBack, FilesOK, CountersOK
  <2> QED BY <1>2, <1>3, <2>1, OtherFilesChange
<1> QED BY <1>4, <1>5

LEMMA EditRowsKeeps ==
    ASSUME IInv, NEW t \in Targets, EditRows(t)
    PROVE  IInv'
<1>1. /\ UNCHANGED <<job, todo, held, pub, tree, sources, weights, staging>> /\ CountersOK'
      /\ spent'.attempts = spent.attempts /\ spent'.restored = spent.restored
    BY DriftCounts DEF EditRows, Drift, control, IInv, TypeOK
<1>2. PICK r \in Rows, said \in {"edited", "error", "foreign"} :
          rows[t] # None /\ rows[t].lines[r] # None /\ rows' = [rows EXCEPT ![t].lines[r].said = said]
    BY DEF EditRows
<1>3. FilesOK'
    BY <1>1, <1>2 DEF FilesOK, IInv, TypeOK
<1>4. SheetsIn(pub, rows', tree, spent.attempts, PreparationLocked, spent.restored)
  <2>1. rows[t] \in Sheets
      BY <1>2, SheetsAreDated DEF SheetsIn
  <2> DEFINE new == [rows[t] EXCEPT !.lines[r].said = said]
             line == [rows[t].lines[r] EXCEPT !.said = said]
  <2>2. \A u \in Targets : rows'[u] = IF u = t THEN new ELSE rows[u]
      BY <1>2 DEF IInv, TypeOK
  <2>3. /\ line \in [said : {"text", "error", "edited", "foreign"}, on : Contents]
        /\ line.on = rows[t].lines[r].on
      BY <1>2, <2>1 DEF Sheets
  <2>4. new.lines = [rows[t].lines EXCEPT ![r] = line] /\ new.torn = rows[t].torn
        /\ new = [lines |-> new.lines, torn |-> new.torn]
      BY <2>1 DEF Sheets
  <2> HIDE DEF new, line
  <2>5. \A s \in Rows : new.lines[s] = IF s = r THEN line ELSE rows[t].lines[s]
      BY <2>1, <2>4 DEF Sheets
  <2>6. new \in Sheets
      BY <2>1, <2>3, <2>4 DEF Sheets
  <2>7. \A s \in Rows : new.lines[s] # None => rows[t].lines[s] # None /\ new.lines[s].on = rows[t].lines[s].on
      BY <1>2, <2>3, <2>5
  <2> QED BY <1>2, <2>2, <2>6, <2>7, SheetsAreDated DEF SheetsIn
<1> QED BY <1>1, <1>3, <1>4, OtherFilesChange

(* Verdicts are edited only while no invocation of their target runs.      *)
LEMMA EditVerdictsKeeps ==
    ASSUME IInv, NEW t \in Targets, EditVerdicts(t)
    PROVE  IInv'
<1>1. UNCHANGED <<job, todo, held, rows, tree, sources, weights, staging>> /\ CountersOK' /\ spent'.attempts = spent.attempts
      /\ spent'.restored = spent.restored
    BY DriftCounts DEF EditVerdicts, Drift, control, IInv, TypeOK
<1>2. PICK v : pub' = [pub EXCEPT ![Verdicts(t)] = v]
    BY DEF EditVerdicts
<1>3. Verdicts(t) \in Names /\ Verdicts(t) \notin Fixed /\ DOMAIN pub = Names /\ Linked(pub)
    BY NamesAreFixed DEF IInv, TypeOK
<1>4. Grounded(pub, Verdicts(t), v)
    BY DEF Grounded, Verdicts, RunOf, Answers, Judge, Score, Runtime, Gate, Matrix
<1>5. Keeps(pub, pub') /\ Linked(pub') /\ DOMAIN pub' = Names
    BY <1>2, <1>3, <1>4, LinkOne
<1>6. ASSUME NEW q \in Runs, todo[q] # <<>>, Target(q) \in Targets PROVE Spares(pub, pub', Target(q))
  <2>1. Target(q) # t
      BY <1>6 DEF EditVerdicts, Busy, Target
  <2>2. Verdicts(Target(q)) # Verdicts(t) /\ Answers(Target(q)) # Verdicts(t)
      BY <2>1 DEF Verdicts, Answers
  <2>3. Answers(Target(q)) \in Names /\ Verdicts(Target(q)) \in Names
      BY <1>6, NamesAreFixed
  <2> QED BY <1>2, <1>3, <2>2, <2>3 DEF Spares
<1>7. pub'[Data] = pub[Data]
  <2>1. Data # Verdicts(t)
      BY DEF Data, Verdicts
  <2> QED BY <1>2, <1>3, <2>1, NamesAreFixed
<1>8. FilesOK'
    BY <1>1, <1>5 DEF FilesOK, IInv, TypeOK
<1>9. SheetsIn(pub, rows', tree, spent.attempts, PreparationLocked, spent.restored)
    BY <1>1, SheetsAreDated
<1>10. \A u \in Targets : pub'[Answers(u)] = pub[Answers(u)]
  <2>1. \A u \in Targets : Answers(u) \in Names /\ Answers(u) # Verdicts(t)
      BY NamesAreFixed DEF Fixed, Answers, Verdicts
  <2> QED BY <1>2, <1>3, <2>1
<1> QED BY <1>1, <1>5, <1>6, <1>7, <1>8, <1>9, <1>10, FilesChange

LEMMA MakeGateKeeps ==
    ASSUME IInv, MakeGate
    PROVE  IInv'
<1>1. UNCHANGED <<job, todo, held, exit, spent, rows, tree, sources, weights, staging>>
    BY DEF MakeGate, control
<1>2. pub[Gate] = None /\ pub' = [pub EXCEPT ![Gate] = GatePayload]
    BY DEF MakeGate
<1>3. Gate \in Names /\ DOMAIN pub = Names /\ Linked(pub)
    BY NamesAreFixed DEF IInv, TypeOK
<1>4. Grounded(pub, Gate, GatePayload)
  <2>1. \A t \in Targets : pub[Answers(t)] # None
      BY DEF MakeGate, AnswersLineage
  <2>2. \A t \in Targets : GatePayload.answers[t] = pub[Answers(t)]
      BY DEF GatePayload
  <2>3. /\ Gate # Runtime /\ Gate # Matrix
        /\ \A t \in Targets : Gate \notin {RunOf(t), Answers(t), Judge(t), Score(t)}
      BY DEF RunOf, Answers, Judge, Score, Runtime, Gate, Matrix
  <2> QED BY <2>1, <2>2, <2>3 DEF Grounded
<1>5. Keeps(pub, pub') /\ Linked(pub') /\ DOMAIN pub' = Names
    BY <1>2, <1>3, <1>4, LinkOne
<1>6. \A t \in Targets : Spares(pub, pub', t)
  <2>1. \A t \in Targets : Answers(t) # Gate /\ Verdicts(t) # Gate
      BY DEF Answers, Verdicts, Gate
  <2>2. \A t \in Targets : Answers(t) \in Names /\ Verdicts(t) \in Names
      BY NamesAreFixed
  <2> QED BY <1>2, <1>3, <2>1, <2>2 DEF Spares
<1>7. pub'[Data] = pub[Data]
  <2>1. Data # Gate
      BY DEF Data, Gate
  <2> QED BY <1>2, <1>3, <2>1, NamesAreFixed
<1>8. FilesOK' /\ CountersOK'
    BY <1>1, <1>5 DEF FilesOK, CountersOK, IInv, TypeOK
<1>9. SheetsIn(pub, rows', tree, spent.attempts, PreparationLocked, spent.restored)
    BY <1>1, SheetsAreDated
<1>10. \A t \in Targets : pub'[Answers(t)] = pub[Answers(t)]
    BY <1>6 DEF Spares
<1> QED BY <1>1, <1>5, <1>6, <1>7, <1>8, <1>9, <1>10, FilesChange

(* An answer is on the tree as it is now.                                  *)
LEMMA ResumeKeeps ==
    ASSUME IInv, NEW p \in Runs, Resume(p)
    PROVE  IInv'
<1> DEFINE t == Target(p)
           old == IF rows[t] = None THEN Fresh ELSE rows[t]
<1>1. todo[p] # <<>> /\ Head(todo[p]) = "resume" /\ tree # None
      /\ UNCHANGED <<job, todo, held, exit, spent, pub, tree, sources, weights, staging>>
    BY DEF Resume, Doing, control
<1>2. t \in Targets /\ pub[Data] # None
    BY <1>1, AtCommand DEF Bare, Owes, Opening
<1>3. PICK r \in Rows, said \in {"text", "error"} :
          rows' = [rows EXCEPT ![t] = [old EXCEPT !.lines[r] = Line(said, DataPayload)]]
    BY DEF Resume
<1> DEFINE line == Line(said, DataPayload)
           new == [old EXCEPT !.lines[r] = line]
<1>4. old \in Sheets
    BY <1>2, SheetsAreDated DEF SheetsIn, Fresh, Sheets
<1>5. /\ Dated(DataPayload, tree, spent.attempts, PreparationLocked, spent.restored)
      /\ Before(pub[Data], DataPayload, spent.restored)
    BY <1>1, <1>2, ReadIsDated DEF IInv
<1>6. line \in [said : {"text", "error", "edited", "foreign"}, on : Contents] /\ line.on = DataPayload
    BY <1>5 DEF Line, Dated
<1> HIDE DEF line
<1>7. /\ new.lines = [old.lines EXCEPT ![r] = line] /\ new.torn = old.torn
      /\ new = [lines |-> new.lines, torn |-> new.torn]
    BY <1>4 DEF Sheets
<1>8. \A u \in Targets : rows'[u] = IF u = t THEN new ELSE rows[u]
    BY <1>3 DEF IInv, TypeOK, line
<1>9. \A s \in Rows : old.lines[s] # None => rows[t] # None /\ rows[t].lines[s] = old.lines[s]
    BY DEF Fresh
<1> HIDE DEF new, old
<1>10. \A s \in Rows : new.lines[s] = IF s = r THEN line ELSE old.lines[s]
    BY <1>4, <1>7 DEF Sheets
<1>11. new \in Sheets
    BY <1>4, <1>6, <1>7 DEF Sheets
<1>12. ASSUME NEW s \in Rows, new.lines[s] # None
       PROVE  /\ Dated(new.lines[s].on, tree, spent.attempts, PreparationLocked, spent.restored)
              /\ pub[Data] # None /\ Before(pub[Data], new.lines[s].on, spent.restored)
  <2>1. CASE s = r
      BY <1>2, <1>5, <1>6, <1>10, <2>1
  <2>2. CASE s # r
      BY <1>2, <1>9, <1>10, <1>12, <2>2, SheetsAreDated DEF SheetsIn
  <2> QED BY <2>1, <2>2
<1>13. SheetsIn(pub, rows', tree, spent.attempts, PreparationLocked, spent.restored)
    BY <1>8, <1>11, <1>12, SheetsAreDated DEF SheetsIn
<1>14. FilesOK' /\ CountersOK'
    BY <1>1, <1>3 DEF FilesOK, CountersOK, IInv, TypeOK
<1> QED BY <1>1, <1>13, <1>14, OtherFilesChange

(***************************************************************************)
(* Preparation, starts and kills.                                          *)
(***************************************************************************)
LEMMA PreparationStep ==
    ASSUME IInv, NEW p \in Runs, todo[p] # <<>>, NEW next \in Seq(Commands), NEW h, Control(p, next, h),
           FilesOK', CountersOK', UNCHANGED <<pub, rows>>, OnePreparation',
           Ages(tree, spent.attempts, PreparationLocked, spent.restored,
         tree', spent'.attempts, PreparationLocked', spent'.restored),
           h # None => Head(next) = "prepare", Due(pub, next, Target(p), h)
    PROVE  IInv'
<1>1. Keeps(pub, pub') /\ (\A t \in Targets : Spares(pub, pub', t)) /\ pub' = pub
    BY NothingChanged
<1>2. Orderly' /\ Locked' /\ todo' \in [Runs -> Seq(Commands)] /\ DOMAIN held' = Runs /\ DOMAIN job' = Runs
    BY <1>1, OthersKeep DEF IInv
<1>3. TypeOK'
    BY <1>2, TypeParts
<1>4. /\ todo'[p] = next /\ held'[p] = h
      /\ \A q \in Runs : q # p => todo'[q] = todo[q] /\ held'[q] = held[q]
    BY DEF Control, IInv, TypeOK
<1>5. AgedIn(pub', rows', todo', held', tree, spent.attempts, PreparationLocked, spent.restored)
  <2>1. \A h2 : ReadIn(pub, "prepare", h2, tree, spent.attempts, PreparationLocked, spent.restored)
      BY DEF ReadIn
  <2> QED BY <1>1, <1>4, <2>1 DEF IInv, Aged, AgedIn
<1>6. Aged'
    BY <1>5, AgedStays, BoundsAreNumbers DEF Aged
<1> QED BY <1>1, <1>2, <1>3, <1>6 DEF IInv

LEMMA BeginPreparationKeeps ==
    ASSUME IInv, NEW p \in Runs, BeginPreparation(p)
    PROVE  IInv'
<1> DEFINE n == spent.attempts + 1
           h == [attempt |-> n, stage |-> "empty"]
<1>1. todo[p] # <<>> /\ Head(todo[p]) = "prepare" /\ held[p] = None
    BY DEF BeginPreparation, Doing
<1>2. \/ Abort(p) /\ UNCHANGED files
      \/ Advance(p, Tail(todo[p]), None) /\ UNCHANGED files
      \/ /\ ~PreparationLocked /\ tree = None /\ spent.attempts < MaxAttempts
         /\ spent' = [spent EXCEPT !.attempts = @ + 1] /\ staging' = {spent'.attempts}
         /\ held' = [held EXCEPT ![p] = [attempt |-> spent'.attempts, stage |-> "empty"]]
         /\ UNCHANGED <<job, todo, exit, sources, weights, tree, rows, pub>>
    BY DEF BeginPreparation
<1>3. CASE Abort(p) /\ UNCHANGED files
    BY <1>1, <1>3, AbortKeeps
<1>4. CASE Advance(p, Tail(todo[p]), None) /\ UNCHANGED files
  <2>1. Leaves(pub, Head(todo[p]), Target(p), None)
      BY <1>1 DEF Leaves
  <2> QED BY <1>1, <1>4, <2>1, NextCommandKeeps
<1>5. CASE /\ ~PreparationLocked /\ tree = None /\ spent.attempts < MaxAttempts
           /\ spent' = [spent EXCEPT !.attempts = @ + 1] /\ staging' = {spent'.attempts}
           /\ held' = [held EXCEPT ![p] = [attempt |-> spent'.attempts, stage |-> "empty"]]
           /\ UNCHANGED <<job, todo, exit, sources, weights, tree, rows, pub>>
  <2>1. spent \in [jobs : 0..MaxJobs, faults : 0..MaxFaults, attempts : 0..MaxAttempts,
                 restored : SUBSET Parts]
      BY DEF IInv, TypeOK
  <2>2. spent'.attempts = n /\ n \in 1..MaxAttempts /\ spent.attempts < n /\ spent.attempts \in Nat /\ n \in Nat
      BY <1>5, <2>1, BoundsAreNumbers
  <2>3. spent' \in [jobs : 0..MaxJobs, faults : 0..MaxFaults, attempts : 0..MaxAttempts,
                 restored : SUBSET Parts]
      BY <1>5, <2>1, <2>2
  <2>4. CountersOK' /\ FilesOK'
      BY <1>5, <2>2, <2>3 DEF CountersOK, FilesOK, IInv, TypeOK
  <2>5. todo[p] \in Seq(Commands) /\ Control(p, todo[p], h)
      BY <1>5, <2>2 DEF Control, IInv, TypeOK
  <2>6. h \in Staging /\ h.attempt = n
      BY <2>2 DEF Staging
  <2>7. \A q \in Runs : q # p => ~Preparing(q)'
      BY <1>5 DEF PreparationLocked, Preparing, Doing, IInv, TypeOK
  <2>8. held'[p] = h
      BY <2>5 DEF Control, IInv, TypeOK
  <2> HIDE DEF h, n
  <2>9. OnePreparation'
      BY <1>5, <2>2, <2>6, <2>7, <2>8 DEF OnePreparation
  <2>10. Ages(tree, spent.attempts, PreparationLocked, spent.restored,
         tree', spent'.attempts, PreparationLocked', spent'.restored)
      BY <1>5, <2>2 DEF Ages
  <2>11. Due(pub, todo[p], Target(p), h)
    <3>1. Owes(pub, "prepare", Target(p), h)
        BY DEF Owes, Gates, Opening
    <3> QED BY <1>1, <3>1, AtCommand DEF Due, Holders
  <2> QED BY <1>1, <1>5, <2>4, <2>5, <2>9, <2>10, <2>11, PreparationStep
<1> QED BY <1>2, <1>3, <1>4, <1>5

LEMMA StageKeeps ==
    ASSUME IInv, NEW p \in Runs, NEW from, NEW to \in {"acquired", "converted", "sealed"}, Stage(p, from, to)
    PROVE  IInv'
<1> DEFINE h == [held[p] EXCEPT !.stage = to]
<1>1. /\ todo[p] # <<>> /\ Head(todo[p]) = "prepare" /\ Preparing(p)
      /\ held' = [held EXCEPT ![p] = h] /\ UNCHANGED <<files, job, todo, exit, spent>>
    BY DEF Stage, Preparing, Doing
<1>2. held[p] \in Staging /\ held[p].attempt = spent.attempts /\ tree = None
      /\ \A q \in Runs : Preparing(q) => p = q
    BY <1>1 DEF IInv, OnePreparation
<1>3. h \in Staging /\ h.attempt = spent.attempts
    BY <1>2 DEF Staging
<1>4. todo[p] \in Seq(Commands) /\ Control(p, todo[p], h)
    BY <1>1 DEF Control, IInv, TypeOK
<1> HIDE DEF h
<1>5. FilesOK' /\ CountersOK' /\ UNCHANGED <<pub, rows, tree>>
    BY <1>1 DEF FilesOK, CountersOK, files, IInv, TypeOK
<1>6. /\ \A q \in Runs : q # p => (Preparing(q)' => Preparing(q))
      /\ held'[p] = h
    BY <1>1 DEF Preparing, Doing, IInv, TypeOK
<1>7. OnePreparation'
  <2>1. \A q \in Runs : Preparing(q)' => q = p
      BY <1>2, <1>6
  <2> QED BY <1>1, <1>2, <1>3, <1>5, <1>6, <2>1 DEF OnePreparation
<1>8. Ages(tree, spent.attempts, PreparationLocked, spent.restored,
         tree', spent'.attempts, PreparationLocked', spent'.restored)
  <2>1. PreparationLocked
      BY <1>1 DEF PreparationLocked
  <2> QED BY <1>1, <1>5, <2>1 DEF Ages, IInv, TypeOK
<1>9. Due(pub, todo[p], Target(p), h)
  <2>1. Owes(pub, "prepare", Target(p), h)
      BY DEF Owes, Gates, Opening
  <2> QED BY <1>1, <2>1, AtCommand DEF Due, Holders
<1> QED BY <1>1, <1>4, <1>5, <1>7, <1>8, <1>9, PreparationStep

LEMMA PublishTreeKeeps ==
    ASSUME IInv, NEW p \in Runs, PublishTree(p)
    PROVE  IInv'
<1>1. /\ todo[p] # <<>> /\ Head(todo[p]) = "prepare" /\ Preparing(p) /\ tree = None
      /\ tree' = Prepared(held[p].attempt) /\ staging' = staging \ {held[p].attempt}
      /\ UNCHANGED <<sources, weights, rows, pub>>
      /\ Advance(p, Tail(todo[p]), None) \/ Abort(p)
    BY DEF PublishTree, Preparing, Doing
<1>2. held[p] \in Staging /\ held[p].attempt = spent.attempts /\ \A q \in Runs : Preparing(q) => p = q
    BY <1>1 DEF IInv, OnePreparation
<1>3. /\ \E next \in {Tail(todo[p]), <<>>} : Control(p, next, None)
      /\ CountersOK' /\ spent' = spent
    BY <1>1, AdvanceIsControl, AbortIsControl DEF IInv
<1>4. PICK next \in {Tail(todo[p]), <<>>} : Control(p, next, None)
    BY <1>3
<1>5. next \in Seq(Commands)
  <2>1. Tail(todo[p]) \in Seq(Commands) /\ <<>> \in Seq(Commands)
      BY <1>1, AtCommand, TailFollows
  <2>2. next = Tail(todo[p]) \/ next = <<>>
      OBVIOUS
  <2> QED BY <2>1, <2>2
<1>6. tree'.attempt = spent.attempts /\ spent.attempts \in 1..MaxAttempts /\ tree'.changed = {}
    BY <1>1, <1>2 DEF Prepared, Staging
<1>7. FilesOK'
  <2>1. tree' \in [attempt : 1..MaxAttempts, changed : SUBSET Parts]
      BY <1>1, <1>6 DEF Prepared
  <2> QED BY <1>1, <2>1 DEF FilesOK, IInv, TypeOK
<1>8. \A q \in Runs : ~Preparing(q)'
  <2>1. ~Preparing(p)'
      BY <1>4 DEF Control, Preparing, IInv, TypeOK
  <2>2. \A q \in Runs : q # p => (Preparing(q)' => Preparing(q))
      BY <1>4 DEF Control, Preparing, Doing, IInv, TypeOK
  <2> QED BY <1>2, <2>1, <2>2
<1>9. OnePreparation'
    BY <1>3, <1>6, <1>8 DEF OnePreparation
<1>10. Ages(tree, spent.attempts, PreparationLocked, spent.restored,
         tree', spent'.attempts, PreparationLocked', spent'.restored)
  <2>1. PreparationLocked /\ ~PreparationLocked'
      BY <1>1, <1>8 DEF PreparationLocked
  <2> QED BY <1>3, <1>6, <2>1 DEF Ages, IInv, TypeOK
<1>11. Due(pub, next, Target(p), None)
  <2>1. Leaves(pub, Head(todo[p]), Target(p), None)
      BY <1>1 DEF Leaves
  <2>2. Due(pub, Tail(todo[p]), Target(p), None)
      BY <1>1, <2>1, AtCommand, TailIsDue
  <2> QED BY <1>4, <2>2, NothingIsDue
<1> QED BY <1>1, <1>3, <1>4, <1>5, <1>7, <1>9, <1>10, <1>11, PreparationStep

LEMMA StartKeeps ==
    ASSUME IInv, NEW p \in Runs, NEW m \in Modes, NEW t \in Targets \cup {None}, NEW bound \in BOOLEAN,
           Start(p, m, t, bound)
    PROVE  IInv'
<1>1. /\ todo[p] = <<>> /\ spent.jobs < MaxJobs /\ (m \in Lifecycles <=> t # None)
      /\ t # None => ~Busy(t)
      /\ job' = [job EXCEPT ![p] = [mode |-> m, target |-> t, bound |-> bound]]
      /\ todo' = [todo EXCEPT ![p] = Plan(m)] /\ exit' = [exit EXCEPT ![p] = "none"]
      /\ spent' = [spent EXCEPT !.jobs = @ + 1] /\ UNCHANGED <<files, held>>
    BY DEF Start
<1>2. UNCHANGED <<pub, tree, rows>> /\ FilesOK'
    BY <1>1 DEF files, FilesOK, IInv, TypeOK
<1>3. CountersOK' /\ spent'.attempts = spent.attempts /\ spent'.restored = spent.restored
  <2>1. spent \in [jobs : 0..MaxJobs, faults : 0..MaxFaults, attempts : 0..MaxAttempts,
                 restored : SUBSET Parts]
      BY DEF IInv, TypeOK
  <2>2. spent.jobs + 1 \in 0..MaxJobs
      BY <1>1, <2>1, BoundsAreNumbers
  <2>3. spent' \in [jobs : 0..MaxJobs, faults : 0..MaxFaults, attempts : 0..MaxAttempts,
                 restored : SUBSET Parts]
      BY <1>1, <2>1, <2>2
  <2> QED BY <1>1, <2>1, <2>3 DEF CountersOK, IInv, TypeOK
<1>4. /\ Plan(m) \in Seq(Commands) /\ Follows(Plan(m)) /\ Plan(m) # <<>>
      /\ Head(Plan(m)) \in {"verify", "prepare"} \cup Bare
      /\ m \in Lifecycles \/ (Head(Plan(m)) \in Bare /\ Tail(Plan(m)) = <<>>)
    BY PlansAreDue
<1>5. held[p] = None
    BY <1>1 DEF IInv, Orderly, Due
<1>6. /\ todo' \in [Runs -> Seq(Commands)] /\ DOMAIN held' = Runs /\ DOMAIN job' = Runs
      /\ todo'[p] = Plan(m) /\ Target(p)' = t /\ held' = held
      /\ \A q \in Runs : q # p => todo'[q] = todo[q] /\ Target(q)' = Target(q)
    BY <1>1, <1>4 DEF IInv, TypeOK, Target
<1>7. TypeOK'
    BY <1>2, <1>3, <1>6, TypeParts
<1>8. t \in Targets \/ (Head(Plan(m)) \in Bare /\ Tail(Plan(m)) = <<>>)
    BY <1>1, <1>4
<1>9. Due(pub, Plan(m), t, None)
  <2>1. Owes(pub, Head(Plan(m)), t, None)
      BY <1>4 DEF Owes, Opening, Bare
  <2> QED BY <1>4, <1>8, <2>1 DEF Due
<1>10. Orderly'
    BY <1>2, <1>5, <1>6, <1>9 DEF IInv, Orderly
<1>11. Locked'
  <2> SUFFICES ASSUME NEW q \in Runs, NEW r \in Runs, todo'[q] # <<>>, todo'[r] # <<>>,
                      Target(q)' = Target(r)', Target(q)' \in Targets
               PROVE  q = r
      BY DEF Locked
  <2>1. \A s \in Runs : s # p /\ todo[s] # <<>> => Target(s) # t \/ t \notin Targets
      BY <1>1, NoFileAssumption DEF Busy, Target
  <2> QED BY <1>6, <2>1 DEF IInv, Locked
<1>12. \A q \in Runs : Preparing(q)' => Preparing(q) /\ held'[q] = held[q]
    BY <1>5, <1>6 DEF Preparing, Doing
<1>13. OnePreparation' /\ (PreparationLocked' => PreparationLocked)
    BY <1>2, <1>3, <1>12, NoNewPreparation DEF IInv
<1>14. AgedIn(pub', rows', todo', held', tree, spent.attempts, PreparationLocked, spent.restored)
    BY <1>2, <1>5, <1>6 DEF IInv, Aged, AgedIn
<1>15. Ages(tree, spent.attempts, PreparationLocked, spent.restored,
         tree', spent'.attempts, PreparationLocked', spent'.restored)
    BY <1>2, <1>3, <1>13 DEF Ages, IInv, TypeOK
<1>16. Aged'
    BY <1>14, <1>15, AgedStays, BoundsAreNumbers DEF Aged
<1> QED BY <1>2, <1>7, <1>10, <1>11, <1>13, <1>16 DEF IInv

(* A kill leaves nothing, or the current command and what it holds.        *)
LEMMA KillKeeps ==
    ASSUME IInv, NEW p \in Runs, NEW all \in BOOLEAN, Kill(p, all)
    PROVE  IInv'
<1> DEFINE last == <<Head(todo[p])>>
           t == Target(p)
<1>1. /\ todo[p] # <<>> /\ spent.faults < MaxFaults
      /\ exit' = [exit EXCEPT ![p] = "killed"] /\ spent' = [spent EXCEPT !.faults = @ + 1]
      /\ UNCHANGED <<job, sources, weights, tree, staging, pub>>
      /\ \/ /\ todo' = [todo EXCEPT ![p] = <<>>] /\ held' = [held EXCEPT ![p] = None]
            /\ \/ UNCHANGED rows
               \/ /\ Doing(p, "resume") /\ rows[t] # None
                  /\ rows' = [rows EXCEPT ![t].torn = TRUE]
         \/ todo' = [todo EXCEPT ![p] = last] /\ UNCHANGED <<held, rows>>
    BY DEF Kill
<1>2. CountersOK' /\ spent'.attempts = spent.attempts /\ spent'.restored = spent.restored
    BY <1>1, DriftCounts DEF IInv, TypeOK
<1>3. Keeps(pub, pub') /\ Linked(pub') /\ \A u \in Targets : Spares(pub, pub', u)
    BY <1>1, NothingChanged DEF IInv
<1>4. FilesOK'
    BY <1>1 DEF FilesOK, IInv, TypeOK
<1>5. CASE todo' = [todo EXCEPT ![p] = <<>>] /\ held' = [held EXCEPT ![p] = None]
  <2>1. Control(p, <<>>, None) /\ <<>> \in Seq(Commands) /\ Due(pub', <<>>, t, None)
      BY <1>1, <1>5, NothingIsDue DEF Control, IInv, TypeOK
  <2>2. SheetsIn(pub, rows', tree, spent.attempts, PreparationLocked, spent.restored)
    <3>1. CASE UNCHANGED rows
        BY <3>1, SheetsAreDated
    <3>2. CASE Doing(p, "resume") /\ rows[t] # None /\ rows' = [rows EXCEPT ![t].torn = TRUE]
      <4>1. t \in Targets
          BY <1>1, <3>2, AtCommand DEF Doing, Bare
      <4>2. rows[t] \in Sheets
          BY <3>2, <4>1, SheetsAreDated DEF SheetsIn
      <4> DEFINE new == [rows[t] EXCEPT !.torn = TRUE]
      <4>3. new \in Sheets /\ new.lines = rows[t].lines
          BY <4>2 DEF Sheets
      <4>4. \A u \in Targets : rows'[u] = IF u = t THEN new ELSE rows[u]
          BY <3>2, <4>1 DEF IInv, TypeOK
      <4> HIDE DEF new
      <4>5. \A u \in Targets : rows'[u] # None =>
                rows[u] # None /\ rows'[u] \in Sheets /\ rows'[u].lines = rows[u].lines
          BY <3>2, <4>3, <4>4, SheetsAreDated DEF SheetsIn
      <4> QED BY <4>5, SheetsAreDated DEF SheetsIn
    <3>3. CASE ~UNCHANGED rows /\ ~(Doing(p, "resume") /\ rows[t] # None /\ rows' = [rows EXCEPT ![t].torn = TRUE])
        BY <1>1, <3>3
    <3> QED BY <3>1, <3>2, <3>3
  <2> QED BY <1>1, <1>2, <1>3, <1>4, <2>1, <2>2, DataIsDated, StepKeeps
<1>6. CASE todo' = [todo EXCEPT ![p] = last] /\ UNCHANGED <<held, rows>>
  <2>1. last \in Seq(Commands) /\ last # <<>> /\ Head(last) = Head(todo[p]) /\ Tail(last) = <<>>
      BY <1>1, AtCommand, TailFollows
  <2>2. Control(p, last, held[p])
      BY <1>1, <1>6 DEF Control, IInv, TypeOK
  <2>3. Due(pub, last, t, held[p])
    <3>1. Follows(last)
        BY OneFollows
    <3> HIDE DEF last
    <3> QED BY <1>1, <2>1, <3>1, AtCommand DEF Due
  <2> HIDE DEF last
  <2>4. CASE Head(todo[p]) = "prepare"
    <3>1. \A q \in Runs : Preparing(q)' => Preparing(q) /\ held'[q] = held[q]
        BY <1>1, <1>6, <2>1, <2>4 DEF Preparing, Doing, IInv, TypeOK
    <3>2. OnePreparation' /\ (PreparationLocked' => PreparationLocked)
        BY <1>1, <1>2, <3>1, NoNewPreparation DEF IInv
    <3>3. Ages(tree, spent.attempts, PreparationLocked, spent.restored,
         tree', spent'.attempts, PreparationLocked', spent'.restored)
        BY <1>1, <1>2, <3>2 DEF Ages, IInv, TypeOK
    <3> QED BY <1>1, <1>2, <1>4, <1>6, <2>1, <2>2, <2>3, <2>4, <3>2, <3>3, PreparationStep
  <2>5. CASE Head(todo[p]) # "prepare"
    <3>1. held[p] # None =>
              ReadIn(pub, Head(last), held[p], tree, spent.attempts, PreparationLocked, spent.restored)
        BY <1>1, <2>1 DEF IInv, Aged, AgedIn
    <3>2. SheetsIn(pub, rows', tree, spent.attempts, PreparationLocked, spent.restored)
        BY <1>6, SheetsAreDated
    <3>3. Due(pub', last, t, held[p])
        BY <1>1, <2>3
    <3> QED BY <1>1, <1>2, <1>3, <1>4, <2>1, <2>2, <2>5, <3>1, <3>2, <3>3, DataIsDated, StepKeeps
  <2> QED BY <2>4, <2>5
<1> QED BY <1>1, <1>5, <1>6

(***************************************************************************)
(* The invariant.                                                          *)
(***************************************************************************)
LEMMA InitHolds == Init => IInv
<1> SUFFICES ASSUME Init PROVE IInv
    OBVIOUS
<1>1. TypeOK
  <2>1. \A p \in Runs : todo[p] = <<>> /\ held[p] = None
      BY DEF Init
  <2>2. todo \in [Runs -> Seq(Commands)]
      BY DEF Init
  <2> QED BY <2>2, BoundsAreNumbers DEF Init, TypeOK
<1>2. \A p \in Runs : todo[p] = <<>> /\ held[p] = None
    BY DEF Init
<1>3. Linked(pub)
    BY DEF Init, Linked
<1>4. Orderly
    BY <1>2, NothingIsDue DEF Orderly
<1>5. Locked
    BY <1>2 DEF Locked
<1>6. OnePreparation
    BY <1>2 DEF OnePreparation, Preparing, Init
<1>7. Aged
  <2>1. pub[Data] = None
      BY NamesAreFixed DEF Init
  <2>2. \A t \in Targets : pub[Answers(t)] = None
      BY NamesAreFixed DEF Init, Fixed
  <2> QED BY <1>2, <2>1, <2>2 DEF Aged, AgedIn, PublishedIn, SheetsIn, Init
<1> QED BY <1>1, <1>3, <1>4, <1>5, <1>6, <1>7 DEF IInv

LEMMA StepHolds == ASSUME IInv, NEW p \in Runs, Step(p) PROVE IInv'
<1>1. CASE Verify(p) \/ AcceptPartial(p) \/ EndResume(p) \/ CallJudge(p) \/ StagedGate(p) \/ CallScore(p)
    BY <1>1, ScriptKeeps
<1>2. CASE Build(p)
    BY <1>2, BuildKeeps
<1>3. CASE Publish(p)
    BY <1>3, PublishKeeps
<1>4. CASE BeginPreparation(p)
    BY <1>4, BeginPreparationKeeps
<1>5. CASE Acquire(p) \/ Convert(p) \/ Seal(p)
  <2>1. Stage(p, "empty", "acquired") \/ Stage(p, "acquired", "converted") \/ Stage(p, "converted", "sealed")
      BY <1>5 DEF Acquire, Convert, Seal
  <2> QED BY <2>1, StageKeeps
<1>6. CASE PublishTree(p)
    BY <1>6, PublishTreeKeeps
<1>7. CASE FailPreparation(p)
  <2>1. todo[p] # <<>> /\ Abort(p) /\ UNCHANGED files
      BY <1>7 DEF FailPreparation, Preparing, Doing
  <2> QED BY <2>1, AbortKeeps
<1>8. CASE ChooseInfer(p)
    BY <1>8, ChooseInferKeeps
<1>9. CASE Resume(p)
    BY <1>9, ResumeKeeps
<1>10. CASE ChooseJudge(p)
    BY <1>10, ChooseJudgeKeeps
<1>11. CASE PublishFile(p)
    BY <1>11, PublishFileKeeps
<1> QED BY <1>1, <1>2, <1>3, <1>4, <1>5, <1>6, <1>7, <1>8, <1>9, <1>10, <1>11 DEF Step

LEMMA StutterHolds == ASSUME IInv, UNCHANGED vars PROVE IInv'
<1>1. UNCHANGED <<job, todo, held, exit, spent, pub, rows, tree, sources, weights, staging>>
    BY DEF vars, files, control
<1>2. FilesOK' /\ CountersOK'
    BY <1>1 DEF FilesOK, CountersOK, IInv, TypeOK
<1>3. SheetsIn(pub, rows', tree, spent.attempts, PreparationLocked, spent.restored)
    BY <1>1, SheetsAreDated
<1> QED BY <1>1, <1>2, <1>3, OtherFilesChange

LEMMA NextHolds == IInv /\ [Next]_vars => IInv'
<1> SUFFICES ASSUME IInv, [Next]_vars PROVE IInv'
    OBVIOUS
<1>1. ASSUME NEW p \in Runs, NEW m \in Modes, NEW t \in Targets \cup {None}, NEW bound \in BOOLEAN,
             Start(p, m, t, bound)
      PROVE  IInv'
    BY <1>1, StartKeeps
<1>2. ASSUME NEW p \in Runs, Step(p) PROVE IInv'
    BY <1>2, StepHolds
<1>3. CASE Environment
  <2>1. CASE MakeGate
      BY <2>1, MakeGateKeeps
  <2>2. CASE Quarantine \/ ChangeTree \/ ChangeSources \/ \E m \in DOMAIN weights : ChangeWeights(m)
      BY <2>2, DriftKeeps
  <2>5. CASE PutBackPart \/ PutBack
      BY <2>5, PutBackKeeps
  <2>3. ASSUME NEW p \in Runs, NEW all \in BOOLEAN, Kill(p, all) PROVE IInv'
      BY <2>3, KillKeeps
  <2>4. ASSUME NEW t \in Targets, EditRows(t) \/ EditVerdicts(t) PROVE IInv'
      BY <2>4, EditRowsKeeps, EditVerdictsKeeps
  <2> QED BY <1>3, <2>1, <2>2, <2>3, <2>4, <2>5 DEF Environment
<1>4. CASE UNCHANGED vars
    BY <1>4, StutterHolds
<1> QED BY <1>1, <1>2, <1>3, <1>4 DEF Next

LEMMA InvariantHolds == Spec => []IInv
BY InitHolds, NextHolds, PTL DEF Spec

(***************************************************************************)
(* Theorems.                                                               *)
(***************************************************************************)
(* The shape of the state (TypeOK) is kept by every command of every       *)
(* invocation, by kills and by what changes from outside.                  *)
THEOREM TypeCorrect == Spec => []TypeOK
<1>1. IInv => TypeOK
    BY DEF IInv
<1> QED BY <1>1, InvariantHolds, PTL

(* The receipts form one chain: every receipt names the ones on the disk   *)
(* (build_*_payload, _publish_create_once), for any number of invocations  *)
(* that build competing ones.                                              *)
THEOREM ReceiptsAreOneChain == Spec => []LineageAgrees
<1>1. ASSUME Linked(pub) PROVE LineageAgrees
  <2>1. /\ Runtime \in Names /\ Gate \in Names
        /\ \A t \in Targets : RunOf(t) \in Names /\ Answers(t) \in Names /\ Judge(t) \in Names
      BY NamesAreFixed
  <2>2. pub[Runtime] # None => pub[Runtime].gate = pub[Gate]
      BY <1>1, <2>1 DEF Linked, Grounded
  <2>3. ASSUME NEW t \in Targets PROVE
          /\ pub[RunOf(t)] # None => pub[RunOf(t)].data = pub[Data]
          /\ pub[Answers(t)] # None => pub[Answers(t)].run = pub[RunOf(t)]
      BY <1>1, <2>1 DEF Linked, Grounded
  <2>4. ASSUME NEW t \in Targets, pub[Judge(t)] # None PROVE
          /\ pub[Judge(t)].answers = pub[Answers(t)]
          /\ pub[Judge(t)].model = pub[Model]
          /\ pub[Judge(t)].runtime \in {None, pub[Runtime]}
    <3>1. Grounded(pub, Judge(t), pub[Judge(t)])
        BY <1>1, <2>1, <2>4 DEF Linked
    <3> QED BY <3>1 DEF Grounded
  <2>5. ASSUME NEW t \in Targets, pub[Gate] # None PROVE pub[Gate].answers[t] = pub[Answers(t)]
    <3>1. Grounded(pub, Gate, pub[Gate])
        BY <1>1, <2>1, <2>5 DEF Linked
    <3> QED BY <3>1 DEF Grounded
  <2> QED BY <2>2, <2>3, <2>4, <2>5 DEF LineageAgrees
<1>2. IInv => LineageAgrees
    BY <1>1 DEF IInv
<1> QED BY <1>2, InvariantHolds, PTL

(* Certified answers were given on the images of the one data receipt,     *)
(* although the tree may be lost, changed and prepared again while an      *)
(* inference goes on (validate_preparation_binding), but for parts of it   *)
(* that were changed and put back.                                         *)
THEOREM CertifiedAnswersAreOnTheData == Spec => []AnswersOnFrozenData
<1>1. IInv => AnswersOnFrozenData
    BY DataIsDated DEF PublishedIn, Alike, AnswersOnFrozenData
<1> QED BY <1>1, InvariantHolds, PTL

(* A published score is the number in the judge's receipt: between the     *)
(* judge's gate and the score nobody can touch the verdicts.               *)
THEOREM ScoreIsTheJudges == Spec => []ScoreMatchesReceipt
<1>1. ASSUME Linked(pub), NEW t \in Targets, pub[Score(t)] # None
      PROVE  pub[Judge(t)] # None /\ pub[Score(t)].correct = pub[Judge(t)].correct
  <2>1. Grounded(pub, Score(t), pub[Score(t)])
      BY <1>1, NamesAreFixed DEF Linked
  <2> QED BY <2>1 DEF Grounded
<1>2. IInv => ScoreMatchesReceipt
    BY <1>1 DEF IInv, ScoreMatchesReceipt
<1> QED BY <1>2, InvariantHolds, PTL

(* The pairs of the matrix were judged under its runtime contract, on the  *)
(* answers of the context gate and on one data set (build_matrix_payload). *)
THEOREM MatrixComparesLikeWithLike == Spec => []MatrixIsUniform
<1>1. ASSUME Linked(pub), pub[Matrix] # None, NEW t \in Targets
      PROVE  LET j == pub[Matrix].judges[t] IN
             /\ j.runtime = pub[Matrix].runtime
             /\ j.model = pub[Matrix].runtime.model
             /\ j.answers = pub[Matrix].runtime.gate.answers[t]
             /\ j.answers.run.data = pub[Data]
  <2>1. Grounded(pub, Matrix, pub[Matrix])
      BY <1>1, NamesAreFixed DEF Linked
  <2> QED BY <2>1 DEF Grounded
<1>2. IInv => MatrixIsUniform
    BY <1>1 DEF IInv, MatrixIsUniform
<1> QED BY <1>2, InvariantHolds, PTL

(* The inferencer is never let at answers that have a receipt, whatever a  *)
(* rerun finds and a killed run has left behind.                           *)
THEOREM CertifiedAnswersAreFinal == Spec => CertifiedRowsAreFinal
<1>1. ASSUME IInv, NEW p \in Runs, Resume(p) PROVE pub[Answers(Target(p))] = None
  <2>1. todo[p] # <<>> /\ Head(todo[p]) = "resume"
      BY <1>1 DEF Resume, Doing
  <2> QED BY <1>1, <2>1, AtCommand DEF Owes, Opening
<1>2. IInv => [\A p \in Runs : Resume(p) => pub[Answers(Target(p))] = None]_vars
    BY <1>1
<1> QED BY <1>2, InvariantHolds, PTL DEF CertifiedRowsAreFinal
=============================================================================
