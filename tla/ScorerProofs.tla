---------------------------- MODULE ScorerProofs ----------------------------
(***************************************************************************)
(* Proofs of the properties of the aggregators, for every set of rows, of  *)
(* answers a model may give, of processes and of aggregators.              *)
(***************************************************************************)
EXTENDS ScorerProperties, FiniteSetTheorems, TLAPS

----------------------------------------------------------------------------
(* The parsers *)

LEMMA OnlyMember ==
    ASSUME NEW S, Single(S)
    PROVE  Only(S) \in S /\ S = {Only(S)}
BY DEF Single, Only

LEMMA ParseV1Type ==
    ASSUME NEW a \in Answer
    PROVE  /\ ParseV1(a) \in Choices \cup {None, Lower, Raised}
           /\ ParseMMStar(a) \in Choices \cup {None}
<1>1. Single(a.loose) => Only(a.loose) \in Choices
    BY OnlyMember DEF Answer
<1>2. a.member.letter \in Choices \cup {None} /\ a.closing.letter \in Choices \cup {None}
    BY DEF Answer, Form, NoForm
<1>3. ParseV1(a) \in Choices \cup {None, Lower, Raised}
    BY <1>1, <1>2 DEF ParseV1, Answer
<1> QED BY <1>3 DEF ParseMMStar

LEMMA InferTypes ==
    ASSUME NEW a \in Answer, NEW opts \in SUBSET Choices
    PROVE  /\ CanInferV3(a, opts) \in opts \cup {None}
           /\ CanInferV4(a, opts) \in opts \cup {None}
<1>1. UniqueText(a, opts) \in opts \cup {None}
    BY OnlyMember DEF UniqueText
<1>2. \A f \in Form \cup {NoForm} : Written(f, opts) => f.letter \in opts
    BY DEF Written
<1>3. Single(a.markers) => Only(a.markers) \in Form \cup {NoForm}
    BY OnlyMember DEF Answer
<1>4. a.last \in Form \cup {NoForm} /\ a.text \in {"absent", "blank", "words"}
    BY DEF Answer
<1>5. CanInferV3(a, opts) \in opts \cup {None}
    BY <1>1, <1>2, <1>3, <1>4 DEF CanInferV3
<1>6. InferOption(a, opts) \in opts \cup {None}
    BY OnlyMember DEF InferOption
<1>7. CanInferV4(a, opts) \in opts \cup {None}
    BY <1>1, <1>6 DEF CanInferV4
<1> QED BY <1>5, <1>7

LEMMA ExplicitType ==
    ASSUME NEW a \in Answer, NEW opts \in SUBSET Choices
    PROVE  LET e == ExplicitParse(a, opts) IN
           /\ e.seen \in BOOLEAN /\ e.conflict \in BOOLEAN
           /\ e.seen /\ ~e.conflict => e.letter \in opts \cup {Raised}
           /\ e.letter = Raised => Deep(a)
           /\ ~(e.seen /\ ~e.conflict) => e.letter = None
<1>1. Single(Said(a)) /\ Said(a) \subseteq opts => Only(Said(a)) \in opts
    BY OnlyMember
<1>2. Raised \notin opts \cup {None}
    BY NoneAssumption DEF Raised
<1>3. Deep(a) => a.object # "none"
    BY DEF Deep
<1> QED BY <1>1, <1>2, <1>3 DEF ExplicitParse, StrictJson, ExplicitState, Verdict, Written

LEMMA UnionType ==
    ASSUME NEW a \in Answer, NEW opts \in SUBSET Choices
    PROVE  /\ UnionParse(a, opts) \in opts \cup {None, Raised}
           /\ UnionParse(a, opts) = Raised => Deep(a)
<1>1. Raised \notin opts \cup {None}
    BY NoneAssumption DEF Raised
<1> QED BY <1>1, ExplicitType, InferTypes DEF UnionParse

\* Where the supplement is parsed at all, an object too deep has raised before.
LEMMA DeepUnion ==
    ASSUME NEW a \in Answer, NEW opts \in SUBSET Choices,
           a.text = "words", OptionsOK(opts), Deep(a)
    PROVE  UnionParse(a, opts) = Raised
<1>1. StrictJson(a, opts) = Verdict(Raised, TRUE, FALSE)
    BY DEF StrictJson, Deep
<1>2. ExplicitParse(a, opts) = Verdict(Raised, TRUE, FALSE)
    BY <1>1 DEF ExplicitParse, Verdict
<1> QED BY <1>2 DEF UnionParse, Verdict

LEMMA SupplementType ==
    ASSUME NEW a \in Answer, NEW opts \in SUBSET Choices
    PROVE  /\ Supplement(a, opts) \in opts \cup {None, Raised}
           /\ Supplement(a, opts) = Raised =>
                 a.nested /\ a.text = "words" /\ OptionsOK(opts)
<1>1. Raised \notin opts \cup {None}
    BY NoneAssumption DEF Raised
<1> QED BY <1>1 DEF Supplement

(***************************************************************************)
(* v5 never contradicts what an answer states: a letter it returns is the  *)
(* one of the explicit parse, if that saw any, and v4 has none or the same *)
(* (_union_parse, 186-200), whatever the answer and the options are.       *)
(***************************************************************************)
THEOREM UnionContradictsNobody ==
    ASSUME NEW a \in Answer, NEW opts \in SUBSET Choices,
           UnionParse(a, opts) \notin {None, Raised}
    PROVE  /\ ExplicitParse(a, opts).seen =>
                 ExplicitParse(a, opts).letter = UnionParse(a, opts)
           /\ ~ExplicitParse(a, opts).conflict
           /\ CanInferV4(a, opts) \in {None, UnionParse(a, opts)}
<1>1. a.text \in {"absent", "blank", "words"}
    BY DEF Answer
<1> QED BY <1>1, ExplicitType, InferTypes DEF UnionParse

(***************************************************************************)
(* A supplement of the audit is one of the row's options, and no marker    *)
(* and no last line of the answer names another letter (supplemental_parse *)
(* of the audit, 167-212).                                                 *)
(***************************************************************************)
THEOREM SupplementIsUnopposed ==
    ASSUME NEW a \in Answer, NEW opts \in SUBSET Choices,
           Supplement(a, opts) \notin {None, Raised}
    PROVE  /\ Supplement(a, opts) \in opts
           /\ Said(a) \subseteq {Supplement(a, opts)}
<1> DEFINE l == Supplement(a, opts)
<1>1. l \in opts /\ Unopposed(a, opts, l)
    BY DEF Supplement
<1>2. Said(a) = {} \/ (Single(Said(a)) /\ Only(Said(a)) = l)
    BY <1>1 DEF Unopposed, ExplicitState, Verdict
<1> QED BY <1>1, <1>2, OnlyMember

(***************************************************************************)
(* The category the MMStar aggregator counts an answer in is one of the    *)
(* three good ones exactly if it counts a letter (_parse_content, 289-326).*)
(***************************************************************************)
THEOREM CategoryTellsLetter ==
    ASSUME NEW a \in Answer
    PROVE  ParseMMStar(a) # None <=>
           CategoryMMStar(a) \in {"json_answer", "explicit_answer_or_choice", "terminal_letter"}
<1>1. a.text \in {"absent", "blank", "words"}
    BY DEF Answer
<1>2. CASE a.text # "words"
    BY <1>1, <1>2, NoneAssumption DEF ParseMMStar, CategoryMMStar, ParseV1
<1>3. CASE a.text = "words"
    BY <1>3, NoneAssumption DEF ParseMMStar, CategoryMMStar
<1> QED BY <1>2, <1>3

----------------------------------------------------------------------------
(* What a thread makes of an event *)

LEMMA ReplyOutcome ==
    ASSUME NEW x \in Programs, NEW r \in Rows, NEW a \in Answer
    PROVE  LET got == Outcome(x, r, Reply(a)) IN
           /\ got \in Choices \cup {None, Lower, Failed, Abort, Crash}
           /\ got = Lower => x \in {"v1", "v2"}
           /\ got = Failed => x \in {"v1", "audit"}
           /\ got = Abort => x = "v2"
           /\ got = Crash => \/ x = "v5" /\ Deep(a)
                             \/ x = "audit" /\ a.nested /\ ~Deep(a)
<1>1. OptionsOf[r] \in SUBSET Choices
    BY ScorerAssumption
<1>2. Reply(a).kind = "reply" /\ Reply(a).answer = a
    BY DEF Reply
<1>3. x \in {"v1", "v2", "v3", "v4", "v5", "mmstar", "audit"}
    BY ScorerAssumption
<1>4. /\ ParseV1(a) \in Choices \cup {None, Lower, Raised}
      /\ ParseMMStar(a) \in Choices \cup {None}
      /\ CanInferV3(a, OptionsOf[r]) \in Choices \cup {None}
      /\ CanInferV4(a, OptionsOf[r]) \in Choices \cup {None}
      /\ UnionParse(a, OptionsOf[r]) \in Choices \cup {None, Raised}
      /\ UnionParse(a, OptionsOf[r]) = Raised => Deep(a)
    BY <1>1, ParseV1Type, InferTypes, UnionType
<1> DEFINE c == Choices \cup {None}
<1>12. /\ Failed \notin c /\ Abort \notin c /\ Crash \notin c /\ Lower \notin c
       /\ Failed # Abort /\ Failed # Crash /\ Abort # Crash
       /\ Lower # Failed /\ Lower # Abort /\ Lower # Crash
    BY NoneAssumption, ScorerAssumption DEF Failed, Abort, Crash, Lower
<1>5. CASE x = "v1" BY <1>2, <1>4, <1>5, <1>12 DEF Outcome, OutcomeV1, Parsed
<1>6. CASE x = "v2" BY <1>2, <1>4, <1>6, <1>12 DEF Outcome, OutcomeV2, Parsed
<1>7. CASE x = "v3" BY <1>2, <1>4, <1>7, <1>12 DEF Outcome, OutcomeV3
<1>8. CASE x = "v4" BY <1>2, <1>4, <1>8, <1>12 DEF Outcome, OutcomeV4
<1>9. CASE x = "v5" BY <1>2, <1>4, <1>9, <1>12 DEF Outcome, OutcomeV5, Parsed
<1>10. CASE x = "mmstar" BY <1>2, <1>4, <1>10, <1>12 DEF Outcome, OutcomeMMStar
<1>11. CASE x = "audit"
  <2> DEFINE u == UnionParse(a, OptionsOf[r])
             s == Supplement(a, OptionsOf[r])
  <2>1. Outcome(x, r, Reply(a)) = IF u # Raised /\ s = Raised THEN Crash ELSE Parsed(u, Failed)
      BY <1>2, <1>11 DEF Outcome, OutcomeAudit
  <2>2. u # Raised /\ s = Raised => a.nested /\ ~Deep(a)
      BY <1>1, SupplementType, DeepUnion
  <2> HIDE DEF u, s
  <2>3. u \in Choices \cup {None, Raised}
      BY <1>4 DEF u
  <2> QED BY <1>11, <1>12, <2>1, <2>2, <2>3 DEF Parsed
<1> QED BY <1>3, <1>5, <1>6, <1>7, <1>8, <1>9, <1>10, <1>11

LEMMA FaultOutcome ==
    ASSUME NEW x \in Programs, NEW r \in Rows, NEW k \in {"malformed", "provider", "local"}
    PROVE  LET got == Outcome(x, r, Fault(k)) IN
           /\ got \in {None, Failed, Abort}
           /\ k = "provider" => got = Failed
           /\ k = "malformed" => got # Failed
           /\ k = "local" => got = IF x \in {"v1", "audit"} THEN Failed ELSE Abort
<1>1. Fault(k).kind = k
    BY DEF Fault
<1>2. x \in {"v1", "v2", "v3", "v4", "v5", "mmstar", "audit"}
    BY ScorerAssumption
<1> USE ScorerAssumption DEF Failed, Abort, Crash
<1>5. CASE x = "v1" BY <1>1, <1>5 DEF Outcome, OutcomeV1
<1>6. CASE x = "v2" BY <1>1, <1>6 DEF Outcome, OutcomeV2
<1>7. CASE x = "v3" BY <1>1, <1>7 DEF Outcome, OutcomeV3
<1>8. CASE x = "v4" BY <1>1, <1>8 DEF Outcome, OutcomeV4
<1>9. CASE x = "v5" BY <1>1, <1>9 DEF Outcome, OutcomeV5
<1>10. CASE x = "mmstar" BY <1>1, <1>10 DEF Outcome, OutcomeMMStar
<1>11. CASE x = "audit" BY <1>1, <1>11 DEF Outcome, OutcomeAudit
<1> QED BY <1>2, <1>5, <1>6, <1>7, <1>8, <1>9, <1>10, <1>11

LEMMA EventKinds ==
    ASSUME NEW e \in Events
    PROVE  \/ \E a \in Answer : e = Reply(a)
           \/ \E k \in {"malformed", "provider", "local"} : e = Fault(k)
<1>1. CASE \E k \in {"malformed", "provider", "local"} : e = Fault(k)
    BY <1>1
<1>2. CASE \E r \in Rows : \E a \in RepliesOf[r] : e = Reply(a)
    BY <1>2, ScorerAssumption
<1> QED BY <1>1, <1>2 DEF Events

(* The kind of an event and the outcome of a row tell each other. *)
LEMMA OutcomeKind ==
    ASSUME NEW x \in Programs, NEW r \in Rows, NEW e \in Events
    PROVE  LET got == Outcome(x, r, e) IN
           /\ got \in Got
           /\ e.kind \in {"reply", "malformed", "provider", "local"}
           /\ e.kind = "provider" => got = Failed
           /\ got = Failed /\ x \notin {"v1", "audit"} => e.kind = "provider"
           /\ e.kind = "local" /\ x \notin {"v1", "audit"} => got = Abort
           /\ e.kind = "reply" /\ got = Abort => x = "v2"
           /\ e.kind = "reply" /\ got = Crash =>
                 \/ x = "v5" /\ Deep(e.answer)
                 \/ x = "audit" /\ e.answer.nested /\ ~Deep(e.answer)
           /\ x \notin {"v1", "v2"} => got \in Choices \cup {None, Failed, Abort, Crash}
<1> USE NoneAssumption, ScorerAssumption DEF Lower, Failed, Abort, Crash, Got
<1>1. ASSUME NEW a \in Answer, e = Reply(a) PROVE e.kind = "reply" /\ e.answer = a
    BY <1>1 DEF Reply
<1>2. ASSUME NEW a \in Answer, e = Reply(a)
      PROVE  LET got == Outcome(x, r, e) IN
             /\ got \in Choices \cup {None, Lower, Failed, Abort, Crash}
             /\ got = Lower => x \in {"v1", "v2"}
             /\ got = Failed => x \in {"v1", "audit"}
             /\ got = Abort => x = "v2"
             /\ got = Crash => \/ x = "v5" /\ Deep(a)
                               \/ x = "audit" /\ a.nested /\ ~Deep(a)
    BY <1>2, ReplyOutcome
<1>3. ASSUME NEW k \in {"malformed", "provider", "local"}, e = Fault(k)
      PROVE  /\ e.kind = k
             /\ LET got == Outcome(x, r, e) IN
                /\ got \in {None, Failed, Abort}
                /\ k = "provider" => got = Failed
                /\ k = "malformed" => got # Failed
                /\ k = "local" => got = IF x \in {"v1", "audit"} THEN Failed ELSE Abort
    BY <1>3, FaultOutcome DEF Fault
<1> QED BY <1>1, <1>2, <1>3, EventKinds

----------------------------------------------------------------------------
(* The flows *)

LEMMA FlowShape ==
    ASSUME NEW x \in Programs
    PROVE  /\ Len(Flow(x)) \in {4, 5, 6} /\ DOMAIN Flow(x) = 1..Len(Flow(x))
           /\ Flow(x)[Len(Flow(x))] = "receipt"
           /\ \E i \in DOMAIN Flow(x) : Flow(x)[i] = "infer"
           /\ \A i, j \in DOMAIN Flow(x) :
                 /\ Flow(x)[i] = Flow(x)[j] => i = j
                 /\ Flow(x)[i] = "infer" /\ Flow(x)[j] \in Files => i < j
           /\ \A i \in DOMAIN Flow(x) : Flow(x)[i] = "sidecar" => x = "audit"
           /\ x = "audit" => \E i \in DOMAIN Flow(x) : Flow(x)[i] = "sidecar"
<1>1. x \in {"v1", "v2", "v3", "v4", "v5", "mmstar", "audit"}
    BY ScorerAssumption
<1>2. CASE x = "v1"
  <2>1. Flow(x) = <<"validate", "dataset", "infer", "receipt">>
    BY <1>2 DEF Flow, FlowV1
  <2> QED BY <2>1, <1>2 DEF Files
<1>3. CASE x \in {"v2", "v3", "v4", "v5"}
  <2>1. Flow(x) = <<"validate", "preflight", "dataset", "infer", "receipt">>
    BY <1>3 DEF Flow, FlowV2, FlowV3, FlowV4, FlowV5
  <2> QED BY <2>1, <1>3 DEF Files
<1>4. CASE x = "mmstar"
  <2>1. Flow(x) = <<"validate", "dataset", "preflight", "infer", "receipt">>
    BY <1>4 DEF Flow, FlowMMStar
  <2> QED BY <2>1, <1>4 DEF Files
<1>5. CASE x = "audit"
  <2>1. Flow(x) = <<"validate", "dataset", "preflight", "infer", "sidecar", "receipt">>
    BY <1>5 DEF Flow, FlowAudit
  <2> QED BY <2>1, <1>5 DEF Files
<1> QED BY <1>1, <1>2, <1>3, <1>4, <1>5

LEMMA ContentShape ==
    ASSUME NEW x \in Programs, NEW f \in Files, NEW p, NEW t
    PROVE  Content(x, f, p, t).state = "whole" /\ Content(x, f, p, t).by = p
<1>1. x \in {"v1", "v2", "v3", "v4", "v5", "mmstar", "audit"}
    BY ScorerAssumption
<1>2. CASE x \in {"v1", "v2", "v3", "v4", "v5", "mmstar"}
    BY <1>2 DEF Content, ReceiptV1, ReceiptV2, ReceiptV3, ReceiptV4, ReceiptV5,
                ReceiptMMStar, Sealed
<1>3. CASE x = "audit"
    BY <1>3 DEF Content, ReceiptAudit, Sidecar
<1> QED BY <1>1, <1>2, <1>3


----------------------------------------------------------------------------
(* The inductive invariant *)

\* p has left the phase ph, and did not end in it.
Past(p, ph) == \E i \in DOMAIN Flow(prog) : Flow(prog)[i] = ph /\ i < phase[p]

\* The outcome of a row is the program's for its event.
Recorded ==
    \A p \in Scorers, r \in Rows :
        task[p][r].state = "done" => task[p][r].got = Outcome(prog, r, task[p][r].event)

\* The end of the flow is exit 0, and only that.
EndsAtZero ==
    \A p \in Scorers : /\ exit[p] = "0" <=> phase[p] = Len(Flow(prog)) + 1
                       /\ exit[p] = "none" => phase[p] \in DOMAIN Flow(prog)

\* What the inference left behind.
Scored(x, t) ==
    /\ \A r \in Rows : t[r].state = "done" /\ t[r].got \notin {Abort, Crash}
    /\ x \in {"v2", "v3", "v4", "v5"} => ReducibleV2(t)
    /\ x = "mmstar" => ReducibleMMStar(t)

Reduced == \A p \in Scorers : Past(p, "infer") => Scored(prog, task[p])

\* An open file is its writer's.
Writing ==
    \A p \in Scorers : open[p] =>
        /\ exit[p] = "none"
        /\ \E f \in Files : In(p, f) /\ disk[f] = Torn(p)

\* A whole file was written from the outcomes its writer still has.
Whole ==
    \A f \in Files : disk[f].state = "whole" =>
        /\ Past(disk[f].by, f)
        /\ disk[f] = Content(prog, f, disk[f].by, task[disk[f].by])

\* Half a file is its writer's, who has not come to another file since.
TornByWriter ==
    \A f \in Files : disk[f].state = "torn" =>
        /\ disk[f] = Torn(disk[f].by)
        /\ exit[disk[f].by] = "none" => In(disk[f].by, f) \/ Past(disk[f].by, f)

\* Who has left the phase of a file has written it.
Made ==
    prog \notin {"v1", "mmstar"} =>
        \A p \in Scorers, f \in Files :
            Past(p, f) => disk[f].state = "whole" /\ disk[f].by = p

IInv == /\ TypeOK
        /\ Recorded
        /\ EndsAtZero
        /\ Reduced
        /\ Writing
        /\ Whole
        /\ TornByWriter
        /\ Made
        /\ TornHasCause
        /\ OthersAreScored

LEMMA InitIInv ==
    ASSUME Init
    PROVE  IInv
<1>1. \A p \in Scorers, ph \in {"infer"} \cup Files : ~Past(p, ph)
    BY FlowShape DEF Init, Past
<1>2. prog \in Programs /\ Len(Flow(prog)) \in {4, 5, 6}
    BY FlowShape DEF Init
<1>3. TypeOK
    BY <1>2 DEF Init, TypeOK, TaskType, Waiting, Absent, Files
<1>4. Recorded
    BY DEF Init, Recorded, Waiting
<1>5. EndsAtZero
    BY <1>2, FlowShape DEF Init, EndsAtZero
<1>6. Reduced /\ Made
    BY <1>1 DEF Reduced, Made
<1>7. Writing /\ Whole /\ TornByWriter /\ TornHasCause
    BY DEF Init, Writing, Whole, TornByWriter, TornHasCause, Absent
<1>8. OthersAreScored
    BY DEF Init, OthersAreScored, Refused
<1> QED BY <1>3, <1>4, <1>5, <1>6, <1>7, <1>8 DEF IInv

\* Which phases are past.
LEMMA NotPast ==
    ASSUME TypeOK, NEW p \in Scorers, NEW ph, In(p, ph)
    PROVE  ~Past(p, ph) /\ (ph = "infer" => \A f \in Files : ~Past(p, f))
<1>1. prog \in Programs /\ phase[p] \in Nat
    BY FlowShape DEF TypeOK
<1>2. DOMAIN Flow(prog) = 1..Len(Flow(prog)) /\ Len(Flow(prog)) \in {4, 5, 6}
    BY <1>1, FlowShape
<1>3. \A i, j \in DOMAIN Flow(prog) :
          /\ Flow(prog)[i] = Flow(prog)[j] => i = j
          /\ Flow(prog)[i] = "infer" /\ Flow(prog)[j] \in Files => i < j
    BY <1>1, FlowShape
<1> QED BY <1>1, <1>2, <1>3 DEF Past, In

LEMMA PastInfer ==
    ASSUME TypeOK, NEW p \in Scorers, NEW f \in Files, In(p, f) \/ Past(p, f)
    PROVE  Past(p, "infer")
<1>1. prog \in Programs /\ phase[p] \in Nat
    BY FlowShape DEF TypeOK
<1>2. DOMAIN Flow(prog) = 1..Len(Flow(prog)) /\ Len(Flow(prog)) \in {4, 5, 6}
    BY <1>1, FlowShape
<1>3. PICK i \in DOMAIN Flow(prog) : Flow(prog)[i] = "infer"
    BY <1>1, FlowShape
<1>4. \A j \in DOMAIN Flow(prog) : Flow(prog)[j] \in Files => i < j
    BY <1>1, <1>3, FlowShape
<1> QED BY <1>1, <1>2, <1>3, <1>4 DEF Past, In

LEMMA PastAdvance ==
    ASSUME TypeOK, NEW p \in Scorers, NEW ph, In(p, ph), Advance(p), UNCHANGED prog
    PROVE  /\ \A q \in Scorers : \A g : Past(q, g)' <=> Past(q, g) \/ (q = p /\ g = ph)
           /\ phase' \in [Scorers -> 1..(Len(Flow(prog)) + 1)]
           /\ exit' \in [Scorers -> {"none", "0", "1", "2", "killed"}]
<1>1. /\ prog \in Programs /\ phase[p] \in DOMAIN Flow(prog) /\ Flow(prog)[phase[p]] = ph
      /\ phase \in [Scorers -> 1..(Len(Flow(prog)) + 1)]
    BY DEF TypeOK, In
<1>2. DOMAIN Flow(prog) = 1..Len(Flow(prog)) /\ Len(Flow(prog)) \in {4, 5, 6}
    BY <1>1, FlowShape
<1>3. phase' = [phase EXCEPT ![p] = @ + 1]
    BY DEF Advance
<1>4. \A q \in Scorers : \A g : Past(q, g)' <=> Past(q, g) \/ (q = p /\ g = ph)
  <2> TAKE q \in Scorers
  <2> TAKE g
  <2>1. CASE q # p
    BY <1>1, <1>3, <2>1 DEF Past
  <2>2. CASE q = p
    <3>1. phase'[q] = phase[q] + 1 /\ phase[q] \in Nat
        BY <1>1, <1>2, <1>3, <2>2
    <3>2. \A i \in DOMAIN Flow(prog) : i < phase[q] + 1 <=> i < phase[q] \/ i = phase[q]
        BY <1>2, <3>1
    <3> QED BY <1>1, <3>1, <3>2, <2>2 DEF Past
  <2> QED BY <2>1, <2>2
<1>5. phase' \in [Scorers -> 1..(Len(Flow(prog)) + 1)]
    BY <1>1, <1>2, <1>3
<1> QED BY <1>4, <1>5 DEF Advance, TypeOK

\* Steps that leave phase and prog alone.
LEMMA PastSame ==
    ASSUME UNCHANGED <<prog, phase>>
    PROVE  \A q : \A g : Past(q, g)' <=> Past(q, g)
BY DEF Past

LEMMA EndsAdvance ==
    ASSUME TypeOK, EndsAtZero, NEW p \in Scorers, NEW ph, In(p, ph), Advance(p), UNCHANGED prog
    PROVE  EndsAtZero'
<1>1. /\ prog \in Programs /\ phase[p] \in DOMAIN Flow(prog)
      /\ phase \in [Scorers -> 1..(Len(Flow(prog)) + 1)]
      /\ exit \in [Scorers -> {"none", "0", "1", "2", "killed"}] /\ exit[p] = "none"
    BY DEF TypeOK, In
<1>2. DOMAIN Flow(prog) = 1..Len(Flow(prog)) /\ Len(Flow(prog)) \in {4, 5, 6}
    BY <1>1, FlowShape
<1> QED BY <1>1, <1>2 DEF EndsAtZero, Advance

LEMMA EndsLeave ==
    ASSUME TypeOK, EndsAtZero, NEW p \in Scorers, exit[p] = "none",
           NEW code \in {"1", "2", "killed"}, Leave(p, code), UNCHANGED prog
    PROVE  /\ EndsAtZero'
           /\ exit' \in [Scorers -> {"none", "0", "1", "2", "killed"}]
<1>1. /\ prog \in Programs
      /\ phase \in [Scorers -> 1..(Len(Flow(prog)) + 1)]
      /\ exit \in [Scorers -> {"none", "0", "1", "2", "killed"}]
    BY DEF TypeOK
<1>2. DOMAIN Flow(prog) = 1..Len(Flow(prog)) /\ Len(Flow(prog)) \in {4, 5, 6}
    BY <1>1, FlowShape
<1> QED BY <1>1, <1>2 DEF EndsAtZero, Leave
----------------------------------------------------------------------------
(* The steps that touch no file and no row: Validate, Preflight,           *)
(* ReadDataset and Reduce.                                                 *)

LEMMA MoveIInv ==
    ASSUME IInv, NEW p \in Scorers, NEW ph, ph \notin Files, In(p, ph),
           NEW code \in {"1", "2"}, Advance(p) \/ Leave(p, code),
           ph = "infer" /\ Advance(p) => Scored(prog, task[p]),
           ph = "infer" /\ Leave(p, code) /\ prog # "v2" =>
              images # Rows \/ \E r \in Rows : Event(p, r) # "reply" \/ TooDeep(p, r),
           UNCHANGED <<prog, server, images, open, task, disk>>
    PROVE  IInv'
<1> USE DEF IInv
<1>1. exit[p] = "none" /\ exit \in [Scorers -> {"none", "0", "1", "2", "killed"}]
      /\ phase \in [Scorers -> 1..(Len(Flow(prog)) + 1)]
    BY DEF In, TypeOK
<1>2. \A q \in Scorers : q # p => exit'[q] = exit[q] /\ phase'[q] = phase[q]
    BY <1>1 DEF Advance, Leave
<1>3. Leave(p, code) => \A q : \A g : Past(q, g)' <=> Past(q, g)
    BY PastSame DEF Leave
<1>4. \A q \in Scorers : \A g : Past(q, g)' <=> Past(q, g) \/ (q = p /\ g = ph /\ Advance(p))
    BY <1>3, PastAdvance
<1>5. EndsAtZero' /\ exit' \in [Scorers -> {"none", "0", "1", "2", "killed"}]
    BY <1>1, EndsAdvance, EndsLeave, PastAdvance
<1>6. phase' \in [Scorers -> 1..(Len(Flow(prog)) + 1)]
    BY <1>1, PastAdvance DEF Leave
<1>7. TypeOK'
    BY <1>5, <1>6 DEF TypeOK
<1>8. Recorded'
    BY DEF Recorded
<1>9. Reduced'
    BY <1>4 DEF Reduced
<1>10. ~open[p]
    BY DEF Writing, In
<1>11. Writing'
    BY <1>2, <1>10 DEF Writing, In
<1>12. \A f \in Files : disk[f].state = "whole" => disk[f].by \in Scorers
    BY DEF TypeOK, Absent
<1>13. Whole'
    BY <1>4, <1>12 DEF Whole
<1>14. Made'
    BY <1>4 DEF Made
<1>15. \A f \in Files : disk[f].state = "torn" => disk[f].by \in Scorers
    BY DEF TypeOK, Absent
<1>16. TornHasCause'
    BY <1>1, <1>2, <1>10, <1>15 DEF TornHasCause
<1>18. TornByWriter'
    BY <1>1, <1>2, <1>4, <1>15 DEF TornByWriter, In
<1>17. OthersAreScored'
  <2> SUFFICES ASSUME prog # "v2", NEW q \in Scorers, Refused(q)'
               PROVE  images # Rows \/ \E r \in Rows : Event(q, r) # "reply" \/ TooDeep(q, r)
      BY DEF OthersAreScored, Event, TooDeep
  <2>1. CASE q # p
    BY <1>2, <2>1 DEF OthersAreScored, Refused
  <2>2. CASE q = p /\ Leave(p, code)
    BY <2>2 DEF Refused, Leave, In
  <2>3. CASE q = p /\ Advance(p)
    BY <1>1, <2>3 DEF Refused, Advance
  <2> QED BY <2>1, <2>2, <2>3
<1> QED BY <1>5, <1>7, <1>8, <1>9, <1>11, <1>13, <1>14, <1>16, <1>17, <1>18

\* What refuses the outcomes of an inference is not the text of a reply.
LEMMA RefusalCause ==
    ASSUME IInv, NEW p \in Scorers, prog # "v2",
           \A r \in Rows : task[p][r].state = "done",
           ~((\A r \in Rows : task[p][r].got \notin {Abort, Crash}) /\ Reducible(prog, task[p]))
    PROVE  images # Rows \/ \E r \in Rows : Event(p, r) # "reply" \/ TooDeep(p, r)
<1> SUFFICES ASSUME images = Rows, \A r \in Rows : Event(p, r) = "reply" /\ ~TooDeep(p, r)
             PROVE  FALSE
    OBVIOUS
<1>1. prog \in {"v1", "v3", "v4", "v5", "mmstar", "audit"} /\ prog \in Programs
    BY ScorerAssumption DEF IInv, TypeOK
<1>2. \A r \in Rows : /\ task[p][r].event \in Events
                      /\ task[p][r].got = Outcome(prog, r, task[p][r].event)
                      /\ task[p][r].event.kind = "reply"
    BY DEF IInv, TypeOK, TaskType, Waiting, Asked, Recorded, Event
<1>3. ASSUME NEW r \in Rows
      PROVE  /\ task[p][r].got \notin {Abort, Crash}
             /\ prog # "v1" => task[p][r].got \in Choices \cup {None, Failed}
             /\ task[p][r].got = Failed => prog \in {"v1", "audit"}
  <2>1. ~TooDeep(p, r)
      OBVIOUS
  <2> DEFINE e == task[p][r].event
  <2>2. e \in Events /\ task[p][r].got = Outcome(prog, r, e) /\ e.kind = "reply"
      BY <1>2
  <2>3. ~(\/ prog = "v5" /\ Deep(e.answer)
          \/ prog = "audit" /\ e.answer.nested /\ ~Deep(e.answer))
      BY <2>1 DEF TooDeep
  <2> HIDE DEF e
  <2>4. task[p][r].got \notin {Abort, Crash}
      BY <1>1, <2>2, <2>3, OutcomeKind
  <2> QED BY <1>1, <2>2, <2>4, OutcomeKind
<1>5. Reducible(prog, task[p])
    BY <1>1, <1>3 DEF Reducible, Manifest, ReducibleV2, ReducibleMMStar
<1> QED BY <1>3, <1>5

LEMMA QuietIInv ==
    ASSUME IInv, NEW p \in Scorers, Validate(p) \/ Preflight(p) \/ ReadDataset(p) \/ Reduce(p)
    PROVE  IInv'
<1>1. CASE Validate(p)
    BY <1>1, MoveIInv DEF Validate, Check, Files
<1>2. CASE Preflight(p)
    BY <1>2, MoveIInv DEF Preflight, Check, Files
<1>3. CASE ReadDataset(p)
    BY <1>3, MoveIInv DEF ReadDataset, Check, Files
<1>4. CASE Reduce(p)
  <2> DEFINE ok == /\ \A r \in Rows : task[p][r].got \notin {Abort, Crash}
                   /\ Reducible(prog, task[p])
  <2>1. /\ In(p, "infer") /\ \A r \in Rows : task[p][r].state = "done"
        /\ UNCHANGED <<prog, server, images, open, task, disk>>
        /\ IF ok THEN Advance(p) ELSE \E code \in {"1", "2"} : Leave(p, code)
    BY <1>4 DEF Reduce, Raises, Check
  <2>2. CASE ok
    <3>1. Scored(prog, task[p])
        BY <2>1, <2>2 DEF Scored, Reducible
    <3>2. ~Leave(p, "2")
      <4>1. exit[p] = "none" /\ exit' = [exit EXCEPT ![p] = IF phase[p] = Len(Flow(prog)) THEN "0" ELSE @]
          BY <2>1, <2>2 DEF Advance, In
      <4>2. exit \in [Scorers -> {"none", "0", "1", "2", "killed"}]
          BY DEF IInv, TypeOK
      <4> QED BY <4>1, <4>2 DEF Leave
    <3> QED BY <2>1, <2>2, <3>1, <3>2, MoveIInv DEF Files
  <2>3. CASE ~ok
    <3>1. prog # "v2" =>
             images # Rows \/ \E r \in Rows : Event(p, r) # "reply" \/ TooDeep(p, r)
        BY <2>1, <2>3, RefusalCause
    <3>2. PICK code \in {"1", "2"} : Leave(p, code)
        BY <2>1, <2>3
    <3>3. ~Advance(p)
      <4>1. exit' = [exit EXCEPT ![p] = code] /\ exit[p] = "none"
          BY <2>1, <3>2 DEF Leave, In
      <4>2. exit \in [Scorers -> {"none", "0", "1", "2", "killed"}]
          BY DEF IInv, TypeOK
      <4> QED BY <4>1, <4>2 DEF Advance
    <3> QED BY <2>1, <3>1, <3>3, <3>2, MoveIInv DEF Files
  <2> QED BY <2>2, <2>3
<1> QED BY <1>1, <1>2, <1>3, <1>4

----------------------------------------------------------------------------
(* The steps of a row's thread *)

LEMMA DoneType ==
    ASSUME TypeOK, NEW r \in Rows, NEW e \in Events
    PROVE  Done(prog, r, e) \in TaskType
BY OutcomeKind DEF Done, TaskType, TypeOK

LEMMA RowIInv ==
    ASSUME IInv, NEW p \in Scorers, NEW r \in Rows, NEW d \in TaskType,
           exit[p] = "none", ~Past(p, "infer"),
           d.state = "done" => d.got = Outcome(prog, r, d.event),
           task' = [task EXCEPT ![p][r] = d],
           UNCHANGED <<prog, server, images, phase, open, exit, disk>>
    PROVE  IInv'
<1> USE DEF IInv
<1>1. task \in [Scorers -> [Rows -> TaskType]]
    BY DEF TypeOK
<1>2. \A q \in Scorers : q # p => task'[q] = task[q]
    BY <1>1
<1>3. \A q \in Scorers, t \in Rows : task'[q][t] = IF q = p /\ t = r THEN d ELSE task[q][t]
    BY <1>1
<1>4. task' \in [Scorers -> [Rows -> TaskType]]
    BY <1>1
<1>5. \A q : \A g : Past(q, g)' <=> Past(q, g)
    BY PastSame
<1>6. TypeOK'
    BY <1>4 DEF TypeOK
<1>7. Recorded'
    BY <1>3 DEF Recorded
<1>8. Reduced'
    BY <1>2, <1>5 DEF Reduced
<1>9. \A f \in Files : disk[f].state = "whole" => disk[f].by \in Scorers \ {p}
    BY PastInfer DEF TypeOK, Absent, Whole
<1>10. Whole'
    BY <1>2, <1>5, <1>9 DEF Whole
<1>11. EndsAtZero' /\ TornByWriter' /\ TornHasCause'
    BY <1>5 DEF EndsAtZero, TornByWriter, TornHasCause, In
<1>12. Writing' /\ Made'
    BY <1>5 DEF Writing, Made, In
<1>13. OthersAreScored'
    BY <1>2 DEF OthersAreScored, Refused, Event, TooDeep
<1> QED BY <1>6, <1>7, <1>8, <1>10, <1>11, <1>12, <1>13

LEMMA ThreadIInv ==
    ASSUME IInv, NEW p \in Scorers, NEW r \in Rows, Ask(p, r) \/ Answered(p, r)
    PROVE  IInv'
<1>1. TypeOK /\ Reduced
    BY DEF IInv
<1>2. CASE Ask(p, r)
  <2>1. Fault("local") \in Events
      BY DEF Events
  <2>2. Done(prog, r, Fault("local")) \in TaskType /\ Asked \in TaskType
      BY <1>1, <2>1, DoneType DEF TaskType
  <2>3. ~Past(p, "infer") /\ exit[p] = "none"
      BY <1>1, <1>2, NotPast DEF Ask, In
  <2>4. PICK d \in {Asked, Done(prog, r, Fault("local"))} : task' = [task EXCEPT ![p][r] = d]
      BY <1>2 DEF Ask
  <2>5. d.state = "done" => d.got = Outcome(prog, r, d.event)
      BY <2>4 DEF Asked, Done
  <2> QED BY <1>2, <2>2, <2>3, <2>4, <2>5, RowIInv DEF Ask
<1>3. CASE Answered(p, r)
  <2>1. ~Past(p, "infer") /\ exit[p] = "none"
      BY <1>1, <1>3 DEF Answered, Reduced, Scored, Asked
  <2>2. PICK e \in Events : task' = [task EXCEPT ![p][r] = Done(prog, r, e)]
      BY <1>3 DEF Answered, Events
  <2>3. Done(prog, r, e) \in TaskType
      BY <1>1, DoneType
  <2>4. Done(prog, r, e).got = Outcome(prog, r, Done(prog, r, e).event)
      BY DEF Done
  <2> QED BY <1>3, <2>1, <2>2, <2>3, <2>4, RowIInv DEF Answered
<1> QED BY <1>2, <1>3
----------------------------------------------------------------------------
(* The steps that write, and the end of a process *)

LEMMA DiskFacts ==
    ASSUME IInv
    PROVE  /\ \A f \in Files : disk[f].state \in {"torn", "whole"} => disk[f].by \in Scorers
           /\ Absent.state = "absent"
           /\ \A p : Torn(p).state = "torn" /\ Torn(p).by = p
           /\ \A p \in Scorers, f, g \in Files : In(p, f) /\ In(p, g) => f = g
           /\ \A p \in Scorers, f \in Files : open[p] /\ In(p, f) => disk[f] = Torn(p)
<1>1. \A p \in Scorers, f, g \in Files : In(p, f) /\ In(p, g) => f = g
    BY DEF In
<1>2. \A p \in Scorers, f \in Files : open[p] /\ In(p, f) => disk[f] = Torn(p)
    BY <1>1 DEF IInv, Writing
<1>3. Absent.state = "absent" /\ \A p : Torn(p).state = "torn" /\ Torn(p).by = p
    BY DEF Absent, Torn
<1>4. \A f \in Files : disk[f].state \in {"torn", "whole"} => disk[f].by \in Scorers
    BY <1>3 DEF IInv, TypeOK
<1> QED BY <1>1, <1>2, <1>3, <1>4

LEMMA CreateIInv ==
    ASSUME IInv, NEW p \in Scorers, NEW f \in Files, Create(p, f)
    PROVE  IInv'
<1> USE DEF IInv
<1>1. /\ In(p, f) /\ ~open[p] /\ disk[f] = Absent /\ exit[p] = "none"
      /\ disk' = [disk EXCEPT ![f] = Torn(p)] /\ open' = [open EXCEPT ![p] = TRUE]
      /\ UNCHANGED <<prog, server, images, phase, task, exit>>
    BY DEF Create, In
<1>2. DOMAIN disk = Files /\ open \in [Scorers -> BOOLEAN]
    BY DEF TypeOK
<1>3. \A g \in Files : disk'[g] = IF g = f THEN Torn(p) ELSE disk[g]
    BY <1>1, <1>2
<1>4. \A q \in Scorers : open'[q] <=> open[q] \/ q = p
    BY <1>1, <1>2
<1>5. \A q : \A g : (Past(q, g)' <=> Past(q, g)) /\ (In(q, g)' <=> In(q, g))
    BY <1>1, PastSame DEF In
<1>6. TypeOK'
    BY <1>1, <1>2, <1>3, DiskFacts DEF TypeOK
<1>7. Recorded' /\ EndsAtZero' /\ OthersAreScored'
    BY <1>1 DEF Recorded, EndsAtZero, OthersAreScored, Refused, Event, TooDeep
<1>8. Reduced'
    BY <1>1, <1>5 DEF Reduced
<1>9. Writing'
    BY <1>1, <1>3, <1>4, <1>5, DiskFacts DEF Writing
<1>10. Whole'
    BY <1>1, <1>3, <1>5, DiskFacts DEF Whole
<1>11. TornByWriter' /\ TornHasCause'
    BY <1>1, <1>3, <1>4, <1>5, DiskFacts DEF TornByWriter, TornHasCause
<1>12. Made'
    BY <1>1, <1>3, <1>5, DiskFacts DEF Made
<1> QED BY <1>6, <1>7, <1>8, <1>9, <1>10, <1>11, <1>12

LEMMA AdvanceFile ==
    ASSUME IInv, NEW p \in Scorers, NEW f \in Files, In(p, f), open[p], Advance(p),
           open' = [open EXCEPT ![p] = FALSE], UNCHANGED <<prog, server, images, task>>,
           \/ disk' = [disk EXCEPT ![f] = Content(prog, f, p, task[p])]
           \/ prog \in {"v1", "mmstar"} /\ disk' = disk
    PROVE  IInv'
<1> USE DEF IInv
<1>1. exit[p] = "none" /\ disk[f] = Torn(p) /\ prog \in Programs
      /\ DOMAIN disk = Files /\ open \in [Scorers -> BOOLEAN]
      /\ exit \in [Scorers -> {"none", "0", "1", "2", "killed"}]
      /\ phase \in [Scorers -> 1..(Len(Flow(prog)) + 1)]
    BY DiskFacts DEF In, TypeOK
<1>2. \A q \in Scorers : q # p => exit'[q] = exit[q] /\ phase'[q] = phase[q]
    BY <1>1 DEF Advance
<1>3. \A g \in Files : \/ disk'[g] = disk[g]
                       \/ g = f /\ disk'[g] = Content(prog, f, p, task[p])
    BY <1>1
<1>4. \A q \in Scorers : open'[q] <=> open[q] /\ q # p
    BY <1>1
<1>5. \A q \in Scorers : \A g : Past(q, g)' <=> Past(q, g) \/ (q = p /\ g = f)
    BY PastAdvance
<1>6. \A q \in Scorers : q # p => \A g : In(q, g)' <=> In(q, g)
    BY <1>2 DEF In
<1>7. Content(prog, f, p, task[p]).state = "whole" /\ Content(prog, f, p, task[p]).by = p
    BY <1>1, ContentShape
<1>8. EndsAtZero'
    BY EndsAdvance
<1>9. TypeOK'
    BY <1>1, <1>3, <1>7, PastAdvance DEF TypeOK
<1>10. Recorded'
    BY DEF Recorded
<1>11. Reduced'
    BY <1>5, DiskFacts DEF Reduced, Files
<1>12. Writing'
    BY <1>1, <1>2, <1>3, <1>4, <1>6, DiskFacts DEF Writing
<1>13. Whole'
    BY <1>3, <1>5, <1>7, DiskFacts DEF Whole
<1>14. TornByWriter'
    BY <1>1, <1>2, <1>3, <1>5, <1>6, <1>7, DiskFacts DEF TornByWriter
<1>15. Made'
    BY <1>1, <1>3, <1>5, <1>7, DiskFacts DEF Made
<1>16. TornHasCause'
  <2> SUFFICES ASSUME prog \notin {"v1", "mmstar"}, NEW g \in Files, disk'[g].state = "torn"
               PROVE  \/ open'[disk[g].by] /\ exit'[disk[g].by] = "none"
                      \/ exit'[disk[g].by] = "killed"
      BY <1>3, <1>7 DEF TornHasCause
  <2>1. g # f /\ disk'[g] = disk[g]
      BY <1>1, <1>3, <1>7
  <2>2. disk[g].by # p
    <3>1. disk[g].by = p => In(p, g) \/ Past(p, g)
        BY <1>1, <2>1 DEF TornByWriter
    <3>2. ~In(p, g)
        BY <2>1, DiskFacts
    <3>3. ~Past(p, g)
        BY <2>1 DEF Made
    <3> QED BY <3>1, <3>2, <3>3
  <2> QED BY <1>2, <1>4, <2>1, <2>2, DiskFacts DEF TornHasCause
<1>17. OthersAreScored'
  <2> SUFFICES ASSUME prog # "v2", NEW q \in Scorers, Refused(q)'
               PROVE  images # Rows \/ \E r \in Rows : Event(q, r) # "reply" \/ TooDeep(q, r)
      BY DEF OthersAreScored, Event, TooDeep
  <2>1. q # p
      BY <1>1 DEF Refused, Advance
  <2> QED BY <1>2, <2>1 DEF OthersAreScored, Refused
<1> QED BY <1>8, <1>9, <1>10, <1>11, <1>12, <1>13, <1>14, <1>15, <1>16, <1>17

LEMMA LeaveIInv ==
    ASSUME IInv, NEW p \in Scorers, NEW code \in {"1", "2", "killed"}, exit[p] = "none",
           Leave(p, code), open' = [open EXCEPT ![p] = FALSE],
           UNCHANGED <<prog, server, images, task>>,
           code # "killed" => \E f \in Files : In(p, f),
           \/ /\ disk' = disk
              /\ \/ ~open[p]
                 \/ code = "killed"
                 \/ prog \in {"v1", "mmstar"}
           \/ \E f \in Files : In(p, f) /\ open[p] /\ disk' = [disk EXCEPT ![f] = Absent]
    PROVE  IInv'
<1> USE DEF IInv
<1>1. /\ DOMAIN disk = Files /\ open \in [Scorers -> BOOLEAN]
      /\ exit \in [Scorers -> {"none", "0", "1", "2", "killed"}]
    BY DEF TypeOK
<1>2. phase' = phase /\ \A q \in Scorers : exit'[q] = IF q = p THEN code ELSE exit[q]
    BY <1>1 DEF Leave
<1>3. \A g \in Files : \/ disk'[g] = disk[g]
                       \/ disk'[g] = Absent /\ disk[g] = Torn(p) /\ In(p, g)
    BY <1>1, DiskFacts
<1>4. \A q \in Scorers : open'[q] <=> open[q] /\ q # p
    BY <1>1
<1>5. \A q : \A g : Past(q, g)' <=> Past(q, g)
    BY <1>2, PastSame
<1>6. \A q \in Scorers : q # p => \A g : In(q, g)' <=> In(q, g)
    BY <1>2 DEF In
<1>7. EndsAtZero' /\ exit' \in [Scorers -> {"none", "0", "1", "2", "killed"}]
    BY EndsLeave
<1>8. TypeOK'
    BY <1>1, <1>2, <1>3, <1>7, DiskFacts DEF TypeOK
<1>9. Recorded'
    BY DEF Recorded
<1>10. Reduced'
    BY <1>5 DEF Reduced
<1>11. Writing'
    BY <1>2, <1>3, <1>4, <1>6, DiskFacts DEF Writing
<1>12. Whole'
    BY <1>3, <1>5, DiskFacts DEF Whole
<1>13. TornByWriter'
    BY <1>2, <1>3, <1>5, <1>6, DiskFacts DEF TornByWriter
<1>14. Made'
    BY <1>3, <1>5, DiskFacts DEF Made
<1>15. TornHasCause'
  <2> SUFFICES ASSUME prog \notin {"v1", "mmstar"}, NEW g \in Files, disk'[g].state = "torn"
               PROVE  \/ open'[disk[g].by] /\ exit'[disk[g].by] = "none"
                      \/ exit'[disk[g].by] = "killed"
      BY <1>3, DiskFacts DEF TornHasCause
  <2>1. disk'[g] = disk[g] /\ disk[g].by \in Scorers
      BY <1>3, DiskFacts
  <2>2. CASE disk[g].by # p
      BY <1>2, <1>4, <2>1, <2>2 DEF TornHasCause
  <2>3. CASE disk[g].by = p /\ code # "killed"
    <3>1. open[p] /\ (In(p, g) \/ Past(p, g)) /\ ~Past(p, g)
        BY <2>1, <2>3 DEF TornHasCause, TornByWriter, Made
    <3>2. PICK f \in Files : In(p, f) /\ disk' = [disk EXCEPT ![f] = Absent]
        BY <2>3, <3>1
    <3>3. f = g
        BY <3>1, <3>2, DiskFacts
    <3> QED BY <1>1, <2>1, <3>2, <3>3, DiskFacts
  <2>4. CASE disk[g].by = p /\ code = "killed"
      BY <1>2, <2>4
  <2> QED BY <2>2, <2>3, <2>4
<1>16. OthersAreScored'
  <2> SUFFICES ASSUME prog # "v2", NEW q \in Scorers, Refused(q)'
               PROVE  images # Rows \/ \E r \in Rows : Event(q, r) # "reply" \/ TooDeep(q, r)
      BY DEF OthersAreScored, Event, TooDeep
  <2>1. CASE q # p
      BY <1>2, <2>1 DEF OthersAreScored, Refused
  <2>2. CASE q = p
    <3>1. code # "killed"
        BY <1>2, <2>2 DEF Refused
    <3>2. PICK f \in Files : Flow(prog)[phase[p]] = f
        BY <3>1 DEF In
    <3> QED BY <1>2, <2>2, <3>2 DEF Refused, Files
  <2> QED BY <2>1, <2>2
<1> QED BY <1>7, <1>8, <1>9, <1>10, <1>11, <1>12, <1>13, <1>14, <1>15, <1>16

LEMMA FileIInv ==
    ASSUME IInv, NEW p \in Scorers, NEW f \in Files,
           Create(p, f) \/ Exists(p, f) \/ Finish(p, f) \/ ShortWrite(p, f) \/ WriteFails(p, f)
    PROVE  IInv'
<1>1. open \in [Scorers -> BOOLEAN] /\ prog \in Programs
    BY DEF IInv, TypeOK
<1>2. prog \in {"v1", "v2", "v3", "v4", "v5", "mmstar", "audit"}
    BY <1>1, ScorerAssumption
<1>3. CASE Create(p, f)
    BY <1>3, CreateIInv
<1>4. CASE Exists(p, f)
  <2>1. PICK code \in {"1", "2"} : Leave(p, code)
      BY <1>4 DEF Exists
  <2>2. open' = [open EXCEPT ![p] = FALSE] /\ ~open[p] /\ In(p, f) /\ exit[p] = "none"
      BY <1>1, <1>4 DEF Exists, In
  <2> QED BY <1>4, <2>1, <2>2, LeaveIInv DEF Exists
<1>5. CASE Finish(p, f)
    BY <1>5, AdvanceFile DEF Finish
<1>6. CASE ShortWrite(p, f)
  <2>1. prog \in {"v1", "mmstar"}
      BY <1>2, <1>6 DEF ShortWrite, Writer, WriteV1, WriteV2, WriteMMStar, WriteAudit
  <2> QED BY <1>6, <2>1, AdvanceFile DEF ShortWrite
<1>7. CASE WriteFails(p, f)
  <2>1. /\ Writer(prog).code \in {"1", "2"}
        /\ ~Writer(prog).removes => prog \in {"v1", "mmstar"}
      BY <1>2 DEF Writer, WriteV1, WriteV2, WriteMMStar, WriteAudit
  <2>2. exit[p] = "none"
      BY <1>7 DEF WriteFails, In
  <2> QED BY <1>7, <2>1, <2>2, LeaveIInv DEF WriteFails
<1> QED BY <1>3, <1>4, <1>5, <1>6, <1>7

LEMMA EnvironmentIInv ==
    ASSUME IInv, (\E s \in {"named", "other", "down"} : Serve(s)) \/ (\E r \in Fragile : LoseImage(r))
    PROVE  IInv'
<1> USE DEF IInv
<1>1. UNCHANGED <<prog, phase, open, task, exit, disk>> /\ images' \subseteq images
      /\ server' \in {"named", "other", "down"}
    BY DEF Serve, LoseImage, TypeOK
<1>2. \A q : \A g : Past(q, g)' <=> Past(q, g)
    BY <1>1, PastSame
<1>3. TypeOK'
    BY <1>1 DEF TypeOK
<1>4. Recorded' /\ EndsAtZero' /\ TornHasCause'
    BY <1>1 DEF Recorded, EndsAtZero, TornHasCause
<1>5. Reduced' /\ Made' /\ Whole'
    BY <1>1, <1>2 DEF Reduced, Made, Whole
<1>6. Writing' /\ TornByWriter'
    BY <1>1, <1>2 DEF Writing, TornByWriter, In
<1>7. OthersAreScored'
  <2>1. images # Rows => images' # Rows
      BY <1>1 DEF TypeOK
  <2> QED BY <1>1, <2>1 DEF OthersAreScored, Refused, Event, TooDeep
<1> QED BY <1>3, <1>4, <1>5, <1>6, <1>7

LEMMA StepIInv ==
    ASSUME IInv, [Next]_vars
    PROVE  IInv'
<1>1. CASE UNCHANGED vars
    BY <1>1, PastSame DEF vars, IInv, TypeOK, Recorded, EndsAtZero, Reduced, Writing, Whole,
       TornByWriter, Made, TornHasCause, OthersAreScored, Refused, Event, TooDeep, In
<1>2. ASSUME NEW p \in Scorers, Step(p) PROVE IInv'
    BY <1>2, QuietIInv, ThreadIInv, FileIInv DEF Step
<1>3. ASSUME NEW p \in Scorers, Kill(p) PROVE IInv'
    BY <1>3, LeaveIInv DEF Kill
<1>4. CASE (\E s \in {"named", "other", "down"} : Serve(s)) \/ (\E r \in Fragile : LoseImage(r))
    BY <1>4, EnvironmentIInv
<1> QED BY <1>1, <1>2, <1>3, <1>4 DEF Next

LEMMA Invariance == Spec => []IInv
BY InitIInv, StepIInv, PTL DEF Spec
----------------------------------------------------------------------------
(* What follows from the invariant *)

(***************************************************************************)
(* The types of the scorer's state.                                        *)
(***************************************************************************)
THEOREM TypeCorrect == Spec => []TypeOK
<1>1. IInv => TypeOK
    BY DEF IInv
<1> QED BY <1>1, Invariance, PTL

(***************************************************************************)
(* Half a file has a writer at work or one that was killed.                *)
(***************************************************************************)
THEOREM NothingTornIsLeft == Spec => []TornHasCause
<1>1. IInv => TornHasCause
    BY DEF IInv
<1> QED BY <1>1, Invariance, PTL

(***************************************************************************)
(* No reply of a model keeps an aggregator other than v2 from its receipt, *)
(* but brackets too deep for json.loads v5 and the audit.                  *)
(***************************************************************************)
THEOREM RepliesAreScored == Spec => []OthersAreScored
<1>1. IInv => OthersAreScored
    BY DEF IInv
<1> QED BY <1>1, Invariance, PTL

(***************************************************************************)
(* Exit 0 means a whole receipt.                                           *)
(***************************************************************************)
THEOREM ZeroIsPublished == Spec => []ExitZeroMeansPublished
<1>1. ASSUME IInv, NEW p \in Scorers, exit[p] = "0", prog \notin {"v1", "mmstar"}
      PROVE  Published(p)
  <2>1. prog \in Programs /\ phase[p] = Len(Flow(prog)) + 1
      BY <1>1 DEF IInv, TypeOK, EndsAtZero
  <2>2. /\ Len(Flow(prog)) \in {4, 5, 6} /\ DOMAIN Flow(prog) = 1..Len(Flow(prog))
        /\ Flow(prog)[Len(Flow(prog))] = "receipt"
      BY <2>1, FlowShape
  <2>3. Past(p, "receipt")
      BY <2>1, <2>2 DEF Past
  <2> QED BY <1>1, <2>3 DEF IInv, Made, Published, Files
<1>2. IInv => ExitZeroMeansPublished
    BY <1>1 DEF ExitZeroMeansPublished
<1> QED BY <1>2, Invariance, PTL

(***************************************************************************)
(* A whole file stays as it is, and half a file is its creator's.          *)
(***************************************************************************)
THEOREM FilesAreCreatedOnce == Spec => CreateOnce
<1> DEFINE A == \A f \in Files :
                   /\ disk[f].state = "whole" => disk'[f] = disk[f]
                   /\ disk[f].state = "torn" =>
                         \/ disk'[f] = disk[f]
                         \/ disk'[f] = Absent
                         \/ disk'[f].state = "whole" /\ disk'[f].by = disk[f].by
<1>1. ASSUME IInv, [Next]_vars PROVE [A]_vars
  <2>1. CASE UNCHANGED disk
      BY <2>1
  <2>2. DOMAIN disk = Files /\ prog \in Programs
      BY <1>1 DEF IInv, TypeOK
  <2>3. ASSUME NEW p \in Scorers, NEW f \in Files, Create(p, f) PROVE A
      BY <1>1, <2>2, <2>3, DiskFacts DEF Create
  <2>4. ASSUME NEW p \in Scorers, NEW f \in Files, Finish(p, f) PROVE A
      BY <1>1, <2>2, <2>4, DiskFacts, ContentShape DEF Finish
  <2>5. ASSUME NEW p \in Scorers, NEW f \in Files, WriteFails(p, f) PROVE A
    <3>1. disk[f] = Torn(p)
        BY <1>1, <2>5, DiskFacts DEF WriteFails
    <3>2. CASE Writer(prog).removes
        BY <1>1, <2>2, <2>5, <3>1, <3>2, DiskFacts DEF WriteFails
    <3>3. CASE ~Writer(prog).removes
        BY <2>5, <3>3 DEF WriteFails
    <3> QED BY <3>2, <3>3
  <2> QED BY <1>1, <2>1, <2>3, <2>4, <2>5 DEF Next, Step, vars, Validate, Preflight,
            ReadDataset, Ask, Answered, Reduce, Exists, ShortWrite, Kill, Serve, LoseImage
<1> QED BY <1>1, Invariance, PTL DEF Spec, CreateOnce

\* What a published receipt was made of.
LEMMA PublishedFacts ==
    ASSUME IInv, NEW p \in Scorers, Published(p)
    PROVE  /\ prog \in Programs
           /\ Receipt = Content(prog, "receipt", p, task[p])
           /\ Scored(prog, task[p])
           /\ \A r \in Rows : /\ task[p][r].event \in Events
                              /\ task[p][r].got = Outcome(prog, r, task[p][r].event)
                              /\ task[p][r].got \in Got \ {Abort, Crash}
<1>1. Past(p, "receipt") /\ Receipt = Content(prog, "receipt", p, task[p])
    BY DEF IInv, Whole, Published, Receipt, Files
<1>2. Scored(prog, task[p])
    BY <1>1, PastInfer DEF IInv, Reduced, Files
<1>3. \A r \in Rows : task[p][r].state = "done" /\ task[p][r] \in TaskType
    BY <1>2 DEF Scored, IInv, TypeOK
<1>4. \A r \in Rows : task[p][r].event \in Events /\ task[p][r].got \in Got
    BY <1>3 DEF TaskType, Waiting, Asked
<1> QED BY <1>1, <1>2, <1>3, <1>4 DEF IInv, TypeOK, Recorded, Scored

LEMMA CountsOf ==
    ASSUME NEW x \in Programs, NEW p, NEW t
    PROVE  Content(x, "receipt", p, t).counts =
              Counts(t, IF x = "v1" THEN {None, Lower}
                        ELSE IF x = "audit" THEN {None, Failed} ELSE {None})
<1>1. x \in {"v1", "v2", "v3", "v4", "v5", "mmstar", "audit"}
    BY ScorerAssumption
<1>2. CASE x \in {"v1", "v2", "v3", "v4", "v5", "mmstar"}
    BY <1>2 DEF Content, ReceiptV1, ReceiptV2, ReceiptV3, ReceiptV4, ReceiptV5,
                ReceiptMMStar, Sealed, CountsV1, CountsV2, CountsMMStar
<1>3. CASE x = "audit"
    BY <1>3 DEF Content, ReceiptAudit
<1> QED BY <1>1, <1>2, <1>3

(***************************************************************************)
(* No error of the scorer's own is counted as a failed call.               *)
(***************************************************************************)
THEOREM FailuresAreProviders == Spec => []OnlyProviderFailures
<1>1. ASSUME IInv, NEW p \in Scorers, Published(p), prog \notin {"v1", "audit"}
      PROVE  LET failed == {r \in Rows : Event(p, r) = "provider"} IN
             /\ Ended(p)
             /\ \A r \in Rows : Event(p, r) # "local"
             /\ Receipt.counts.failed = Cardinality(failed)
             /\ prog = "mmstar" => failed = {}
  <2>1. \A r \in Rows : /\ Event(p, r) # "local"
                        /\ task[p][r].got = Failed <=> Event(p, r) = "provider"
      BY <1>1, PublishedFacts, OutcomeKind DEF Event
  <2>2. {r \in Rows : task[p][r].got \in {Failed}} = {r \in Rows : Event(p, r) = "provider"}
      BY <2>1
  <2>3. Receipt.counts.failed = Cardinality({r \in Rows : Event(p, r) = "provider"})
    <3>1. PICK S : Receipt.counts = Counts(task[p], S)
        BY <1>1, PublishedFacts, CountsOf
    <3>2. Receipt.counts.failed = With(task[p], {Failed})
        BY <3>1 DEF Counts
    <3> QED BY <2>2, <3>2 DEF With
  <2>4. Ended(p) /\ (prog = "mmstar" => {r \in Rows : Event(p, r) = "provider"} = {})
      BY <1>1, <2>1, PublishedFacts DEF Ended, Scored, ReducibleMMStar
  <2> QED BY <2>1, <2>3, <2>4
<1>2. IInv => OnlyProviderFailures
    BY <1>1 DEF OnlyProviderFailures
<1> QED BY <1>2, Invariance, PTL

----------------------------------------------------------------------------
(* The counts *)

LEMMA TwoParts ==
    ASSUME NEW A, NEW B, IsFiniteSet(A), IsFiniteSet(B), A \cap B = {}
    PROVE  /\ IsFiniteSet(A \cup B)
           /\ Cardinality(A \cup B) = Cardinality(A) + Cardinality(B)
<1>1. Cardinality(A) \in Nat /\ Cardinality(B) \in Nat
    BY FS_CardinalityType
<1>2. /\ IsFiniteSet(A \cup B)
      /\ Cardinality(A \cup B) = Cardinality(A) + Cardinality(B) - Cardinality(A \cap B)
    BY FS_Union
<1>3. Cardinality(A \cap B) = 0
    BY FS_EmptySet
<1> QED BY <1>1, <1>2, <1>3

\* The rows of a task are finite sets.
LEMMA RowSets ==
    /\ Cardinality(Rows) \in Nat
    /\ \A A \in SUBSET Rows : IsFiniteSet(A) /\ Cardinality(A) \in Nat
    /\ \A A, B \in SUBSET Rows : A \subseteq B => Cardinality(A) <= Cardinality(B)
<1>1. \A A \in SUBSET Rows : IsFiniteSet(A)
    BY ScorerAssumption, FS_Subset
<1> QED BY <1>1, ScorerAssumption, FS_CardinalityType, FS_Subset

\* The outcomes of a published receipt that are neither a letter nor a failure.
LEMMA PublishedGot ==
    ASSUME IInv, NEW p \in Scorers, Published(p), NEW r \in Rows
    PROVE  /\ task[p][r].got \in Choices \cup {None, Failed}
                             \cup (IF prog = "v1" THEN {Lower} ELSE {})
           /\ GoldOf[r] \in Choices
<1>1. /\ prog \in Programs /\ Scored(prog, task[p]) /\ task[p][r].event \in Events
      /\ task[p][r].got = Outcome(prog, r, task[p][r].event)
      /\ task[p][r].got \in Got \ {Abort, Crash}
    BY PublishedFacts
<1>2. prog \in {"v1", "v2"} \/ task[p][r].got \in Choices \cup {None, Failed, Abort, Crash}
    BY <1>1, OutcomeKind
<1>3. prog = "v2" => task[p][r].got \in Choices \cup {None, Failed}
    BY <1>1 DEF Scored, ReducibleV2
<1> QED BY <1>1, <1>2, <1>3, ScorerAssumption DEF Got

LEMMA Apart ==
    /\ None \notin Choices /\ Lower \notin Choices \cup {None, Failed}
    /\ Failed \notin Choices \cup {None}
BY NoneAssumption, ScorerAssumption DEF Lower, Failed

\* The rescued rows have no letter of v5's, and their letter is an option.
LEMMA Rescued ==
    ASSUME NEW r \in Rows, NEW d, d.event \in Events, "audit" \in Programs,
           d.got = Outcome("audit", r, d.event), Rescue(r, d) # None
    PROVE  d.got = None /\ Rescue(r, d) \in OptionsOf[r]
<1>1. PICK a \in Answer : d.event = Reply(a)
  <2>1. d.event.kind = "reply"
      BY DEF Rescue
  <2> QED BY <2>1, EventKinds DEF Fault
<1>2. d.event.answer = a
    BY <1>1 DEF Reply
<1>3. OptionsOf[r] \in SUBSET Choices /\ d.got = None /\ d.event.kind = "reply"
    BY ScorerAssumption DEF Rescue
<1>4. Supplement(a, OptionsOf[r]) # Raised
  <2>1. SUFFICES ASSUME Supplement(a, OptionsOf[r]) = Raised PROVE d.got \in {Crash, Failed}
      BY <1>3, ScorerAssumption DEF Crash, Failed
  <2> QED BY <1>2, <1>3, <2>1 DEF Outcome, OutcomeAudit, Parsed
<1> QED BY <1>2, <1>3, <1>4, SupplementType DEF Rescue

(***************************************************************************)
(* The counts of a receipt cover every row once.                           *)
(***************************************************************************)
THEOREM CountsCoverRows == Spec => []CountsAreExact
<1>1. ASSUME IInv, NEW p \in Scorers, Published(p)
      PROVE  LET c == Receipt.counts IN
             /\ c.parsed + c.invalid + (IF prog = "audit" THEN 0 ELSE c.failed) = c.total
             /\ c.correct <= c.parsed /\ c.total = Cardinality(Rows)
             /\ prog = "audit" => /\ c.correct <= Receipt.newCorrect
                                  /\ Receipt.newCorrect <= c.correct + Receipt.rescued
                                  /\ Receipt.rescued + c.failed <= c.invalid
  <2> DEFINE t == task[p]
             Inv == IF prog = "v1" THEN {None, Lower}
                    ELSE IF prog = "audit" THEN {None, Failed} ELSE {None}
             P == {r \in Rows : t[r].got \in Choices}
             I == {r \in Rows : t[r].got \in Inv}
             F == {r \in Rows : t[r].got \in {Failed}}
             C == {r \in Rows : t[r].got = GoldOf[r]}
  <2>1. Receipt.counts = Counts(t, Inv)
    <3>1. prog \in Programs /\ Receipt = Content(prog, "receipt", p, t)
        BY <1>1, PublishedFacts
    <3>2. Content(prog, "receipt", p, t).counts = Counts(t, Inv)
        BY <3>1, CountsOf
    <3> QED BY <3>1, <3>2
  <2>2. /\ Receipt.counts.parsed = Cardinality(P)
        /\ Receipt.counts.invalid = Cardinality(I)
        /\ Receipt.counts.failed = Cardinality(F)
        /\ Receipt.counts.correct = Cardinality(C)
        /\ Receipt.counts.total = Cardinality(Rows)
    <3> HIDE DEF Inv
    <3>1. /\ Receipt.counts.parsed = With(t, Choices)
          /\ Receipt.counts.invalid = With(t, Inv)
          /\ Receipt.counts.failed = With(t, {Failed})
          /\ Receipt.counts.correct = Correct(t)
          /\ Receipt.counts.total = Cardinality(Rows)
        BY <2>1 DEF Counts
    <3> QED BY <3>1 DEF With, Correct
  <2>3. /\ P \in SUBSET Rows /\ I \in SUBSET Rows /\ F \in SUBSET Rows /\ C \in SUBSET Rows
        /\ P \cap I = {} /\ C \subseteq P
        /\ prog # "audit" => (P \cup I) \cup F = Rows /\ (P \cup I) \cap F = {}
        /\ prog = "audit" => P \cup I = Rows
      BY <1>1, PublishedGot, Apart
  <2> HIDE DEF P, I, F, C, Inv
  <2>4. /\ IsFiniteSet(P) /\ IsFiniteSet(I) /\ IsFiniteSet(F)
        /\ Cardinality(P) \in Nat /\ Cardinality(I) \in Nat /\ Cardinality(F) \in Nat
        /\ Cardinality(C) \in Nat /\ Cardinality(C) <= Cardinality(P)
      BY <2>3, RowSets
  <2>5. IsFiniteSet(P \cup I) /\ Cardinality(P \cup I) = Cardinality(P) + Cardinality(I)
      BY <2>3, <2>4, TwoParts
  <2>6. prog # "audit" =>
           Cardinality((P \cup I) \cup F) = Cardinality(P \cup I) + Cardinality(F)
      BY <2>3, <2>4, <2>5, TwoParts
  <2>7. Receipt.counts.parsed + Receipt.counts.invalid
            + (IF prog = "audit" THEN 0 ELSE Receipt.counts.failed) = Receipt.counts.total
    <3> DEFINE k == Receipt.counts
    <3>1. CASE prog = "audit"
      <4>1. k.parsed + k.invalid = k.total
          BY <2>2, <2>3, <2>5, <3>1
      <4>2. k.parsed \in Nat /\ k.invalid \in Nat
          BY <2>2, <2>4
      <4> QED BY <3>1, <4>1, <4>2
    <3>2. CASE prog # "audit"
      <4>1. k.total = Cardinality(P \cup I) + Cardinality(F)
          BY <2>2, <2>3, <2>6, <3>2
      <4> QED BY <2>2, <2>4, <2>5, <3>2, <4>1
    <3> QED BY <3>1, <3>2
  <2>8. ASSUME prog = "audit"
        PROVE  /\ Receipt.counts.correct <= Receipt.newCorrect
               /\ Receipt.newCorrect <= Receipt.counts.correct + Receipt.rescued
               /\ Receipt.rescued + Receipt.counts.failed <= Receipt.counts.invalid
    <3> DEFINE R == {r \in Rows : Rescue(r, t[r]) # None}
               G == {r \in R : Rescue(r, t[r]) = GoldOf[r]}
    <3>1. Receipt = ReceiptAudit(p, t)
        BY <1>1, <2>8, PublishedFacts DEF Content
    <3>2. Receipt.rescued = Cardinality(R) /\ Receipt.newCorrect = Cardinality(C) + Cardinality(G)
        BY <3>1 DEF ReceiptAudit, Correct, C
    <3>3. G \subseteq R /\ G \in SUBSET Rows /\ R \in SUBSET Rows
        OBVIOUS
    <3>4. \A r \in R : t[r].got = None
        BY <1>1, <2>8, PublishedFacts, Rescued
    <3>5. R \cap F = {} /\ R \cup F \subseteq I /\ R \cup F \in SUBSET Rows
        BY <2>8, <3>4, Apart DEF F, I, Inv
    <3> HIDE DEF R, G
    <3>6. /\ IsFiniteSet(R) /\ Cardinality(R) \in Nat /\ Cardinality(G) \in Nat
          /\ Cardinality(G) <= Cardinality(R) /\ Cardinality(R \cup F) <= Cardinality(I)
        BY <2>3, <3>3, <3>5, RowSets
    <3>7. Cardinality(R \cup F) = Cardinality(R) + Cardinality(F)
        BY <2>4, <3>5, <3>6, TwoParts
    <3> QED BY <2>2, <2>4, <3>2, <3>6, <3>7
  <2> QED BY <2>2, <2>4, <2>7, <2>8
<1>2. IInv => CountsAreExact
    BY <1>1 DEF CountsAreExact
<1> QED BY <1>2, Invariance, PTL

\* What a category says of the row it is written for.
LEMMA CategoryKind ==
    ASSUME NEW r \in Rows, NEW d, d.event \in Events, "audit" \in Programs,
           d.got = Outcome("audit", r, d.event), d.got # Crash
    PROVE  /\ Category(r, d) = "provider_error" <=> d.got = Failed
           /\ Category(r, d) = "v5_parsed" <=> d.got \in Choices
<1>1. CASE d.event.kind = "reply"
  <2>1. PICK a \in Answer : d.event = Reply(a)
      BY <1>1, EventKinds DEF Fault
  <2>2. d.event.answer = a /\ OptionsOf[r] \in SUBSET Choices
      BY <2>1, ScorerAssumption DEF Reply
  <2>3. d.got = Failed \/ d.got = UnionParse(a, OptionsOf[r])
      BY <1>1, <2>2 DEF Outcome, OutcomeAudit, Parsed
  <2>4. d.got \in Choices \cup {None, Failed}
    <3>1. UnionParse(a, OptionsOf[r]) \in Choices \cup {None, Raised}
        BY <2>2, UnionType
    <3>2. d.got # Raised
        BY <1>1, <2>2, Apart DEF Outcome, OutcomeAudit, Parsed, Raised, Failed, Crash
    <3> QED BY <2>3, <3>1, <3>2
  <2>5. /\ Category(r, d) = Classify(a, OptionsOf[r], d.got = Failed)
        /\ a.text \in {"absent", "blank", "words"}
      BY <1>1, <2>2 DEF Category, Answer
  <2>6. d.got # Failed => (Category(r, d) = "v5_parsed" <=> d.got # None)
      BY <2>3, <2>5 DEF Classify
  <2>7. Category(r, d) = "provider_error" <=> d.got = Failed
      BY <2>5 DEF Classify
  <2> QED BY <2>4, <2>5, <2>6, <2>7, Apart DEF Classify
<1>2. CASE d.event.kind = "malformed"
    BY <1>2, Apart DEF Category, Outcome, OutcomeAudit
<1>3. CASE d.event.kind \in {"provider", "local"}
    BY <1>3, Apart DEF Category, Outcome, OutcomeAudit
<1>4. d.event.kind \in {"reply", "malformed", "provider", "local"}
    BY OutcomeKind
<1> QED BY <1>1, <1>2, <1>3, <1>4

(***************************************************************************)
(* The audit's receipt and its sidecar are of one run and say the same.    *)
(***************************************************************************)
THEOREM SidecarTellsReceipt == Spec => []SidecarMatchesReceipt
<1>1. ASSUME IInv, NEW p \in Scorers, Published(p), prog = "audit"
      PROVE  LET s == disk["sidecar"]
                 N(S) == Cardinality(S) IN
             /\ s.state = "whole" /\ s.by = p
             /\ N({r \in Rows : s.lines[r].letter = GoldOf[r]}) = Receipt.counts.correct
             /\ N({r \in Rows : s.lines[r].supplement # None}) = Receipt.rescued
             /\ N({r \in Rows : s.lines[r].category = "provider_error"})
                   = Receipt.counts.failed
             /\ N({r \in Rows : GoldOf[r] \in {s.lines[r].letter, s.lines[r].supplement}})
                   = Receipt.newCorrect
             /\ \A r \in Rows :
                   /\ s.lines[r].supplement # None =>
                         s.lines[r].letter = None /\ s.lines[r].supplement \in OptionsOf[r]
                   /\ s.lines[r].category = "v5_parsed" <=> s.lines[r].letter \in Choices
  <2> DEFINE t == task[p]
             C == {r \in Rows : t[r].got = GoldOf[r]}
             R == {r \in Rows : Rescue(r, t[r]) # None}
             G == {r \in R : Rescue(r, t[r]) = GoldOf[r]}
  <2>1. /\ Receipt = ReceiptAudit(p, t) /\ prog \in Programs
        /\ \A r \in Rows : /\ t[r].event \in Events /\ t[r].got # Crash
                           /\ t[r].got = Outcome("audit", r, t[r].event)
      BY <1>1, PublishedFacts DEF Content
  <2>2. Past(p, "receipt")
      BY <1>1 DEF IInv, Whole, Published, Files
  <2>3. Past(p, "sidecar")
    <3>1. Flow(prog) = <<"validate", "dataset", "preflight", "infer", "sidecar", "receipt">>
        BY <1>1 DEF Flow, FlowAudit
    <3>2. phase[p] \in Nat
        BY <1>1, <2>1, FlowShape DEF IInv, TypeOK
    <3>3. 6 < phase[p]
        BY <2>2, <3>1, <3>2 DEF Past
    <3>4. Flow(prog)[5] = "sidecar" /\ 5 \in DOMAIN Flow(prog) /\ 5 < phase[p]
        BY <3>1, <3>2, <3>3
    <3> QED BY <3>4 DEF Past
  <2>4. disk["sidecar"].state = "whole" /\ disk["sidecar"].by = p
      BY <1>1, <2>3 DEF IInv, Made, Files
  <2>5. disk["sidecar"] = Sidecar(p, t)
      BY <1>1, <2>4 DEF IInv, Whole, Files, Content
  <2>6. \A r \in Rows : /\ disk["sidecar"].lines[r].letter = t[r].got
                         /\ disk["sidecar"].lines[r].category = Category(r, t[r])
                         /\ disk["sidecar"].lines[r].supplement = Rescue(r, t[r])
      BY <2>5 DEF Sidecar
  <2>7. ASSUME NEW r \in Rows
        PROVE  /\ Category(r, t[r]) = "provider_error" <=> t[r].got = Failed
               /\ Category(r, t[r]) = "v5_parsed" <=> t[r].got \in Choices
               /\ Rescue(r, t[r]) # None =>
                     t[r].got = None /\ Rescue(r, t[r]) \in OptionsOf[r]
               /\ GoldOf[r] \in Choices
    <3>1. /\ t[r].event \in Events /\ t[r].got = Outcome("audit", r, t[r].event)
          /\ "audit" \in Programs /\ GoldOf[r] \in Choices /\ t[r].got # Crash
        BY <1>1, <2>1, ScorerAssumption
    <3>2. /\ Category(r, t[r]) = "provider_error" <=> t[r].got = Failed
          /\ Category(r, t[r]) = "v5_parsed" <=> t[r].got \in Choices
        BY <3>1, CategoryKind
    <3>3. Rescue(r, t[r]) # None => t[r].got = None /\ Rescue(r, t[r]) \in OptionsOf[r]
        BY <3>1, Rescued
    <3> QED BY <3>1, <3>2, <3>3
  <2>8. /\ Receipt.counts.correct = Cardinality(C)
        /\ Receipt.counts.failed = Cardinality({r \in Rows : t[r].got \in {Failed}})
        /\ Receipt.rescued = Cardinality(R)
        /\ Receipt.newCorrect = Cardinality(C) + Cardinality(G)
    <3>1. Receipt.counts = Counts(t, {None, Failed})
        BY <2>1 DEF ReceiptAudit
    <3>2. Receipt.counts.correct = Correct(t) /\ Receipt.counts.failed = With(t, {Failed})
        BY <3>1 DEF Counts
    <3>3. Receipt.rescued = Cardinality(R) /\ Receipt.newCorrect = Correct(t) + Cardinality(G)
        BY <2>1 DEF ReceiptAudit
    <3> QED BY <3>2, <3>3 DEF Correct, With
  <2> DEFINE line == disk["sidecar"].lines
  <2>9. /\ {r \in Rows : line[r].letter = GoldOf[r]} = C
        /\ {r \in Rows : line[r].supplement # None} = R
      BY <2>6
  <2>10. \A r \in Rows : line[r].category = "provider_error" <=> t[r].got \in {Failed}
      BY <2>6, <2>7
  <2>11. {r \in Rows : line[r].category = "provider_error"}
            = {r \in Rows : t[r].got \in {Failed}}
      BY <2>10
  <2>12. {r \in Rows : GoldOf[r] \in {line[r].letter, line[r].supplement}} = C \cup G
    <3>1. ASSUME NEW r \in Rows
          PROVE  GoldOf[r] \in {line[r].letter, line[r].supplement} <=> r \in C \cup G
      <4>1. GoldOf[r] # None
          BY <2>7, Apart
      <4> QED BY <2>6, <4>1
    <3>2. C \cup G \subseteq Rows
        OBVIOUS
    <3> HIDE DEF C, G
    <3> QED BY <3>1, <3>2
  <2>13. C \cap G = {} /\ C \in SUBSET Rows /\ G \in SUBSET Rows
    <3>1. \A r \in G : t[r].got = None /\ GoldOf[r] # None /\ r \in Rows
        BY <2>7, Apart
    <3> QED BY <3>1
  <2>14. Cardinality(C \cup G) = Cardinality(C) + Cardinality(G)
    <3> HIDE DEF C, G
    <3> QED BY <2>13, RowSets, TwoParts
  <2> HIDE DEF C, G, R
  <2>15. \A r \in Rows :
           /\ line[r].supplement # None =>
                 line[r].letter = None /\ line[r].supplement \in OptionsOf[r]
           /\ line[r].category = "v5_parsed" <=> line[r].letter \in Choices
    <3>1. ASSUME NEW r \in Rows
          PROVE  /\ line[r].supplement # None =>
                       line[r].letter = None /\ line[r].supplement \in OptionsOf[r]
                 /\ line[r].category = "v5_parsed" <=> line[r].letter \in Choices
        BY <2>6, <2>7
    <3> QED BY <3>1
  <2> QED BY <2>4, <2>8, <2>9, <2>11, <2>12, <2>14, <2>15
<1>2. IInv => SidecarMatchesReceipt
    BY <1>1 DEF SidecarMatchesReceipt
<1> QED BY <1>2, Invariance, PTL
=============================================================================
