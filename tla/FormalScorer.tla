---------------------------- MODULE FormalScorer ----------------------------
(***************************************************************************)
(* The multiple-choice aggregators: one process asks a served model every  *)
(* row of a data set through a pool of threads, reduces the outcomes to    *)
(* counts and creates one receipt.  Which aggregator runs is chosen at the *)
(* start: v1 and v2 (MMStar and BLINK), v3 and v4 (BLINK), v5 (the         *)
(* checkpoint comparison), mmstar (the model card's MMStar) and audit (the *)
(* BLINK format audit, which writes its private sidecar first).  Several   *)
(* processes may aim at the same output; the server may vanish or be       *)
(* replaced, an image may disappear, a write may fail and a process may be *)
(* killed between any two steps.                                           *)
(***************************************************************************)
EXTENDS ChoiceParsers, Naturals, Sequences

CONSTANTS Programs,   \* the aggregators to consider
          Scorers,    \* processes given the same output path
          Rows,       \* rows of the pinned data set
          Workers,    \* threads of the pool
          RepliesOf,  \* what the model may answer to a row
          OptionsOf,  \* the labels of a row
          GoldOf,     \* its gold letter
          Fragile     \* the rows whose image may become unreadable

ASSUME ScorerAssumption ==
    /\ IsFiniteSet(Rows) /\ Workers \in Nat \ {0}
    /\ Programs \subseteq {"v1", "v2", "v3", "v4", "v5", "mmstar", "audit"}
    /\ RepliesOf \in [Rows -> SUBSET Answer]
    /\ OptionsOf \in [Rows -> SUBSET Choices] /\ GoldOf \in [Rows -> Choices]
    /\ \A r \in Rows : OptionsOK(OptionsOf[r]) /\ GoldOf[r] \in OptionsOf[r]
    /\ {"failed", "abort", "crash"} \cap (Choices \cup {None}) = {}

VARIABLES prog,    \* the aggregator that runs
          server,  \* what answers at the API base: the named model, another, nothing
          images,  \* rows whose image can be read
          phase,   \* phase[p]: the place in the flow where p is, one more at its end
          open,    \* open[p]: p has created its current file and is writing it
          task,    \* task[p][r]: the future of row r
          exit,    \* exit[p]: how p ended
          disk     \* the receipt and the sidecar

vars == <<prog, server, images, phase, open, task, exit, disk>>
----------------------------------------------------------------------------
Files == {"receipt", "sidecar"}
Absent == [state |-> "absent"]
Torn(p) == [state |-> "torn", by |-> p]

(***************************************************************************)
(* The order of the phases in each main.                                   *)
(***************************************************************************)
FlowV1 == <<"validate", "dataset", "infer", "receipt">>
FlowV2 == <<"validate", "preflight", "dataset", "infer", "receipt">>
FlowV3 == <<"validate", "preflight", "dataset", "infer", "receipt">>
FlowV4 == <<"validate", "preflight", "dataset", "infer", "receipt">>
FlowV5 == <<"validate", "preflight", "dataset", "infer", "receipt">>
FlowMMStar == <<"validate", "dataset", "preflight", "infer", "receipt">>
\* Seeded fault: the sealed aggregate before the sidecar.
FlowAuditSealed == <<"validate", "dataset", "preflight", "infer", "receipt", "sidecar">>

FlowAudit == <<"validate", "dataset", "preflight", "infer", "sidecar", "receipt">>

Flow(x) == CASE x = "v1" -> FlowV1 [] x = "v2" -> FlowV2 [] x = "v3" -> FlowV3
             [] x = "v4" -> FlowV4 [] x = "v5" -> FlowV5
             [] x = "mmstar" -> FlowMMStar [] x = "audit" -> FlowAudit

(***************************************************************************)
(* What one row's thread makes of what it meets: a reply of the model, a   *)
(* malformed response, a failure of the provider, an error of its own (an  *)
(* image it cannot read).  Failed is an outcome that counts as a provider  *)
(* failure, Abort an exception main ends the evaluation with (exit 2), and *)
(* Crash one nobody catches (exit 1).                                      *)
(***************************************************************************)
Failed == "failed"
Abort == "abort"
Crash == "crash"
Reply(a) == [kind |-> "reply", answer |-> a]
Fault(k) == [kind |-> k]
Events == {Fault(k) : k \in {"malformed", "provider", "local"}}
          \cup UNION {{Reply(a) : a \in RepliesOf[r]} : r \in Rows}

\* What the parser returned, or what the pool makes of its exception.
Parsed(p, raised) == IF p = Raised THEN raised ELSE p

\* v1: every exception, the parser's too, is a provider failure; a malformed
\* response is no text.
OutcomeV1(r, e) ==
    CASE e.kind \in {"provider", "local"} -> Failed
      [] e.kind = "malformed" -> None
      [] e.kind = "reply" -> Parsed(ParseV1(e.answer), Failed)

\* Seeded fault: a local error is scored.
OutcomeV2Scored(r, e) ==
    IF e.kind = "reply" THEN Parsed(ParseV1(e.answer), Abort) ELSE Failed

\* v2: only an exception of the SDK is a provider failure.
OutcomeV2(r, e) ==
    CASE e.kind = "provider" -> Failed
      [] e.kind \in {"malformed", "local"} -> Abort
      [] e.kind = "reply" -> Parsed(ParseV1(e.answer), Abort)

OutcomeV3(r, e) ==
    CASE e.kind = "provider" -> Failed
      [] e.kind \in {"malformed", "local"} -> Abort
      [] e.kind = "reply" -> CanInferV3(e.answer, OptionsOf[r])

OutcomeV4(r, e) ==
    CASE e.kind = "provider" -> Failed
      [] e.kind \in {"malformed", "local"} -> Abort
      [] e.kind = "reply" -> CanInferV4(e.answer, OptionsOf[r])

\* v5: what its parser raises passes the pool and main.
OutcomeV5(r, e) ==
    CASE e.kind = "provider" -> Failed
      [] e.kind \in {"malformed", "local"} -> Abort
      [] e.kind = "reply" -> Parsed(UnionParse(e.answer, OptionsOf[r]), Crash)

\* mmstar: a response without a message is a missing answer.
OutcomeMMStar(r, e) ==
    CASE e.kind = "provider" -> Failed
      [] e.kind = "local" -> Abort
      [] e.kind = "malformed" -> None
      [] e.kind = "reply" -> ParseMMStar(e.answer)

\* audit: no exception of the request or of v5's parser leaves the thread.  The
\* supplement is parsed outside the try, also where v5 has found a letter.
OutcomeAudit(r, e) ==
    CASE e.kind \in {"provider", "local"} -> Failed
      [] e.kind = "malformed" -> None
      [] e.kind = "reply" ->
            LET v5 == UnionParse(e.answer, OptionsOf[r]) IN
            IF v5 # Raised /\ Supplement(e.answer, OptionsOf[r]) = Raised THEN Crash
            ELSE Parsed(v5, Failed)

Outcome(x, r, e) ==
    CASE x = "v1" -> OutcomeV1(r, e) [] x = "v2" -> OutcomeV2(r, e)
      [] x = "v3" -> OutcomeV3(r, e) [] x = "v4" -> OutcomeV4(r, e)
      [] x = "v5" -> OutcomeV5(r, e) [] x = "mmstar" -> OutcomeMMStar(r, e)
      [] x = "audit" -> OutcomeAudit(r, e)

(***************************************************************************)
(* Reduction of the outcomes and the receipt.                              *)
(***************************************************************************)
Waiting == [state |-> "queued"]
Asked == [state |-> "asked"]
Done(x, r, e) == [state |-> "done", event |-> e, got |-> Outcome(x, r, e)]

With(t, S) == Cardinality({r \in Rows : t[r].got \in S})
Correct(t) == Cardinality({r \in Rows : t[r].got = GoldOf[r]})
Counts(t, invalid) ==
    [total |-> Cardinality(Rows), correct |-> Correct(t), failed |-> With(t, {Failed}),
     invalid |-> With(t, invalid), parsed |-> With(t, Choices)]

\* Seeded fault: only a missing prediction is invalid.
CountsV1Missing(t) == Counts(t, {None})

\* aggregate_outcomes of v1: whatever is no choice is an invalid format.
CountsV1(t) == Counts(t, {None, Lower})

\* aggregate_outcomes of v2, which v3, v4 and v5 use: a prediction that is
\* neither None nor a choice is an error.
ReducibleV2(t) == \A r \in Rows : t[r].got \in Choices \cup {None, Failed}
CountsV2(t) == Counts(t, {None})

\* main of mmstar reduces nothing after a provider failure.
ReducibleMMStar(t) == \A r \in Rows : t[r].got # Failed
CountsMMStar(t) == Counts(t, {None})

\* The receipts: whose they are, the model they name, the counts.
Sealed(x, p, named, counts) ==
    [state |-> "whole", schema |-> x, by |-> p, preflight |-> named, counts |-> counts]

ReceiptV1(p, t) == Sealed("v1", p, FALSE, CountsV1(t))
ReceiptV2(p, t) == Sealed("v2", p, TRUE, CountsV2(t))
ReceiptV3(p, t) == Sealed("v3", p, TRUE, CountsV2(t))
ReceiptV4(p, t) == Sealed("v4", p, TRUE, CountsV2(t))
ReceiptV5(p, t) == Sealed("v5", p, TRUE, CountsV2(t))
ReceiptMMStar(p, t) == Sealed("mmstar", p, TRUE, CountsMMStar(t))

\* _infer_audit: the supplement of a row v5 left without a letter.
Rescue(r, d) ==
    IF d.got = None /\ d.event.kind = "reply"
    THEN Supplement(d.event.answer, OptionsOf[r]) ELSE None

\* Its category: the pool sees a malformed response before classify_v5.
Category(r, d) ==
    CASE d.event.kind = "malformed" -> "malformed_response"
      [] d.event.kind \in {"provider", "local"} -> "provider_error"
      [] d.event.kind = "reply" -> Classify(d.event.answer, OptionsOf[r], d.got = Failed)

\* aggregate_audit: the counts of v5 and those with the rescued rows.
ReceiptAudit(p, t) ==
    LET rescued == {r \in Rows : Rescue(r, t[r]) # None}
        right == {r \in rescued : Rescue(r, t[r]) = GoldOf[r]} IN
    [state |-> "whole", schema |-> "audit", by |-> p, preflight |-> TRUE,
     counts |-> Counts(t, {None, Failed}), rescued |-> Cardinality(rescued),
     newCorrect |-> Correct(t) + Cardinality(right)]

\* write_sidecar: the rows, in their order.
Sidecar(p, t) ==
    [state |-> "whole", by |-> p,
     lines |-> [r \in Rows |-> [letter |-> t[r].got, category |-> Category(r, t[r]),
                                supplement |-> Rescue(r, t[r])]]]

\* The hash over the bytes of every image.
Manifest == images = Rows

\* What main needs before it makes the receipt; the audit hashes the images
\* only after the inference.
Reducible(x, t) ==
    CASE x = "v1" -> TRUE
      [] x = "audit" -> Manifest
      [] x \in {"v2", "v3", "v4", "v5"} -> ReducibleV2(t)
      [] x = "mmstar" -> ReducibleMMStar(t)

Content(x, f, p, t) ==
    CASE x = "v1" -> ReceiptV1(p, t) [] x = "v2" -> ReceiptV2(p, t)
      [] x = "v3" -> ReceiptV3(p, t) [] x = "v4" -> ReceiptV4(p, t)
      [] x = "v5" -> ReceiptV5(p, t) [] x = "mmstar" -> ReceiptMMStar(p, t)
      [] x = "audit" -> IF f = "sidecar" THEN Sidecar(p, t) ELSE ReceiptAudit(p, t)

(***************************************************************************)
(* _write_create_once: whether a short write is retried, whether a failed  *)
(* write takes its file away, and the exit code after a failure.           *)
(***************************************************************************)
WriteV1 == [retries |-> FALSE, removes |-> FALSE, code |-> "1"]
WriteV2Once == [retries |-> FALSE, removes |-> TRUE, code |-> "2"]

WriteV2 == [retries |-> TRUE, removes |-> TRUE, code |-> "2"]
WriteMMStar == [retries |-> FALSE, removes |-> FALSE, code |-> "2"]
WriteAudit == [retries |-> TRUE, removes |-> TRUE, code |-> "1"]

Writer(x) ==
    CASE x = "v1" -> WriteV1 [] x \in {"v2", "v3", "v4", "v5"} -> WriteV2
      [] x = "mmstar" -> WriteMMStar [] x = "audit" -> WriteAudit
----------------------------------------------------------------------------
Init == /\ prog \in Programs
        /\ server = "named"
        /\ images = Rows
        /\ phase = [p \in Scorers |-> 1]
        /\ open = [p \in Scorers |-> FALSE]
        /\ task = [p \in Scorers |-> [r \in Rows |-> Waiting]]
        /\ exit = [p \in Scorers |-> "none"]
        /\ disk = [f \in Files |-> Absent]

In(p, ph) == /\ exit[p] = "none"
             /\ phase[p] \in DOMAIN Flow(prog)
             /\ Flow(prog)[phase[p]] = ph

Advance(p) ==
    /\ phase' = [phase EXCEPT ![p] = @ + 1]
    /\ exit' = [exit EXCEPT ![p] = IF phase[p] = Len(Flow(prog)) THEN "0" ELSE @]

Leave(p, code) == exit' = [exit EXCEPT ![p] = code] /\ UNCHANGED phase

\* Advance where the condition holds, exit 2 where it does not.
Check(p, cond) == IF cond THEN Advance(p) ELSE Leave(p, "2")

\* _validate_args and _assert_output_scope: no output may exist yet.
Vacant(f) == disk[f] = Absent
AdmitV1 == Vacant("receipt")
AdmitV2 == Vacant("receipt")
AdmitV3 == Vacant("receipt")
AdmitV4 == Vacant("receipt")
AdmitV5 == Vacant("receipt")
AdmitMMStar == Vacant("receipt")
AdmitAudit == Vacant("sidecar") /\ Vacant("receipt")

Admit(x) == CASE x = "v1" -> AdmitV1 [] x = "v2" -> AdmitV2 [] x = "v3" -> AdmitV3
              [] x = "v4" -> AdmitV4 [] x = "v5" -> AdmitV5
              [] x = "mmstar" -> AdmitMMStar [] x = "audit" -> AdmitAudit

Validate(p) == /\ In(p, "validate")
               /\ Check(p, Admit(prog))
               /\ UNCHANGED <<prog, server, images, open, task, disk>>

\* _preflight_model_id: the server must advertise the exact model id.
Preflight(p) == /\ In(p, "preflight")
                /\ Check(p, server = "named")
                /\ UNCHANGED <<prog, server, images, open, task, disk>>

\* _read_dataset and the manifest: every image must be a regular file.
ReadDataset(p) == /\ In(p, "dataset")
                  /\ Check(p, Manifest)
                  /\ UNCHANGED <<prog, server, images, open, task, disk>>

Busy(p) == {r \in Rows : task[p][r] = Asked}

\* A thread takes a row and builds its request: the image is read only now.
Ask(p, r) ==
    /\ In(p, "infer") /\ task[p][r] = Waiting /\ Cardinality(Busy(p)) < Workers
    /\ task' = [task EXCEPT ![p][r] = 
              IF r \in images THEN Asked ELSE Done(prog, r, Fault("local"))]
    /\ UNCHANGED <<prog, server, images, phase, open, exit, disk>>

\* The call returns: a reply or a malformed response of the named model, an
\* error where another model or nothing answers.
Answered(p, r) ==
    /\ exit[p] = "none" /\ task[p][r] = Asked
    /\ \E e \in IF server = "named"
               THEN {Reply(a) : a \in RepliesOf[r]} \cup {Fault("malformed")}
               ELSE {Fault("provider")} :
          task' = [task EXCEPT ![p][r] = Done(prog, r, e)]
    /\ UNCHANGED <<prog, server, images, phase, open, exit, disk>>

\* The pool is left when every future is done, also after an exception: the
\* rest is asked first.  Then aggregate_outcomes.
Raises(p, what) == \E r \in Rows : task[p][r].got = what

Reduce(p) ==
    /\ In(p, "infer") /\ \A r \in Rows : task[p][r].state = "done"
    /\ \/ Raises(p, Crash) /\ Leave(p, "1")
       \/ Raises(p, Abort) /\ Leave(p, "2")
       \/ /\ ~Raises(p, Crash) /\ ~Raises(p, Abort)
          /\ Check(p, Reducible(prog, task[p]))
    /\ UNCHANGED <<prog, server, images, open, task, disk>>

\* open with O_EXCL.
Create(p, f) ==
    /\ In(p, f) /\ ~open[p] /\ disk[f] = Absent
    /\ disk' = [disk EXCEPT ![f] = Torn(p)]
    /\ open' = [open EXCEPT ![p] = TRUE]
    /\ UNCHANGED <<prog, server, images, phase, task, exit>>

\* The file exists: a look before the open finds it, or the open does.  The
\* audit does not handle the latter's exception.
Exists(p, f) ==
    /\ In(p, f) /\ ~open[p] /\ disk[f] # Absent
    /\ \E code \in {"2"} \cup (IF prog = "audit" THEN {"1"} ELSE {}) : Leave(p, code)
    /\ UNCHANGED <<prog, server, images, open, task, disk>>

Finish(p, f) ==
    /\ In(p, f) /\ open[p]
    /\ disk' = [disk EXCEPT ![f] = Content(prog, f, p, task[p])]
    /\ open' = [open EXCEPT ![p] = FALSE]
    /\ Advance(p)
    /\ UNCHANGED <<prog, server, images, task>>

\* os.write wrote less than it was given, and nobody looks.
ShortWrite(p, f) ==
    /\ In(p, f) /\ open[p] /\ ~Writer(prog).retries
    /\ open' = [open EXCEPT ![p] = FALSE]
    /\ Advance(p)
    /\ UNCHANGED <<prog, server, images, task, disk>>

WriteFails(p, f) ==
    /\ In(p, f) /\ open[p]
    /\ open' = [open EXCEPT ![p] = FALSE]
    /\ disk' = IF Writer(prog).removes THEN [disk EXCEPT ![f] = Absent] ELSE disk
    /\ Leave(p, Writer(prog).code)
    /\ UNCHANGED <<prog, server, images, task>>

Kill(p) == /\ exit[p] = "none"
           /\ Leave(p, "killed")
           /\ open' = [open EXCEPT ![p] = FALSE]
           /\ UNCHANGED <<prog, server, images, task, disk>>

\* The environment: the server stops, starts, or serves another model; an
\* image disappears.
Serve(s) == /\ s # server /\ server' = s
            /\ UNCHANGED <<prog, images, phase, open, task, exit, disk>>

LoseImage(r) == /\ r \in images /\ images' = images \ {r}
                /\ UNCHANGED <<prog, server, phase, open, task, exit, disk>>

Step(p) == \/ Validate(p)
           \/ Preflight(p)
           \/ ReadDataset(p)
           \/ \E r \in Rows : Ask(p, r) \/ Answered(p, r)
           \/ Reduce(p)
           \/ \E f \in Files : \/ Create(p, f)
                               \/ Exists(p, f)
                               \/ Finish(p, f)
                               \/ ShortWrite(p, f)
                               \/ WriteFails(p, f)

Next == \/ \E p \in Scorers : Step(p) \/ Kill(p)
        \/ \E s \in {"named", "other", "down"} : Serve(s)
        \/ \E r \in Fragile : LoseImage(r)

Spec == Init /\ [][Next]_vars
=============================================================================
