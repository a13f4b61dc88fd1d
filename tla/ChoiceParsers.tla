---------------------------- MODULE ChoiceParsers ----------------------------
(***************************************************************************)
(* How the multiple-choice aggregators read a letter out of a model's      *)
(* answer: v1 (shared by v2 and, with a telemetry category, by the MMStar  *)
(* aggregator), v3, v4, their union v5, and the supplement of the BLINK    *)
(* format audit.  An answer is what those parsers can tell of its text;    *)
(* the regular expressions that look for each form are the fields.         *)
(***************************************************************************)
EXTENDS FiniteSets

CONSTANTS Choices,  \* the letters A to D
          None      \* no letter: Python's None

ASSUME NoneAssumption ==
    None \notin Choices /\ {"lower", "raised"} \cap (Choices \cup {None}) = {}

\* A letter as it is written; NoForm where a regular expression finds nothing.
Form == [letter : Choices, upper : BOOLEAN]
NoForm == [letter |-> None, upper |-> FALSE]

\* What parse_choice of v1 returns for a lower-case letter: no choice, not None.
Lower == "lower"

\* No return at all: json.loads raised RecursionError, which only the MMStar
\* aggregator's parser catches.
Raised == "raised"

Answer ==
    [text     : {"absent", "blank", "words"},   \* content: None, empty, or text
     object   : {"none", "answer", "duplicate", "other"},  \* the text is an object
     nested   : BOOLEAN,              \* json.loads exceeds the recursion limit on it
     brace    : BOOLEAN,              \* the text begins with a brace or a fence
     member   : Form \cup {NoForm},   \* its (last) "answer"
     trailing : Form \cup {NoForm},   \* an answer object after marker-free prose
     loose    : SUBSET Choices,       \* v1: letters after answer, choice
     closing  : Form \cup {NoForm},   \* v1: last line, "answer: B" included
     markers  : SUBSET Form,          \* v3: letters after answer, choice, option
     last     : Form \cup {NoForm},   \* v3: last line, a bare letter
     tokens   : SUBSET Choices,       \* v4: labels among the words
     near     : SUBSET Choices,       \* v4: those first seen among the last four
     zed      : BOOLEAN,              \* v4: exactly one word is Z
     verbose  : Choices \cup {None},  \* v4: "answer is B"
     refusal  : BOOLEAN,              \* v4: a refusal or a failed call's text
     long     : BOOLEAN,              \* more than twice the options' text
     values   : SUBSET Choices,       \* options whose text occurs
     boxed    : SUBSET Choices,       \* audit: \boxed{B}
     final    : Choices \cup {None}]  \* audit: last line, "final answer: B"

Only(S) == CHOOSE x \in S : TRUE
Single(S) == \E x \in S : S = {x}

\* v4 _options: a row has at least two labels, all of them choices.
OptionsOK(opts) == opts \subseteq Choices /\ \E x, y \in opts : x # y

(***************************************************************************)
(* v1 and the MMStar aggregator                                            *)
(***************************************************************************)
\* Seeded fault: without a form, the text itself.
ParseV1Text(a) == IF a.closing = NoForm THEN "text" ELSE a.closing.letter

\* The text is an object to look at, and too deep for json.loads.
Deep(a) == a.nested /\ a.object # "none"

\* parse_choice.  The flag (?is) makes the terminal expression take a
\* lower-case letter, which it returns as it stands.
ParseV1(a) ==
    CASE a.text # "words" -> None
      [] a.text = "words" /\ Deep(a) -> Raised
      [] a.text = "words" /\ ~Deep(a) /\ a.object = "answer" ->
            IF a.member.upper THEN a.member.letter ELSE None
      [] a.text = "words" /\ ~Deep(a) /\ a.object # "answer" /\ Single(a.loose) ->
            Only(a.loose)
      [] a.text = "words" /\ ~Deep(a) /\ a.object # "answer" /\ ~Single(a.loose) ->
            IF a.closing = NoForm THEN None
            ELSE IF a.closing.upper THEN a.closing.letter ELSE Lower

\* parse_content: v1 decides, the category only says how; an exception of the
\* parser is an invalid answer.
CategoryMMStar(a) ==
    LET p == ParseV1(a) IN
    CASE a.text = "absent" -> "missing_content"
      [] a.text = "blank" -> "blank_content"
      [] a.text = "words" /\ p \notin Choices ->
            IF a.object = "duplicate" /\ ~Deep(a) THEN "duplicate_json_key"
            ELSE "invalid_content"
      [] a.text = "words" /\ p \in Choices ->
            IF a.object = "answer" THEN "json_answer"
            ELSE IF a.loose = {p} \/ a.closing # [letter |-> p, upper |-> TRUE]
                 THEN "explicit_answer_or_choice" ELSE "terminal_letter"

ParseMMStar(a) == IF ParseV1(a) \in Choices THEN ParseV1(a) ELSE None

(***************************************************************************)
(* v3 and v4                                                               *)
(***************************************************************************)
Written(f, opts) == f.upper /\ f.letter \in opts

\* _unique_option_text
UniqueText(a, opts) ==
    IF ~a.long /\ Single(a.values \cap opts) THEN Only(a.values \cap opts) ELSE None

\* Seeded fault: the last line's letter in the case it is written in.
CanInferV3Folded(a, opts) == IF a.last.upper THEN a.last.letter ELSE Lower

\* can_infer of v3: the last line comes before the markers.
CanInferV3(a, opts) ==
    CASE a.text # "words" \/ ~OptionsOK(opts) -> None
      [] a.text = "words" /\ OptionsOK(opts) ->
            IF Written(a.last, opts) THEN a.last.letter
            ELSE IF a.markers = {} THEN UniqueText(a, opts)
            ELSE IF Single(a.markers) /\ Written(Only(a.markers), opts)
                 THEN Only(a.markers).letter ELSE None

\* _forced_invalid_option
ForcedInvalid(a, opts) == a.refusal \/ (a.tokens \cap opts = {} /\ a.zed)

\* _can_infer_option, VERBOSE not set: one label, near the end; else
\* "answer is B".
InferOption(a, opts) ==
    LET seen == a.tokens \cap opts IN
    CASE ForcedInvalid(a, opts) -> None
      [] ~ForcedInvalid(a, opts) ->
            IF Single(seen) /\ seen \subseteq a.near THEN Only(seen)
            ELSE IF a.verbose \in opts THEN a.verbose ELSE None

\* can_infer of v4.  It converts its argument with str: where there is no
\* content, values holds the options whose text occurs in "None".
CanInferV4(a, opts) ==
    IF ~OptionsOK(opts) \/ ForcedInvalid(a, opts) THEN None
    ELSE IF InferOption(a, opts) # None THEN InferOption(a, opts)
    ELSE UniqueText(a, opts)

(***************************************************************************)
(* v5: the union of an explicit parse and v4                               *)
(***************************************************************************)
Verdict(l, s, c) == [letter |-> l, seen |-> s, conflict |-> c]

\* _strict_json_answer
StrictJson(a, opts) ==
    IF a.object = "none" THEN Verdict(None, FALSE, FALSE)
    ELSE IF Deep(a) THEN Verdict(Raised, TRUE, FALSE)
    ELSE IF a.object = "answer" /\ Written(a.member, opts)
         THEN Verdict(a.member.letter, TRUE, FALSE)
    ELSE Verdict(None, TRUE, TRUE)

\* The letters of the markers and of the last line, whatever their case.
Said(a) == {f.letter : f \in a.markers \cup ({a.last} \ {NoForm})}

\* _explicit_state of the audit: markers and last line alone.
ExplicitState(a, opts) ==
    IF Said(a) = {} THEN Verdict(None, FALSE, FALSE)
    ELSE IF Single(Said(a)) /\ Said(a) \subseteq opts
         THEN Verdict(Only(Said(a)), TRUE, FALSE)
    ELSE Verdict(None, TRUE, TRUE)

\* _explicit_parse of v5: an object decides, else the markers and the last line.
ExplicitParse(a, opts) ==
    IF ~OptionsOK(opts) THEN Verdict(None, TRUE, TRUE)
    ELSE IF StrictJson(a, opts).seen THEN StrictJson(a, opts)
    ELSE ExplicitState(a, opts)

\* _union_parse
UnionParse(a, opts) ==
    LET e == ExplicitParse(a, opts)
        local == CanInferV4(a, opts) IN
    CASE a.text = "absent" \/ e.conflict -> None
      [] a.text # "absent" /\ ~e.conflict /\ e.seen ->
            IF e.letter = Raised \/ local \in {None, e.letter} THEN e.letter ELSE None
      [] a.text # "absent" /\ ~e.conflict /\ ~e.seen -> local

(***************************************************************************)
(* The format audit                                                        *)
(***************************************************************************)
\* classify_v5
Classify(a, opts, failed) ==
    LET e == ExplicitParse(a, opts) IN
    CASE failed -> "provider_error"
      [] ~failed /\ UnionParse(a, opts) # None -> "v5_parsed"
      [] ~failed /\ UnionParse(a, opts) = None /\ a.text = "absent" -> "missing_content"
      [] ~failed /\ UnionParse(a, opts) = None /\ a.text = "blank" -> "empty_content"
      [] ~failed /\ UnionParse(a, opts) = None /\ a.text = "words" ->
            IF e.seen /\ e.conflict
            THEN IF a.brace THEN "v5_invalid_json"
                 ELSE "v5_conflicting_or_invalid_explicit"
            ELSE IF e.seen THEN "v5_parser_disagreement" ELSE "v5_no_safe_match"

\* _parse_json_supplement: json.loads keeps the last of two equal keys, and
\* the letter is taken in either case.
JsonSupplement(a, opts) ==
    IF a.object \in {"answer", "duplicate"} /\ a.member.letter \in opts
    THEN a.member.letter
    ELSE IF a.trailing.letter \in opts THEN a.trailing.letter ELSE None

Unopposed(a, opts, l) ==
    LET e == ExplicitState(a, opts) IN ~e.conflict /\ (e.seen => e.letter = l)

\* supplemental_parse: object, box, last line, in this order.  json.loads reads
\* every text here, not only one in braces.
Supplement(a, opts) ==
    LET json == JsonSupplement(a, opts)
        box == IF Single(a.boxed) THEN Only(a.boxed) ELSE None
        Safe(l) == l \in opts /\ Unopposed(a, opts, l) IN
    IF a.text # "words" \/ ~OptionsOK(opts) THEN None
    ELSE IF a.nested THEN Raised
    ELSE IF Safe(json) THEN json
    ELSE IF Safe(box) THEN box
    ELSE IF Safe(a.final) THEN a.final ELSE None
=============================================================================
