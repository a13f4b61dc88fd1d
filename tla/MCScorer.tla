------------------------------ MODULE MCScorer ------------------------------
(***************************************************************************)
(* Two scorers aimed at one receipt, and two rows with the options A (yes) *)
(* and B (no).  The first row meets every kind of answer, the second the   *)
(* plain one; the image of the first row may disappear.                    *)
(***************************************************************************)
EXTENDS ScorerProperties, TLC

CONSTANTS p1, p2, r1, r2

Letters == {"A", "B", "C", "D"}
Options == [r \in {r1, r2} |-> {"A", "B"}]
Gold == [r \in {r1, r2} |-> "B"]

Upper(l) == [letter |-> l, upper |-> TRUE]
LowerCase(l) == [letter |-> l, upper |-> FALSE]

\* "I see a dog"
Words == [text |-> "words", object |-> "none", nested |-> FALSE, brace |-> FALSE,
          member |-> NoForm, trailing |-> NoForm, loose |-> {}, closing |-> NoForm, markers |-> {},
          last |-> NoForm, tokens |-> {}, near |-> {}, zed |-> FALSE, verbose |-> None,
          refusal |-> FALSE, long |-> TRUE, values |-> {}, boxed |-> {}, final |-> None]

\* "B"
Plain == [Words EXCEPT !.closing = Upper("B"), !.last = Upper("B"), !.tokens = {"B"},
                       !.near = {"B"}, !.long = FALSE, !.final = "B"]
\* "It is", and "b" on the last line
LowerLine == [Words EXCEPT !.closing = LowerCase("B"), !.last = LowerCase("B"),
                           !.long = FALSE, !.final = "B"]
\* "The answer is A", and "B" on the last line
Contradiction ==
    [Words EXCEPT !.loose = {"A"}, !.closing = Upper("B"), !.markers = {Upper("A")},
                  !.last = Upper("B"), !.tokens = {"A", "B"}, !.near = {"A", "B"},
                  !.verbose = "A", !.final = "B"]
\* {"answer": "b"}
LowerObject == [Words EXCEPT !.object = "answer", !.brace = TRUE, !.member = LowerCase("B")]
\* "\boxed{A}, not B"
Box == [Words EXCEPT !.tokens = {"A", "B"}, !.near = {"A", "B"}, !.values = {"B"},
                     !.boxed = {"A"}]
\* {"a": {"a": ... and ten thousand brackets, in an object and in a list
DeepObject == [Words EXCEPT !.object = "other", !.nested = TRUE, !.brace = TRUE]
DeepList == [Words EXCEPT !.nested = TRUE]
\* no content; v4 reads "None", in which "no" occurs
Nothing == [Words EXCEPT !.text = "absent", !.long = FALSE, !.values = {"B"}]

Replies == [r \in {r1, r2} |->
               IF r = r1 THEN {Plain, LowerLine, Contradiction, LowerObject, Box,
                             DeepObject, DeepList, Nothing}
               ELSE {Plain}]
Lose == {r1}
Symmetry == Permutations({p1, p2})
=============================================================================
