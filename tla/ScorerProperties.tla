-------------------------- MODULE ScorerProperties --------------------------
(***************************************************************************)
(* What a receipt of the multiple-choice aggregators may be trusted for.   *)
(***************************************************************************)
EXTENDS FormalScorer

Got == Choices \cup {None, Lower, Failed, Abort, Crash}
TaskType == {Waiting, Asked} \cup [state : {"done"}, event : Events, got : Got]
Ended(p) == \A r \in Rows : task[p][r].state = "done"
Event(p, r) == task[p][r].event.kind
Published(p) == disk["receipt"].state = "whole" /\ disk["receipt"].by = p
Receipt == disk["receipt"]

\* Types of the variables.
TypeOK ==
    /\ prog \in Programs
    /\ server \in {"named", "other", "down"}
    /\ images \subseteq Rows
    /\ phase \in [Scorers -> 1..(Len(Flow(prog)) + 1)]
    /\ open \in [Scorers -> BOOLEAN]
    /\ task \in [Scorers -> [Rows -> TaskType]]
    /\ exit \in [Scorers -> {"none", "0", "1", "2", "killed"}]
    /\ DOMAIN disk = Files
    /\ \A f \in Files : \/ disk[f] = Absent
                        \/ disk[f].state \in {"torn", "whole"} /\ disk[f].by \in Scorers

(***************************************************************************)
(* A receipt is only made of answered rows and failed calls.  Everything   *)
(* but v1 and the audit (_infer of v2, 733-736) promises that an error of  *)
(* its own, such as an image that cannot be read any more, is never scored *)
(* as a failure of the provider; and v2 to v5 count exactly the calls that *)
(* failed, mmstar none at all.                                             *)
(***************************************************************************)
OnlyProviderFailures ==
    \A p \in Scorers : Published(p) /\ prog \notin {"v1", "audit"} =>
        LET failed == {r \in Rows : Event(p, r) = "provider"} IN
        /\ Ended(p)
        /\ \A r \in Rows : Event(p, r) # "local"
        /\ Receipt.counts.failed = Cardinality(failed)
        /\ prog = "mmstar" => failed = {}

(***************************************************************************)
(* The counts of a receipt cover every row once: a row is parsed, has an   *)
(* invalid format or failed, the right ones are among the parsed ones, and *)
(* the audit's second accuracy is the first plus what it rescued.          *)
(***************************************************************************)
CountsAreExact ==
    \A p \in Scorers : Published(p) =>
        LET c == Receipt.counts IN
        /\ c.parsed + c.invalid + (IF prog = "audit" THEN 0 ELSE c.failed) = c.total
        /\ c.correct <= c.parsed /\ c.total = Cardinality(Rows)
        /\ prog = "audit" => /\ c.correct <= Receipt.newCorrect
                             /\ Receipt.newCorrect <= c.correct + Receipt.rescued
                             /\ Receipt.rescued + c.failed <= c.invalid

(***************************************************************************)
(* A file that exists whole never changes, and a file somebody has created *)
(* is only touched by its creator, though several scorers were given the   *)
(* same path (_write_create_once).                                         *)
(***************************************************************************)
CreateOnce ==
    [][\A f \in Files :
          /\ disk[f].state = "whole" => disk'[f] = disk[f]
          /\ disk[f].state = "torn" =>
                \/ disk'[f] = disk[f]
                \/ disk'[f] = Absent
                \/ disk'[f].state = "whole" /\ disk'[f].by = disk[f].by]_vars

(***************************************************************************)
(* Where a failed write takes its file away (v2 to v5 and the audit), half *)
(* a file is being written or its writer was killed: no other end of a     *)
(* scorer leaves one, and so none blocks the next run.                     *)
(***************************************************************************)
TornHasCause ==
    prog \notin {"v1", "mmstar"} =>
        \A f \in Files : disk[f].state = "torn" =>
            \/ open[disk[f].by] /\ exit[disk[f].by] = "none"
            \/ exit[disk[f].by] = "killed"

(***************************************************************************)
(* Exit 0 means that the scorer's own receipt is there and whole, except   *)
(* for v1 and mmstar, which do not look at how much os.write took.         *)
(***************************************************************************)
ExitZeroMeansPublished ==
    \A p \in Scorers : exit[p] = "0" /\ prog \notin {"v1", "mmstar"} => Published(p)

(***************************************************************************)
(* The audit's sealed receipt and its private sidecar come from the same   *)
(* run, the sidecar first, and say the same: the letters, the rescued rows *)
(* and the failures of the one are the counts of the other; only rows v5   *)
(* left without a letter have a supplement, and it is one of the options.  *)
(***************************************************************************)
SidecarMatchesReceipt ==
    \A p \in Scorers : Published(p) /\ prog = "audit" =>
        LET s == disk["sidecar"]
            N(S) == Cardinality(S) IN
        /\ s.state = "whole" /\ s.by = p
        /\ N({r \in Rows : s.lines[r].letter = GoldOf[r]}) = Receipt.counts.correct
        /\ N({r \in Rows : s.lines[r].supplement # None}) = Receipt.rescued
        /\ N({r \in Rows : s.lines[r].category = "provider_error"}) = Receipt.counts.failed
        /\ N({r \in Rows : GoldOf[r] \in {s.lines[r].letter, s.lines[r].supplement}})
              = Receipt.newCorrect
        /\ \A r \in Rows :
              /\ s.lines[r].supplement # None =>
                    s.lines[r].letter = None /\ s.lines[r].supplement \in OptionsOf[r]
              /\ s.lines[r].category = "v5_parsed" <=> s.lines[r].letter \in Choices

(***************************************************************************)
(* When the model answered every row and every image is still there, what  *)
(* it answered keeps no receipt from v1, v3, v4 and mmstar: whatever the   *)
(* text, the parser returns None or a choice (parse_choice of v1, 411-417, *)
(* parse_content of mmstar, 329-340), or the pool counts what it raised.   *)
(* v5 and the audit are stopped by one kind of answer only, brackets       *)
(* nested beyond Python's recursion limit (v5 145-148, audit 145-148); v2  *)
(* is excepted: that nesting stops it, and so does a last line "b", which  *)
(* v1's parser returns as it stands.                                       *)
(***************************************************************************)
Refused(p) == /\ exit[p] \in {"1", "2"}
              /\ phase[p] \in DOMAIN Flow(prog) /\ Flow(prog)[phase[p]] = "infer"

TooDeep(p, r) == LET a == task[p][r].event.answer IN
                 \/ prog = "v5" /\ Deep(a)
                 \/ prog = "audit" /\ a.nested /\ ~Deep(a)

OthersAreScored ==
    prog # "v2" =>
        \A p \in Scorers : Refused(p) =>
            images # Rows \/ \E r \in Rows : Event(p, r) # "reply" \/ TooDeep(p, r)
=============================================================================
