------------------------- MODULE MCReleaseExperiment -------------------------
(* Instances of ReleaseExperiment for TLC.                                 *)
EXTENDS ReleaseExperiment

CONSTANTS case1, case2, r1, r2

MCComponents == {"objective", "content", "compliance"}
MCBehaviors == {"refusal"}
MCDimensions == {"correctness"}
MCPolicy == [reviewers |-> 2, quality |-> One, semantic |-> One, cost |-> One,
             latency |-> <<2, 1>>, costNeeded |-> TRUE, reviewNeeded |-> TRUE]

MCSample ==
    [key |-> <<case1, "baseline">>, sampling |-> "same", success |-> TRUE, contract |-> "pass",
     scored |-> TRUE, fallback |-> FALSE, quality |-> [c \in MCComponents |-> One],
     behavior |-> [b \in MCBehaviors |-> FALSE], tokens |-> One, seconds |-> One,
     reviews |-> [v \in {} |-> Nothing], retention |-> Nothing, config |-> "first",
     answer |-> Nothing]

MCKeyOrder == <<<<case1, "baseline">>, <<case1, "v1-full">>>>
MCCandidates == {"v1-full"}
(* Every ending once.                                                      *)
MCEndings ==
    [k \in Range(MCKeyOrder) |-> IF k[2] = "baseline" THEN {"passed", "rejected"}
                                ELSE {"unsupported", "overwritten", "failed"}]
MCReviewers == <<r1, r2>>
MCCheckSteps == <<"release-preflight">>

(* Left blank; level; the left side better.                                *)
Points2(a, b) == [s \in Sides |-> [d \in MCDimensions |-> IF s = "a" THEN a ELSE b]]
MCJudgements == {Points2(0, 0), Points2(4, 4), Points2(5, 3)}

(* Rows for acceptance: as they should be, and with one thing wrong.       *)
ReviewOf(counterpart, status, reviewers, points) ==
    [v \in {counterpart} |->
        [status |-> status, reviewers |-> reviewers, overall |-> <<points, 1>>, scored |-> {}]]
GoodRow(case, variant) ==
    [MCSample EXCEPT !.key = <<case, variant>>,
        !.reviews = ReviewOf(IF variant = "baseline" THEN "v1-full" ELSE "baseline",
                             "accepted", 2, 4)]
FailedRow(case, variant) ==
    [MCSample EXCEPT !.key = <<case, variant>>, !.success = FALSE, !.scored = FALSE,
        !.contract = "absent"]

MCRows(case) ==
    {GoodRow(case, v) : v \in {"baseline", "v1-full"}}
    \cup {FailedRow(case, v) : v \in {"baseline", "v1-full"}}
    \cup UNION {LET row == GoodRow(case, v) other == IF v = "baseline" THEN "v1-full" ELSE "baseline" IN
        {[row EXCEPT !.contract = "fail"],
         [row EXCEPT !.sampling = "other"],
         [row EXCEPT !.fallback = TRUE],
         [row EXCEPT !.quality["objective"] = <<1, 2>>],
         [row EXCEPT !.quality["objective"] = <<1, 2>>, !.quality["compliance"] = <<2, 1>>],
         [row EXCEPT !.quality["objective"] = Nothing],
         [row EXCEPT !.behavior["refusal"] = TRUE],
         [row EXCEPT !.reviews = ReviewOf(other, "accepted", 1, 4)],
         [row EXCEPT !.reviews = ReviewOf(other, "needs_adjudication", 2, 4)],
         [row EXCEPT !.reviews = ReviewOf(other, "adjudicated", 2, 5)],
         [row EXCEPT !.reviews = [c \in {} |-> Nothing], !.retention = One]} :
        v \in {"baseline", "v1-full"}}

PayloadOf(slots, rows) ==
    [slots |-> slots, variants |-> {"baseline", "v1-full"}, rows |-> rows,
     review |-> [reviewers |-> {r1, r2}, disputed |-> {}, complete |-> TRUE]]
MCPayloads ==
    {PayloadOf({case1}, rows) : rows \in TupleOf(MCRows(case1), 3) \cup TupleOf(MCRows(case1), 2)}
    \cup {PayloadOf(slots, rows) : slots \in {{}, Nothing}, rows \in TupleOf(MCRows(case1), 2)}
    \cup {PayloadOf({case1, case2}, rows) : rows \in TupleOf(
            UNION {{GoodRow(c, "baseline"), GoodRow(c, "v1-full")}
                   \cup {[GoodRow(c, "v1-full") EXCEPT !.quality["objective"] = q] :
                            q \in {<<1, 2>>, <<2, 1>>}} : c \in {case1, case2}}, 4)}

(* Who sees the candidate on the left: the first reviewer, and either the  *)
(* second too or not.                                                      *)
MCDraws == {[r \in ReviewerSet |-> [id \in ReviewIds |-> IF r = r1 THEN "a" ELSE side]] :
                side \in Sides}

Command(phases, resume, force, continue, config) ==
    [phases |-> phases, resume |-> resume, force |-> force, continue |-> continue,
     config |-> config]
(* A resumed process may go on after errors; the second configuration      *)
(* comes with the first one's state.                                       *)
WholeReleases ==
    {Command(Phases, TRUE, FALSE, TRUE, "first")} \cup
    {Command(Phases, resume, force, FALSE, "first") : resume, force \in BOOLEAN}
    \cup
    {Command(Phases, TRUE, force, FALSE, "second") : force \in BOOLEAN}

(* Fresh, fresh and going on after errors, resumed and forced.             *)
ReleasesAfterErrors ==
    {Command(Phases, FALSE, FALSE, FALSE, "first"), Command(Phases, FALSE, FALSE, TRUE, "first"),
     Command(Phases, TRUE, TRUE, FALSE, "first")}

=============================================================================
