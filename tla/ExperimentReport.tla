-------------------------- MODULE ExperimentReport --------------------------
(***************************************************************************)
(* evals/build_experiment_report.py: what the report of a release makes of *)
(* the results of its matrices, runtimes, fixtures and checks.             *)
(*                                                                         *)
(* A matrix payload declares its slots (model, repeat, case) and variants, *)
(* or its slots are Nothing when it names no models; rows is the list of   *)
(* its rows, review what pairwise review added.                            *)
(***************************************************************************)
EXTENDS PairwiseReview

(* The files of older runners name one model and declare nothing further,  *)
(* and their rows are of that model and of one repeat: what is expected is *)
(* what they have rows of.                                                 *)
Normalized(payload) ==
    IF payload.slots # Nothing THEN payload
    ELSE [payload EXCEPT
            !.slots = {payload.rows[i].key[1] : i \in DOMAIN payload.rows},
            !.variants = {Variant(payload.rows[i]) : i \in DOMAIN payload.rows}]

Expected(payload) == payload.slots \X payload.variants
Present(rows) == {rows[i].key : i \in DOMAIN rows}

(* Of rows with one key the last is taken.                                 *)
Indexed(rows) ==
    {i \in DOMAIN rows : \A j \in DOMAIN rows : rows[j].key = rows[i].key => j <= i}

MatrixPass(rows) ==
    {i \in DOMAIN rows : rows[i].success /\ rows[i].contract \in {"pass", "absent"}}
RuntimePass(rows) ==
    {i \in DOMAIN rows : rows[i].success /\ rows[i].contract = "pass"}

(* Every expected row is there once and passes, and there are no others.   *)
Complete(payload, passed) ==
    LET rows == payload.rows
    IN /\ Indexed(rows) \subseteq passed
       /\ Present(rows) = Expected(payload)
       /\ Indexed(rows) = DOMAIN rows

(* review is Nothing in a file no review was applied to.                   *)
ReviewComplete(payload) ==
    Policy.reviewNeeded =>
        /\ payload.review # Nothing
        /\ payload.review.complete
        /\ Cardinality(payload.review.reviewers) >= Policy.reviewers

CapabilityAccepted(payload, candidates) ==
    /\ CandidatesAccepted(payload.rows, candidates)
    /\ ReviewComplete(payload)

MatrixHolds(payload, candidates) ==
    LET p == Normalized(payload)
    IN Complete(p, MatrixPass(p.rows)) /\ CapabilityAccepted(p, candidates)

(* build_summary, over the files of each kind; verdicts are those of the   *)
(* fixtures, the gate validator and the preflight.                         *)
ReportStatus(matrices, candidates, runtimes, verdicts) ==
    IF /\ matrices # {} /\ runtimes # {} /\ verdicts # {}
       /\ \A payload \in matrices : MatrixHolds(payload, candidates)
       /\ \A payload \in runtimes : Complete(payload, RuntimePass(payload.rows))
       /\ \A verdict \in verdicts : verdict = "pass"
    THEN "complete" ELSE "incomplete"

-----------------------------------------------------------------------------
(* A candidate row that may replace its baseline row.                      *)
NoWorse(base, row) ==
    /\ base.success /\ row.success
    /\ {base.contract, row.contract} \subseteq {"pass", "absent"}
    /\ base.sampling = row.sampling
    /\ row.fallback => base.fallback
    /\ \A c \in Components : base.quality[c] # Nothing =>
        row.quality[c] # Nothing /\ ~Below(row.quality[c], base.quality[c])
    /\ \A b \in Behaviors : row.behavior[b] = TRUE => base.behavior[b] # FALSE
    /\ Policy.reviewNeeded =>
        LET given == base.reviews[Variant(row)]
            gained == row.reviews["baseline"]
        IN /\ Variant(row) \in DOMAIN base.reviews /\ "baseline" \in DOMAIN row.reviews
           /\ {given.status, gained.status} \subseteq {"accepted", "adjudicated"}
           /\ given.reviewers >= Policy.reviewers /\ gained.reviewers >= Policy.reviewers
           /\ ~Below(gained.overall, given.overall)

(* One row of each candidate and one of the baseline for every slot, and   *)
(* the one no worse than the other in anything that was observed.          *)
PairsHold(payload, candidates) ==
    \A slot \in Normalized(payload).slots, v \in candidates :
        LET Rows(variant) == {i \in DOMAIN payload.rows :
                                payload.rows[i].key = <<slot, variant>>}
        IN \E b, i \in DOMAIN payload.rows :
            /\ Rows("baseline") = {b} /\ Rows(v) = {i}
            /\ NoWorse(payload.rows[b], payload.rows[i])

=============================================================================
