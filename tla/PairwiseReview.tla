--------------------------- MODULE PairwiseReview ---------------------------
(***************************************************************************)
(* evals/pairwise_review.py: pairs of answers are put before reviewers     *)
(* with the sides hidden, and what they score is applied to the rows.      *)
(*                                                                         *)
(* A review packet is a function from review ids to what is reviewed: the  *)
(* text and the scores of either side.  A mapping key is a function from   *)
(* the same ids to the candidate's side.  A review id stands for the       *)
(* candidate's identity: its pair key and its variant.                     *)
(***************************************************************************)
EXTENDS CapabilityMetrics, ReviewScale, SequencesExt

CONSTANTS
    Dimensions,      \* what is scored
    Refused          \* a ValueError: nothing is written

Sides == {"a", "b"}
Across(side) == IF side = "a" THEN "b" ELSE "a"

(* The scores of a side; 0 is a score that is not filled in.               *)
Blank == [d \in Dimensions |-> 0]
Filled(scores) == \A d \in Dimensions : scores[d] # 0

Identity(row) == <<PairKey(row), Variant(row)>>
Successful(rows) == {i \in DOMAIN rows : rows[i].success}

(* The successful baseline rows a candidate row is reviewed against.       *)
ReviewBaselines(rows, i) ==
    {b \in Successful(rows) : /\ Variant(rows[b]) = "baseline"
                              /\ PairKey(rows[b]) = PairKey(rows[i])}

Reviewable(rows, candidates) ==
    {i \in Successful(rows) : /\ Variant(rows[i]) \in candidates
                              /\ ReviewBaselines(rows, i) # {}}

AmbiguousBaselines(rows) ==
    \E i \in Successful(rows) : Cardinality(ReviewBaselines(rows, i)) > 1

(* prepare_reviews.  seed tells the candidate's side of every review id;   *)
(* the rows of a file have distinct identities.                            *)
Prepared(rows, answers, candidates, seed) ==
    IF AmbiguousBaselines(rows) THEN Refused
    ELSE LET pairs == Reviewable(rows, candidates)
             ids == {Identity(rows[i]) : i \in pairs}
             RowOf(id) == CHOOSE i \in pairs : Identity(rows[i]) = id
             BaseOf(id) == CHOOSE b \in ReviewBaselines(rows, RowOf(id)) : TRUE
             Text(id, side) ==
                IF side = seed[id] THEN answers[rows[RowOf(id)].key]
                ELSE answers[rows[BaseOf(id)].key]
         IN [packet |-> [id \in ids |-> [side \in Sides |->
                            [text |-> Text(id, side), scores |-> Blank]]],
             mapping |-> [id \in ids |-> seed[id]]]

-----------------------------------------------------------------------------
(* What one reviewer has scored of one pair.                               *)
Entry(review, side) == [candidate |-> review[side], baseline |-> review[Across(side)]]

(* Both sides in full, or nothing at all.                                  *)
WellFilled(review) ==
    \/ \A s \in Sides : Filled(review[s].scores)
    \/ \A s \in Sides : review[s].scores = Blank

(* The entries of a pair, one for every reviewer who filled it in.         *)
Entries(packets, mappings, id) ==
    LET by == {r \in DOMAIN packets :
                 /\ id \in DOMAIN packets[r]
                 /\ \A s \in Sides : Filled(packets[r][id][s].scores)}
    IN {<<r, Entry(packets[r][id], mappings[r][id])>> : r \in by}

DeltaOf(entry, d) ==
    Delta[entry[2].candidate.scores[d], entry[2].baseline.scores[d]]

(* -1, 0 or 1, by the sign of a difference.                                *)
Direction(x) == CASE x[1] < 0 -> -1 [] x[1] = 0 -> 0 [] x[1] > 0 -> 1

(* The spread is of the largest and the smallest difference.               *)
Disputed(entries, d) ==
    \E e, f \in entries :
        \/ Direction(DeltaOf(e, d)) # Direction(DeltaOf(f, d))
        \/ Above(Minus(DeltaOf(e, d), DeltaOf(f, d)), Threshold)

StatusOf(entries) ==
    IF Cardinality(entries) < Policy.reviewers THEN "insufficient_reviews"
    ELSE IF \E d \in Dimensions : Disputed(entries, d) THEN "needs_adjudication"
    ELSE "accepted"

(* The points of one side, over all entries and dimensions.                *)
PointsOf(side, entries) ==
    LET Total(scores) == SumFunctionOnSet(scores, Dimensions)
    IN <<SumFunctionOnSet([e \in entries |-> Total(e[2][side].scores)], entries),
         Cardinality(entries) * Cardinality(Dimensions)>>

(* _aggregate_pair for one side.  scored is history: the texts scored.     *)
Aggregate(side, entries, verdict) ==
    LET settling == IF verdict = Nothing THEN entries ELSE {<<"adjudicator", verdict>>}
    IN [status |-> IF verdict = Nothing THEN StatusOf(entries) ELSE "adjudicated",
        reviewers |-> Cardinality(entries),
        overall |-> IF settling = {} THEN Nothing ELSE PointsOf(side, settling),
        scored |-> {e[2][side].text : e \in entries}]

-----------------------------------------------------------------------------
(* apply_reviews: when it raises.  Packets and keys are those of the       *)
(* configured reviewers; adjudications come from nobody of them.           *)
Inconsistent(rows, packets, mappings, adjudications) ==
    LET ids == UNION {DOMAIN mappings[r] : r \in DOMAIN mappings}
    IN \/ \E r \in DOMAIN packets : ~(DOMAIN packets[r] \subseteq DOMAIN mappings[r])
       \/ \E r \in DOMAIN packets : \E id \in DOMAIN packets[r] : ~WellFilled(packets[r][id])
       \/ ~(DOMAIN adjudications \subseteq ids)
       \/ \E id \in DOMAIN adjudications :
            \/ StatusOf(Entries(packets, mappings, id)) # "needs_adjudication"
            \/ ~Filled(adjudications[id].candidate.scores)
            \/ ~Filled(adjudications[id].baseline.scores)
       \/ \E id \in ids :
            Cardinality({i \in DOMAIN rows :
                Identity(rows[i]) = id \/ Identity(rows[i]) = <<id[1], "baseline">>}) # 2

(* A row after the reviews of its pairs, of which a baseline row may have  *)
(* several: the last one applied leaves it its retention.                  *)
ApplyTo(row, ids, last, scores) ==
    LET own == {id \in ids : Identity(row) = id}
        based == {id \in ids : Identity(row) = <<id[1], "baseline">>}
        side == IF own # {} THEN "candidate" ELSE "baseline"
        Counterpart(id) == IF id \in own THEN "baseline" ELSE id[2]
        left == scores[last[own \cup based]][side]
    IN IF own \cup based = {} THEN row
       ELSE [row EXCEPT
                !.scored = TRUE,
                !.reviews = [v \in {Counterpart(id) : id \in own \cup based} |->
                    scores[CHOOSE id \in own \cup based : Counterpart(id) = v][side]],
                !.retention = IF left.status \in Settled THEN left.overall ELSE Nothing]

Applied(rows, packets, mappings, adjudications) ==
    LET ids == UNION {DOMAIN mappings[r] : r \in DOMAIN mappings}
        Verdict(id) == IF id \in DOMAIN adjudications THEN adjudications[id] ELSE Nothing
        scores == [id \in ids |-> [side \in {"candidate", "baseline"} |->
                    Aggregate(side, Entries(packets, mappings, id), Verdict(id))]]
        Place(id) == CHOOSE i \in DOMAIN rows : Identity(rows[i]) = id
        last == [S \in SUBSET ids \ {{}} |->
                    CHOOSE id \in S : \A other \in S : Place(other) <= Place(id)]
        Status(id) == scores[id]["candidate"].status
    IN IF Inconsistent(rows, packets, mappings, adjudications) THEN Refused
       ELSE [rows |-> [i \in DOMAIN rows |-> ApplyTo(rows[i], ids, last, scores)],
             review |-> [reviewers |-> DOMAIN packets,
                         disputed |-> {id \in ids : Status(id) = "needs_adjudication"},
                         complete |-> ids # {} /\ \A id \in ids : Status(id) \in Settled]]

=============================================================================
