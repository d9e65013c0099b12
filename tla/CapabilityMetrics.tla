-------------------------- MODULE CapabilityMetrics --------------------------
(***************************************************************************)
(* evals/capability_metrics.py: baseline and candidate rows of one         *)
(* experiment are paired and compared, and the candidates accepted or not. *)
(* What has not been observed is Nothing, and is never counted as zero.    *)
(***************************************************************************)
EXTENDS Integers, FiniteSets, Sequences, Functions

CONSTANTS
    Components,     \* QUALITY_COMPONENTS
    Compliance,     \* the component that is no NON_CONSTRAINT_COMPONENT
    Behaviors,      \* unnecessary refusal, clarification, over-conservatism
    Nothing,        \* None
    Policy          \* thresholds: CapabilityPolicy and the release gates

Variant(row) == row.key[2]

(* A measured value is a fraction <<n, d>> of naturals.                    *)
Below(x, y) == x[1] * y[2] < y[1] * x[2]
Plus(x, y) == <<x[1] * y[2] + y[1] * x[2], x[2] * y[2]>>
One == <<1, 1>>

Ratio(value, base) ==
    IF value = Nothing \/ base = Nothing THEN Nothing
    ELSE IF base[1] = 0 THEN One
    ELSE <<value[1] * base[2], value[2] * base[1]>>

Observed(f, S) == {s \in S : f[s] # Nothing}
SumObserved(f, S) == FoldFunctionOnSet(Plus, <<0, 1>>, f, Observed(f, S))

MeanObserved(f, S) ==
    IF Observed(f, S) = {} THEN Nothing
    ELSE LET total == SumObserved(f, S)
         IN <<total[1], total[2] * Cardinality(Observed(f, S))>>

AtLeast(value, floor) == value # Nothing /\ ~Below(value, floor)
Exceeds(value, ceiling) == value # Nothing /\ Below(ceiling, value)

-----------------------------------------------------------------------------
(* Rows pair when executor, model, case, repeat and sampling agree; key is *)
(* what a row is filed under: model, repeat and case in one, and variant.  *)
PairKey(row) == <<row.key[1], row.sampling>>

Baselines(rows, i) ==
    {b \in DOMAIN rows : /\ rows[b].scored
                         /\ Variant(rows[b]) = "baseline"
                         /\ PairKey(rows[b]) = PairKey(rows[i])}

(* Candidate rows with a score, that have one scored baseline row.         *)
Paired(rows, v) ==
    {i \in DOMAIN rows : /\ rows[i].scored
                         /\ Variant(rows[i]) = v
                         /\ Cardinality(Baselines(rows, i)) = 1}
BaselineIndex(rows, i) == CHOOSE b \in Baselines(rows, i) : TRUE
BaselineOf(rows, i) == rows[BaselineIndex(rows, i)]

Eligible(rows, v) == {i \in DOMAIN rows : Variant(rows[i]) = v}

Duplicated(rows, v) ==
    \E i, j \in Eligible(rows, v) : i # j /\ PairKey(rows[i]) = PairKey(rows[j])

(* Any two baseline rows count here, scored or not.                        *)
Ambiguous(rows, v) ==
    \E i \in Eligible(rows, v), b, c \in Eligible(rows, "baseline") :
        b # c /\ PairKey(rows[b]) = PairKey(rows[i]) /\ PairKey(rows[c]) = PairKey(rows[i])

-----------------------------------------------------------------------------
(* A pair: base and row.                                                   *)
MissingEvidence(base, row, c) == base.quality[c] # Nothing /\ row.quality[c] = Nothing

Lower(base, row, c) ==
    /\ base.quality[c] # Nothing
    /\ row.quality[c] # Nothing
    /\ Below(row.quality[c], base.quality[c])

(* Wrong: a component the candidate gives no evidence of is left out.      *)
ComponentRegressionObserved(base, row, c) == Lower(base, row, c)

ComponentRegression(base, row, c) ==
    MissingEvidence(base, row, c) \/ Lower(base, row, c)

BehaviorRegression(base, row, b) == row.behavior[b] = TRUE /\ base.behavior[b] = FALSE

Retentions(base, row) ==
    [c \in Components |-> Ratio(row.quality[c], base.quality[c])]
QualityRetention(base, row) == MeanObserved(Retentions(base, row), Components)
NonConstraintRetention(base, row) ==
    MeanObserved(Retentions(base, row), Components \ {Compliance})

(* Wrong: the retention any review of the row has left, of whatever pair.  *)
SharedSemanticEvidence(row, counterpart) ==
    IF row.retention = Nothing THEN Nothing
    ELSE [status |-> "accepted", reviewers |-> Policy.reviewers, overall |-> row.retention]

(* The review of this pair; rows of older files have one retention only.   *)
SemanticEvidence(row, counterpart) ==
    CASE counterpart \in DOMAIN row.reviews -> row.reviews[counterpart]
      [] counterpart \notin DOMAIN row.reviews /\ row.retention # Nothing ->
            [status |-> "legacy", reviewers |-> 0, overall |-> row.retention]
      [] OTHER -> Nothing

Overall(evidence) == IF evidence = Nothing THEN Nothing ELSE evidence.overall

Settled == {"accepted", "adjudicated"}
Reviewed(evidence) ==
    /\ evidence # Nothing
    /\ evidence.status \in Settled
    /\ evidence.reviewers >= Policy.reviewers

Supported(base, row) ==
    /\ Reviewed(SemanticEvidence(base, Variant(row)))
    /\ Reviewed(SemanticEvidence(row, "baseline"))

InformationRatio(base, row) ==
    Ratio(Overall(SemanticEvidence(row, "baseline")),
          Overall(SemanticEvidence(base, Variant(row))))

SemanticRegression(base, row) ==
    LET ratio == InformationRatio(base, row)
    IN ratio # Nothing /\ Below(ratio, One)

(* score_capability_pair: capability_regression_hit.                       *)
Regresses(base, row) ==
    \/ row.fallback /\ ~base.fallback
    \/ \E c \in Components : ComponentRegression(base, row, c)
    \/ \E b \in Behaviors : BehaviorRegression(base, row, b)
    \/ ~AtLeast(QualityRetention(base, row), One) /\ QualityRetention(base, row) # Nothing
    \/ SemanticRegression(base, row)

-----------------------------------------------------------------------------
(* The metrics of one variant, over its pairs.                             *)
MeanQuality(rows, v) ==
    MeanObserved([i \in Paired(rows, v) |-> QualityRetention(BaselineOf(rows, i), rows[i])],
                 Paired(rows, v))

MeanNonConstraint(rows, v) ==
    MeanObserved(
        [i \in Paired(rows, v) |-> NonConstraintRetention(BaselineOf(rows, i), rows[i])],
        Paired(rows, v))

(* Totals of the pairs in which both sides have the cost.                  *)
CostRatio(rows, v, costs) ==
    LET both == {i \in Paired(rows, v) :
                    costs[i] # Nothing /\ costs[BaselineIndex(rows, i)] # Nothing}
    IN IF both = {} THEN Nothing
       ELSE Ratio(SumObserved(costs, both),
                  SumObserved([i \in both |-> costs[BaselineIndex(rows, i)]], both))

SupportedRows(rows, v) ==
    {i \in Paired(rows, v) : Supported(BaselineOf(rows, i), rows[i])}

SemanticRetention(rows, v) ==
    MeanObserved([i \in SupportedRows(rows, v) |-> InformationRatio(BaselineOf(rows, i), rows[i])],
                 SupportedRows(rows, v))

Tokens(rows) == [i \in DOMAIN rows |-> rows[i].tokens]
Seconds(rows) == [i \in DOMAIN rows |-> rows[i].seconds]

(* evaluate_capability_acceptance, one candidate: nothing to object to.    *)
PairsComplete(rows, v) ==
    /\ Paired(rows, v) # {}
    /\ Paired(rows, v) = Eligible(rows, v)
    /\ ~Duplicated(rows, v)
    /\ ~Ambiguous(rows, v)

QualityRetained(rows, v) ==
    /\ AtLeast(MeanQuality(rows, v), Policy.quality)
    /\ AtLeast(MeanNonConstraint(rows, v), Policy.quality)
    /\ \A i \in Paired(rows, v) : ~Regresses(BaselineOf(rows, i), rows[i])

Efficient(rows, v) ==
    LET cost == CostRatio(rows, v, Tokens(rows))
        latency == CostRatio(rows, v, Seconds(rows))
    IN /\ Policy.costNeeded => cost # Nothing /\ latency # Nothing
       /\ ~Exceeds(cost, Policy.cost)
       /\ ~Exceeds(latency, Policy.latency)

SemanticsRetained(rows, v) ==
    /\ SupportedRows(rows, v) = Paired(rows, v)
    /\ AtLeast(SemanticRetention(rows, v), Policy.semantic)
    /\ \A i \in Paired(rows, v) : ~SemanticRegression(BaselineOf(rows, i), rows[i])

(* Acceptance of all candidates; of none, it is "unsupported".             *)
CandidatesAccepted(rows, candidates) ==
    /\ candidates # {}
    /\ \A v \in candidates :
        /\ PairsComplete(rows, v)
        /\ QualityRetained(rows, v)
        /\ Efficient(rows, v)
        /\ Policy.reviewNeeded => SemanticsRetained(rows, v)

=============================================================================
