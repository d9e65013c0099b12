---------------------- MODULE ReleaseExperimentProofs ----------------------
(***************************************************************************)
(* Proofs about the release of an experiment, for every matrix, reviewers, *)
(* candidates, command lines and seeds, and any number of processes,       *)
(* crashes and reviews.                                                    *)
(***************************************************************************)
EXTENDS ReleaseExperiment, SequenceTheorems, FiniteSetTheorems, WellFoundedInduction, TLAPS

-----------------------------------------------------------------------------
(* What acceptance means for single pairs.                                 *)

(* A score that is no less in proportion is no less.                       *)
LEMMA ProportionKept ==
    ASSUME NEW x \in Nat \X Nat, NEW y \in Nat \X Nat, ~Below(Ratio(x, y), One)
    PROVE  ~Below(x, y)
<1>1. x # Nothing /\ y # Nothing
  BY NothingAssumption
<1>2. x[1] \in Nat /\ x[2] \in Nat /\ y[1] \in Nat /\ y[2] \in Nat
  OBVIOUS
<1>3. CASE y[1] = 0
  <2>1. y[1] * x[2] = 0 /\ x[1] * y[2] \in Nat
    BY <1>2, <1>3
  <2>2. QED
    BY <2>1 DEF Below
<1>4. CASE y[1] # 0
  <2>1. Ratio(x, y) = <<x[1] * y[2], x[2] * y[1]>>
    BY <1>1, <1>4 DEF Ratio
  <2>2. ~((x[1] * y[2]) * 1 < 1 * (x[2] * y[1]))
    BY <2>1 DEF Below, One
  <2>3. x[2] * y[1] = y[1] * x[2] /\ x[1] * y[2] \in Nat /\ x[2] * y[1] \in Nat
    BY <1>2
  <2>4. QED
    BY <2>2, <2>3 DEF Below
<1>5. QED
  BY <1>3, <1>4

(* Reviews that support a pair are the pair's own, and settled.            *)
LEMMA SettledReview ==
    ASSUME NEW row, NEW v, Reviewed(SemanticEvidence(row, v))
    PROVE  /\ v \in DOMAIN row.reviews
           /\ SemanticEvidence(row, v) = row.reviews[v]
           /\ row.reviews[v] # Nothing
           /\ row.reviews[v].status \in Settled
           /\ row.reviews[v].reviewers >= Policy.reviewers
<1>1. v \in DOMAIN row.reviews
  <2> SUFFICES ASSUME v \notin DOMAIN row.reviews PROVE FALSE
    OBVIOUS
  <2>1. CASE row.retention # Nothing
    <3>1. SemanticEvidence(row, v)
            = [status |-> "legacy", reviewers |-> 0, overall |-> row.retention]
      BY <2>1 DEF SemanticEvidence
    <3>2. QED
      BY <3>1 DEF Reviewed, Settled
  <2>2. CASE row.retention = Nothing
    <3>1. SemanticEvidence(row, v) = Nothing
      BY <2>2 DEF SemanticEvidence
    <3>2. QED
      BY <3>1 DEF Reviewed
  <2>3. QED
    BY <2>1, <2>2
<1>2. SemanticEvidence(row, v) = row.reviews[v]
  BY <1>1 DEF SemanticEvidence
<1>3. QED
  BY <1>1, <1>2 DEF Reviewed

(* In a file whose rows are all there once, rows are known by their keys.  *)
LEMMA RowsByKey ==
    ASSUME NEW p, p.rows \in Seq(Range(p.rows)), NEW passed, Complete(p, passed)
    PROVE  /\ \A i, j \in DOMAIN p.rows : p.rows[i].key = p.rows[j].key => i = j
           /\ DOMAIN p.rows \subseteq passed
           /\ \A key \in p.slots \X p.variants : \E i \in DOMAIN p.rows : p.rows[i].key = key
           /\ \A i \in DOMAIN p.rows : p.rows[i].key \in p.slots \X p.variants
<1>1. DOMAIN p.rows = 1 .. Len(p.rows) /\ Len(p.rows) \in Nat
  BY LenProperties
<1>2. ASSUME NEW i \in DOMAIN p.rows, NEW j \in DOMAIN p.rows, p.rows[i].key = p.rows[j].key
      PROVE  i = j
  <2>1. i \in Indexed(p.rows) /\ j \in Indexed(p.rows)
    BY DEF Complete
  <2>2. j <= i /\ i <= j
    BY <1>2, <2>1 DEF Indexed
  <2>3. QED
    BY <1>1, <2>2
<1>3. Present(p.rows) = p.slots \X p.variants
  BY DEF Complete, Expected
<1>4. QED
  BY <1>2, <1>3 DEF Complete, Present

(* A pair that acceptance does not object to.                              *)
LEMMA PairAccepted ==
    ASSUME NEW rows, NEW candidates, CandidatesAccepted(rows, candidates),
           NEW v \in candidates, NEW i \in Paired(rows, v)
    PROVE  /\ ~Regresses(BaselineOf(rows, i), rows[i])
           /\ Policy.reviewNeeded => Supported(BaselineOf(rows, i), rows[i])
<1>1. QualityRetained(rows, v) /\ (Policy.reviewNeeded => SemanticsRetained(rows, v))
  BY DEF CandidatesAccepted
<1>2. ~Regresses(BaselineOf(rows, i), rows[i])
  BY <1>1 DEF QualityRetained
<1>3. ASSUME Policy.reviewNeeded PROVE Supported(BaselineOf(rows, i), rows[i])
  BY <1>1, <1>3 DEF SemanticsRetained, SupportedRows
<1>4. QED
  BY <1>2, <1>3

(* Two rows that pass and pair, one of which does not regress, as reviewed *)
(* by the pair's own reviews.                                              *)
LEMMA PairNoWorse ==
    ASSUME NEW base, NEW row,
           base.success, row.success,
           base.contract \in {"pass", "absent"}, row.contract \in {"pass", "absent"},
           base.sampling = row.sampling, Variant(base) = "baseline",
           \A v \in DOMAIN base.reviews :
                base.reviews[v].status \in Settled => base.reviews[v].overall \in Nat \X Nat,
           \A v \in DOMAIN row.reviews :
                row.reviews[v].status \in Settled => row.reviews[v].overall \in Nat \X Nat,
           ~Regresses(base, row),
           Policy.reviewNeeded => Supported(base, row)
    PROVE  NoWorse(base, row)
<1>1. /\ row.fallback => base.fallback
      /\ \A c \in Components : ~ComponentRegression(base, row, c)
      /\ \A b \in Behaviors : ~BehaviorRegression(base, row, b)
      /\ ~SemanticRegression(base, row)
  BY DEF Regresses
<1>2. \A c \in Components : base.quality[c] # Nothing =>
        row.quality[c] # Nothing /\ ~Below(row.quality[c], base.quality[c])
  BY <1>1 DEF ComponentRegression, MissingEvidence, Lower
<1>3. \A b \in Behaviors : row.behavior[b] = TRUE => base.behavior[b] # FALSE
  BY <1>1 DEF BehaviorRegression
<1> DEFINE given == base.reviews[Variant(row)]
           gained == row.reviews["baseline"]
<1>4. ASSUME Policy.reviewNeeded
      PROVE  /\ Variant(row) \in DOMAIN base.reviews /\ "baseline" \in DOMAIN row.reviews
             /\ {given.status, gained.status} \subseteq {"accepted", "adjudicated"}
             /\ given.reviewers >= Policy.reviewers /\ gained.reviewers >= Policy.reviewers
             /\ ~Below(gained.overall, given.overall)
  <2>1. /\ Reviewed(SemanticEvidence(base, Variant(row)))
        /\ Reviewed(SemanticEvidence(row, "baseline"))
    BY <1>4 DEF Supported
  <2>2. /\ Variant(row) \in DOMAIN base.reviews
        /\ SemanticEvidence(base, Variant(row)) = given
        /\ given # Nothing /\ given.status \in Settled /\ given.reviewers >= Policy.reviewers
    BY <2>1, SettledReview
  <2>3. /\ "baseline" \in DOMAIN row.reviews
        /\ SemanticEvidence(row, "baseline") = gained
        /\ gained # Nothing /\ gained.status \in Settled /\ gained.reviewers >= Policy.reviewers
    BY <2>1, SettledReview
  <2>4. given.overall \in Nat \X Nat /\ gained.overall \in Nat \X Nat
    BY <2>2, <2>3
  <2>5. InformationRatio(base, row) = Ratio(gained.overall, given.overall)
    BY <2>2, <2>3 DEF InformationRatio, Overall
  <2>6. Ratio(gained.overall, given.overall) # Nothing
    <3>1. gained.overall # Nothing /\ given.overall # Nothing
      BY <2>4, NothingAssumption
    <3>2. Ratio(gained.overall, given.overall) \in Nat \X Nat
      <4>1. PICK a, b, c, d \in Nat : gained.overall = <<a, b>> /\ given.overall = <<c, d>>
        BY <2>4
      <4>2. a * d \in Nat /\ b * c \in Nat /\ One \in Nat \X Nat
        BY DEF One
      <4>3. QED
        BY <3>1, <4>1, <4>2 DEF Ratio
    <3>3. QED
      BY <3>2, NothingAssumption
  <2>7. ~Below(gained.overall, given.overall)
    BY <1>1, <2>4, <2>5, <2>6, ProportionKept DEF SemanticRegression
  <2>8. QED
    BY <2>2, <2>3, <2>7 DEF Settled
<1>5. QED
  BY <1>1, <1>2, <1>3, <1>4 DEF NoWorse

(* Whatever the rows: what acceptance accepts are pairs of which the       *)
(* candidate's row is no worse in anything.                                *)
LEMMA AcceptedPairsHold ==
    ASSUME NEW payload, Readable(payload), NEW candidates, MatrixHolds(payload, candidates)
    PROVE  PairsHold(payload, candidates)
<1> DEFINE p == Normalized(payload)
           rows == payload.rows
<1>1. p.rows = rows
  BY DEF Readable, Normalized
<1>2. rows \in Seq(Range(rows)) /\ DOMAIN rows = 1 .. Len(rows) /\ Len(rows) \in Nat
  BY LenProperties DEF Readable
<1>3. Complete(p, MatrixPass(rows)) /\ CandidatesAccepted(rows, candidates)
  BY <1>1 DEF MatrixHolds, CapabilityAccepted
<1>4. /\ \A i, j \in DOMAIN rows : rows[i].key = rows[j].key => i = j
      /\ \A i \in DOMAIN rows : rows[i].success /\ rows[i].contract \in {"pass", "absent"}
      /\ \A key \in p.slots \X p.variants : \E i \in DOMAIN rows : rows[i].key = key
      /\ \A i \in DOMAIN rows : rows[i].key \in p.slots \X p.variants
  <2> HIDE DEF p, rows
  <2>1. QED
    BY <1>1, <1>2, <1>3, RowsByKey DEF MatrixPass
<1>5. \A i \in DOMAIN rows :
        /\ rows[i].key = <<rows[i].key[1], rows[i].key[2]>>
        /\ \A v \in DOMAIN rows[i].reviews :
            rows[i].reviews[v].status \in Settled => rows[i].reviews[v].overall \in Nat \X Nat
  BY DEF Readable
<1>6. ASSUME NEW i \in DOMAIN rows, Cardinality(Baselines(rows, i)) = 1
      PROVE  \E b \in DOMAIN rows :
                /\ Baselines(rows, i) = {b}
                /\ BaselineOf(rows, i) = rows[b]
                /\ Variant(rows[b]) = "baseline"
                /\ PairKey(rows[b]) = PairKey(rows[i])
  <2>1. IsFiniteSet(Baselines(rows, i))
    <3>1. IsFiniteSet(DOMAIN rows)
      BY <1>2, FS_Interval
    <3>2. QED
      BY <3>1, FS_Subset DEF Baselines
  <2>2. PICK b : Baselines(rows, i) = {b}
    BY <1>6, <2>1, FS_Singleton
  <2>3. /\ b \in DOMAIN rows
        /\ Variant(rows[b]) = "baseline"
        /\ PairKey(rows[b]) = PairKey(rows[i])
    BY <2>2 DEF Baselines
  <2>4. BaselineIndex(rows, i) = b
    BY <2>2 DEF BaselineIndex
  <2>5. QED
    BY <2>2, <2>3, <2>4 DEF BaselineOf
<1>7. SUFFICES ASSUME NEW slot \in p.slots, NEW v \in candidates
               PROVE  \E b, i \in DOMAIN rows :
                        /\ {j \in DOMAIN rows : rows[j].key = <<slot, "baseline">>} = {b}
                        /\ {j \in DOMAIN rows : rows[j].key = <<slot, v>>} = {i}
                        /\ NoWorse(rows[b], rows[i])
  BY DEF PairsHold
<1> HIDE DEF p, rows
<1>8. Paired(rows, v) # {} /\ Paired(rows, v) = Eligible(rows, v)
  BY <1>3 DEF CandidatesAccepted, PairsComplete
<1>9. v \in p.variants /\ "baseline" \in p.variants
  <2>1. PICK i \in Paired(rows, v) : TRUE
    BY <1>8
  <2>2. i \in DOMAIN rows /\ Variant(rows[i]) = v /\ Cardinality(Baselines(rows, i)) = 1
    BY <2>1 DEF Paired
  <2>3. PICK b \in DOMAIN rows : Variant(rows[b]) = "baseline"
    BY <1>6, <2>2
  <2>4. QED
    BY <1>4, <2>2, <2>3 DEF Variant
<1>10. PICK i \in DOMAIN rows : rows[i].key = <<slot, v>>
  BY <1>4, <1>9
<1>11. PICK b \in DOMAIN rows : rows[b].key = <<slot, "baseline">>
  BY <1>4, <1>9
<1>12. i \in Paired(rows, v) /\ Cardinality(Baselines(rows, i)) = 1
  <2>1. i \in Eligible(rows, v)
    BY <1>10 DEF Eligible, Variant
  <2>2. QED
    BY <1>8, <2>1 DEF Paired
<1>13. BaselineOf(rows, i) = rows[b] /\ rows[b].sampling = rows[i].sampling
  <2>1. PICK c \in DOMAIN rows : /\ BaselineOf(rows, i) = rows[c]
                                 /\ Variant(rows[c]) = "baseline"
                                 /\ PairKey(rows[c]) = PairKey(rows[i])
    BY <1>6, <1>12
  <2>2. rows[c].key[1] = slot /\ rows[c].key[2] = "baseline" /\ rows[c].sampling = rows[i].sampling
    BY <1>10, <2>1 DEF PairKey, Variant
  <2>3. rows[c].key = <<slot, "baseline">>
    BY <1>5, <2>2
  <2>4. c = b
    BY <1>4, <1>11, <2>3
  <2>5. QED
    BY <2>1, <2>2, <2>4
<1>14. ~Regresses(rows[b], rows[i]) /\ (Policy.reviewNeeded => Supported(rows[b], rows[i]))
  BY <1>3, <1>12, <1>13, PairAccepted
<1>15. NoWorse(rows[b], rows[i])
  <2>1. Variant(rows[b]) = "baseline"
    BY <1>11 DEF Variant
  <2> DEFINE base == rows[b]
             row == rows[i]
  <2>2. /\ base.success /\ row.success
        /\ base.contract \in {"pass", "absent"} /\ row.contract \in {"pass", "absent"}
        /\ base.sampling = row.sampling /\ Variant(base) = "baseline"
        /\ ~Regresses(base, row)
        /\ Policy.reviewNeeded => Supported(base, row)
        /\ \A w \in DOMAIN base.reviews :
            base.reviews[w].status \in Settled => base.reviews[w].overall \in Nat \X Nat
        /\ \A w \in DOMAIN row.reviews :
            row.reviews[w].status \in Settled => row.reviews[w].overall \in Nat \X Nat
    BY <1>4, <1>5, <1>13, <1>14, <2>1
  <2> HIDE DEF base, row
  <2>3. NoWorse(base, row)
    BY <2>2, PairNoWorse
  <2>4. QED
    BY <2>3 DEF base, row
<1>16. /\ {j \in DOMAIN rows : rows[j].key = <<slot, "baseline">>} = {b}
       /\ {j \in DOMAIN rows : rows[j].key = <<slot, v>>} = {i}
  BY <1>4, <1>10, <1>11
<1>17. QED
  BY <1>15, <1>16

-----------------------------------------------------------------------------
(* Lists put together from lists.                                          *)

(* Induction over the natural numbers, for the members of a set.           *)
LEMMA NatSetInduction ==
    ASSUME NEW S, 0 \in S, \A n \in Nat : n \in S => n + 1 \in S
    PROVE  Nat \subseteq S
<1> DEFINE T == Nat \ S
           R == OpToRel(<, Nat)
<1>1. SUFFICES ASSUME T # {} PROVE FALSE
  OBVIOUS
<1>2. IsWellFoundedOn(R, Nat)
  BY NatLessThanWellFounded
<1>3. PICK x \in T : \A y \in T : <<y, x>> \notin R
  <2>1. T \subseteq Nat
    OBVIOUS
  <2> HIDE DEF R, T
  <2>2. QED
    BY <1>1, <1>2, <2>1, WFMin
<1>4. x \in Nat /\ x # 0
  BY <1>3
<1>5. x - 1 \in Nat /\ x - 1 < x /\ (x - 1) + 1 = x
  BY <1>4
<1>6. x - 1 \notin T
  BY <1>3, <1>4, <1>5 DEF OpToRel
<1>7. QED
  BY <1>3, <1>5, <1>6

(* The lists that FlattenSeq goes through: each adds one to the last.      *)
LEMMA FlattenSteps ==
    ASSUME NEW seqs, Len(seqs) \in Nat \ {0}
    PROVE  \E f : /\ FlattenSeq(seqs) = f[Len(seqs)]
                  /\ f[1] = seqs[1]
                  /\ \A n \in Nat \ {0} : n + 1 <= Len(seqs) => f[n + 1] = f[n] \o seqs[n + 1]
<1> DEFINE N == Len(seqs)
           Defines(f, m) == f = [i \in 1 .. m |-> IF i = 1 THEN seqs[i] ELSE f[i - 1] \o seqs[i]]
           S == {m \in Nat : \E f : Defines(f, m)}
<1>1. 0 \in S
  <2> DEFINE f == [i \in 1 .. 0 |-> seqs[i]]
  <2>1. Defines(f, 0)
    OBVIOUS
  <2>2. QED
    BY <2>1
<1>2. ASSUME NEW m \in Nat, m \in S PROVE m + 1 \in S
  <2>1. PICK f : Defines(f, m)
    BY <1>2
  <2> DEFINE Value == IF m + 1 = 1 THEN seqs[m + 1] ELSE f[m] \o seqs[m + 1]
             g == [i \in 1 .. m + 1 |-> IF i = m + 1 THEN Value ELSE f[i]]
  <2>2. ASSUME NEW n \in 1 .. m + 1
        PROVE  g[n] = IF n = 1 THEN seqs[n] ELSE g[n - 1] \o seqs[n]
    <3>1. CASE n = m + 1
      <4>1. g[n] = Value
        BY <3>1
      <4>2. n # 1 => n - 1 = m /\ g[n - 1] = f[m]
        BY <3>1
      <4>3. QED
        BY <3>1, <4>1, <4>2
    <3>2. CASE n # m + 1
      <4>1. n \in 1 .. m
        BY <3>2
      <4>2. f[n] = IF n = 1 THEN seqs[n] ELSE f[n - 1] \o seqs[n]
        BY <2>1, <4>1
      <4>3. g[n] = f[n]
        BY <3>2
      <4>4. n # 1 => g[n - 1] = f[n - 1]
        BY <4>1
      <4>5. QED
        BY <4>2, <4>3, <4>4
    <3>3. QED
      BY <3>1, <3>2
  <2>3. Defines(g, m + 1)
    BY <2>2
  <2> HIDE DEF g, Defines
  <2>4. QED
    BY <2>3
<1>3. N \in S
  <2> HIDE DEF S
  <2>1. Nat \subseteq S
    BY <1>1, <1>2, NatSetInduction
  <2>2. QED
    BY <2>1
<1> DEFINE f == CHOOSE f : Defines(f, N)
<1>4. FlattenSeq(seqs) = f[N]
  BY DEF FlattenSeq
<1>5. Defines(f, N)
  <2>1. \E g : Defines(g, N)
    BY <1>3
  <2> HIDE DEF Defines
  <2>2. QED
    BY <2>1
<1> HIDE DEF f
<1>6. f[1] = seqs[1]
  BY <1>5
<1>7. ASSUME NEW n \in Nat \ {0}, n + 1 <= N PROVE f[n + 1] = f[n] \o seqs[n + 1]
  <2>1. n + 1 \in 1 .. N /\ n + 1 # 1 /\ (n + 1) - 1 = n
    BY <1>7
  <2>2. f[n + 1] = f[(n + 1) - 1] \o seqs[n + 1]
    BY <1>5, <2>1
  <2>3. QED
    BY <2>1, <2>2
<1>8. QED
  BY <1>4, <1>6, <1>7

(* A list of lists over one set becomes a list over it.                    *)
LEMMA FlattenType ==
    ASSUME NEW T, NEW seqs \in Seq(Seq(T))
    PROVE  FlattenSeq(seqs) \in Seq(T)
<1>1. Len(seqs) \in Nat /\ \A i \in 1 .. Len(seqs) : seqs[i] \in Seq(T)
  BY LenProperties, ElementOfSeq
<1>2. CASE Len(seqs) = 0
  <2>1. seqs = << >>
    BY <1>2, EmptySeq
  <2>2. QED
    BY <1>2, <2>1, EmptySeq DEF FlattenSeq
<1>3. CASE Len(seqs) # 0
  <2>1. PICK f : /\ FlattenSeq(seqs) = f[Len(seqs)]
                 /\ f[1] = seqs[1]
                 /\ \A n \in Nat \ {0} : n + 1 <= Len(seqs) => f[n + 1] = f[n] \o seqs[n + 1]
    BY <1>1, <1>3, FlattenSteps
  <2> DEFINE S == {n \in Nat : n \in 1 .. Len(seqs) => f[n] \in Seq(T)}
  <2>2. 0 \in S
    OBVIOUS
  <2>3. ASSUME NEW n \in Nat, n \in S PROVE n + 1 \in S
    <3>1. SUFFICES ASSUME n + 1 \in 1 .. Len(seqs) PROVE f[n + 1] \in Seq(T)
      OBVIOUS
    <3>2. CASE n = 0
      BY <1>1, <1>3, <2>1, <3>2
    <3>3. CASE n # 0
      <4>1. f[n] \in Seq(T) /\ seqs[n + 1] \in Seq(T) /\ f[n + 1] = f[n] \o seqs[n + 1]
        <5>1. n \in Nat \ {0} /\ n \in 1 .. Len(seqs) /\ n + 1 <= Len(seqs)
          BY <1>1, <3>1, <3>3
        <5>2. QED
          BY <1>1, <2>1, <2>3, <3>1, <5>1
      <4>2. QED
        BY <4>1, ConcatProperties
    <3>4. QED
      BY <3>2, <3>3
  <2> HIDE DEF S
  <2>4. Nat \subseteq S
    BY <2>2, <2>3, NatSetInduction
  <2>5. QED
    BY <1>1, <1>3, <2>1, <2>4 DEF S
<1>4. QED
  BY <1>2, <1>3

-----------------------------------------------------------------------------
(* The steps of a release.                                                 *)
StepSet ==
    {<<"unit-tests">>, <<"matrix">>, <<"review-apply">>, <<"runtime">>, <<"release-report">>}
    \cup {<<c>> : c \in Range(CheckSteps)}
    \cup {Prepare(r) : r \in ReviewerSet}

LEMMA BuildStepsType ==
    /\ BuildSteps \in Seq(StepSet)
    /\ BuildSteps \in Seq(Range(BuildSteps))
    /\ Range(BuildSteps) \subseteq StepSet
<1> DEFINE checks == [i \in DOMAIN CheckSteps |-> <<CheckSteps[i]>>]
           prepares == [i \in DOMAIN Reviewers |-> Prepare(Reviewers[i])]
<1>1. checks \in Seq(StepSet)
  <2>1. Len(CheckSteps) \in Nat /\ DOMAIN CheckSteps = 1 .. Len(CheckSteps)
    BY ReleaseAssumption, LenProperties
  <2>2. \A i \in 1 .. Len(CheckSteps) : <<CheckSteps[i]>> \in StepSet
    BY <2>1 DEF StepSet, Range
  <2>3. checks \in [1 .. Len(CheckSteps) -> StepSet]
    BY <2>1, <2>2
  <2>4. QED
    BY <2>1, <2>3, SeqDef
<1>2. prepares \in Seq(StepSet)
  <2>1. Len(Reviewers) \in Nat /\ DOMAIN Reviewers = 1 .. Len(Reviewers)
    BY ReleaseAssumption, LenProperties
  <2>2. \A i \in 1 .. Len(Reviewers) : Prepare(Reviewers[i]) \in StepSet
    BY <2>1 DEF StepSet, ReviewerSet, Range
  <2>3. prepares \in [1 .. Len(Reviewers) -> StepSet]
    BY <2>1, <2>2
  <2>4. QED
    BY <2>1, <2>3, SeqDef
<1>3. /\ <<<<"unit-tests">>>> \in Seq(StepSet)
      /\ <<<<"matrix">>>> \in Seq(StepSet)
      /\ <<<<"review-apply">>, <<"runtime">>, <<"release-report">>>> \in Seq(StepSet)
  BY DEF StepSet
<1>4. BuildSteps \in Seq(StepSet)
  <2> HIDE DEF checks, prepares
  <2>1. BuildSteps = <<<<"unit-tests">>>> \o checks \o <<<<"matrix">>>> \o prepares
                        \o <<<<"review-apply">>, <<"runtime">>, <<"release-report">>>>
    BY DEF BuildSteps, checks, prepares
  <2>2. QED
    BY <1>1, <1>2, <1>3, <2>1, ConcatProperties
<1>5. QED
  BY <1>4, RangeOfSeq, SeqOfRange

(* The phase of every step, of which no two kinds share one.               *)
LEMMA StepPhases ==
    /\ PhaseOf(<<"unit-tests">>) = "verification"
    /\ \A c \in Range(CheckSteps) : PhaseOf(<<c>>) = "deterministic"
    /\ PhaseOf(<<"matrix">>) = "matrix"
    /\ \A r \in ReviewerSet : PhaseOf(Prepare(r)) = "review-prepare"
    /\ PhaseOf(<<"review-apply">>) = "review-apply"
    /\ PhaseOf(<<"runtime">>) = "runtime"
    /\ PhaseOf(<<"release-report">>) = "report"
BY ReleaseAssumption DEF PhaseOf, Prepare

LEMMA StepsOfPhases ==
    ASSUME NEW step \in Range(BuildSteps)
    PROVE  /\ PhaseOf(step) \in Phases
           /\ PhaseOf(step) = "deterministic" => step[1] \in Range(CheckSteps)
           /\ PhaseOf(step) = "review-prepare" => step[2] \in ReviewerSet
           /\ PhaseOf(step) = "report" => step = <<"release-report">>
<1>1. step \in StepSet
  BY BuildStepsType
<1>2. CASE step \in {<<"unit-tests">>, <<"matrix">>, <<"review-apply">>, <<"runtime">>,
                     <<"release-report">>}
  BY <1>2, StepPhases DEF Phases
<1>3. CASE \E c \in Range(CheckSteps) : step = <<c>>
  BY <1>3, StepPhases DEF Phases
<1>4. CASE \E r \in ReviewerSet : step = Prepare(r)
  BY <1>4, StepPhases DEF Phases, Prepare
<1>5. QED
  BY <1>1, <1>2, <1>3, <1>4 DEF StepSet

(* The steps that a process is given are steps of its phases.              *)
LEMMA SelectedType ==
    ASSUME NEW phases
    PROVE  SelectedSteps(phases) \in Seq({s \in Range(BuildSteps) : PhaseOf(s) \in phases})
<1> DEFINE T == {s \in Range(BuildSteps) : PhaseOf(s) \in phases}
           parts == [i \in DOMAIN BuildSteps |->
                        IF PhaseOf(BuildSteps[i]) \in phases THEN <<BuildSteps[i]>> ELSE <<>>]
<1>1. Len(BuildSteps) \in Nat /\ DOMAIN BuildSteps = 1 .. Len(BuildSteps)
  BY BuildStepsType, LenProperties
<1>2. ASSUME NEW i \in 1 .. Len(BuildSteps) PROVE parts[i] \in Seq(T)
  <2>1. BuildSteps[i] \in Range(BuildSteps)
    BY <1>1 DEF Range
  <2>2. CASE PhaseOf(BuildSteps[i]) \in phases
    BY <1>1, <2>1, <2>2
  <2>3. CASE PhaseOf(BuildSteps[i]) \notin phases
    BY <1>1, <2>3
  <2>4. QED
    BY <2>2, <2>3
<1>3. parts \in [1 .. Len(BuildSteps) -> Seq(T)]
  BY <1>1, <1>2
<1>4. parts \in Seq(Seq(T))
  <2> HIDE DEF parts, T
  <2>1. QED
    BY <1>1, <1>3, SeqDef
<1>5. QED
  <2> HIDE DEF T
  <2>1. SelectedSteps(phases) = FlattenSeq(parts)
    BY DEF SelectedSteps
  <2> HIDE DEF parts
  <2>2. QED
    BY <1>4, <2>1, FlattenType DEF T

(* The steps left begin with one that is not skipped and end as before.    *)
LEMMA LeftParts ==
    ASSUME NEW T, todo \in Seq(T)
    PROVE  /\ Left \in Seq(T)
           /\ Left = <<>> => \A i \in DOMAIN todo : Skips(todo[i])
           /\ Left # <<>> =>
                /\ ~Skips(Head(Left))
                /\ \E i \in 1 .. Len(todo) :
                    /\ Head(Left) = todo[i]
                    /\ \A j \in 1 .. i - 1 : Skips(todo[j])
                    /\ Tail(Left) = SubSeq(todo, i + 1, Len(todo))
<1> DEFINE first == {i \in DOMAIN todo : ~Skips(todo[i])}
<1>1. Len(todo) \in Nat /\ DOMAIN todo = 1 .. Len(todo) /\ \A i \in 1 .. Len(todo) : todo[i] \in T
  BY LenProperties, ElementOfSeq
<1>2. CASE first = {}
  <2>1. Left = <<>>
    BY <1>2 DEF Left
  <2>2. QED
    BY <1>2, <2>1, EmptySeq
<1>3. CASE first # {}
  <2> DEFINE m == Min(first)
  <2>1. m \in first /\ \A j \in first : m <= j
    <3> DEFINE R == OpToRel(<, Nat)
    <3>1. \A i \in first : i \in Nat
      BY <1>1
    <3>2. IsWellFoundedOn(R, Nat)
      BY NatLessThanWellFounded
    <3>3. PICK x \in first : \A y \in first : <<y, x>> \notin R
      <4>1. first \subseteq Nat
        BY <3>1
      <4> HIDE DEF R, first
      <4>2. QED
        BY <1>3, <3>2, <4>1, WFMin
    <3>4. ASSUME NEW y \in first PROVE x <= y
      <4>1. x \in Nat /\ y \in Nat
        BY <3>1
      <4>2. ~(y < x)
        BY <3>3, <4>1 DEF OpToRel
      <4>3. QED
        BY <4>1, <4>2
    <3>5. \E z \in first : \A y \in first : z =< y
      BY <3>4
    <3> HIDE DEF first
    <3>6. QED
      BY <3>5 DEF Min
  <2>2. Left = SubSeq(todo, m, Len(todo))
    BY <1>3 DEF Left
  <2>3. m \in 1 .. Len(todo) /\ ~Skips(todo[m]) /\ \A j \in 1 .. m - 1 : Skips(todo[j])
    <3>1. m \in 1 .. Len(todo) /\ ~Skips(todo[m])
      BY <1>1, <2>1
    <3>2. ASSUME NEW j \in 1 .. m - 1 PROVE Skips(todo[j])
      <4> HIDE DEF m
      <4>1. j \in 1 .. Len(todo) /\ j \in Nat /\ m \in Nat /\ ~(m <= j)
        BY <1>1, <3>1
      <4>2. j \notin first
        BY <2>1, <4>1
      <4>3. QED
        BY <1>1, <4>1, <4>2
    <3>3. QED
      BY <3>1, <3>2
  <2> HIDE DEF m
  <2>4. Head(Left) = todo[m] /\ Tail(Left) = SubSeq(todo, m + 1, Len(todo))
    BY <1>1, <2>2, <2>3, HeadTailOfSubSeq
  <2>5. Left \in Seq(T) /\ Left # <<>>
    <3>1. \A i \in m .. Len(todo) : todo[i] \in T
      BY <1>1, <2>3
    <3>2. Left \in Seq(T) /\ Len(Left) = Len(todo) - m + 1
      BY <1>1, <2>2, <2>3, <3>1, SubSeqProperties
    <3>3. QED
      BY <1>1, <2>3, <3>2, EmptySeq
  <2>6. QED
    BY <2>3, <2>4, <2>5
<1>4. QED
  BY <1>2, <1>3

-----------------------------------------------------------------------------
(* Sums.                                                                   *)

(* What a sum over a set goes through: one member after the other.         *)
SumsUp(sum, f, S) ==
    /\ SumFunctionOnSet(f, S) = sum[S]
    /\ sum[{}] = 0
    /\ \A s \in SUBSET S : s # {} => \E x \in s : sum[s] = f[x] + sum[s \ {x}]

LEMMA SumSteps ==
    ASSUME NEW S, IsFiniteSet(S), NEW f
    PROVE  \E sum : SumsUp(sum, f, S)
<1> DEFINE Pick(s) == CHOOSE x \in s : TRUE
           Upto(n) == {s \in SUBSET S : Cardinality(s) <= n}
           Value(g, s) == IF s = {} THEN 0 ELSE f[Pick(s)] + g[s \ {Pick(s)}]
           Defines(g, n) == g = [s \in Upto(n) |-> Value(g, s)]
           N == {n \in Nat : \E g : Defines(g, n)}
<1>1. \A s \in SUBSET S : IsFiniteSet(s) /\ Cardinality(s) \in Nat
  BY FS_Subset, FS_CardinalityType
<1>2. ASSUME NEW s \in SUBSET S, s # {}
      PROVE  /\ Pick(s) \in s /\ s \ {Pick(s)} \in SUBSET S
             /\ Cardinality(s \ {Pick(s)}) = Cardinality(s) - 1
             /\ Cardinality(s) # 0
  <2>1. Pick(s) \in s
    BY <1>2
  <2> HIDE DEF Pick
  <2>2. QED
    BY <1>1, <1>2, <2>1, FS_RemoveElement, FS_EmptySet
<1>3. 0 \in N
  <2> DEFINE g == [s \in Upto(0) |-> 0]
  <2>1. \A s \in Upto(0) : s = {}
    BY <1>1, FS_EmptySet
  <2>2. Defines(g, 0)
    BY <2>1
  <2>3. QED
    BY <2>2
<1>4. ASSUME NEW n \in Nat, n \in N PROVE n + 1 \in N
  <2>1. PICK g : Defines(g, n)
    BY <1>4
  <2> DEFINE h == [s \in Upto(n + 1) |-> IF s \in Upto(n) THEN g[s] ELSE Value(g, s)]
  <2>2. ASSUME NEW s \in Upto(n + 1) PROVE h[s] = Value(h, s)
    <3>1. s \in SUBSET S /\ h[s] = Value(g, s)
      <4>1. CASE s \in Upto(n)
        <5>1. h[s] = g[s]
          BY <4>1
        <5>2. g[s] = Value(g, s)
          <6> HIDE DEF Value, Upto
          <6>1. QED
            BY <2>1, <4>1
        <5>3. QED
          BY <5>1, <5>2
      <4>2. CASE s \notin Upto(n)
        BY <4>2
      <4>3. QED
        BY <4>1, <4>2
    <3>2. CASE s = {}
      BY <3>1, <3>2
    <3>3. CASE s # {}
      <4> DEFINE t == s \ {Pick(s)}
      <4>1. t \in SUBSET S /\ Cardinality(t) = Cardinality(s) - 1 /\ Cardinality(s) \in Nat
        BY <1>1, <1>2, <3>1, <3>3
      <4> HIDE DEF Pick, t
      <4>2. t \in Upto(n) /\ t \in Upto(n + 1)
        BY <4>1
      <4>3. h[t] = g[t]
        BY <4>2
      <4>4. QED
        BY <3>1, <3>3, <4>3 DEF t
    <3>4. QED
      BY <3>2, <3>3
  <2>3. Defines(h, n + 1)
    <3>1. h = [s \in Upto(n + 1) |-> h[s]]
      OBVIOUS
    <3> HIDE DEF h, Value, Upto
    <3>2. QED
      BY <2>2, <3>1
  <2> HIDE DEF h, Defines
  <2>4. QED
    BY <2>3
<1> DEFINE Sums(g) == g = [s \in SUBSET S |-> Value(g, s)]
<1>5. \E g : Sums(g)
  <2> DEFINE n == Cardinality(S)
  <2>1. n \in N
    <3>1. Nat \subseteq N
      <4> HIDE DEF N
      <4>1. QED
        BY <1>3, <1>4, NatSetInduction
    <3> HIDE DEF N
    <3>2. QED
      BY <1>1, <3>1
  <2>2. PICK g : Defines(g, n)
    BY <2>1
  <2>3. Upto(n) = SUBSET S
    BY <1>1, FS_Subset
  <2> HIDE DEF Value, Upto
  <2>4. QED
    BY <2>2, <2>3
<1> DEFINE sum == CHOOSE g : Sums(g)
<1>6. SumFunctionOnSet(f, S) = sum[S]
  BY DEF SumFunctionOnSet, FoldFunctionOnSet, MapThenFoldSet
<1>7. Sums(sum)
  <2> HIDE DEF Sums
  <2>1. QED
    BY <1>5
<1> HIDE DEF sum
<1>8. \A s \in SUBSET S : sum[s] = Value(sum, s)
  <2> HIDE DEF Value
  <2>1. QED
    BY <1>7
<1>9. sum[{}] = 0
  BY <1>8
<1>10. ASSUME NEW s \in SUBSET S, s # {} PROVE \E x \in s : sum[s] = f[x] + sum[s \ {x}]
  BY <1>2, <1>8, <1>10
<1>11. QED
  BY <1>6, <1>9, <1>10 DEF SumsUp

(* A sum of naturals is one.                                               *)
LEMMA SumNat ==
    ASSUME NEW S, IsFiniteSet(S), NEW f, \A x \in S : f[x] \in Nat
    PROVE  SumFunctionOnSet(f, S) \in Nat
<1>1. PICK sum : SumsUp(sum, f, S)
  BY SumSteps
<1> DEFINE N == {n \in Nat : \A s \in SUBSET S : Cardinality(s) = n => sum[s] \in Nat}
<1>2. \A s \in SUBSET S : IsFiniteSet(s) /\ Cardinality(s) \in Nat
  BY FS_Subset, FS_CardinalityType
<1>3. 0 \in N
  BY <1>1, <1>2, FS_EmptySet DEF SumsUp
<1>4. ASSUME NEW n \in Nat, n \in N PROVE n + 1 \in N
  <2>1. SUFFICES ASSUME NEW s \in SUBSET S, Cardinality(s) = n + 1 PROVE sum[s] \in Nat
    OBVIOUS
  <2>2. s # {}
    BY <2>1, FS_EmptySet
  <2>3. PICK x \in s : sum[s] = f[x] + sum[s \ {x}]
    BY <1>1, <2>2 DEF SumsUp
  <2>4. s \ {x} \in SUBSET S /\ Cardinality(s \ {x}) = n
    <3>1. IsFiniteSet(s)
      BY <1>2
    <3>2. Cardinality(s \ {x}) = Cardinality(s) - 1
      BY <3>1, FS_RemoveElement
    <3>3. QED
      BY <2>1, <3>2
  <2>5. sum[s \ {x}] \in Nat
    BY <1>4, <2>4
  <2>6. QED
    BY <2>3, <2>5
<1>5. Nat \subseteq N
  <2> HIDE DEF N
  <2>1. QED
    BY <1>3, <1>4, NatSetInduction
<1>6. QED
  BY <1>1, <1>2, <1>5 DEF SumsUp

(* A list of one.                                                          *)
LEMMA OneElement ==
    ASSUME NEW T, NEW x \in T
    PROVE  <<x>> \in Seq(T)
OBVIOUS

-----------------------------------------------------------------------------
(* The inductive invariant: Control is of the process, the other parts are *)
(* of the files, whatever is on disk.                                      *)
ControlTyped ==
    /\ seeds \in [ReviewerSet -> Seeds \cup {Nothing}]
    /\ saved \in States \cup {Nothing}
    /\ pc \in {"down", "running"}
    /\ held \in States \cup {Nothing}
    /\ opts \in Options \cup {Nothing}
    /\ todo \in Seq(Range(BuildSteps))
    /\ failed \in BOOLEAN
    /\ starts \in 0 .. MaxStarts
    /\ faults \in 0 .. MaxFaults
    /\ strayed \in BOOLEAN
    /\ pc = "down" => held = Nothing /\ opts = Nothing
    /\ pc = "running" => held \in States /\ opts \in Options /\ starts # 0
    /\ \A i \in DOMAIN todo : PhaseOf(todo[i]) = "review-prepare" =>
        \A r \in ReviewerSet : seeds[r] \in Seeds
    /\ opts # Nothing /\ opts.adjudicated => disk.adjudications # Nothing

(* The files there are.                                                    *)
Filed(d) ==
    /\ d = [checks |-> d.checks, results |-> d.results, answers |-> d.answers,
            packets |-> d.packets, mappings |-> d.mappings,
            adjudications |-> d.adjudications, reviewed |-> d.reviewed,
            runtime |-> d.runtime, page |-> d.page, summary |-> d.summary]
    /\ d.checks \in [Range(CheckSteps) -> {Nothing, "pass", "fail"}]
    /\ d.answers \in [Keys -> Texts \cup {Nothing}]
    /\ d.packets = [r \in ReviewerSet |-> d.packets[r]]
    /\ d.mappings = [r \in ReviewerSet |-> d.mappings[r]]

(* Answers are of their keys, and every row that succeeded has one.        *)
Answered(d) ==
    /\ \A k \in Keys : d.answers[k] # Nothing => d.answers[k][1] = k
    /\ d.results # Nothing =>
        /\ d.results = [slots |-> d.results.slots, variants |-> d.results.variants,
                        rows |-> d.results.rows, review |-> d.results.review]
        /\ d.results.rows \in Seq(Range(d.results.rows))
        /\ \A i \in DOMAIN d.results.rows :
            LET row == d.results.rows[i]
            IN /\ {"scored", "reviews", "retention"} \subseteq DOMAIN row
               /\ row.key \in Keys /\ row.sampling = Sample.sampling
               /\ row.reviews = Sample.reviews
               /\ row.success => d.answers[row.key] # Nothing

(* Who wrote the text that a reviewer sees on a side.                      *)
Writer(seed, id, side) == <<id[1][1], IF side = seed[id] THEN id[2] ELSE "baseline">>

(* Packets and keys are of the reviewer's one seed.                        *)
Packed(d) ==
    \A r \in ReviewerSet :
        /\ d.packets[r] # Nothing =>
            /\ seeds[r] \in Seeds
            /\ DOMAIN d.packets[r] \subseteq ReviewIds
            /\ \A id \in DOMAIN d.packets[r], s \in Sides :
                LET side == d.packets[r][id][s]
                IN /\ side = [text |-> side.text, scores |-> side.scores]
                   /\ side.text \in Texts /\ side.text[1] = Writer(seeds[r], id, s)
                   /\ side.scores \in Scores
        /\ d.mappings[r] # Nothing =>
            /\ seeds[r] \in Seeds
            /\ DOMAIN d.mappings[r] \subseteq ReviewIds
            /\ \A id \in DOMAIN d.mappings[r] : d.mappings[r][id] = seeds[r][id]

Adjudicated(d) ==
    d.adjudications # Nothing =>
        /\ DOMAIN d.adjudications \subseteq ReviewIds
        /\ \A id \in DOMAIN d.adjudications :
            /\ d.adjudications[id].candidate.scores \in Scores
            /\ d.adjudications[id].baseline.scores \in Scores

(* The reviews of a row are of what its own variant wrote.                 *)
Credited(row) ==
    /\ row.key = <<row.key[1], row.key[2]>>
    /\ \A v \in DOMAIN row.reviews :
        /\ \A text \in row.reviews[v].scored : text[1] = row.key
        /\ row.reviews[v].status \in Settled => row.reviews[v].overall \in Nat \X Nat

ReviewFiled(d) ==
    d.reviewed # Nothing =>
        /\ d.reviewed = [slots |-> d.reviewed.slots, variants |-> d.reviewed.variants,
                         rows |-> d.reviewed.rows, review |-> d.reviewed.review]
        /\ d.reviewed.rows \in Seq(Range(d.reviewed.rows))
        /\ \A i \in DOMAIN d.reviewed.rows : Credited(d.reviewed.rows[i])
        /\ d.reviewed.review.disputed \subseteq ReviewIds

Summarised(d) ==
    d.summary # Nothing =>
        /\ d.summary.status \in {"complete", "incomplete"}
        /\ d.summary.status = "complete" => PairsHold(d.summary.matrix, Candidates)

FilesSound(d) ==
    /\ Filed(d)
    /\ Answered(d)
    /\ Packed(d)
    /\ Adjudicated(d)
    /\ ReviewFiled(d)
    /\ Summarised(d)

ReleaseInv == ControlTyped /\ FilesSound(disk)

-----------------------------------------------------------------------------
(* What the children leave.                                                *)
LEMMA OutcomesByPhase ==
    ASSUME NEW step \in Range(BuildSteps), NEW outcome \in Outcomes(step)
    PROVE  \/ outcome = KilledWith(disk)
           \/ /\ PhaseOf(step) = "verification"
              /\ \E ok \in BOOLEAN : outcome = Outcome(disk, ok)
           \/ PhaseOf(step) = "deterministic" /\ step[1] \in Range(CheckSteps)
              /\ outcome \in CheckOutcomes(step[1])
           \/ PhaseOf(step) = "matrix" /\ outcome \in MatrixOutcomes
           \/ PhaseOf(step) = "review-prepare" /\ step[2] \in ReviewerSet
              /\ outcome \in PrepareOutcomes(step[2])
           \/ PhaseOf(step) = "review-apply" /\ outcome \in ApplyOutcomes
           \/ PhaseOf(step) = "runtime" /\ outcome \in RuntimeOutcomes
           \/ PhaseOf(step) = "report" /\ step = <<"release-report">>
              /\ outcome \in ReportOutcomes
<1>1. PhaseOf(step) \in Phases
  BY StepsOfPhases
<1>2. QED
  BY <1>1, StepsOfPhases DEF Outcomes, Phases

(* Files that differ in none that matter.                                  *)
LEMMA CheckSound ==
    ASSUME FilesSound(disk), NEW c \in Range(CheckSteps), NEW outcome \in CheckOutcomes(c)
    PROVE  /\ FilesSound(outcome.disk)
           /\ outcome.disk = [disk EXCEPT !.checks = outcome.disk.checks]
<1>1. PICK v \in {"pass", "fail"} : outcome.disk = [disk EXCEPT !.checks[c] = v]
  BY DEF CheckOutcomes, Outcome
<1> DEFINE e == outcome.disk
<1>2. /\ e = [checks |-> [disk.checks EXCEPT ![c] = v], results |-> disk.results,
              answers |-> disk.answers, packets |-> disk.packets, mappings |-> disk.mappings,
              adjudications |-> disk.adjudications, reviewed |-> disk.reviewed,
              runtime |-> disk.runtime, page |-> disk.page, summary |-> disk.summary]
      /\ e = [disk EXCEPT !.checks = e.checks]
  BY <1>1 DEF FilesSound, Filed
<1> HIDE DEF e
<1>3. Filed(e)
  <2>1. e.checks \in [Range(CheckSteps) -> {Nothing, "pass", "fail"}]
    BY <1>2 DEF FilesSound, Filed
  <2>2. QED
    BY <1>2, <2>1 DEF FilesSound, Filed
<1>4. Answered(e) /\ Packed(e) /\ Adjudicated(e) /\ ReviewFiled(e) /\ Summarised(e)
  BY <1>2 DEF FilesSound, Answered, Packed, Adjudicated, ReviewFiled, Summarised
<1>5. QED
  BY <1>2, <1>3, <1>4 DEF FilesSound, e

LEMMA RuntimeSound ==
    ASSUME FilesSound(disk), NEW outcome \in RuntimeOutcomes
    PROVE  /\ FilesSound(outcome.disk)
           /\ outcome.disk = [disk EXCEPT !.runtime = outcome.disk.runtime]
<1>1. \E file : outcome.disk = [disk EXCEPT !.runtime = file]
  <2> DEFINE old == IF opts.resume /\ disk.runtime # Nothing THEN disk.runtime.rows ELSE <<>>
             File(rows) == [slots |-> {"task"}, variants |-> {"full-v2"}, rows |-> rows]
             With(rows) == [disk EXCEPT !.runtime = File(rows)]
             Row(contract) == [Sample EXCEPT !.key = <<"task", "full-v2">>,
                                             !.contract = contract, !.config = opts.config]
  <2>1. \/ outcome = KilledWith(With(old)) \/ outcome = Outcome(With(old), TRUE)
        \/ \E contract \in {"pass", "fail"} :
                outcome = Outcome(With(<<Row(contract)>>), contract = "pass")
    BY DEF RuntimeOutcomes
  <2> HIDE DEF old, Row, With
  <2>2. \E rows : outcome.disk = With(rows)
    <3>1. CASE outcome = KilledWith(With(old)) \/ outcome = Outcome(With(old), TRUE)
      BY <3>1 DEF KilledWith, Outcome
    <3>2. ASSUME NEW contract \in {"pass", "fail"},
                 outcome = Outcome(With(<<Row(contract)>>), contract = "pass")
          PROVE  \E rows : outcome.disk = With(rows)
      BY <3>2 DEF Outcome
    <3>3. QED
      BY <2>1, <3>1, <3>2
  <2>3. PICK rows : outcome.disk = With(rows)
    BY <2>2
  <2> HIDE DEF File
  <2>4. QED
    BY <2>3 DEF With
<1>2. PICK file : outcome.disk = [disk EXCEPT !.runtime = file]
  BY <1>1
<1> DEFINE e == outcome.disk
<1>3. /\ e = [checks |-> disk.checks, results |-> disk.results, answers |-> disk.answers,
              packets |-> disk.packets, mappings |-> disk.mappings,
              adjudications |-> disk.adjudications, reviewed |-> disk.reviewed,
              runtime |-> file, page |-> disk.page, summary |-> disk.summary]
      /\ e = [disk EXCEPT !.runtime = e.runtime]
  BY <1>2 DEF FilesSound, Filed
<1> HIDE DEF e
<1>4. Filed(e)
  BY <1>3 DEF FilesSound, Filed
<1>5. Answered(e) /\ Packed(e) /\ Adjudicated(e) /\ ReviewFiled(e) /\ Summarised(e)
  BY <1>3 DEF FilesSound, Answered, Packed, Adjudicated, ReviewFiled, Summarised
<1>6. QED
  BY <1>3, <1>4, <1>5 DEF FilesSound, e

(* The rows that a matrix run leaves are new ones of this process, or of   *)
(* failures, or rows that were there.                                      *)
LEMMA MatrixRows ==
    ASSUME ControlTyped, FilesSound(disk), pc = "running", NEW outcome \in MatrixOutcomes
    PROVE  LET e == outcome.disk
               rows == e.results.rows
           IN /\ e = [disk EXCEPT !.results = e.results, !.answers = e.answers]
              /\ e.results = [slots |-> e.results.slots, variants |-> e.results.variants,
                              rows |-> rows, review |-> e.results.review]
              /\ rows \in Seq(Range(rows))
              /\ e.answers \in [Keys -> Texts \cup {Nothing}]
              /\ \A k \in Keys : e.answers[k] \in {disk.answers[k], Text(k)}
              /\ \A i \in DOMAIN rows :
                    \/ \E k \in Keys, end \in Succeeding : rows[i] = RowOf(k, end) /\ e.answers[k] = Text(k)
                    \/ \E k \in Keys, end \in JobEndings \ Succeeding : rows[i] = RowOf(k, end)
                    \/ /\ disk.results # Nothing
                       /\ \E j \in DOMAIN disk.results.rows : rows[i] = disk.results.rows[j]
                       /\ rows[i].success /\ rows[i].config = opts.config
                            => e.answers[rows[i].key] = disk.answers[rows[i].key]
<1> DEFINE old == IF opts.resume /\ disk.results # Nothing THEN disk.results.rows ELSE <<>>
           Old(k) == {i \in DOMAIN old : old[i].key = k}
           kept == {k \in Keys : \E i \in Old(k) : old[i].success /\ old[i].config = opts.config}
           Row(ran, k) ==
            IF k \in DOMAIN ran /\ ran[k] \in JobEndings THEN <<RowOf(k, ran[k])>>
            ELSE [i \in 1 .. Cardinality(Old(k)) |-> old[CHOOSE j \in Old(k) : TRUE]]
           Rows(ran) == FlattenSeq([i \in DOMAIN KeyOrder |-> Row(ran, KeyOrder[i])])
           Answers(ran) == [k \in Keys |->
            IF k \in DOMAIN ran /\ ran[k] \in Scoring \cup {"overwritten", "unsaved"}
            THEN Text(k) ELSE disk.answers[k]]
           Written(ran) == [disk EXCEPT
            !.results = [slots |-> {k[1] : k \in Keys}, variants |-> {k[2] : k \in Keys},
                         rows |-> Rows(ran), review |-> Nothing],
            !.answers = Answers(ran)]
           Ran(also) == {ran \in [Keys \ kept -> JobEndings \cup also] :
                            \A k \in DOMAIN ran : ran[k] \in Endings[k] \cup also}
           ended == Ran({})
           cut == Ran({"unsaved", "waiting"}) \ ended
<1>1. PICK ran \in [Keys \ kept -> JobEndings \cup {"unsaved", "waiting"}] :
            outcome.disk = Written(ran)
  <2> DEFINE all == [Keys \ kept -> JobEndings \cup {"unsaved", "waiting"}]
  <2>1. \/ \E ran \in ended :
            outcome = Outcome(Written(ran), \A k \in DOMAIN ran : ran[k] \in Succeeding)
        \/ \E ran \in cut : outcome = KilledWith(Written(ran))
    BY DEF MatrixOutcomes
  <2>2. ended \subseteq all /\ cut \subseteq all
    <3> HIDE DEF kept
    <3>1. [Keys \ kept -> JobEndings \cup {}] \subseteq all
      OBVIOUS
    <3>2. QED
      BY <3>1
  <2> HIDE DEF Written, ended, cut, all
  <2>3. ASSUME NEW ran \in ended,
               outcome = Outcome(Written(ran), \A k \in DOMAIN ran : ran[k] \in Succeeding)
        PROVE  \E run \in all : outcome.disk = Written(run)
    <3>1. outcome.disk = Written(ran)
      BY <2>3 DEF Outcome
    <3>2. QED
      BY <2>2, <3>1
  <2>4. ASSUME NEW ran \in cut, outcome = KilledWith(Written(ran))
        PROVE  \E run \in all : outcome.disk = Written(run)
    <3>1. outcome.disk = Written(ran)
      BY <2>4 DEF KilledWith
    <3>2. QED
      BY <2>2, <3>1
  <2>5. \E ran \in all : outcome.disk = Written(ran)
    BY <2>1, <2>3, <2>4
  <2>6. QED
    BY <2>5 DEF all
<1> DEFINE e == outcome.disk
           lasting == {j \in DOMAIN old : old[j].success /\ old[j].config = opts.config
                                            => old[j].key \notin DOMAIN ran}
           T == {RowOf(k, ran[k]) : k \in {k \in DOMAIN ran : ran[k] \in JobEndings}}
                \cup {old[j] : j \in lasting}
<1>2. /\ e.results = [slots |-> e.results.slots, variants |-> e.results.variants,
                      rows |-> e.results.rows, review |-> e.results.review]
      /\ e.results.rows = Rows(ran)
      /\ e.answers = Answers(ran)
      /\ e = [disk EXCEPT !.results = e.results, !.answers = e.answers]
  <2> DEFINE slots == {k[1] : k \in Keys}
             variants == {k[2] : k \in Keys}
             file == [slots |-> slots, variants |-> variants, rows |-> Rows(ran),
                      review |-> Nothing]
  <2>1. e = [disk EXCEPT !.results = file, !.answers = Answers(ran)]
    BY <1>1
  <2> HIDE DEF Rows, Answers, slots, variants
  <2>2. /\ file = [slots |-> file.slots, variants |-> file.variants, rows |-> file.rows,
                   review |-> file.review]
        /\ file.rows = Rows(ran)
    OBVIOUS
  <2> HIDE DEF e, file
  <2>3. Filed(disk)
    BY DEF FilesSound
  <2>4. e.results = file /\ e.answers = Answers(ran)
    BY <2>1, <2>3 DEF Filed
  <2>5. QED
    BY <2>1, <2>2, <2>4
<1>3. old \in Seq(Range(old)) /\ Len(old) \in Nat /\ DOMAIN old = 1 .. Len(old)
  <2>1. CASE opts.resume /\ disk.results # Nothing
    <3>1. old = disk.results.rows
      BY <2>1
    <3>2. old \in Seq(Range(old))
      BY <2>1, <3>1 DEF FilesSound, Answered
    <3> HIDE DEF old
    <3>3. QED
      BY <3>2, LenProperties
  <2>2. CASE ~(opts.resume /\ disk.results # Nothing)
    <3>1. old = <<>>
      BY <2>2
    <3> HIDE DEF old
    <3>2. old \in Seq(Range(old))
      BY <3>1, EmptySeq
    <3>3. QED
      BY <3>2, LenProperties
  <2>3. QED
    BY <2>1, <2>2
<1>4. ASSUME NEW k \in Keys PROVE Row(ran, k) \in Seq(T)
  <2>1. CASE k \in DOMAIN ran /\ ran[k] \in JobEndings
    <3>1. RowOf(k, ran[k]) \in T
      BY <2>1
    <3>2. Row(ran, k) = <<RowOf(k, ran[k])>>
      BY <2>1
    <3> HIDE DEF T, Row
    <3>3. QED
      BY <3>1, <3>2, OneElement
  <2>3. CASE ~(k \in DOMAIN ran /\ ran[k] \in JobEndings)
    <3> DEFINE n == Cardinality(Old(k))
               row == old[CHOOSE j \in Old(k) : TRUE]
    <3>1. Row(ran, k) = [i \in 1 .. n |-> row]
      BY <2>3
    <3>2. IsFiniteSet(Old(k))
      <4>1. IsFiniteSet(DOMAIN old)
        <5> DEFINE m == Len(old)
        <5>1. m \in Int /\ DOMAIN old = 1 .. m
          BY <1>3
        <5> HIDE DEF old, m
        <5>2. IsFiniteSet(1 .. m)
          BY <5>1, FS_Interval
        <5>3. QED
          BY <5>1, <5>2
      <4>2. Old(k) \subseteq DOMAIN old
        OBVIOUS
      <4> HIDE DEF Old, old
      <4>3. QED
        BY <4>1, <4>2, FS_Subset
    <3>3. n \in Nat /\ (n # 0 => Old(k) # {})
      <4> HIDE DEF Old
      <4>1. QED
        BY <3>2, FS_CardinalityType, FS_EmptySet
    <3>4. Old(k) # {} => row \in T
      <4> DEFINE one == CHOOSE j \in Old(k) : TRUE
      <4>1. SUFFICES ASSUME Old(k) # {} PROVE row \in T
        OBVIOUS
      <4>2. one \in Old(k)
        <5> HIDE DEF Old
        <5>1. QED
          BY <4>1
      <4>3. one \in DOMAIN old /\ old[one].key = k
        BY <4>2
      <4>4. old[one].success /\ old[one].config = opts.config => k \in kept
        <5> HIDE DEF one
        <5>1. QED
          BY <4>2
      <4>5. DOMAIN ran = Keys \ kept
        <5> HIDE DEF kept
        <5>1. QED
          OBVIOUS
      <4>6. one \in lasting
        <5> HIDE DEF one, kept, old
        <5>1. QED
          BY <4>3, <4>4, <4>5
      <4>7. row = old[one]
        OBVIOUS
      <4> HIDE DEF one, lasting, row, old
      <4>8. QED
        BY <4>6, <4>7 DEF T
    <3>5. [i \in 1 .. n |-> row] \in [1 .. n -> T]
      <4> HIDE DEF n, row, T
      <4>1. \A i \in 1 .. n : row \in T
        BY <3>3, <3>4
      <4>2. QED
        BY <4>1
    <3> HIDE DEF n, row, T, Row
    <3>6. QED
      BY <3>1, <3>3, <3>5, SeqDef
  <2>4. QED
    BY <2>1, <2>3
<1>5. Rows(ran) \in Seq(T)
  <2> DEFINE parts == [i \in DOMAIN KeyOrder |-> Row(ran, KeyOrder[i])]
  <2>1. Len(KeyOrder) \in Nat /\ DOMAIN KeyOrder = 1 .. Len(KeyOrder)
    BY ReleaseAssumption, LenProperties
  <2>2. \A i \in DOMAIN KeyOrder : KeyOrder[i] \in Keys
    BY DEF Keys, Range
  <2>3. parts \in [1 .. Len(KeyOrder) -> Seq(T)]
    <3> HIDE DEF Row, T
    <3>1. QED
      BY <1>4, <2>1, <2>2
  <2>4. parts \in Seq(Seq(T))
    <3> HIDE DEF parts, T
    <3>1. QED
      BY <2>1, <2>3, SeqDef
  <2> HIDE DEF parts, T
  <2>5. FlattenSeq(parts) \in Seq(T)
    BY <2>4, FlattenType
  <2>6. QED
    BY <2>5 DEF parts
<1>6. e.results.rows = Rows(ran)
  BY <1>2
<1>7. /\ e.results.rows \in Seq(T)
      /\ e.results.rows \in Seq(Range(e.results.rows))
      /\ Range(e.results.rows) \subseteq T
  <2> HIDE DEF T, Rows, e
  <2>1. QED
    BY <1>5, <1>6, RangeOfSeq, SeqOfRange
<1>8. /\ e.answers \in [Keys -> Texts \cup {Nothing}]
      /\ \A k \in Keys : e.answers[k] \in {disk.answers[k], Text(k)}
      /\ \A k \in DOMAIN ran : ran[k] \in Succeeding => k \in Keys /\ e.answers[k] = Text(k)
      /\ \A k \in Keys : k \notin DOMAIN ran => e.answers[k] = disk.answers[k]
  <2>1. \A k \in Keys : Text(k) \in Texts
    BY DEF ControlTyped, Text, Texts
  <2>2. \A k \in Keys : disk.answers[k] \in Texts \cup {Nothing}
    BY DEF FilesSound, Filed
  <2> DEFINE after == Answers(ran)
  <2>3. /\ after = [k \in Keys |-> after[k]]
        /\ \A k \in Keys : after[k] \in {disk.answers[k], Text(k)}
        /\ \A k \in DOMAIN ran : ran[k] \in Succeeding => k \in Keys /\ after[k] = Text(k)
        /\ \A k \in Keys : k \notin DOMAIN ran => after[k] = disk.answers[k]
    <3> HIDE DEF kept
    <3>1. DOMAIN ran = Keys \ kept
      OBVIOUS
    <3>2. QED
      BY <3>1 DEF Scoring
  <2>4. e.answers = after
    BY <1>2
  <2> HIDE DEF after, e
  <2>5. after \in [Keys -> Texts \cup {Nothing}]
    BY <2>1, <2>2, <2>3
  <2>6. QED
    BY <2>3, <2>4, <2>5
<1>9. ASSUME NEW i \in DOMAIN e.results.rows
      PROVE  LET row == e.results.rows[i]
             IN \/ \E k \in Keys, end \in Succeeding : row = RowOf(k, end) /\ e.answers[k] = Text(k)
                \/ \E k \in Keys, end \in JobEndings \ Succeeding : row = RowOf(k, end)
                \/ /\ disk.results # Nothing
                   /\ \E j \in DOMAIN disk.results.rows : row = disk.results.rows[j]
                   /\ row.success /\ row.config = opts.config
                        => e.answers[row.key] = disk.answers[row.key]
  <2>1. e.results.rows[i] \in T
    <3> HIDE DEF T, e
    <3>1. QED
      BY <1>7 DEF Range
  <2>2. \A j \in DOMAIN old : disk.results # Nothing /\ j \in DOMAIN disk.results.rows
                                /\ old[j] = disk.results.rows[j]
    OBVIOUS
  <2> HIDE DEF old, e
  <2> DEFINE row == e.results.rows[i]
  <2>3. \/ \E k \in DOMAIN ran : ran[k] \in JobEndings /\ row = RowOf(k, ran[k])
        \/ \E j \in lasting : row = old[j]
    BY <2>1
  <2>8. \A j \in DOMAIN disk.results.rows : disk.results # Nothing => disk.results.rows[j].key \in Keys
    BY DEF FilesSound, Answered
  <2>9. DOMAIN ran \subseteq Keys
    <3> HIDE DEF kept
    <3>1. QED
      BY <1>1
  <2> HIDE DEF row
  <2>4. CASE \E k \in DOMAIN ran : ran[k] \in JobEndings /\ row = RowOf(k, ran[k])
    <3>1. PICK k \in DOMAIN ran : ran[k] \in JobEndings /\ row = RowOf(k, ran[k])
      BY <2>4
    <3>2. CASE ran[k] \in Succeeding
      <4>1. k \in Keys /\ e.answers[k] = Text(k)
        BY <1>8, <3>1, <3>2
      <4>2. QED
        BY <3>1, <3>2, <4>1 DEF row
    <3>3. CASE ran[k] \notin Succeeding
      BY <2>9, <3>1, <3>3 DEF row
    <3>4. QED
      BY <3>2, <3>3
  <2>6. CASE \E j \in lasting : row = old[j]
    <3>1. PICK j \in lasting : row = old[j]
      BY <2>6
    <3>2. /\ disk.results # Nothing /\ j \in DOMAIN disk.results.rows
          /\ row = disk.results.rows[j] /\ row.key \in Keys
      BY <2>2, <2>8, <3>1
    <3>3. row.success /\ row.config = opts.config => e.answers[row.key] = disk.answers[row.key]
      BY <1>8, <3>1, <3>2
    <3>4. QED
      BY <3>2, <3>3 DEF row
  <2>7. QED
    BY <2>3, <2>4, <2>6
<1>10. QED
  <2> HIDE DEF Rows, Answers, Written
  <2>1. QED
    BY <1>2, <1>7, <1>8, <1>9

(* What the row of a job holds.                                            *)
LEMMA RowFields ==
    ASSUME NEW k, NEW end
    PROVE  LET row == RowOf(k, end)
           IN /\ {"scored", "reviews", "retention"} \subseteq DOMAIN row
              /\ row.key = k /\ row.sampling = Sample.sampling
              /\ row.reviews = Sample.reviews /\ row.config = opts.config
              /\ row.success = (end \in Succeeding)
              /\ end \in Scoring => row.answer = Text(k)
<1> DEFINE contract == CASE end = "passed" -> "pass" [] end = "rejected" -> "fail"
                         [] OTHER -> "absent"
           answer == IF end \in Scoring THEN Text(k) ELSE Nothing
           success == end \in Succeeding
           scored == end \in Scoring
<1>1. RowOf(k, end) = [Sample EXCEPT !.key = k, !.config = opts.config,
                          !.success = success, !.scored = scored,
                          !.contract = contract, !.answer = answer]
  BY DEF RowOf
<1>2. end \in Scoring => answer = Text(k)
  OBVIOUS
<1> HIDE DEF contract, answer, success, scored
<1>3. QED
  BY <1>1, <1>2, ReleaseAssumption DEF success

LEMMA MatrixSound ==
    ASSUME ControlTyped, FilesSound(disk), pc = "running", NEW outcome \in MatrixOutcomes
    PROVE  FilesSound(outcome.disk)
<1> DEFINE e == outcome.disk
           rows == e.results.rows
<1>1. /\ e = [disk EXCEPT !.results = e.results, !.answers = e.answers]
      /\ e.results = [slots |-> e.results.slots, variants |-> e.results.variants,
                      rows |-> rows, review |-> e.results.review]
      /\ rows \in Seq(Range(rows))
      /\ e.answers \in [Keys -> Texts \cup {Nothing}]
      /\ \A k \in Keys : e.answers[k] \in {disk.answers[k], Text(k)}
  BY MatrixRows
<1>2. \A i \in DOMAIN rows :
        \/ \E k \in Keys, end \in Succeeding : rows[i] = RowOf(k, end) /\ e.answers[k] = Text(k)
        \/ \E k \in Keys, end \in JobEndings \ Succeeding : rows[i] = RowOf(k, end)
        \/ /\ disk.results # Nothing
           /\ \E j \in DOMAIN disk.results.rows : rows[i] = disk.results.rows[j]
  BY MatrixRows
<1> HIDE DEF e
<1>3. e = [checks |-> disk.checks, results |-> e.results, answers |-> e.answers,
           packets |-> disk.packets, mappings |-> disk.mappings,
           adjudications |-> disk.adjudications, reviewed |-> disk.reviewed,
           runtime |-> disk.runtime, page |-> disk.page, summary |-> disk.summary]
  BY <1>1 DEF FilesSound, Filed
<1>4. Filed(e)
  BY <1>1, <1>3 DEF FilesSound, Filed
<1>5. \A k \in Keys : Text(k) # Nothing /\ Text(k)[1] = k
  BY NothingAssumption DEF Text, Texts, ControlTyped
<1>6. \A k \in Keys : e.answers[k] # Nothing => e.answers[k][1] = k
  BY <1>1, <1>5 DEF FilesSound, Answered
<1>7. \A k \in Keys : disk.answers[k] # Nothing => e.answers[k] # Nothing
  BY <1>1, <1>5
<1>8. ASSUME NEW k \in Keys, NEW end
      PROVE  LET row == RowOf(k, end)
             IN /\ {"scored", "reviews", "retention"} \subseteq DOMAIN row
                /\ row.key = k /\ row.sampling = Sample.sampling
                /\ row.reviews = Sample.reviews
                /\ row.success = (end \in Succeeding)
  BY RowFields
<1>9. ASSUME NEW i \in DOMAIN rows
      PROVE  /\ {"scored", "reviews", "retention"} \subseteq DOMAIN rows[i]
             /\ rows[i].key \in Keys /\ rows[i].sampling = Sample.sampling
             /\ rows[i].reviews = Sample.reviews
             /\ rows[i].success => e.answers[rows[i].key] # Nothing
  <2> HIDE DEF rows
  <2>1. ASSUME NEW k \in Keys, NEW end \in Succeeding,
               rows[i] = RowOf(k, end), e.answers[k] = Text(k)
        PROVE  /\ {"scored", "reviews", "retention"} \subseteq DOMAIN rows[i]
               /\ rows[i].key \in Keys /\ rows[i].sampling = Sample.sampling
               /\ rows[i].reviews = Sample.reviews
               /\ rows[i].success => e.answers[rows[i].key] # Nothing
    <3>1. /\ {"scored", "reviews", "retention"} \subseteq DOMAIN rows[i]
          /\ rows[i].key = k /\ rows[i].sampling = Sample.sampling
          /\ rows[i].reviews = Sample.reviews
      BY <1>8, <2>1
    <3>2. e.answers[k] # Nothing
      BY <1>5, <2>1
    <3>3. QED
      BY <3>1, <3>2
  <2>2. ASSUME NEW k \in Keys, NEW end \in JobEndings \ Succeeding, rows[i] = RowOf(k, end)
        PROVE  /\ {"scored", "reviews", "retention"} \subseteq DOMAIN rows[i]
               /\ rows[i].key \in Keys /\ rows[i].sampling = Sample.sampling
               /\ rows[i].reviews = Sample.reviews
               /\ rows[i].success => e.answers[rows[i].key] # Nothing
    <3>1. /\ {"scored", "reviews", "retention"} \subseteq DOMAIN rows[i]
          /\ rows[i].key = k /\ rows[i].sampling = Sample.sampling
          /\ rows[i].reviews = Sample.reviews
      BY <1>8, <2>2
    <3>2. ~rows[i].success
      BY <1>8, <2>2
    <3>3. QED
      BY <3>1, <3>2
  <2>3. CASE /\ disk.results # Nothing
             /\ \E j \in DOMAIN disk.results.rows : rows[i] = disk.results.rows[j]
    BY <1>7, <2>3 DEF FilesSound, Answered
  <2>4. QED
    BY <1>2, <2>1, <2>2, <2>3
<1>10. Answered(e)
  BY <1>1, <1>6, <1>9 DEF Answered
<1>11. Packed(e) /\ Adjudicated(e) /\ ReviewFiled(e) /\ Summarised(e)
  BY <1>3 DEF FilesSound, Packed, Adjudicated, ReviewFiled, Summarised
<1>12. QED
  BY <1>4, <1>10, <1>11 DEF FilesSound, e

(* Packets made with a seed show what was answered, on the seed's sides.   *)
LEMMA PreparedTyped ==
    ASSUME Filed(disk), Answered(disk), disk.results # Nothing, NEW seed \in Seeds,
           Prepared(disk.results.rows, disk.answers, Candidates, seed) # Refused
    PROVE  LET made == Prepared(disk.results.rows, disk.answers, Candidates, seed)
           IN /\ DOMAIN made.packet \subseteq ReviewIds
              /\ DOMAIN made.mapping = DOMAIN made.packet
              /\ \A id \in DOMAIN made.packet :
                    /\ made.mapping[id] = seed[id]
                    /\ \A s \in Sides :
                        LET side == made.packet[id][s]
                        IN /\ side = [text |-> side.text, scores |-> Blank]
                           /\ side.text \in Texts
                           /\ side.text[1] = Writer(seed, id, s)
                           /\ side.text = disk.answers[side.text[1]]
<1> DEFINE rows == disk.results.rows
           pairs == Reviewable(rows, Candidates)
           ids == {Identity(rows[i]) : i \in pairs}
           At(id) == CHOOSE i \in pairs : Identity(rows[i]) = id
           Base(id) == CHOOSE b \in ReviewBaselines(rows, At(id)) : TRUE
           Of(id, side) == IF side = seed[id] THEN disk.answers[rows[At(id)].key]
                           ELSE disk.answers[rows[Base(id)].key]
           made == Prepared(rows, disk.answers, Candidates, seed)
<1>1. made = [packet |-> [id \in ids |-> [side \in Sides |->
                            [text |-> Of(id, side), scores |-> Blank]]],
              mapping |-> [id \in ids |-> seed[id]]]
  BY DEF Prepared
<1>2. \A i \in DOMAIN rows : /\ rows[i].key \in Keys /\ rows[i].sampling = Sample.sampling
                             /\ rows[i].success => disk.answers[rows[i].key] # Nothing
  BY DEF Answered
<1>3. \A k \in Keys : /\ k = <<k[1], k[2]>>
                      /\ disk.answers[k] # Nothing => disk.answers[k] \in Texts
                                                      /\ disk.answers[k][1] = k
  BY ReleaseAssumption DEF Filed, Answered
<1> HIDE DEF rows
<1>4. ASSUME NEW id \in ids
      PROVE  /\ At(id) \in pairs /\ Identity(rows[At(id)]) = id
             /\ Base(id) \in ReviewBaselines(rows, At(id))
  <2>1. At(id) \in pairs /\ Identity(rows[At(id)]) = id
    <3> HIDE DEF pairs
    <3>1. QED
      OBVIOUS
  <2>2. ReviewBaselines(rows, At(id)) # {}
    <3> HIDE DEF At
    <3>1. QED
      BY <2>1 DEF Reviewable
  <2> HIDE DEF At, pairs
  <2>3. QED
    BY <2>1, <2>2
<1> HIDE DEF At, Base
<1>5. ASSUME NEW id \in ids
      PROVE  LET own == rows[At(id)].key
                 based == rows[Base(id)].key
             IN /\ own \in Keys /\ based \in Keys
                /\ own[2] \in Candidates
                /\ id = <<<<own[1], Sample.sampling>>, own[2]>>
                /\ based[2] = "baseline" /\ based[1] = own[1]
                /\ disk.answers[own] # Nothing /\ disk.answers[based] # Nothing
  <2> DEFINE i == At(id)
             b == Base(id)
  <2>1. /\ i \in DOMAIN rows /\ rows[i].success /\ Variant(rows[i]) \in Candidates
        /\ Identity(rows[i]) = id
    BY <1>4 DEF Reviewable, Successful
  <2>2. /\ b \in DOMAIN rows /\ rows[b].success /\ Variant(rows[b]) = "baseline"
        /\ PairKey(rows[b]) = PairKey(rows[i])
    BY <1>4 DEF ReviewBaselines, Successful
  <2> HIDE DEF i, b
  <2>3. QED
    BY <1>2, <2>1, <2>2 DEF Identity, PairKey, Variant, i, b
<1>6. ids \subseteq ReviewIds
  <2>1. ASSUME NEW id \in ids PROVE id \in ReviewIds
    <3> HIDE DEF ids
    <3>1. QED
      BY <1>5 DEF ReviewIds
  <2> HIDE DEF ids
  <2>2. QED
    BY <2>1
<1>7. ASSUME NEW id \in ids, NEW s \in Sides
      PROVE  /\ Of(id, s) \in Texts /\ Of(id, s)[1] = Writer(seed, id, s)
             /\ Of(id, s) = disk.answers[Of(id, s)[1]]
  <2> HIDE DEF ids
  <2> DEFINE own == rows[At(id)].key
             based == rows[Base(id)].key
  <2>1. /\ own \in Keys /\ based \in Keys
        /\ id = <<<<own[1], Sample.sampling>>, own[2]>>
        /\ based[2] = "baseline" /\ based[1] = own[1]
        /\ disk.answers[own] # Nothing /\ disk.answers[based] # Nothing
    BY <1>5
  <2>2. own = <<id[1][1], id[2]>> /\ based = <<id[1][1], "baseline">>
    <3> HIDE DEF own, based
    <3>1. QED
      BY <1>3, <2>1
  <2>3. /\ disk.answers[own] \in Texts /\ disk.answers[own][1] = own
        /\ disk.answers[based] \in Texts /\ disk.answers[based][1] = based
    BY <1>3, <2>1
  <2>4. CASE s = seed[id]
    BY <2>2, <2>3, <2>4 DEF Writer
  <2>5. CASE s # seed[id]
    BY <2>2, <2>3, <2>5 DEF Writer
  <2>6. QED
    BY <2>4, <2>5
<1> HIDE DEF Of, ids, made
<1>8. DOMAIN made.packet = ids /\ DOMAIN made.mapping = ids
  BY <1>1
<1>9. ASSUME NEW id \in ids
      PROVE  /\ made.mapping[id] = seed[id]
             /\ \A s \in Sides : made.packet[id][s] = [text |-> Of(id, s), scores |-> Blank]
  BY <1>1
<1>10. ASSUME NEW id \in ids, NEW s \in Sides
       PROVE  LET side == made.packet[id][s]
              IN /\ side = [text |-> side.text, scores |-> Blank]
                 /\ side.text \in Texts
                 /\ side.text[1] = Writer(seed, id, s)
                 /\ side.text = disk.answers[side.text[1]]
  <2>1. made.packet[id][s] = [text |-> Of(id, s), scores |-> Blank]
    BY <1>9
  <2>2. made.packet[id][s].text = Of(id, s)
    BY <2>1
  <2>3. QED
    BY <1>7, <2>1, <2>2
<1>11. /\ DOMAIN made.packet \subseteq ReviewIds
       /\ DOMAIN made.mapping = DOMAIN made.packet
       /\ \A id \in DOMAIN made.packet :
            /\ made.mapping[id] = seed[id]
            /\ \A s \in Sides :
                LET side == made.packet[id][s]
                IN /\ side = [text |-> side.text, scores |-> Blank]
                   /\ side.text \in Texts
                   /\ side.text[1] = Writer(seed, id, s)
                   /\ side.text = disk.answers[side.text[1]]
  BY <1>6, <1>8, <1>9, <1>10
<1>12. QED
  BY <1>11 DEF made, rows

(* What a prepare may do to the files.                                     *)
LEMMA PrepareEffects ==
    ASSUME NEW r \in ReviewerSet, NEW outcome \in PrepareOutcomes(r)
    PROVE  LET made == Prepared(disk.results.rows, disk.answers, Candidates, seeds[r])
               packed == [disk EXCEPT !.packets[r] = made.packet]
           IN \/ outcome = Failed
              \/ /\ disk.results # Nothing
                 /\ made # Refused
                 /\ opts.force \/ (disk.packets[r] = Nothing /\ disk.mappings[r] = Nothing)
                 /\ \/ outcome = KilledWith(packed)
                    \/ outcome = Outcome([packed EXCEPT !.mappings[r] = made.mapping], TRUE)
BY DEF PrepareOutcomes

LEMMA PrepareSound ==
    ASSUME FilesSound(disk), NEW r \in ReviewerSet, seeds[r] \in Seeds,
           NEW outcome \in PrepareOutcomes(r)
    PROVE  /\ FilesSound(outcome.disk)
           /\ outcome.disk = [disk EXCEPT !.packets = outcome.disk.packets,
                                          !.mappings = outcome.disk.mappings]
           /\ \A q \in ReviewerSet :
                \/ outcome.disk.packets[q] = disk.packets[q]
                \/ disk.packets[q] = Nothing
                \/ opts.force
<1> DEFINE made == Prepared(disk.results.rows, disk.answers, Candidates, seeds[r])
           packed == [disk EXCEPT !.packets[r] = made.packet]
           e == outcome.disk
<1>1. CASE e = disk
  <2>1. disk = [disk EXCEPT !.packets = disk.packets, !.mappings = disk.mappings]
    BY DEF FilesSound, Filed
  <2>2. QED
    BY <1>1, <2>1
<1>2. CASE /\ disk.results # Nothing
           /\ made # Refused
           /\ opts.force \/ (disk.packets[r] = Nothing /\ disk.mappings[r] = Nothing)
           /\ \/ e = packed
              \/ e = [packed EXCEPT !.mappings[r] = made.mapping]
  <2>1. /\ DOMAIN made.packet \subseteq ReviewIds
        /\ DOMAIN made.mapping = DOMAIN made.packet
        /\ \A id \in DOMAIN made.packet :
            /\ made.mapping[id] = seeds[r][id]
            /\ \A s \in Sides :
                LET side == made.packet[id][s]
                IN /\ side = [text |-> side.text, scores |-> Blank]
                   /\ side.text \in Texts
                   /\ side.text[1] = Writer(seeds[r], id, s)
                   /\ side.text = disk.answers[side.text[1]]
    BY <1>2, PreparedTyped DEF FilesSound
  <2> HIDE DEF made
  <2>2. \E mapping \in {disk.mappings[r], made.mapping} :
            e = [checks |-> disk.checks, results |-> disk.results, answers |-> disk.answers,
                 packets |-> [disk.packets EXCEPT ![r] = made.packet],
                 mappings |-> [disk.mappings EXCEPT ![r] = mapping],
                 adjudications |-> disk.adjudications, reviewed |-> disk.reviewed,
                 runtime |-> disk.runtime, page |-> disk.page, summary |-> disk.summary]
    <3>1. disk.mappings = [disk.mappings EXCEPT ![r] = disk.mappings[r]]
      BY DEF FilesSound, Filed
    <3>2. CASE e = packed
      <4>1. e = [checks |-> disk.checks, results |-> disk.results, answers |-> disk.answers,
                 packets |-> [disk.packets EXCEPT ![r] = made.packet],
                 mappings |-> disk.mappings,
                 adjudications |-> disk.adjudications, reviewed |-> disk.reviewed,
                 runtime |-> disk.runtime, page |-> disk.page, summary |-> disk.summary]
        BY <3>2 DEF FilesSound, Filed
      <4> HIDE DEF e
      <4>2. QED
        BY <3>1, <4>1
    <3>3. CASE e = [packed EXCEPT !.mappings[r] = made.mapping]
      BY <3>3 DEF FilesSound, Filed
    <3>4. QED
      BY <1>2, <3>2, <3>3
  <2>3. PICK mapping \in {disk.mappings[r], made.mapping} :
            e = [checks |-> disk.checks, results |-> disk.results, answers |-> disk.answers,
                 packets |-> [disk.packets EXCEPT ![r] = made.packet],
                 mappings |-> [disk.mappings EXCEPT ![r] = mapping],
                 adjudications |-> disk.adjudications, reviewed |-> disk.reviewed,
                 runtime |-> disk.runtime, page |-> disk.page, summary |-> disk.summary]
    BY <2>2
  <2>4. e = [disk EXCEPT !.packets = e.packets, !.mappings = e.mappings]
    <3> DEFINE packets == [disk.packets EXCEPT ![r] = made.packet]
               mappings == [disk.mappings EXCEPT ![r] = mapping]
    <3>1. e = [checks |-> disk.checks, results |-> disk.results, answers |-> disk.answers,
               packets |-> packets, mappings |-> mappings,
               adjudications |-> disk.adjudications, reviewed |-> disk.reviewed,
               runtime |-> disk.runtime, page |-> disk.page, summary |-> disk.summary]
      BY <2>3
    <3>2. disk = [checks |-> disk.checks, results |-> disk.results, answers |-> disk.answers,
                  packets |-> disk.packets, mappings |-> disk.mappings,
                  adjudications |-> disk.adjudications, reviewed |-> disk.reviewed,
                  runtime |-> disk.runtime, page |-> disk.page, summary |-> disk.summary]
      BY DEF FilesSound, Filed
    <3> HIDE DEF e, packets, mappings
    <3>3. e.packets = packets /\ e.mappings = mappings
      BY <3>1
    <3>4. e = [disk EXCEPT !.packets = packets, !.mappings = mappings]
      <4> DEFINE one == [disk EXCEPT !.packets = packets]
      <4>1. one = [checks |-> disk.checks, results |-> disk.results, answers |-> disk.answers,
                   packets |-> packets, mappings |-> disk.mappings,
                   adjudications |-> disk.adjudications, reviewed |-> disk.reviewed,
                   runtime |-> disk.runtime, page |-> disk.page, summary |-> disk.summary]
        BY <3>2
      <4>2. [disk EXCEPT !.packets = packets, !.mappings = mappings]
                = [one EXCEPT !.mappings = mappings]
        OBVIOUS
      <4> HIDE DEF one
      <4>3. e = [one EXCEPT !.mappings = mappings]
        BY <3>1, <4>1
      <4>4. QED
        BY <4>2, <4>3
    <3>5. QED
      BY <3>3, <3>4
  <2> HIDE DEF e, packed
  <2>5. \A q \in ReviewerSet :
            /\ e.packets[q] = IF q = r THEN made.packet ELSE disk.packets[q]
            /\ e.mappings[q] = IF q = r THEN mapping ELSE disk.mappings[q]
    BY <2>3 DEF FilesSound, Filed
  <2>6. Filed(e)
    <3>1. /\ e.packets = [q \in ReviewerSet |-> e.packets[q]]
          /\ e.mappings = [q \in ReviewerSet |-> e.mappings[q]]
      BY <2>3 DEF FilesSound, Filed
    <3>2. QED
      BY <2>3, <3>1 DEF FilesSound, Filed
  <2>7. Packed(e)
    <3>1. SUFFICES ASSUME NEW q \in ReviewerSet
          PROVE  /\ e.packets[q] # Nothing =>
                    /\ seeds[q] \in Seeds
                    /\ DOMAIN e.packets[q] \subseteq ReviewIds
                    /\ \A id \in DOMAIN e.packets[q], s \in Sides :
                        LET side == e.packets[q][id][s]
                        IN /\ side = [text |-> side.text, scores |-> side.scores]
                           /\ side.text \in Texts /\ side.text[1] = Writer(seeds[q], id, s)
                           /\ side.scores \in Scores
                 /\ e.mappings[q] # Nothing =>
                    /\ seeds[q] \in Seeds
                    /\ DOMAIN e.mappings[q] \subseteq ReviewIds
                    /\ \A id \in DOMAIN e.mappings[q] : e.mappings[q][id] = seeds[q][id]
      BY DEF Packed
    <3>2. Packed(disk)
      BY DEF FilesSound
    <3>3. CASE q # r
      BY <2>5, <3>2, <3>3 DEF Packed
    <3>4. CASE q = r
      <4>1. Blank \in Scores
        BY DEF Blank, Scores
      <4>2. e.packets[q] = made.packet /\ e.mappings[q] = mapping
        BY <2>5, <3>4
      <4>3. \A id \in DOMAIN made.packet, s \in Sides :
                LET side == made.packet[id][s]
                IN /\ side = [text |-> side.text, scores |-> side.scores]
                   /\ side.text \in Texts /\ side.text[1] = Writer(seeds[q], id, s)
                   /\ side.scores \in Scores
        <5>1. SUFFICES ASSUME NEW id \in DOMAIN made.packet, NEW s \in Sides
              PROVE LET side == made.packet[id][s]
                IN /\ side = [text |-> side.text, scores |-> side.scores]
                   /\ side.text \in Texts /\ side.text[1] = Writer(seeds[q], id, s)
                   /\ side.scores \in Scores
          OBVIOUS
        <5> DEFINE side == made.packet[id][s]
        <5>2. /\ side = [text |-> side.text, scores |-> Blank]
              /\ side.text \in Texts /\ side.text[1] = Writer(seeds[q], id, s)
          BY <2>1, <3>4
        <5> HIDE DEF side
        <5>3. side.scores = Blank
          BY <5>2
        <5>4. QED
          BY <4>1, <5>2, <5>3 DEF side
      <4>4. CASE mapping = made.mapping
        BY <2>1, <3>4, <4>2, <4>3, <4>4
      <4>5. CASE mapping = disk.mappings[r]
        BY <2>1, <3>2, <3>4, <4>2, <4>3, <4>5 DEF Packed
      <4>6. QED
        BY <4>4, <4>5
    <3>5. QED
      BY <3>3, <3>4
  <2>8. Answered(e) /\ Adjudicated(e) /\ ReviewFiled(e) /\ Summarised(e)
    BY <2>3 DEF FilesSound, Answered, Adjudicated, ReviewFiled, Summarised
  <2>9. \A q \in ReviewerSet : \/ e.packets[q] = disk.packets[q]
                               \/ disk.packets[q] = Nothing
                               \/ opts.force
    BY <1>2, <2>5
  <2>10. QED
    BY <2>4, <2>6, <2>7, <2>8, <2>9 DEF FilesSound, e
<1>3. \/ outcome = Failed
      \/ /\ disk.results # Nothing
         /\ made # Refused
         /\ opts.force \/ (disk.packets[r] = Nothing /\ disk.mappings[r] = Nothing)
         /\ \/ outcome = KilledWith(packed)
            \/ outcome = Outcome([packed EXCEPT !.mappings[r] = made.mapping], TRUE)
  BY PrepareEffects
<1>4. /\ Failed.disk = disk
      /\ KilledWith(packed).disk = packed
      /\ Outcome([packed EXCEPT !.mappings[r] = made.mapping], TRUE).disk
            = [packed EXCEPT !.mappings[r] = made.mapping]
  <2> HIDE DEF made, packed
  <2>1. QED
    BY DEF Failed, Outcome, KilledWith
<1>5. \/ e = disk
      \/ /\ disk.results # Nothing
         /\ made # Refused
         /\ opts.force \/ (disk.packets[r] = Nothing /\ disk.mappings[r] = Nothing)
         /\ e = packed \/ e = [packed EXCEPT !.mappings[r] = made.mapping]
  <2> HIDE DEF made, packed
  <2>1. QED
    BY <1>3, <1>4
<1>6. QED
  BY <1>1, <1>2, <1>5

(* The image of a finite set is finite.                                    *)
LEMMA FiniteImage ==
    ASSUME NEW S, IsFiniteSet(S), NEW f
    PROVE  IsFiniteSet({f[x] : x \in S})
<1> DEFINE T == {f[x] : x \in S}
           g == [x \in S |-> f[x]]
<1>1. g \in Surjection(S, T)
  BY DEF Surjection
<1> HIDE DEF g, T
<1>2. QED
  BY <1>1, FS_Surjection DEF T

LEMMA ReviewersFinite ==
    IsFiniteSet(ReviewerSet)
<1>1. Len(Reviewers) \in Nat /\ DOMAIN Reviewers = 1 .. Len(Reviewers)
  BY ReleaseAssumption, LenProperties
<1>2. IsFiniteSet(DOMAIN Reviewers)
  BY <1>1, FS_Interval
<1>3. QED
  BY <1>2, FiniteImage DEF ReviewerSet, Range

(* An entry is what one reviewer has seen of a pair, of which the sides    *)
(* are told by the reviewer's seed.                                        *)
EntryOf(d, r, id) == <<r, Entry(d.packets[r][id], d.mappings[r][id])>>

LEMMA EntriesTyped ==
    ASSUME FilesSound(disk), NEW id \in ReviewIds,
           \A r \in ReviewerSet : disk.packets[r] # Nothing /\ disk.mappings[r] # Nothing,
           \A r \in ReviewerSet : DOMAIN disk.packets[r] \subseteq DOMAIN disk.mappings[r]
    PROVE  LET entries == Entries(disk.packets, disk.mappings, id)
           IN /\ IsFiniteSet(entries)
              /\ \A e \in entries : \A side \in {"candidate", "baseline"} :
                    /\ e[2][side].text \in Texts
                    /\ e[2][side].text[1]
                            = <<id[1][1], IF side = "candidate" THEN id[2] ELSE "baseline">>
                    /\ e[2][side].scores \in Scores
              /\ \A e \in entries : e[1] \in ReviewerSet /\ id \in DOMAIN disk.packets[e[1]]
                                    /\ e = EntryOf(disk, e[1], id)
<1> DEFINE by == {r \in DOMAIN disk.packets :
                    /\ id \in DOMAIN disk.packets[r]
                    /\ \A s \in Sides : Filled(disk.packets[r][id][s].scores)}
           entries == Entries(disk.packets, disk.mappings, id)
           f == [r \in by |-> EntryOf(disk, r, id)]
<1>1. entries = {f[r] : r \in by}
  BY DEF Entries, EntryOf
<1>2. by \subseteq ReviewerSet
  <2>1. DOMAIN disk.packets = ReviewerSet
    BY DEF FilesSound, Filed
  <2>2. QED
    BY <2>1
<1>3. IsFiniteSet(entries)
  <2>1. IsFiniteSet(by)
    <3> HIDE DEF by
    <3>1. QED
      BY <1>2, ReviewersFinite, FS_Subset
  <2> HIDE DEF by, f, entries
  <2>2. QED
    BY <1>1, <2>1, FiniteImage
<1>4. ASSUME NEW r \in by
      PROVE  LET e == EntryOf(disk, r, id)
             IN \A side \in {"candidate", "baseline"} :
                    /\ e[2][side].text \in Texts
                    /\ e[2][side].text[1]
                            = <<id[1][1], IF side = "candidate" THEN id[2] ELSE "baseline">>
                    /\ e[2][side].scores \in Scores
  <2>1. /\ r \in ReviewerSet /\ id \in DOMAIN disk.packets[r] /\ id \in DOMAIN disk.mappings[r]
        /\ disk.packets[r] # Nothing /\ disk.mappings[r] # Nothing
    BY <1>2
  <2>2. Packed(disk)
    BY DEF FilesSound
  <2> DEFINE m == disk.mappings[r][id]
             review == disk.packets[r][id]
  <2>3. /\ \A s \in Sides : /\ review[s].text \in Texts
                            /\ review[s].text[1] = Writer(seeds[r], id, s)
                            /\ review[s].scores \in Scores
        /\ m = seeds[r][id] /\ seeds[r] \in Seeds
    BY <2>1, <2>2 DEF Packed
  <2>4. m \in Sides /\ Across(m) \in Sides /\ Across(m) # m
    BY <2>3 DEF Seeds, Sides, Across
  <2>5. EntryOf(disk, r, id)[2] = [candidate |-> review[m], baseline |-> review[Across(m)]]
    BY DEF EntryOf, Entry
  <2> HIDE DEF m, review
  <2>6. QED
    BY <2>3, <2>4, <2>5 DEF Writer
<1>5. ASSUME NEW r \in by
      PROVE  LET e == EntryOf(disk, r, id)
             IN e[1] = r /\ r \in ReviewerSet /\ id \in DOMAIN disk.packets[r]
  BY <1>2 DEF EntryOf
<1>6. \A e \in entries : \E r \in by : e = EntryOf(disk, r, id)
  BY <1>1
<1> HIDE DEF by, entries, f
<1>7. \A e \in entries : \A side \in {"candidate", "baseline"} :
                    /\ e[2][side].text \in Texts
                    /\ e[2][side].text[1]
                            = <<id[1][1], IF side = "candidate" THEN id[2] ELSE "baseline">>
                    /\ e[2][side].scores \in Scores
  BY <1>4, <1>6
<1>8. \A e \in entries : e[1] \in ReviewerSet /\ id \in DOMAIN disk.packets[e[1]]
                         /\ e = EntryOf(disk, e[1], id)
  BY <1>5, <1>6
<1>9. QED
  BY <1>3, <1>7, <1>8 DEF entries

(* The points of a side are a fraction of naturals.                        *)
LEMMA PointsTyped ==
    ASSUME NEW entries, IsFiniteSet(entries), NEW side,
           \A e \in entries : e[2][side].scores \in Scores
    PROVE  PointsOf(side, entries) \in Nat \X Nat
<1> DEFINE Total(scores) == SumFunctionOnSet(scores, Dimensions)
           f == [e \in entries |-> Total(e[2][side].scores)]
<1>1. IsFiniteSet(Dimensions)
  BY ReleaseAssumption
<1>2. ASSUME NEW e \in entries PROVE Total(e[2][side].scores) \in Nat
  <2> DEFINE scores == e[2][side].scores
  <2>1. scores \in [Dimensions -> 0 .. 5]
    BY DEF Scores
  <2> HIDE DEF scores
  <2>2. \A d \in Dimensions : scores[d] \in Nat
    BY <2>1
  <2>3. SumFunctionOnSet(scores, Dimensions) \in Nat
    BY <1>1, <2>2, SumNat
  <2>4. QED
    BY <2>3 DEF scores
<1>3. SumFunctionOnSet(f, entries) \in Nat
  <2>1. \A e \in entries : f[e] \in Nat
    <3> HIDE DEF Total
    <3>1. QED
      BY <1>2
  <2> HIDE DEF f
  <2>2. QED
    BY <2>1, SumNat
<1>4. Cardinality(entries) * Cardinality(Dimensions) \in Nat
  <2>1. Cardinality(entries) \in Nat /\ Cardinality(Dimensions) \in Nat
    BY <1>1, FS_CardinalityType
  <2>2. QED
    BY <2>1
<1>5. PointsOf(side, entries)
        = <<SumFunctionOnSet(f, entries), Cardinality(entries) * Cardinality(Dimensions)>>
  BY DEF PointsOf
<1> HIDE DEF f
<1>6. QED
  BY <1>3, <1>4, <1>5

(* What is settled has been scored.                                        *)
LEMMA AggregateTyped ==
    ASSUME NEW entries, IsFiniteSet(entries), NEW side \in {"candidate", "baseline"},
           \A e \in entries : e[2][side].scores \in Scores,
           NEW verdict, verdict # Nothing => verdict[side].scores \in Scores
    PROVE  LET made == Aggregate(side, entries, verdict)
           IN /\ made.scored = {e[2][side].text : e \in entries}
              /\ made.status \in Settled => made.overall \in Nat \X Nat
<1> DEFINE made == Aggregate(side, entries, verdict)
           settling == IF verdict = Nothing THEN entries ELSE {<<"adjudicator", verdict>>}
<1>1. /\ made.status = IF verdict = Nothing THEN StatusOf(entries) ELSE "adjudicated"
      /\ made.overall = IF settling = {} THEN Nothing ELSE PointsOf(side, settling)
      /\ made.scored = {e[2][side].text : e \in entries}
  BY DEF Aggregate
<1>2. IsFiniteSet(settling) /\ \A e \in settling : e[2][side].scores \in Scores
  <2>1. CASE verdict = Nothing
    BY <2>1
  <2>2. CASE verdict # Nothing
    <3>1. settling = {<<"adjudicator", verdict>>}
      BY <2>2
    <3> HIDE DEF settling
    <3>2. IsFiniteSet(settling)
      BY <3>1, FS_Singleton
    <3>3. <<"adjudicator", verdict>>[2] = verdict
      OBVIOUS
    <3>4. QED
      BY <2>2, <3>1, <3>2, <3>3
  <2>3. QED
    BY <2>1, <2>2
<1>3. PointsOf(side, settling) \in Nat \X Nat
  <2> HIDE DEF settling
  <2>1. QED
    BY <1>2, PointsTyped
<1>4. ASSUME made.status \in Settled PROVE settling # {}
  <2>1. CASE verdict # Nothing
    BY <2>1
  <2>2. CASE verdict = Nothing
    <3>1. StatusOf(entries) \in Settled
      BY <1>1, <1>4, <2>2
    <3>2. ~(Cardinality(entries) < Policy.reviewers)
      BY <3>1 DEF StatusOf, Settled
    <3>3. Policy.reviewers \in Nat /\ Policy.reviewers > 0
      <4>1. Len(Reviewers) \in Nat
        BY ReleaseAssumption, LenProperties
      <4>2. QED
        BY <4>1, ReleaseAssumption
    <3>4. entries # {}
      BY <3>2, <3>3, FS_EmptySet
    <3>5. QED
      BY <2>2, <3>4
  <2>3. QED
    BY <2>1, <2>2
<1> HIDE DEF made, settling
<1>5. QED
  BY <1>1, <1>3, <1>4 DEF made

(* The reviews of a row that are of a pair, of which the row is a side.    *)
PairReviews(row, ids, scores) ==
    \A v \in DOMAIN row.reviews :
        \E id \in ids, side \in {"candidate", "baseline"} :
            /\ row.reviews[v] = scores[id][side]
            /\ row.key = <<id[1][1], IF side = "candidate" THEN id[2] ELSE "baseline">>

(* A row of a candidate has reviews of its own pair, the row of a baseline *)
(* has those of the pairs it is in.                                        *)
LEMMA AppliedReviews ==
    ASSUME NEW row, NEW ids, ids \subseteq ReviewIds, NEW last, NEW scores,
           row.key \in Keys, row.sampling = Sample.sampling, row.reviews = Sample.reviews,
           {"scored", "reviews", "retention"} \subseteq DOMAIN row,
           NEW new, new = ApplyTo(row, ids, last, scores)
    PROVE  /\ new.key = row.key /\ new.answer = row.answer /\ new.success = row.success
           /\ PairReviews(new, ids, scores)
<1> DEFINE own == {id \in ids : Identity(row) = id}
           based == {id \in ids : Identity(row) = <<id[1], "baseline">>}
           side == IF own # {} THEN "candidate" ELSE "baseline"
           Counterpart(id) == IF id \in own THEN "baseline" ELSE id[2]
           left == scores[last[own \cup based]][side]
           reviews == [v \in {Counterpart(id) : id \in own \cup based} |->
                        scores[CHOOSE id \in own \cup based : Counterpart(id) = v][side]]
           retention == IF left.status \in Settled THEN left.overall ELSE Nothing
<1>1. new = IF own \cup based = {} THEN row
            ELSE [row EXCEPT !.scored = TRUE, !.reviews = reviews, !.retention = retention]
  BY DEF ApplyTo
<1>2. row.key = <<row.key[1], row.key[2]>>
  BY ReleaseAssumption
<1>3. Identity(row) = <<<<row.key[1], Sample.sampling>>, row.key[2]>>
  BY DEF Identity, PairKey, Variant
<1>4. \A id \in ids : id = <<<<id[1][1], Sample.sampling>>, id[2]>> /\ id[2] \in Candidates
  BY DEF ReviewIds
<1>5. ASSUME NEW id \in own \cup based
      PROVE  row.key = <<id[1][1], IF side = "candidate" THEN id[2] ELSE "baseline">>
  <2>1. CASE own # {}
    <3>1. PICK one \in own : TRUE
      BY <2>1
    <3>2. row.key[2] \in Candidates /\ row.key[2] # "baseline"
      BY <1>3, <1>4, <3>1, ReleaseAssumption
    <3>3. id \in own
      BY <1>3, <3>2
    <3>4. row.key[1] = id[1][1] /\ row.key[2] = id[2]
      BY <1>3, <1>4, <3>3
    <3>5. QED
      BY <1>2, <2>1, <3>4
  <2>2. CASE own = {}
    <3>1. id \in based
      BY <2>2
    <3>2. row.key[1] = id[1][1] /\ row.key[2] = "baseline"
      BY <1>3, <1>4, <3>1
    <3>3. QED
      BY <1>2, <2>2, <3>2
  <2>3. QED
    BY <2>1, <2>2 DEF PairReviews
<1>6. CASE own \cup based = {}
  <2>1. new = row /\ new.reviews = Sample.reviews
    BY <1>1, <1>6
  <2>2. DOMAIN new.reviews = {}
    BY <2>1, ReleaseAssumption
  <2>3. QED
    BY <2>1, <2>2 DEF PairReviews
<1>7. CASE own \cup based # {}
  <2> DEFINE all == own \cup based
  <2>1. new = [row EXCEPT !.scored = TRUE, !.reviews = reviews, !.retention = retention]
    BY <1>1, <1>7
  <2>2. /\ new.key = row.key /\ new.answer = row.answer /\ new.success = row.success
        /\ new.reviews = reviews
    <3> HIDE DEF reviews, retention
    <3>1. QED
      BY <2>1
  <2>3. ASSUME NEW v \in DOMAIN reviews
        PROVE  \E id \in all : reviews[v] = scores[id][side]
    <3> DEFINE one == CHOOSE id \in all : Counterpart(id) = v
    <3>1. \E id \in all : Counterpart(id) = v
      BY <2>3
    <3>2. one \in all
      <4> HIDE DEF all, Counterpart
      <4>1. QED
        BY <3>1
    <3>3. reviews[v] = scores[one][side]
      OBVIOUS
    <3> HIDE DEF one, all, reviews, side
    <3>4. QED
      BY <3>2, <3>3
  <2>4. all \subseteq ids /\ side \in {"candidate", "baseline"}
    OBVIOUS
  <2> HIDE DEF reviews, side, own, based
  <2>5. QED
    BY <1>5, <2>2, <2>3, <2>4 DEF side, PairReviews
<1>8. QED
  BY <1>6, <1>7

(* What an apply may do to the files.                                      *)
LEMMA ApplyEffects ==
    ASSUME NEW outcome \in ApplyOutcomes
    PROVE  LET adjudications == IF opts.adjudicated THEN disk.adjudications ELSE NoReviews
               made == Applied(disk.results.rows, disk.packets, disk.mappings, adjudications)
           IN \/ outcome = Failed
              \/ /\ disk.results # Nothing
                 /\ \A r \in ReviewerSet : disk.packets[r] # Nothing /\ disk.mappings[r] # Nothing
                 /\ ~Inconsistent(disk.results.rows, disk.packets, disk.mappings, adjudications)
                 /\ outcome = Outcome([disk EXCEPT !.reviewed =
                        [disk.results EXCEPT !.rows = made.rows, !.review = made.review]],
                     made.review.complete)
BY DEF ApplyOutcomes, Applied

LEMMA ApplySound ==
    ASSUME ControlTyped, FilesSound(disk), pc = "running", NEW outcome \in ApplyOutcomes
    PROVE  /\ FilesSound(outcome.disk)
           /\ outcome.disk = [disk EXCEPT !.reviewed = outcome.disk.reviewed]
<1> DEFINE adjudications == IF opts.adjudicated THEN disk.adjudications ELSE NoReviews
           made == Applied(disk.results.rows, disk.packets, disk.mappings, adjudications)
           file == [disk.results EXCEPT !.rows = made.rows, !.review = made.review]
           e == outcome.disk
<1>1. CASE outcome = Failed
  <2>1. e = disk
    BY <1>1 DEF Failed, Outcome
  <2>2. disk = [disk EXCEPT !.reviewed = disk.reviewed]
    BY DEF FilesSound, Filed
  <2>3. QED
    BY <2>1, <2>2
<1>2. CASE /\ disk.results # Nothing
           /\ \A r \in ReviewerSet : disk.packets[r] # Nothing /\ disk.mappings[r] # Nothing
           /\ ~Inconsistent(disk.results.rows, disk.packets, disk.mappings, adjudications)
           /\ e = [disk EXCEPT !.reviewed = file]
  <2> DEFINE rows == disk.results.rows
             ids == UNION {DOMAIN disk.mappings[r] : r \in DOMAIN disk.mappings}
             Verdict(id) == IF id \in DOMAIN adjudications THEN adjudications[id] ELSE Nothing
             scores == [id \in ids |-> [side \in {"candidate", "baseline"} |->
                        Aggregate(side, Entries(disk.packets, disk.mappings, id), Verdict(id))]]
             Place(id) == CHOOSE i \in DOMAIN rows : Identity(rows[i]) = id
             last == [S \in SUBSET ids \ {{}} |->
                        CHOOSE id \in S : \A other \in S : Place(other) <= Place(id)]
             disputed == {id \in ids : scores[id]["candidate"].status = "needs_adjudication"}
             complete == ids # {} /\ \A id \in ids : scores[id]["candidate"].status \in Settled
             new == [i \in DOMAIN rows |-> ApplyTo(rows[i], ids, last, scores)]
             review == [reviewers |-> DOMAIN disk.packets, disputed |-> disputed,
                        complete |-> complete]
  <2>1. made = [rows |-> new, review |-> review]
    BY <1>2 DEF Applied
  <2>2. made.rows = new /\ made.review = review
    <3> HIDE DEF made, new, review
    <3>1. QED
      BY <2>1
  <2> HIDE DEF made
  <2>3. DOMAIN disk.packets = ReviewerSet /\ DOMAIN disk.mappings = ReviewerSet
    BY DEF FilesSound, Filed
  <2>4. ids \subseteq ReviewIds
    <3>1. \A r \in ReviewerSet : DOMAIN disk.mappings[r] \subseteq ReviewIds
      BY <1>2 DEF FilesSound, Packed
    <3>2. QED
      BY <2>3, <3>1
  <2>5. \A r \in ReviewerSet : DOMAIN disk.packets[r] \subseteq DOMAIN disk.mappings[r]
    BY <1>2, <2>3 DEF Inconsistent
  <2>6. ASSUME NEW id \in ids, NEW side \in {"candidate", "baseline"}
        PROVE  /\ \A text \in scores[id][side].scored :
                    text[1] = <<id[1][1], IF side = "candidate" THEN id[2] ELSE "baseline">>
               /\ scores[id][side].status \in Settled => scores[id][side].overall \in Nat \X Nat
    <3> DEFINE entries == Entries(disk.packets, disk.mappings, id)
               verdict == Verdict(id)
               cell == Aggregate(side, entries, verdict)
    <3>1. scores[id][side] = cell
      OBVIOUS
    <3>2. id \in ReviewIds
      BY <2>4
    <3>3. /\ IsFiniteSet(entries)
          /\ \A f \in entries :
                /\ f[2][side].text[1]
                        = <<id[1][1], IF side = "candidate" THEN id[2] ELSE "baseline">>
                /\ f[2][side].scores \in Scores
      BY <1>2, <2>5, <3>2, EntriesTyped
    <3>4. verdict # Nothing => verdict[side].scores \in Scores
      <4>1. CASE opts.adjudicated
        <5>1. adjudications = disk.adjudications /\ disk.adjudications # Nothing
          BY <4>1, NothingAssumption DEF ControlTyped
        <5>2. QED
          BY <5>1 DEF FilesSound, Adjudicated
      <4>2. CASE ~opts.adjudicated
        BY <4>2 DEF NoReviews
      <4>3. QED
        BY <4>1, <4>2
    <3> HIDE DEF entries, verdict, scores, ids, Verdict
    <3>5. /\ cell.scored = {f[2][side].text : f \in entries}
          /\ cell.status \in Settled => cell.overall \in Nat \X Nat
      BY <3>3, <3>4, AggregateTyped
    <3> HIDE DEF cell
    <3>6. QED
      BY <3>1, <3>3, <3>5
  <2> HIDE DEF ids, scores, last
  <2>7. Answered(disk) /\ rows \in Seq(Range(rows)) /\ DOMAIN rows = 1 .. Len(rows)
        /\ Len(rows) \in Nat
    BY <1>2, LenProperties DEF FilesSound, Answered
  <2>8. ASSUME NEW i \in DOMAIN rows PROVE Credited(new[i])
    <3> DEFINE row == rows[i]
    <3>1. /\ row.key \in Keys /\ row.sampling = Sample.sampling /\ row.reviews = Sample.reviews
          /\ {"scored", "reviews", "retention"} \subseteq DOMAIN row
      BY <1>2, <2>7 DEF Answered
    <3> DEFINE got == ApplyTo(row, ids, last, scores)
    <3>2. new[i] = got /\ got = ApplyTo(row, ids, last, scores)
      OBVIOUS
    <3> HIDE DEF row, new, got
    <3>3. new[i].key = row.key /\ PairReviews(new[i], ids, scores)
      BY <2>4, <3>1, <3>2, AppliedReviews
    <3>4. row.key = <<row.key[1], row.key[2]>>
      BY <3>1, ReleaseAssumption
    <3>5. ASSUME NEW v \in DOMAIN new[i].reviews
          PROVE  /\ \A text \in new[i].reviews[v].scored : text[1] = new[i].key
                 /\ new[i].reviews[v].status \in Settled
                        => new[i].reviews[v].overall \in Nat \X Nat
      <4>1. PICK id \in ids, side \in {"candidate", "baseline"} :
                /\ new[i].reviews[v] = scores[id][side]
                /\ new[i].key
                    = <<id[1][1], IF side = "candidate" THEN id[2] ELSE "baseline">>
        BY <3>3 DEF PairReviews
      <4>2. QED
        BY <2>6, <3>3, <4>1
    <3>6. QED
      BY <3>3, <3>4, <3>5 DEF Credited
  <2>9. new \in Seq(Range(new)) /\ DOMAIN new = DOMAIN rows
    <3>1. DOMAIN new = DOMAIN rows
      OBVIOUS
    <3>2. new \in [1 .. Len(rows) -> Range(new)]
      <4> HIDE DEF rows
      <4>1. \A i \in 1 .. Len(rows) : new[i] \in Range(new)
        BY <2>7 DEF Range
      <4>2. new = [i \in 1 .. Len(rows) |-> new[i]]
        BY <2>7
      <4> HIDE DEF new
      <4>3. QED
        BY <4>1, <4>2
    <3> HIDE DEF new, rows
    <3>3. QED
      BY <2>7, <3>1, <3>2, SeqDef
  <2>10. disputed \subseteq ReviewIds
    BY <2>4
  <2> HIDE DEF new, disputed, complete, rows
  <2>11. /\ file = [slots |-> file.slots, variants |-> file.variants, rows |-> file.rows,
                    review |-> file.review]
         /\ file.rows = new /\ file.review.disputed = disputed
    <3>1. Answered(disk)
      BY DEF FilesSound
    <3>2. disk.results = [slots |-> disk.results.slots, variants |-> disk.results.variants,
                          rows |-> disk.results.rows, review |-> disk.results.review]
      BY <1>2, <3>1 DEF Answered
    <3>3. review.disputed = disputed
      OBVIOUS
    <3> HIDE DEF review
    <3>4. file = [disk.results EXCEPT !.rows = new, !.review = review]
      BY <2>2
    <3> HIDE DEF file
    <3>5. file = [slots |-> disk.results.slots, variants |-> disk.results.variants,
                  rows |-> new, review |-> review]
      BY <3>2, <3>4
    <3>6. QED
      BY <3>3, <3>5
  <2> HIDE DEF file
  <2>12. /\ e = [checks |-> disk.checks, results |-> disk.results, answers |-> disk.answers,
                 packets |-> disk.packets, mappings |-> disk.mappings,
                 adjudications |-> disk.adjudications, reviewed |-> file,
                 runtime |-> disk.runtime, page |-> disk.page, summary |-> disk.summary]
         /\ e = [disk EXCEPT !.reviewed = e.reviewed]
    BY <1>2 DEF FilesSound, Filed
  <2> HIDE DEF e
  <2>13. Filed(e)
    BY <2>12 DEF FilesSound, Filed
  <2>14. ReviewFiled(e)
    BY <2>8, <2>9, <2>10, <2>11, <2>12 DEF ReviewFiled
  <2>15. Answered(e) /\ Packed(e) /\ Adjudicated(e) /\ Summarised(e)
    BY <2>12 DEF FilesSound, Answered, Packed, Adjudicated, Summarised
  <2>16. QED
    BY <2>12, <2>13, <2>14, <2>15 DEF FilesSound, e
<1>3. QED
  BY <1>1, <1>2, ApplyEffects DEF Outcome

(* A summary that says complete is of results that were accepted.          *)
LEMMA ReportSound ==
    ASSUME FilesSound(disk), NEW outcome \in ReportOutcomes
    PROVE  /\ FilesSound(outcome.disk)
           /\ outcome.disk = [disk EXCEPT !.page = outcome.disk.page,
                                          !.summary = outcome.disk.summary]
           /\ outcome.ok => /\ outcome.disk.summary.status = "complete"
                            /\ outcome.disk.summary.matrix = disk.reviewed
                            /\ outcome.disk.page = outcome.disk.summary
                            /\ disk.reviewed # Nothing
                            /\ MatrixHolds(disk.reviewed, Candidates)
<1> DEFINE status == ReportStatus({disk.reviewed}, Candidates, {disk.runtime}, Range(disk.checks))
           file == [status |-> status, matrix |-> disk.reviewed]
           paged == [disk EXCEPT !.page = file]
           e == outcome.disk
<1>1. CASE outcome = Failed
  <2>1. e = disk /\ ~outcome.ok
    BY <1>1 DEF Failed, Outcome
  <2>2. disk = [disk EXCEPT !.page = disk.page, !.summary = disk.summary]
    BY DEF FilesSound, Filed
  <2>3. QED
    BY <2>1, <2>2
<1>2. CASE /\ disk.reviewed # Nothing
           /\ \/ e = [paged EXCEPT !.summary = file] /\ outcome.ok = (status = "complete")
              \/ e = paged /\ ~outcome.ok
  <2>1. status \in {"complete", "incomplete"}
    BY DEF ReportStatus
  <2>2. ASSUME status = "complete"
        PROVE  MatrixHolds(disk.reviewed, Candidates) /\ PairsHold(disk.reviewed, Candidates)
    <3>1. MatrixHolds(disk.reviewed, Candidates)
      BY <2>2 DEF ReportStatus
    <3>2. Readable(disk.reviewed)
      <4>1. ReviewFiled(disk)
        BY DEF FilesSound
      <4>2. QED
        BY <1>2, <4>1 DEF ReviewFiled, Credited, Readable
    <3>3. QED
      BY <3>1, <3>2, AcceptedPairsHold
  <2> HIDE DEF status
  <2>3. file.status = status /\ file.matrix = disk.reviewed
    OBVIOUS
  <2> HIDE DEF file
  <2>4. PICK summary \in {disk.summary, file} :
            /\ e = [checks |-> disk.checks, results |-> disk.results, answers |-> disk.answers,
                    packets |-> disk.packets, mappings |-> disk.mappings,
                    adjudications |-> disk.adjudications, reviewed |-> disk.reviewed,
                    runtime |-> disk.runtime, page |-> file, summary |-> summary]
            /\ outcome.ok => summary = file /\ status = "complete"
    <3>1. paged = [checks |-> disk.checks, results |-> disk.results, answers |-> disk.answers,
                   packets |-> disk.packets, mappings |-> disk.mappings,
                   adjudications |-> disk.adjudications, reviewed |-> disk.reviewed,
                   runtime |-> disk.runtime, page |-> file, summary |-> disk.summary]
      BY DEF FilesSound, Filed
    <3> HIDE DEF paged, e
    <3>2. QED
      BY <1>2, <3>1
  <2>5. e = [disk EXCEPT !.page = e.page, !.summary = e.summary]
    <3> HIDE DEF e
    <3>1. e.page = file /\ e.summary = summary
      BY <2>4
    <3> DEFINE new == [disk EXCEPT !.page = file, !.summary = summary]
    <3>4. new = [checks |-> disk.checks, results |-> disk.results, answers |-> disk.answers,
                 packets |-> disk.packets, mappings |-> disk.mappings,
                 adjudications |-> disk.adjudications, reviewed |-> disk.reviewed,
                 runtime |-> disk.runtime, page |-> file, summary |-> summary]
      <4> DEFINE one == [disk EXCEPT !.page = file]
      <4>1. one = [checks |-> disk.checks, results |-> disk.results, answers |-> disk.answers,
                   packets |-> disk.packets, mappings |-> disk.mappings,
                   adjudications |-> disk.adjudications, reviewed |-> disk.reviewed,
                   runtime |-> disk.runtime, page |-> file, summary |-> disk.summary]
        BY DEF FilesSound, Filed
      <4>2. new = [one EXCEPT !.summary = summary]
        OBVIOUS
      <4> HIDE DEF one, new
      <4>3. QED
        BY <4>1, <4>2
    <3>2. e = new
      BY <2>4, <3>4
    <3>3. QED
      BY <3>1, <3>2
  <2> HIDE DEF e
  <2>6. Filed(e)
    BY <2>4 DEF FilesSound, Filed
  <2>7. Summarised(e)
    BY <2>1, <2>2, <2>3, <2>4 DEF FilesSound, Summarised
  <2>8. Answered(e) /\ Packed(e) /\ Adjudicated(e) /\ ReviewFiled(e)
    BY <2>4 DEF FilesSound, Answered, Packed, Adjudicated, ReviewFiled
  <2>9. outcome.ok => /\ e.summary.status = "complete"
                      /\ e.summary.matrix = disk.reviewed
                      /\ e.page = e.summary
                      /\ MatrixHolds(disk.reviewed, Candidates)
    <3>1. e.page = file /\ (outcome.ok => e.summary = file /\ status = "complete")
      BY <2>4
    <3>2. QED
      BY <2>2, <2>3, <3>1
  <2>10. QED
    BY <1>2, <2>5, <2>6, <2>7, <2>8, <2>9 DEF FilesSound, e
<1>3. \/ outcome = Failed
      \/ /\ disk.reviewed # Nothing
         /\ \/ outcome = Outcome([paged EXCEPT !.summary = file], status = "complete")
            \/ outcome = KilledWith(paged)
  BY DEF ReportOutcomes
<1>4. QED
  <2> HIDE DEF paged, file, status
  <2>1. CASE outcome = KilledWith(paged) /\ disk.reviewed # Nothing
    BY <1>2, <2>1 DEF KilledWith
  <2>2. CASE /\ outcome = Outcome([paged EXCEPT !.summary = file], status = "complete")
             /\ disk.reviewed # Nothing
    BY <1>2, <2>2 DEF Outcome
  <2>3. QED
    BY <1>1, <1>3, <2>1, <2>2

-----------------------------------------------------------------------------
(* The invariant of the files holds whatever a child does.                 *)

(* The step that is run is one of the steps of the release.                *)
LEMMA StepRun ==
    ASSUME ControlTyped, Left # <<>>
    PROVE  /\ Head(Left) \in Range(BuildSteps)
           /\ PhaseOf(Head(Left)) = "review-prepare" => \A r \in ReviewerSet : seeds[r] \in Seeds
<1>1. todo \in Seq(Range(BuildSteps)) /\ DOMAIN todo = 1 .. Len(todo)
      /\ \A i \in 1 .. Len(todo) : todo[i] \in Range(BuildSteps)
  BY LenProperties, ElementOfSeq DEF ControlTyped
<1>2. PICK i \in 1 .. Len(todo) : Head(Left) = todo[i]
  BY <1>1, LeftParts
<1>3. QED
  BY <1>1, <1>2 DEF ControlTyped

LEMMA OutcomeSound ==
    ASSUME ReleaseInv, pc = "running", Left # <<>>, NEW outcome \in Outcomes(Head(Left))
    PROVE  /\ FilesSound(outcome.disk)
           /\ outcome.disk.adjudications = disk.adjudications
           /\ \A r \in ReviewerSet : \/ outcome.disk.packets[r] = disk.packets[r]
                                     \/ disk.packets[r] = Nothing
                                     \/ opts.force
<1> DEFINE step == Head(Left)
           e == outcome.disk
<1>1. ControlTyped /\ FilesSound(disk)
  BY DEF ReleaseInv
<1>2. step \in Range(BuildSteps)
  BY <1>1, StepRun
<1>3. PhaseOf(step) = "review-prepare" => \A r \in ReviewerSet : seeds[r] \in Seeds
  BY <1>1, StepRun
<1> HIDE DEF step
<1>4. Filed(disk)
  BY <1>1 DEF FilesSound
<1>5. CASE outcome = KilledWith(disk) \/ \E ok \in BOOLEAN : outcome = Outcome(disk, ok)
  BY <1>1, <1>5 DEF KilledWith, Outcome
<1>6. CASE step[1] \in Range(CheckSteps) /\ outcome \in CheckOutcomes(step[1])
  <2>1. FilesSound(e) /\ e = [disk EXCEPT !.checks = e.checks]
    BY <1>1, <1>6, CheckSound
  <2> HIDE DEF e
  <2>2. e.adjudications = disk.adjudications /\ e.packets = disk.packets
    BY <1>4, <2>1 DEF Filed
  <2>3. QED
    BY <2>1, <2>2 DEF e
<1>7. CASE outcome \in MatrixOutcomes
  <2>1. FilesSound(e)
    BY <1>1, <1>7, MatrixSound
  <2>2. e = [disk EXCEPT !.results = e.results, !.answers = e.answers]
    BY <1>1, <1>7, MatrixRows
  <2> HIDE DEF e
  <2>3. e.adjudications = disk.adjudications /\ e.packets = disk.packets
    BY <1>4, <2>2 DEF Filed
  <2>4. QED
    BY <2>1, <2>3 DEF e
<1>8. CASE /\ PhaseOf(step) = "review-prepare" /\ step[2] \in ReviewerSet
           /\ outcome \in PrepareOutcomes(step[2])
  <2>1. /\ FilesSound(e)
        /\ e = [disk EXCEPT !.packets = e.packets, !.mappings = e.mappings]
        /\ \A r \in ReviewerSet : \/ e.packets[r] = disk.packets[r]
                                  \/ disk.packets[r] = Nothing
                                  \/ opts.force
    BY <1>1, <1>3, <1>8, PrepareSound
  <2> HIDE DEF e
  <2>2. e.adjudications = disk.adjudications
    BY <1>4, <2>1 DEF Filed
  <2>3. QED
    BY <2>1, <2>2 DEF e
<1>9. CASE outcome \in ApplyOutcomes
  <2>1. FilesSound(e) /\ e = [disk EXCEPT !.reviewed = e.reviewed]
    BY <1>1, <1>9, ApplySound
  <2> HIDE DEF e
  <2>2. e.adjudications = disk.adjudications /\ e.packets = disk.packets
    BY <1>4, <2>1 DEF Filed
  <2>3. QED
    BY <2>1, <2>2 DEF e
<1>10. CASE outcome \in RuntimeOutcomes
  <2>1. FilesSound(e) /\ e = [disk EXCEPT !.runtime = e.runtime]
    BY <1>1, <1>10, RuntimeSound
  <2> HIDE DEF e
  <2>2. e.adjudications = disk.adjudications /\ e.packets = disk.packets
    BY <1>4, <2>1 DEF Filed
  <2>3. QED
    BY <2>1, <2>2 DEF e
<1>11. CASE outcome \in ReportOutcomes
  <2>1. FilesSound(e) /\ e = [disk EXCEPT !.page = e.page, !.summary = e.summary]
    BY <1>1, <1>11, ReportSound
  <2> HIDE DEF e
  <2>2. e.adjudications = disk.adjudications /\ e.packets = disk.packets
    BY <1>4, <2>1 DEF Filed
  <2>3. QED
    BY <2>1, <2>2 DEF e
<1>12. outcome \in Outcomes(step)
  BY DEF step
<1>13. QED
  BY <1>2, <1>5, <1>6, <1>7, <1>8, <1>9, <1>10, <1>11, <1>12, OutcomesByPhase

-----------------------------------------------------------------------------
(* The steps of the process, the reviewers and the adjudicator.            *)
LEMMA InitSound == Init => ReleaseInv
<1> SUFFICES ASSUME Init PROVE ReleaseInv
  OBVIOUS
<1>1. ControlTyped
  <2>1. <<>> \in Seq(Range(BuildSteps)) /\ DOMAIN todo = {}
    BY EmptySeq DEF Init
  <2>2. 0 \in 0 .. MaxStarts /\ 0 \in 0 .. MaxFaults
    BY ReleaseAssumption
  <2>3. seeds \in [ReviewerSet -> Seeds \cup {Nothing}]
    BY DEF Init
  <2>4. QED
    BY <2>1, <2>2, <2>3 DEF Init, ControlTyped
<1>2. Filed(disk)
  BY DEF Init, Filed
<1>3. Answered(disk) /\ Packed(disk) /\ Adjudicated(disk) /\ ReviewFiled(disk) /\ Summarised(disk)
  BY DEF Init, Answered, Packed, Adjudicated, ReviewFiled, Summarised
<1>4. QED
  BY <1>1, <1>2, <1>3 DEF ReleaseInv, FilesSound

(* Seeds that are drawn are kept.                                          *)
LEMMA StartSound ==
    ASSUME ReleaseInv, NEW command \in Commands, NEW drawn \in Draws, Start(command, drawn)
    PROVE  ReleaseInv'
<1>1. ControlTyped /\ FilesSound(disk)
  BY DEF ReleaseInv
<1>2. /\ command.resume \in BOOLEAN /\ command.force \in BOOLEAN /\ command.continue \in BOOLEAN
      /\ command.config \in Configs
      /\ drawn \in [ReviewerSet -> Seeds]
  BY ReleaseAssumption
<1> DEFINE found == command.resume /\ saved # Nothing
           refused == found /\ saved.config # command.config /\ ~command.force
           drawing == command.phases \cap {"review-prepare", "review-apply"} # {}
<1>3. /\ pc = "down" /\ starts < MaxStarts /\ starts' = starts + 1
      /\ strayed' = (\/ strayed
                     \/ command.continue
                     \/ command.force
                     \/ saved # Nothing /\ saved.config # command.config)
      /\ seeds' = IF drawing THEN EnsuredSeeds(drawn) ELSE seeds
      /\ disk' = disk /\ saved' = saved /\ failed' = failed /\ faults' = faults
  BY DEF Start
<1>4. refused => pc' = pc /\ opts' = opts /\ todo' = todo /\ held' = held
  BY DEF Start
<1>5. ~refused =>
        /\ pc' = "running"
        /\ opts' = [resume |-> command.resume, force |-> command.force,
                    continue |-> command.continue, config |-> command.config,
                    adjudicated |-> disk.adjudications # Nothing]
        /\ todo' = SelectedSteps(command.phases)
        /\ held' = IF found THEN saved
                   ELSE [config |-> command.config, done |-> {}, status |-> "none"]
  BY DEF Start
<1> HIDE DEF refused, drawing
<1>6. \A r \in ReviewerSet : /\ seeds'[r] \in Seeds \cup {Nothing}
                             /\ seeds[r] \in Seeds => seeds'[r] = seeds[r]
                             /\ drawing => seeds'[r] \in Seeds
  BY <1>1, <1>2, <1>3, NothingAssumption DEF ControlTyped, EnsuredSeeds
<1>7. seeds' \in [ReviewerSet -> Seeds \cup {Nothing}]
  BY <1>1, <1>2, <1>3, <1>6 DEF ControlTyped, EnsuredSeeds
<1>8. FilesSound(disk)'
  <2>1. Packed(disk)'
    BY <1>1, <1>3, <1>6 DEF FilesSound, Packed
  <2>2. Filed(disk)' /\ Answered(disk)' /\ Adjudicated(disk)' /\ ReviewFiled(disk)'
        /\ Summarised(disk)'
    BY <1>1, <1>3 DEF FilesSound, Filed, Answered, Adjudicated, ReviewFiled, Summarised
  <2>3. QED
    BY <2>1, <2>2 DEF FilesSound
<1>9. /\ starts' \in 0 .. MaxStarts /\ starts' # 0
      /\ strayed' \in BOOLEAN /\ failed' \in BOOLEAN /\ faults' \in 0 .. MaxFaults
      /\ saved' \in States \cup {Nothing}
  <2>1. starts' \in 0 .. MaxStarts /\ starts' # 0
    BY <1>1, <1>3, ReleaseAssumption DEF ControlTyped
  <2>2. QED
    BY <1>1, <1>2, <1>3, <2>1 DEF ControlTyped
<1>10. CASE refused
  <2>1. todo = todo' /\ \A i \in DOMAIN todo : PhaseOf(todo[i]) = "review-prepare" =>
            \A r \in ReviewerSet : seeds'[r] \in Seeds
    BY <1>1, <1>4, <1>6, <1>10 DEF ControlTyped
  <2>2. opts' = Nothing /\ held' = Nothing /\ pc' = "down"
    BY <1>1, <1>3, <1>4, <1>10 DEF ControlTyped
  <2>3. ControlTyped'
    BY <1>1, <1>7, <1>9, <2>1, <2>2 DEF ControlTyped
  <2>4. QED
    BY <1>8, <2>3 DEF ReleaseInv
<1>11. CASE ~refused
  <2> DEFINE adjudicated == disk.adjudications # Nothing
  <2>9. /\ opts' = [resume |-> command.resume, force |-> command.force,
                    continue |-> command.continue, config |-> command.config,
                    adjudicated |-> adjudicated]
        /\ adjudicated \in BOOLEAN
    BY <1>5, <1>11
  <2> HIDE DEF adjudicated
  <2>1. opts' \in Options /\ opts'.adjudicated = adjudicated
    BY <1>2, <2>9 DEF Options
  <2>2. held' \in States
    <3>1. CASE found
      BY <1>1, <1>5, <1>11, <3>1 DEF ControlTyped
    <3>2. CASE ~found
      BY <1>2, <1>5, <1>11, <3>2 DEF States
    <3>3. QED
      BY <3>1, <3>2
  <2> DEFINE T == {s \in Range(BuildSteps) : PhaseOf(s) \in command.phases}
  <2>3. todo' \in Seq(T)
    BY <1>5, <1>11, SelectedType
  <2>4. todo' \in Seq(Range(BuildSteps)) /\ \A i \in DOMAIN todo' : todo'[i] \in T
    <3>1. T \subseteq Range(BuildSteps)
      OBVIOUS
    <3> HIDE DEF T
    <3>2. DOMAIN todo' = 1 .. Len(todo') /\ Len(todo') \in Nat
          /\ \A i \in 1 .. Len(todo') : todo'[i] \in T
      BY <2>3, LenProperties, ElementOfSeq
    <3>3. todo' \in [1 .. Len(todo') -> Range(BuildSteps)]
      BY <2>3, <3>1, <3>2, SeqDef
    <3>4. QED
      BY <3>2, <3>3, SeqDef
  <2>5. ASSUME NEW i \in DOMAIN todo', PhaseOf(todo'[i]) = "review-prepare"
        PROVE  \A r \in ReviewerSet : seeds'[r] \in Seeds
    <3>1. "review-prepare" \in command.phases
      BY <2>4, <2>5
    <3>2. drawing
      BY <3>1 DEF drawing
    <3>3. QED
      BY <1>6, <3>2
  <2>6. opts'.adjudicated => disk.adjudications # Nothing
    BY <2>1 DEF adjudicated
  <2>7. ControlTyped'
    <3>1. pc' = "running" /\ disk' = disk
      BY <1>3, <1>5, <1>11
    <3>2. \A i \in DOMAIN todo' : PhaseOf(todo'[i]) = "review-prepare" =>
            \A r \in ReviewerSet : seeds'[r] \in Seeds
      BY <2>5
    <3>3. QED
      BY <1>7, <1>9, <2>1, <2>2, <2>4, <2>6, <3>1, <3>2 DEF ControlTyped
  <2>8. QED
    BY <1>8, <2>7 DEF ReleaseInv
<1>12. QED
  BY <1>10, <1>11

(* What is left after a step was to be done before it.                     *)
LEMMA TailLeft ==
    ASSUME ControlTyped, Left # <<>>
    PROVE  /\ Tail(Left) \in Seq(Range(BuildSteps))
           /\ \E i \in 1 .. Len(todo) :
                /\ Head(Left) = todo[i]
                /\ \A j \in 1 .. i - 1 : Skips(todo[j])
                /\ Len(Tail(Left)) = Len(todo) - i
                /\ \A j \in 1 .. Len(todo) - i : Tail(Left)[j] = todo[i + j]
           /\ \A j \in DOMAIN Tail(Left) : \E i \in DOMAIN todo : Tail(Left)[j] = todo[i]
<1>1. /\ todo \in Seq(Range(BuildSteps)) /\ DOMAIN todo = 1 .. Len(todo) /\ Len(todo) \in Nat
      /\ \A i \in 1 .. Len(todo) : todo[i] \in Range(BuildSteps)
  BY LenProperties, ElementOfSeq DEF ControlTyped
<1>2. PICK i \in 1 .. Len(todo) : /\ Head(Left) = todo[i]
                                  /\ \A j \in 1 .. i - 1 : Skips(todo[j])
                                  /\ Tail(Left) = SubSeq(todo, i + 1, Len(todo))
  BY <1>1, LeftParts
<1> DEFINE rest == SubSeq(todo, i + 1, Len(todo))
<1>3. i + 1 \in 1 .. Len(todo) + 1 /\ i \in Nat
  BY <1>1
<1>4. /\ rest \in Seq(Range(BuildSteps))
      /\ Len(rest) = Len(todo) - i
      /\ \A j \in 1 .. Len(todo) - i : rest[j] = todo[i + j]
  <2>1. \A j \in i + 1 .. Len(todo) : todo[j] \in Range(BuildSteps)
    BY <1>1, <1>3
  <2>2. /\ rest \in Seq(Range(BuildSteps))
        /\ Len(rest) = IF i + 1 <= Len(todo) THEN Len(todo) - (i + 1) + 1 ELSE 0
        /\ \A j \in 1 .. Len(todo) - (i + 1) + 1 : rest[j] = todo[(i + 1) + j - 1]
    BY <1>1, <1>3, <2>1, SubSeqProperties
  <2>3. \A j \in 1 .. Len(todo) - i : (i + 1) + j - 1 = i + j
    BY <1>1, <1>3
  <2>4. Len(todo) - (i + 1) + 1 = Len(todo) - i
    BY <1>1, <1>3
  <2>5. Len(rest) = Len(todo) - i
    <3>1. CASE i + 1 <= Len(todo)
      BY <2>2, <2>4, <3>1
    <3>2. CASE ~(i + 1 <= Len(todo))
      <4>1. i = Len(todo)
        <5>1. i \in Nat /\ i <= Len(todo) /\ Len(todo) \in Nat
          BY <1>1
        <5>2. QED
          BY <3>2, <5>1
      <4>2. Len(todo) - i = 0
        BY <1>1, <4>1
      <4>3. QED
        BY <2>2, <3>2, <4>2
    <3>3. QED
      BY <3>1, <3>2
  <2> HIDE DEF rest
  <2>6. QED
    BY <2>2, <2>3, <2>4, <2>5
<1> HIDE DEF rest
<1>5. ASSUME NEW j \in DOMAIN rest PROVE \E k \in DOMAIN todo : rest[j] = todo[k]
  <2>1. j \in 1 .. Len(todo) - i
    BY <1>4, LenProperties
  <2>2. i + j \in DOMAIN todo
    BY <1>1, <1>3, <2>1
  <2>3. QED
    BY <1>4, <2>1, <2>2
<1>6. Tail(Left) = rest
  BY <1>2 DEF rest
<1>7. QED
  BY <1>2, <1>4, <1>5, <1>6

LEMMA RunStepSound ==
    ASSUME ReleaseInv, Left # <<>>, NEW outcome \in Outcomes(Head(Left)), RunStep(outcome)
    PROVE  ReleaseInv'
<1> DEFINE step == Head(Left)
           ok == outcome.ok /\ EvidenceExists(outcome.disk, step)
<1>1. /\ pc = "running" /\ disk' = outcome.disk
      /\ faults' = IF outcome.killed THEN faults + 1 ELSE faults
      /\ faults' <= MaxFaults
      /\ held' = [held EXCEPT !.done = IF ok THEN @ \cup {step} ELSE @ \ {step}]
      /\ saved' = held'
      /\ failed' = (failed \/ ~ok)
      /\ seeds' = seeds /\ pc' = pc /\ opts' = opts /\ starts' = starts /\ strayed' = strayed
  BY DEF RunStep, Record
<1>2. todo' \in {Tail(Left), <<>>}
  BY DEF RunStep, Record
<1>3. ControlTyped /\ FilesSound(disk)
  BY DEF ReleaseInv
<1>4. FilesSound(outcome.disk) /\ outcome.disk.adjudications = disk.adjudications
  BY <1>1, OutcomeSound
<1>5. FilesSound(disk)'
  BY <1>1, <1>4 DEF FilesSound, Filed, Answered, Packed, Adjudicated, ReviewFiled, Summarised
<1>6. step \in Range(BuildSteps)
  BY <1>3, StepRun
<1> HIDE DEF step, ok
<1>7. held' \in States
  BY <1>1, <1>3, <1>6 DEF ControlTyped, States
<1>8. faults' \in 0 .. MaxFaults
  BY <1>1, <1>3, ReleaseAssumption DEF ControlTyped
<1>9. /\ todo' \in Seq(Range(BuildSteps))
      /\ \A j \in DOMAIN todo' : \E i \in DOMAIN todo : todo'[j] = todo[i]
  <2>1. CASE todo' = Tail(Left)
    BY <1>3, <2>1, TailLeft
  <2>2. CASE todo' = <<>>
    BY <2>2, EmptySeq
  <2>3. QED
    BY <1>2, <2>1, <2>2
<1>10. \A j \in DOMAIN todo' : PhaseOf(todo'[j]) = "review-prepare" =>
            \A r \in ReviewerSet : seeds'[r] \in Seeds
  BY <1>1, <1>3, <1>9 DEF ControlTyped
<1>11. failed' \in BOOLEAN
  BY <1>1
<1>12. ControlTyped'
  BY <1>1, <1>3, <1>4, <1>7, <1>8, <1>9, <1>10, <1>11 DEF ControlTyped
<1>13. QED
  BY <1>5, <1>12 DEF ReleaseInv

LEMMA StopTyped ==
    ASSUME ControlTyped, Stop, seeds' = seeds, starts' = starts, strayed' = strayed,
           saved' \in States \cup {Nothing}, faults' \in 0 .. MaxFaults
    PROVE  ControlTyped'
<1>1. pc' = "down" /\ opts' = Nothing /\ todo' = <<>> /\ held' = Nothing /\ failed' = FALSE
  BY DEF Stop
<1>2. todo' \in Seq(Range(BuildSteps)) /\ DOMAIN todo' = {}
  BY <1>1, EmptySeq
<1>3. QED
  BY <1>1, <1>2 DEF ControlTyped

LEMMA FinishSound ==
    ASSUME ReleaseInv, Finish
    PROVE  ReleaseInv'
<1>1. /\ pc = "running" /\ Stop
      /\ saved' = [held EXCEPT !.status = IF failed THEN "failed" ELSE "complete"]
      /\ disk' = disk /\ seeds' = seeds /\ starts' = starts /\ faults' = faults
      /\ strayed' = strayed
  BY DEF Finish
<1>2. ControlTyped /\ FilesSound(disk)
  BY DEF ReleaseInv
<1>3. saved' \in States
  BY <1>1, <1>2 DEF ControlTyped, States
<1>4. ControlTyped'
  <2>1. faults' \in 0 .. MaxFaults
    BY <1>1, <1>2 DEF ControlTyped
  <2>2. QED
    BY <1>1, <1>2, <1>3, <2>1, StopTyped
<1>5. FilesSound(disk)'
  BY <1>1, <1>2 DEF FilesSound, Filed, Answered, Packed, Adjudicated, ReviewFiled, Summarised
<1>6. QED
  BY <1>4, <1>5 DEF ReleaseInv

LEMMA CrashSound ==
    ASSUME ReleaseInv, NEW outcome, Crash(outcome),
           \/ Left # <<>> /\ outcome \in Outcomes(Head(Left))
           \/ outcome = Failed
    PROVE  ReleaseInv'
<1>1. /\ pc = "running" /\ Stop /\ faults < MaxFaults /\ faults' = faults + 1
      /\ disk' = outcome.disk
      /\ seeds' = seeds /\ saved' = saved /\ starts' = starts /\ strayed' = strayed
  BY DEF Crash
<1>2. ControlTyped /\ FilesSound(disk)
  BY DEF ReleaseInv
<1>3. FilesSound(outcome.disk)
  <2>1. CASE Left # <<>> /\ outcome \in Outcomes(Head(Left))
    BY <1>1, <2>1, OutcomeSound
  <2>2. CASE outcome = Failed
    BY <1>2, <2>2 DEF Failed, Outcome
  <2>3. QED
    BY <2>1, <2>2
<1>4. FilesSound(disk)'
  BY <1>1, <1>3 DEF FilesSound, Filed, Answered, Packed, Adjudicated, ReviewFiled, Summarised
<1>5. ControlTyped'
  <2>1. faults' \in 0 .. MaxFaults
    BY <1>1, <1>2, ReleaseAssumption DEF ControlTyped
  <2>2. saved' \in States \cup {Nothing}
    BY <1>1, <1>2 DEF ControlTyped
  <2>3. QED
    BY <1>1, <1>2, <2>1, <2>2, StopTyped
<1>6. QED
  BY <1>4, <1>5 DEF ReleaseInv

(* Filling in changes scores only.                                         *)
LEMMA FillSound ==
    ASSUME ReleaseInv, NEW r \in ReviewerSet, NEW judged \in [ReviewIds -> Judgements],
           Fill(r, judged)
    PROVE  ReleaseInv'
<1> DEFINE new == [id \in DOMAIN disk.packets[r] |-> [s \in Sides |->
                    [disk.packets[r][id][s] EXCEPT !.scores = judged[id][s]]]]
<1>1. /\ pc = "down" /\ disk.packets[r] # Nothing
      /\ disk' = [disk EXCEPT !.packets[r] = new]
      /\ seeds' = seeds /\ saved' = saved /\ pc' = pc /\ opts' = opts /\ todo' = todo
      /\ held' = held /\ failed' = failed /\ starts' = starts /\ faults' = faults
      /\ strayed' = strayed
  BY DEF Fill
<1>2. ControlTyped /\ FilesSound(disk) /\ Packed(disk)
  BY DEF ReleaseInv, FilesSound
<1>3. /\ seeds[r] \in Seeds
      /\ DOMAIN new = DOMAIN disk.packets[r]
      /\ DOMAIN new \subseteq ReviewIds
      /\ \A id \in DOMAIN new, s \in Sides :
            LET side == new[id][s]
            IN /\ side = [text |-> side.text, scores |-> side.scores]
               /\ side.text \in Texts /\ side.text[1] = Writer(seeds[r], id, s)
               /\ side.scores \in Scores
  <2>1. seeds[r] \in Seeds /\ DOMAIN new = DOMAIN disk.packets[r] /\ DOMAIN new \subseteq ReviewIds
    BY <1>1, <1>2 DEF Packed
  <2>2. ASSUME NEW id \in DOMAIN new, NEW s \in Sides
        PROVE  LET side == new[id][s]
               IN /\ side = [text |-> side.text, scores |-> side.scores]
                  /\ side.text \in Texts /\ side.text[1] = Writer(seeds[r], id, s)
                  /\ side.scores \in Scores
    <3> DEFINE side == disk.packets[r][id][s]
    <3>1. /\ side = [text |-> side.text, scores |-> side.scores]
          /\ side.text \in Texts /\ side.text[1] = Writer(seeds[r], id, s)
      BY <1>1, <1>2, <2>1 DEF Packed
    <3>2. judged[id] \in Judgements /\ judged[id][s] \in Scores
      BY <2>1, ReleaseAssumption
    <3>3. new[id][s] = [side EXCEPT !.scores = judged[id][s]]
      OBVIOUS
    <3> HIDE DEF new, side
    <3>4. new[id][s] = [text |-> side.text, scores |-> judged[id][s]]
      BY <3>1, <3>3
    <3>5. QED
      BY <3>1, <3>2, <3>4
  <2>3. QED
    BY <2>1, <2>2
<1> HIDE DEF new
<1>4. disk' = [checks |-> disk.checks, results |-> disk.results, answers |-> disk.answers,
               packets |-> [disk.packets EXCEPT ![r] = new], mappings |-> disk.mappings,
               adjudications |-> disk.adjudications, reviewed |-> disk.reviewed,
               runtime |-> disk.runtime, page |-> disk.page, summary |-> disk.summary]
  BY <1>1, <1>2 DEF FilesSound, Filed
<1>5. \A q \in ReviewerSet : disk'.packets[q] = IF q = r THEN new ELSE disk.packets[q]
  BY <1>2, <1>4 DEF FilesSound, Filed
<1>6. Filed(disk)'
  BY <1>2, <1>4 DEF FilesSound, Filed
<1>7. Packed(disk)'
  <2>1. SUFFICES ASSUME NEW q \in ReviewerSet
        PROVE  /\ disk'.packets[q] # Nothing =>
                  /\ seeds[q] \in Seeds
                  /\ DOMAIN disk'.packets[q] \subseteq ReviewIds
                  /\ \A id \in DOMAIN disk'.packets[q], s \in Sides :
                      LET side == disk'.packets[q][id][s]
                      IN /\ side = [text |-> side.text, scores |-> side.scores]
                         /\ side.text \in Texts /\ side.text[1] = Writer(seeds[q], id, s)
                         /\ side.scores \in Scores
               /\ disk'.mappings[q] # Nothing =>
                  /\ seeds[q] \in Seeds
                  /\ DOMAIN disk'.mappings[q] \subseteq ReviewIds
                  /\ \A id \in DOMAIN disk'.mappings[q] : disk'.mappings[q][id] = seeds[q][id]
    BY <1>1 DEF Packed
  <2>2. disk'.mappings = disk.mappings
    BY <1>4
  <2>3. CASE q = r
    BY <1>2, <1>3, <1>5, <2>2, <2>3 DEF Packed
  <2>4. CASE q # r
    BY <1>2, <1>5, <2>2, <2>4 DEF Packed
  <2>5. QED
    BY <2>3, <2>4
<1>8. Answered(disk)' /\ Adjudicated(disk)' /\ ReviewFiled(disk)' /\ Summarised(disk)'
  BY <1>2, <1>4 DEF FilesSound, Answered, Adjudicated, ReviewFiled, Summarised
<1>9. ControlTyped'
  BY <1>1, <1>2, <1>4 DEF ControlTyped
<1>10. QED
  BY <1>6, <1>7, <1>8, <1>9 DEF ReleaseInv, FilesSound

LEMMA AdjudicateSound ==
    ASSUME ReleaseInv, NEW judged \in [ReviewIds -> Judgements], Adjudicate(judged)
    PROVE  ReleaseInv'
<1> DEFINE new == [id \in disk.reviewed.review.disputed |->
                    [candidate |-> [scores |-> judged[id]["a"]],
                     baseline |-> [scores |-> judged[id]["b"]]]]
<1>1. /\ pc = "down" /\ disk.reviewed # Nothing
      /\ disk' = [disk EXCEPT !.adjudications = new]
      /\ seeds' = seeds /\ saved' = saved /\ pc' = pc /\ opts' = opts /\ todo' = todo
      /\ held' = held /\ failed' = failed /\ starts' = starts /\ faults' = faults
      /\ strayed' = strayed
  BY DEF Adjudicate
<1>2. ControlTyped /\ FilesSound(disk)
  BY DEF ReleaseInv
<1>3. /\ DOMAIN new \subseteq ReviewIds
      /\ \A id \in DOMAIN new : new[id].candidate.scores \in Scores
                                /\ new[id].baseline.scores \in Scores
  <2>1. DOMAIN new \subseteq ReviewIds
    BY <1>1, <1>2 DEF FilesSound, ReviewFiled
  <2>2. ASSUME NEW id \in DOMAIN new
        PROVE  new[id].candidate.scores \in Scores /\ new[id].baseline.scores \in Scores
    <3>1. judged[id] \in Judgements
      BY <2>1
    <3>2. judged[id]["a"] \in Scores /\ judged[id]["b"] \in Scores
      BY <3>1, ReleaseAssumption DEF Sides
    <3>3. QED
      BY <3>2
  <2>3. QED
    BY <2>1, <2>2
<1> HIDE DEF new
<1>4. disk' = [checks |-> disk.checks, results |-> disk.results, answers |-> disk.answers,
               packets |-> disk.packets, mappings |-> disk.mappings,
               adjudications |-> new, reviewed |-> disk.reviewed,
               runtime |-> disk.runtime, page |-> disk.page, summary |-> disk.summary]
  BY <1>1, <1>2 DEF FilesSound, Filed
<1>5. Filed(disk)' /\ Adjudicated(disk)'
  BY <1>2, <1>3, <1>4 DEF FilesSound, Filed, Adjudicated
<1>6. Answered(disk)' /\ Packed(disk)' /\ ReviewFiled(disk)' /\ Summarised(disk)'
  BY <1>1, <1>2, <1>4 DEF FilesSound, Answered, Packed, ReviewFiled, Summarised
<1>7. ControlTyped'
  BY <1>1, <1>2, NothingAssumption DEF ControlTyped
<1>8. QED
  BY <1>5, <1>6, <1>7 DEF ReleaseInv, FilesSound

LEMMA StepSound == ReleaseInv /\ [Next]_vars => ReleaseInv'
<1> SUFFICES ASSUME ReleaseInv, [Next]_vars PROVE ReleaseInv'
  OBVIOUS
<1>1. ASSUME NEW command \in Commands, NEW drawn \in Draws, Start(command, drawn)
      PROVE  ReleaseInv'
  BY <1>1, StartSound
<1>2. ASSUME Left # <<>>, NEW outcome \in Outcomes(Head(Left)), RunStep(outcome)
      PROVE  ReleaseInv'
  BY <1>2, RunStepSound
<1>3. ASSUME Finish PROVE ReleaseInv'
  BY <1>3, FinishSound
<1>4. ASSUME Left # <<>>, NEW outcome \in Outcomes(Head(Left)), Crash(outcome)
      PROVE  ReleaseInv'
  BY <1>4, CrashSound
<1>5. ASSUME Crash(Failed) PROVE ReleaseInv'
  BY <1>5, CrashSound
<1>6. ASSUME NEW r \in ReviewerSet, NEW judged \in [ReviewIds -> Judgements], Fill(r, judged)
      PROVE  ReleaseInv'
  BY <1>6, FillSound
<1>7. ASSUME NEW judged \in [ReviewIds -> Judgements], Adjudicate(judged)
      PROVE  ReleaseInv'
  BY <1>7, AdjudicateSound
<1>8. ASSUME UNCHANGED vars PROVE ReleaseInv'
  BY <1>8 DEF vars, ReleaseInv, ControlTyped, FilesSound, Filed, Answered, Packed, Adjudicated,
              ReviewFiled, Summarised
<1>9. QED
  BY <1>1, <1>2, <1>3, <1>4, <1>5, <1>6, <1>7, <1>8 DEF Next

LEMMA ReleaseInvariant == Spec => []ReleaseInv
BY InitSound, StepSound, PTL DEF Spec

-----------------------------------------------------------------------------
(* The state keeps its types, whatever is run, killed, filled in or        *)
(* adjudicated.                                                            *)
THEOREM ReleaseTyped == Spec => []TypeOK
<1>1. ReleaseInv => TypeOK
  <2> SUFFICES ASSUME ReleaseInv PROVE TypeOK
    OBVIOUS
  <2>1. ControlTyped /\ FilesSound(disk)
    BY DEF ReleaseInv
  <2>2. pc = "running" <=> held # Nothing
    BY <2>1, NothingAssumption DEF ControlTyped
  <2>3. \A r \in ReviewerSet :
            /\ disk.packets[r] # Nothing => \A id \in DOMAIN disk.packets[r] : \A s \in Sides :
                disk.packets[r][id][s].text \in Texts
            /\ disk.mappings[r] # Nothing => \A id \in DOMAIN disk.mappings[r] :
                disk.mappings[r][id] \in Sides
    <3>1. \A seed \in Seeds : \A id \in ReviewIds : seed[id] \in Sides
      BY DEF Seeds
    <3>2. QED
      BY <2>1, <3>1 DEF FilesSound, Packed
  <2>4. disk.summary # Nothing => disk.summary.status \in {"complete", "incomplete"}
    BY <2>1 DEF FilesSound, Summarised
  <2>5. QED
    BY <2>1, <2>2, <2>3, <2>4 DEF TypeOK, ControlTyped, FilesSound, Filed
<1>2. QED
  BY <1>1, ReleaseInvariant, PTL

(* Whatever packets and keys are left by processes that were killed or     *)
(* forced, and whoever fills them in: scores are credited to the variant   *)
(* that wrote the text.                                                    *)
THEOREM ScoresCredited == Spec => []UnblindedRight
<1>1. ReleaseInv => UnblindedRight
  BY DEF ReleaseInv, FilesSound, ReviewFiled, Credited, UnblindedRight
<1>2. QED
  BY <1>1, ReleaseInvariant, PTL

(* In a summary that says complete no candidate row is worse than the one  *)
(* baseline row it is paired with, and the same goes for any results that  *)
(* acceptance may be handed.                                               *)
THEOREM AcceptedAreNoWorse == Spec => []CompletePairsHold
<1>1. ReleaseInv => CompletePairsHold
  <2> SUFFICES ASSUME ReleaseInv PROVE CompletePairsHold
    OBVIOUS
  <2>1. ASSUME NEW payload \in Payloads, MatrixHolds(payload, Candidates)
        PROVE  PairsHold(payload, Candidates)
    BY <2>1, ReleaseAssumption, AcceptedPairsHold
  <2>2. disk.summary # Nothing /\ disk.summary.status = "complete"
            => PairsHold(disk.summary.matrix, Candidates)
    BY DEF ReleaseInv, FilesSound, Summarised
  <2>3. QED
    BY <2>1, <2>2 DEF CompletePairsHold
<1>2. QED
  BY <1>1, ReleaseInvariant, PTL

(* A packet that a reviewer has begun to fill in is overwritten by a       *)
(* process with --force only.                                              *)
THEOREM PacketsSurvive == Spec => FilledPacketsSurvive
<1> DEFINE Survives(r) ==
        \/ disk.packets[r] = Nothing
        \/ disk'.packets[r] = disk.packets[r]
        \/ \A id \in DOMAIN disk.packets[r] : \A s \in Sides :
            disk.packets[r][id][s].scores = Blank
        \/ opts # Nothing /\ opts.force
<1>1. ReleaseInv /\ [Next]_vars => \A r \in ReviewerSet : Survives(r)
  <2> SUFFICES ASSUME ReleaseInv, [Next]_vars, NEW r \in ReviewerSet PROVE Survives(r)
    OBVIOUS
  <2>1. ControlTyped /\ Filed(disk)
    BY DEF ReleaseInv, FilesSound
  <2>2. ASSUME disk'.packets = disk.packets PROVE Survives(r)
    BY <2>2
  <2>3. ASSUME pc = "running", Left # <<>>, NEW outcome \in Outcomes(Head(Left)),
               disk' = outcome.disk
        PROVE  Survives(r)
    <3>1. \/ outcome.disk.packets[r] = disk.packets[r]
          \/ disk.packets[r] = Nothing
          \/ opts.force
      BY <2>3, OutcomeSound
    <3>2. opts # Nothing
      BY <2>1, <2>3, NothingAssumption DEF ControlTyped
    <3>3. QED
      BY <2>3, <3>1, <3>2
  <2>4. ASSUME NEW q \in ReviewerSet, NEW judged \in [ReviewIds -> Judgements], Fill(q, judged)
        PROVE  Survives(r)
    <3>1. CASE q = r
      BY <2>4, <3>1 DEF Fill
    <3>2. CASE q # r
      <4> DEFINE new == [id \in DOMAIN disk.packets[q] |-> [s \in Sides |->
                    [disk.packets[q][id][s] EXCEPT !.scores = judged[id][s]]]]
      <4>1. disk' = [disk EXCEPT !.packets[q] = new]
        BY <2>4 DEF Fill
      <4> HIDE DEF new
      <4>2. disk'.packets[r] = disk.packets[r]
        BY <2>1, <3>2, <4>1 DEF Filed
      <4>3. QED
        BY <4>2
    <3>3. QED
      BY <3>1, <3>2
  <2>5. ASSUME NEW judged \in [ReviewIds -> Judgements], Adjudicate(judged)
        PROVE  disk'.packets = disk.packets
    <3> DEFINE new == [id \in disk.reviewed.review.disputed |->
                    [candidate |-> [scores |-> judged[id]["a"]],
                     baseline |-> [scores |-> judged[id]["b"]]]]
    <3>1. disk' = [disk EXCEPT !.adjudications = new]
      BY <2>5 DEF Adjudicate
    <3> HIDE DEF new
    <3>2. QED
      BY <2>1, <3>1 DEF Filed
  <2> HIDE DEF Survives
  <2>6. ASSUME NEW command \in Commands, NEW drawn \in Draws, Start(command, drawn)
        PROVE  Survives(r)
    BY <2>2, <2>6 DEF Start
  <2>7. ASSUME Left # <<>>, NEW outcome \in Outcomes(Head(Left)), RunStep(outcome)
        PROVE  Survives(r)
    BY <2>3, <2>7 DEF RunStep
  <2>8. ASSUME Finish PROVE Survives(r)
    BY <2>2, <2>8 DEF Finish
  <2>9. ASSUME Left # <<>>, NEW outcome \in Outcomes(Head(Left)), Crash(outcome)
        PROVE  Survives(r)
    BY <2>3, <2>9 DEF Crash
  <2>10. ASSUME Crash(Failed) PROVE Survives(r)
    BY <2>2, <2>10 DEF Crash, Failed, Outcome
  <2>11. ASSUME UNCHANGED vars PROVE Survives(r)
    BY <2>2, <2>11 DEF vars
  <2>12. QED
    BY <2>2, <2>4, <2>5, <2>6, <2>7, <2>8, <2>9, <2>10, <2>11 DEF Next
<1>2. ReleaseInv /\ [Next]_vars => [\A r \in ReviewerSet : Survives(r)]_vars
  BY <1>1
<1>3. QED
  BY <1>2, ReleaseInvariant, PTL DEF Spec, FilledPacketsSurvive

-----------------------------------------------------------------------------
(* When the record says complete.                                          *)
Report == <<"release-report">>

(* The report is the last step of a process, and recorded as done only     *)
(* when it said complete; what a process found or began with is recorded   *)
(* before it comes to the report.                                          *)
CompletionInv ==
    /\ saved # Nothing =>
        /\ saved.status = "complete" => Report \in saved.done
        /\ Report \in saved.done => ReportedComplete
    /\ pc = "running" =>
        /\ held.status = "complete" => Report \in held.done
        /\ Report \in held.done => ReportedComplete
        /\ \/ held = saved
           \/ todo = BuildSteps /\ held.done = {}
        /\ \A i \in DOMAIN todo : todo[i] = Report <=> i = Len(todo)
        /\ ~failed => Report \in held.done \/ todo # <<>>
        /\ ~opts.resume /\ todo # <<>> => Report \notin held.done

LEMMA BuildStepsEnds ==
    /\ Len(BuildSteps) \in Nat /\ Len(BuildSteps) > 1
    /\ BuildSteps[1] = <<"unit-tests">>
    /\ \A i \in 1 .. Len(BuildSteps) : BuildSteps[i] = Report <=> i = Len(BuildSteps)
<1> DEFINE checks == [i \in DOMAIN CheckSteps |-> <<CheckSteps[i]>>]
           prepares == [i \in DOMAIN Reviewers |-> Prepare(Reviewers[i])]
           S == StepSet \ {Report}
           back == <<<<"review-apply">>, <<"runtime">>, <<"release-report">>>>
           front == <<<<"unit-tests">>>> \o checks \o <<<<"matrix">>>> \o prepares
<1>1. /\ \A c \in Range(CheckSteps) : <<c>> \in S
      /\ \A r \in ReviewerSet : Prepare(r) \in S
      /\ <<"unit-tests">> \in S /\ <<"matrix">> \in S /\ <<"review-apply">> \in S
      /\ <<"runtime">> \in S
  <2>1. \A c \in Range(CheckSteps) : <<c>> # Report
    <3>1. \A c \in Range(CheckSteps) : c # "release-report"
      BY ReleaseAssumption
    <3>2. QED
      BY <3>1 DEF Report
  <2>2. \A r \in ReviewerSet : Prepare(r) # Report
    BY DEF Prepare, Report
  <2>3. QED
    BY <2>1, <2>2 DEF StepSet, Report
<1>2. checks \in Seq(S)
  <2>1. Len(CheckSteps) \in Nat /\ DOMAIN CheckSteps = 1 .. Len(CheckSteps)
    BY ReleaseAssumption, LenProperties
  <2>2. \A i \in 1 .. Len(CheckSteps) : <<CheckSteps[i]>> \in S
    <3> HIDE DEF S
    <3>1. QED
      BY <1>1, <2>1 DEF Range
  <2>3. checks \in [1 .. Len(CheckSteps) -> S]
    <3> HIDE DEF S
    <3>1. QED
      BY <2>1, <2>2
  <2> HIDE DEF S, checks
  <2>4. QED
    BY <2>1, <2>3, SeqDef
<1>3. prepares \in Seq(S)
  <2>1. Len(Reviewers) \in Nat /\ DOMAIN Reviewers = 1 .. Len(Reviewers)
    BY ReleaseAssumption, LenProperties
  <2>2. \A i \in 1 .. Len(Reviewers) : Prepare(Reviewers[i]) \in S
    <3> HIDE DEF S
    <3>1. QED
      BY <1>1, <2>1 DEF ReviewerSet, Range
  <2>3. prepares \in [1 .. Len(Reviewers) -> S]
    <3> HIDE DEF S
    <3>1. QED
      BY <2>1, <2>2
  <2> HIDE DEF S, prepares
  <2>4. QED
    BY <2>1, <2>3, SeqDef
<1>4. <<<<"unit-tests">>>> \in Seq(S) /\ <<<<"matrix">>>> \in Seq(S)
  <2> HIDE DEF S
  <2>1. QED
    BY <1>1, OneElement
<1>5. BuildSteps = front \o back
  BY DEF BuildSteps
<1>6. back[1] \in S /\ back[2] \in S /\ back[3] = Report /\ Len(back) = 3
  <2> HIDE DEF S
  <2>1. QED
    BY <1>1 DEF Report
<1>7. back \in Seq(StepSet)
  BY DEF StepSet
<1> HIDE DEF checks, prepares, back, S
<1>8. front \in Seq(S) /\ Len(front) \in Nat /\ Len(front) # 0 /\ front[1] = <<"unit-tests">>
  <2> DEFINE one == <<<<"unit-tests">>>>
             two == one \o checks
             three == two \o <<<<"matrix">>>>
  <2>1. one \in Seq(S) /\ Len(one) = 1 /\ one[1] = <<"unit-tests">>
    BY <1>4
  <2> HIDE DEF one
  <2>2. two \in Seq(S) /\ Len(two) \in Nat /\ Len(two) >= 1 /\ two[1] = <<"unit-tests">>
    <3>1. two \in Seq(S) /\ Len(two) = Len(one) + Len(checks) /\ two[1] = one[1]
      BY <1>2, <2>1, ConcatProperties
    <3>2. Len(checks) \in Nat
      BY <1>2, LenProperties
    <3> HIDE DEF two
    <3>3. QED
      BY <2>1, <3>1, <3>2
  <2> HIDE DEF two
  <2>3. three \in Seq(S) /\ Len(three) \in Nat /\ Len(three) >= 1 /\ three[1] = <<"unit-tests">>
    <3>1. /\ three \in Seq(S) /\ Len(three) = Len(two) + Len(<<<<"matrix">>>>)
          /\ three[1] = two[1]
      BY <1>4, <2>2, ConcatProperties
    <3>2. Len(<<<<"matrix">>>>) = 1
      OBVIOUS
    <3> HIDE DEF three
    <3>3. QED
      BY <2>2, <3>1, <3>2
  <2> HIDE DEF three
  <2>4. front = three \o prepares
    BY DEF three, two, one
  <2> HIDE DEF front
  <2>5. front \in Seq(S) /\ Len(front) = Len(three) + Len(prepares) /\ front[1] = three[1]
    BY <1>3, <2>3, <2>4, ConcatProperties
  <2>6. Len(prepares) \in Nat
    BY <1>3, LenProperties
  <2>7. QED
    BY <2>3, <2>5, <2>6
<1> HIDE DEF front
<1> DEFINE n == Len(front)
<1>9. front \in Seq(StepSet) /\ \A i \in 1 .. n : front[i] \in S
  <2>1. S \subseteq StepSet
    BY DEF S
  <2>2. \A i \in 1 .. n : front[i] \in S
    BY <1>8, ElementOfSeq
  <2>3. front \in [1 .. n -> StepSet]
    BY <1>8, <2>1, <2>2, SeqDef
  <2>4. QED
    BY <1>8, <2>2, <2>3, SeqDef
<1>10. /\ Len(BuildSteps) = n + 3
       /\ \A i \in 1 .. n + 3 : BuildSteps[i] = IF i <= n THEN front[i] ELSE back[i - n]
  <2> DEFINE all == front \o back
  <2>1. Len(all) = Len(front) + Len(back)
        /\ \A i \in 1 .. Len(front) + Len(back) :
            all[i] = IF i <= Len(front) THEN front[i] ELSE back[i - Len(front)]
    BY <1>7, <1>9, ConcatProperties
  <2> HIDE DEF all
  <2>2. Len(front) + Len(back) = n + 3
    BY <1>6
  <2>3. BuildSteps = all
    BY <1>5 DEF all
  <2>4. QED
    BY <2>1, <2>2, <2>3
<1>11. ASSUME NEW i \in 1 .. n + 3
       PROVE  BuildSteps[i] = Report <=> i = n + 3
  <2>1. n \in Nat /\ i \in Nat
    BY <1>8
  <2>2. CASE i <= n
    <3>1. BuildSteps[i] = front[i] /\ front[i] \in S
      BY <1>9, <1>10, <2>1, <2>2
    <3>2. QED
      BY <2>1, <2>2, <3>1 DEF S
  <2>3. CASE i = n + 1
    <3>1. i - n = 1 /\ ~(i <= n) /\ i # n + 3
      BY <2>1, <2>3
    <3>2. BuildSteps[i] = back[1]
      BY <1>10, <3>1
    <3>3. QED
      BY <1>6, <3>1, <3>2 DEF S
  <2>4. CASE i = n + 2
    <3>1. i - n = 2 /\ ~(i <= n) /\ i # n + 3
      BY <2>1, <2>4
    <3>2. BuildSteps[i] = back[2]
      BY <1>10, <3>1
    <3>3. QED
      BY <1>6, <3>1, <3>2 DEF S
  <2>5. CASE i = n + 3
    <3>1. i - n = 3 /\ ~(i <= n)
      BY <2>1, <2>5
    <3>2. BuildSteps[i] = back[3]
      BY <1>10, <3>1
    <3>3. QED
      BY <1>6, <2>5, <3>2
  <2>6. QED
    BY <2>1, <2>2, <2>3, <2>4, <2>5
<1>12. BuildSteps[1] = front[1]
  <2>1. 1 \in 1 .. n + 3 /\ 1 <= n
    BY <1>8
  <2>2. QED
    BY <1>10, <2>1
<1>13. n + 3 \in Nat /\ n + 3 > 1
  BY <1>8
<1>14. QED
  BY <1>8, <1>10, <1>11, <1>12, <1>13

(* A process of all phases is given all steps.                             *)
LEMMA AllSteps == SelectedSteps(Phases) = BuildSteps
<1> DEFINE B == BuildSteps
           N == Len(B)
           parts == [i \in DOMAIN B |-> IF PhaseOf(B[i]) \in Phases THEN <<B[i]>> ELSE <<>>]
<1>1. /\ N \in Nat /\ N > 1 /\ DOMAIN B = 1 .. N /\ B \in Seq(Range(B))
      /\ \A i \in 1 .. N : B[i] \in Range(B)
  BY BuildStepsEnds, BuildStepsType, LenProperties, ElementOfSeq
<1>2. \A i \in 1 .. N : parts[i] = <<B[i]>>
  BY <1>1, StepsOfPhases
<1>3. Len(parts) = N
  <2>1. parts = [i \in 1 .. N |-> parts[i]]
    BY <1>1
  <2> HIDE DEF parts
  <2>2. parts \in [1 .. N -> Range(parts)]
    BY <2>1 DEF Range
  <2>3. parts \in Seq(Range(parts))
    BY <1>1, <2>2, SeqDef
  <2>4. DOMAIN parts = 1 .. N
    BY <2>1
  <2>5. QED
    <3>1. Len(parts) \in Nat /\ 1 .. Len(parts) = 1 .. N
      BY <2>3, <2>4, LenProperties
    <3>2. N \in 1 .. Len(parts) /\ (Len(parts) # 0 => Len(parts) \in 1 .. N)
      BY <1>1, <3>1
    <3>3. QED
      BY <1>1, <3>1, <3>2
<1>4. SelectedSteps(Phases) = FlattenSeq(parts)
  BY DEF SelectedSteps
<1> HIDE DEF parts, B
<1>5. PICK f : /\ FlattenSeq(parts) = f[N]
               /\ f[1] = parts[1]
               /\ \A n \in Nat \ {0} : n + 1 <= N => f[n + 1] = f[n] \o parts[n + 1]
  <2>1. Len(parts) \in Nat \ {0}
    BY <1>1, <1>3
  <2>2. QED
    BY <1>3, <2>1, FlattenSteps
<1> DEFINE S == {n \in Nat : n \in 1 .. N =>
                    f[n] \in Seq(Range(B)) /\ Len(f[n]) = n /\ \A i \in 1 .. n : f[n][i] = B[i]}
<1>6. 0 \in S
  OBVIOUS
<1>7. ASSUME NEW n \in Nat, n \in S PROVE n + 1 \in S
  <2>1. SUFFICES ASSUME n + 1 \in 1 .. N
                 PROVE  /\ f[n + 1] \in Seq(Range(B)) /\ Len(f[n + 1]) = n + 1
                        /\ \A i \in 1 .. n + 1 : f[n + 1][i] = B[i]
    OBVIOUS
  <2> DEFINE one == <<B[n + 1]>>
  <2>2. one \in Seq(Range(B)) /\ Len(one) = 1 /\ one[1] = B[n + 1] /\ parts[n + 1] = one
    BY <1>1, <1>2, <2>1, OneElement
  <2> HIDE DEF one
  <2>3. CASE n = 0
    <3>1. f[1] = one
      BY <1>5, <2>2, <2>3
    <3>2. QED
      BY <2>2, <2>3, <3>1
  <2>4. CASE n # 0
    <3>1. n \in 1 .. N /\ n \in Nat \ {0} /\ n + 1 <= N
      BY <1>1, <2>1, <2>4
    <3>2. f[n] \in Seq(Range(B)) /\ Len(f[n]) = n /\ \A i \in 1 .. n : f[n][i] = B[i]
      BY <1>7, <3>1
    <3>3. f[n + 1] = f[n] \o one
      BY <1>5, <2>2, <3>1
    <3>4. /\ f[n + 1] \in Seq(Range(B)) /\ Len(f[n + 1]) = n + 1
          /\ \A i \in 1 .. n + 1 : f[n + 1][i] = IF i <= n THEN f[n][i] ELSE one[i - n]
      <4> DEFINE left == f[n]
                 all == left \o one
      <4>1. left \in Seq(Range(B)) /\ Len(left) = n /\ f[n + 1] = all
        BY <3>2, <3>3
      <4>2. /\ all \in Seq(Range(B)) /\ Len(all) = Len(left) + Len(one)
            /\ \A i \in 1 .. Len(left) + Len(one) :
                all[i] = IF i <= Len(left) THEN left[i] ELSE one[i - Len(left)]
        <5> HIDE DEF left
        <5>1. QED
          BY <2>2, <4>1, ConcatProperties
      <4> HIDE DEF all
      <4>3. Len(left) + Len(one) = n + 1 /\ Len(left) = n
        BY <2>2, <4>1
      <4>4. QED
        BY <4>1, <4>2, <4>3
    <3>5. ASSUME NEW i \in 1 .. n + 1 PROVE f[n + 1][i] = B[i]
      <4>1. CASE i <= n
        BY <3>2, <3>4, <4>1
      <4>2. CASE ~(i <= n)
        <5>1. i = n + 1 /\ i - n = 1
          BY <4>2
        <5>2. QED
          BY <2>2, <3>4, <4>2, <5>1
      <4>3. QED
        BY <4>1, <4>2
    <3>6. QED
      BY <3>4, <3>5
  <2>5. QED
    BY <2>3, <2>4
<1>8. N \in S
  <2> HIDE DEF S
  <2>1. Nat \subseteq S
    BY <1>6, <1>7, NatSetInduction
  <2>2. QED
    BY <1>1, <2>1
<1>9. f[N] \in Seq(Range(B)) /\ Len(f[N]) = N /\ \A i \in 1 .. N : f[N][i] = B[i]
  BY <1>1, <1>8
<1>10. f[N] = B
  BY <1>1, <1>9, SeqEqual
<1>11. QED
  BY <1>4, <1>5, <1>10 DEF B

(* Only a report touches its files, and returns 0 when they are complete.  *)
LEMMA OutcomeSummary ==
    ASSUME ReleaseInv, pc = "running", Left # <<>>, NEW outcome \in Outcomes(Head(Left))
    PROVE  /\ Head(Left) # Report => /\ outcome.disk.summary = disk.summary
                                     /\ outcome.disk.page = disk.page
           /\ Head(Left) = Report /\ outcome.ok => /\ outcome.disk.summary.status = "complete"
                                                   /\ outcome.disk.page = outcome.disk.summary
<1> DEFINE step == Head(Left)
           e == outcome.disk
<1>1. ControlTyped /\ FilesSound(disk)
  BY DEF ReleaseInv
<1>2. step \in Range(BuildSteps)
  BY <1>1, StepRun
<1>3. PhaseOf(step) = "review-prepare" => \A r \in ReviewerSet : seeds[r] \in Seeds
  BY <1>1, StepRun
<1>4. step = Report => PhaseOf(step) = "report"
  BY StepPhases DEF Report
<1> HIDE DEF step
<1>5. disk = [checks |-> disk.checks, results |-> disk.results, answers |-> disk.answers,
              packets |-> disk.packets, mappings |-> disk.mappings,
              adjudications |-> disk.adjudications, reviewed |-> disk.reviewed,
              runtime |-> disk.runtime, page |-> disk.page, summary |-> disk.summary]
  BY <1>1 DEF FilesSound, Filed
<1>6. CASE outcome = KilledWith(disk)
  BY <1>6 DEF KilledWith, step
<1>7. CASE PhaseOf(step) # "report" /\ e.summary = disk.summary /\ e.page = disk.page
  BY <1>4, <1>7 DEF step
<1>8. CASE PhaseOf(step) = "verification" /\ \E ok \in BOOLEAN : outcome = Outcome(disk, ok)
  BY <1>7, <1>8 DEF Outcome
<1>9. CASE /\ PhaseOf(step) = "deterministic" /\ step[1] \in Range(CheckSteps)
           /\ outcome \in CheckOutcomes(step[1])
  <2>1. e = [disk EXCEPT !.checks = e.checks]
    BY <1>1, <1>9, CheckSound
  <2> HIDE DEF e
  <2>2. e.summary = disk.summary /\ e.page = disk.page
    BY <1>5, <2>1
  <2>3. QED
    BY <1>7, <1>9, <2>2
<1>10. CASE PhaseOf(step) = "matrix" /\ outcome \in MatrixOutcomes
  <2>1. e = [disk EXCEPT !.results = e.results, !.answers = e.answers]
    BY <1>1, <1>10, MatrixRows
  <2> HIDE DEF e
  <2>2. e.summary = disk.summary /\ e.page = disk.page
    BY <1>5, <2>1
  <2>3. QED
    BY <1>7, <1>10, <2>2
<1>11. CASE /\ PhaseOf(step) = "review-prepare" /\ step[2] \in ReviewerSet
            /\ outcome \in PrepareOutcomes(step[2])
  <2>1. e = [disk EXCEPT !.packets = e.packets, !.mappings = e.mappings]
    BY <1>1, <1>3, <1>11, PrepareSound
  <2> HIDE DEF e
  <2>2. e.summary = disk.summary /\ e.page = disk.page
    BY <1>5, <2>1
  <2>3. QED
    BY <1>7, <1>11, <2>2
<1>12. CASE PhaseOf(step) = "review-apply" /\ outcome \in ApplyOutcomes
  <2>1. e = [disk EXCEPT !.reviewed = e.reviewed]
    BY <1>1, <1>12, ApplySound
  <2> HIDE DEF e
  <2>2. e.summary = disk.summary /\ e.page = disk.page
    BY <1>5, <2>1
  <2>3. QED
    BY <1>7, <1>12, <2>2
<1>13. CASE PhaseOf(step) = "runtime" /\ outcome \in RuntimeOutcomes
  <2>1. e = [disk EXCEPT !.runtime = e.runtime]
    BY <1>1, <1>13, RuntimeSound
  <2> HIDE DEF e
  <2>2. e.summary = disk.summary /\ e.page = disk.page
    BY <1>5, <2>1
  <2>3. QED
    BY <1>7, <1>13, <2>2
<1>14. CASE /\ PhaseOf(step) = "report" /\ step = <<"release-report">>
            /\ outcome \in ReportOutcomes
  <2>1. step = Report
    BY <1>14 DEF Report
  <2>2. outcome.ok => /\ outcome.disk.summary.status = "complete"
                      /\ outcome.disk.page = outcome.disk.summary
    BY <1>1, <1>14, ReportSound
  <2>3. QED
    BY <2>1, <2>2 DEF step
<1>15. outcome \in Outcomes(step)
  BY DEF step
<1>16. QED
  BY <1>2, <1>6, <1>8, <1>9, <1>10, <1>11, <1>12, <1>13, <1>14, <1>15, OutcomesByPhase

(* A process that comes to the report has not recorded it as done, nor has *)
(* the state it began from.                                                *)
LEMMA ReportBegins ==
    ASSUME ReleaseInv, CompletionInv, pc = "running", Left # <<>>, Head(Left) = Report
    PROVE  /\ Report \notin held.done
           /\ saved # Nothing => Report \notin saved.done
           /\ Tail(Left) = <<>>
<1>1. ControlTyped
  BY DEF ReleaseInv
<1>2. /\ todo \in Seq(Range(BuildSteps)) /\ DOMAIN todo = 1 .. Len(todo) /\ Len(todo) \in Nat
  BY <1>1, LenProperties DEF ControlTyped
<1>3. PICK i \in 1 .. Len(todo) : /\ Head(Left) = todo[i]
                                  /\ \A j \in 1 .. i - 1 : Skips(todo[j])
                                  /\ Tail(Left) = SubSeq(todo, i + 1, Len(todo))
  BY <1>2, LeftParts
<1>4. ~Skips(Report)
  BY <1>2, LeftParts
<1>5. i = Len(todo)
  BY <1>2, <1>3 DEF CompletionInv
<1>6. Tail(Left) = <<>>
  <2>1. i + 1 \in Int /\ Len(todo) \in Int /\ Len(todo) < i + 1
    BY <1>2, <1>5
  <2>2. QED
    BY <1>3, <2>1, SubSeqEmpty
<1>7. Report \notin held.done
  <2>1. CASE opts.resume
    <3>1. SUFFICES ASSUME Report \in held.done PROVE FALSE
      OBVIOUS
    <3>2. ReportedComplete
      BY <3>1 DEF CompletionInv
    <3>3. EvidenceExists(disk, Report)
      <4>1. PhaseOf(Report) = "report"
        BY StepPhases DEF Report
      <4>2. QED
        BY <3>2, <4>1 DEF EvidenceExists, ReportedComplete
    <3>4. QED
      BY <1>4, <2>1, <3>1, <3>3 DEF Skips
  <2>2. CASE ~opts.resume
    <3>1. todo # <<>>
      BY <1>2, <1>3, EmptySeq
    <3>2. QED
      BY <2>2, <3>1 DEF CompletionInv
  <2>3. QED
    BY <2>1, <2>2
<1>8. held = saved
  <2>1. SUFFICES ASSUME todo = BuildSteps, held.done = {} PROVE FALSE
    BY DEF CompletionInv
  <2>2. ~Skips(todo[1]) /\ 1 \in 1 .. Len(todo)
    BY <2>1, BuildStepsEnds DEF Skips
  <2>3. i = 1
    <3>1. ~(1 \in 1 .. i - 1)
      BY <1>3, <2>2
    <3>2. QED
      BY <1>2, <3>1
  <2>4. QED
    <3>1. Len(BuildSteps) \in Nat /\ Len(BuildSteps) > 1
      BY BuildStepsEnds
    <3>2. Len(BuildSteps) = 1
      BY <1>5, <2>1, <2>3
    <3>3. QED
      BY <3>1, <3>2
<1>9. QED
  BY <1>6, <1>7, <1>8

\* x is the last element of sigma and no other.
EndsInOne(sigma, x) == \A j \in DOMAIN sigma : sigma[j] = x <=> j = Len(sigma)

\* tau is what follows the element i of sigma.
Follows(tau, sigma, i) ==
  /\ Len(tau) = Len(sigma) - i
  /\ \A j \in 1 .. Len(sigma) - i : tau[j] = sigma[i + j]

\* Of a list that ends in its only x, what is left after an element that is not
\* x is a list that ends in its only x.
LEMMA EndsAlone ==
  ASSUME NEW S, NEW sigma \in Seq(S), NEW x, EndsInOne(sigma, x),
         NEW i \in 1 .. Len(sigma), sigma[i] # x,
         NEW tau \in Seq(S), Follows(tau, sigma, i)
  PROVE  tau # <<>> /\ EndsInOne(tau, x)
<1> DEFINE n == Len(sigma)
           m == Len(tau)
<1>1. /\ n \in Nat /\ DOMAIN sigma = 1 .. n
      /\ m \in Nat /\ DOMAIN tau = 1 .. m
  BY LenProperties
<1>2. m = n - i /\ \A j \in 1 .. n - i : tau[j] = sigma[i + j]
  BY DEF Follows
<1>3. \A j \in 1 .. n : sigma[j] = x <=> j = n
  BY <1>1 DEF EndsInOne
<1>4. i \in 1 .. n /\ sigma[i] # x
  OBVIOUS
<1> HIDE DEF n, m
<1>5. i \in Nat /\ i # n /\ i >= 1 /\ i <= n
  BY <1>1, <1>3, <1>4
<1>6. m # 0
  BY <1>1, <1>2, <1>5
<1>7. ASSUME NEW j \in 1 .. m
      PROVE  tau[j] = x <=> j = m
  <2>1. j \in Nat /\ i + j \in 1 .. n /\ j \in 1 .. n - i
    BY <1>1, <1>2, <1>5
  <2>2. tau[j] = sigma[i + j]
    BY <1>2, <2>1
  <2>3. i + j = n <=> j = m
    BY <1>1, <1>2, <1>5, <2>1
  <2>4. QED
    BY <1>3, <2>1, <2>2, <2>3
<1>8. tau # <<>>
  BY <1>6 DEF m
<1>9. EndsInOne(tau, x)
  BY <1>1, <1>7 DEF EndsInOne, m
<1>10. QED
  BY <1>8, <1>9

LEMMA RunStepCompletion ==
    ASSUME ReleaseInv, CompletionInv, Left # <<>>, NEW outcome \in Outcomes(Head(Left)),
           RunStep(outcome)
    PROVE  CompletionInv'
<1> DEFINE step == Head(Left)
           ok == outcome.ok /\ EvidenceExists(outcome.disk, step)
           on == ok \/ opts.continue \/ PhaseOf(step) = "review-apply"
<1>1. /\ pc = "running" /\ disk' = outcome.disk
      /\ held' = [held EXCEPT !.done = IF ok THEN @ \cup {step} ELSE @ \ {step}]
      /\ saved' = held'
      /\ failed' = (failed \/ ~ok)
      /\ todo' = IF on THEN Tail(Left) ELSE <<>>
      /\ pc' = pc /\ opts' = opts
  BY DEF RunStep, Record
<1>2. ControlTyped /\ held \in States /\ pc = "running"
  BY <1>1 DEF ReleaseInv, ControlTyped
<1>3. /\ held'.status = held.status
      /\ held'.done = IF ok THEN held.done \cup {step} ELSE held.done \ {step}
  <2> HIDE DEF ok, step
  <2>1. QED
    BY <1>1, <1>2 DEF States
<1>4. /\ held.status = "complete" => Report \in held.done
      /\ Report \in held.done => ReportedComplete
      /\ \A i \in DOMAIN todo : todo[i] = Report <=> i = Len(todo)
      /\ ~failed => Report \in held.done \/ todo # <<>>
      /\ ~opts.resume /\ todo # <<>> => Report \notin held.done
  BY <1>2 DEF CompletionInv
<1>5. ReportedComplete' <=> /\ outcome.disk.summary # Nothing
                            /\ outcome.disk.summary.status = "complete"
                            /\ outcome.disk.page = outcome.disk.summary
  BY <1>1 DEF ReportedComplete
<1>6. DOMAIN <<>> = {}
  OBVIOUS
<1>7. CASE step = Report
  <2>1. Report \notin held.done /\ Tail(Left) = <<>>
    BY <1>2, <1>7, ReportBegins
  <2>2. todo' = <<>>
    BY <1>1, <2>1
  <2>3. ok => ReportedComplete'
    <3>1. outcome.ok => /\ outcome.disk.summary.status = "complete"
                        /\ outcome.disk.page = outcome.disk.summary
      BY <1>2, <1>7, OutcomeSummary
    <3>2. PhaseOf(Report) = "report"
      BY StepPhases DEF Report
    <3>3. EvidenceExists(outcome.disk, step) => outcome.disk.summary # Nothing
      BY <1>7, <3>2 DEF EvidenceExists
    <3>4. QED
      BY <1>5, <3>1, <3>3
  <2>4. Report \in held'.done <=> ok
    <3> HIDE DEF ok
    <3>1. QED
      BY <1>3, <1>7, <2>1
  <2> HIDE DEF ok, on
  <2>5. QED
    BY <1>1, <1>3, <1>4, <1>6, <2>1, <2>2, <2>3, <2>4 DEF CompletionInv
<1>8. CASE step # Report
  <2>1. outcome.disk.summary = disk.summary /\ outcome.disk.page = disk.page
    BY <1>2, <1>8, OutcomeSummary
  <2>2. ReportedComplete' <=> ReportedComplete
    BY <1>5, <2>1 DEF ReportedComplete
  <2>3. Report \in held'.done <=> Report \in held.done
    <3> HIDE DEF ok
    <3>1. QED
      BY <1>3, <1>8
  <2>4. /\ todo \in Seq(Range(BuildSteps)) /\ DOMAIN todo = 1 .. Len(todo) /\ Len(todo) \in Nat
    BY <1>2, LenProperties DEF ControlTyped
  <2>5. PICK i \in 1 .. Len(todo) :
                /\ step = todo[i]
                /\ Len(Tail(Left)) = Len(todo) - i
                /\ \A j \in 1 .. Len(todo) - i : Tail(Left)[j] = todo[i + j]
    BY <1>2, TailLeft
  <2>6. Tail(Left) \in Seq(Range(BuildSteps))
    BY <1>2, TailLeft
  <2> DEFINE rest == Tail(Left)
  <2>7. /\ rest \in Seq(Range(BuildSteps)) /\ Follows(rest, todo, i)
        /\ todo[i] # Report /\ EndsInOne(todo, Report)
    BY <1>4, <1>8, <2>5, <2>6 DEF Follows, EndsInOne
  <2>8. rest # <<>> /\ EndsInOne(rest, Report)
    <3> HIDE DEF rest
    <3>1. i \in 1 .. Len(todo)
      BY <2>5
    <3>2. QED
      BY <2>4, <2>7, <3>1, EndsAlone
  <2>9. Tail(Left) # <<>> /\ \A j \in DOMAIN Tail(Left) : Tail(Left)[j] = Report <=> j = Len(Tail(Left))
    BY <2>8 DEF EndsInOne
  <2>10. todo # <<>>
    BY <2>4, <2>5
  <2> HIDE DEF on
  <2>11. \A j \in DOMAIN todo' : todo'[j] = Report <=> j = Len(todo')
    <3>1. CASE on
      BY <1>1, <2>9, <3>1
    <3>2. CASE ~on
      BY <1>1, <1>6, <3>2
    <3>3. QED
      BY <3>1, <3>2
  <2>12. ~failed' => todo' # <<>>
    BY <1>1, <2>9 DEF on
  <2>13. ~opts'.resume /\ todo' # <<>> => Report \notin held'.done
    BY <1>1, <1>4, <2>3, <2>10
  <2> HIDE DEF ok
  <2>14. QED
    BY <1>1, <1>3, <1>4, <2>2, <2>3, <2>11, <2>12, <2>13 DEF CompletionInv
<1>9. QED
  BY <1>7, <1>8

LEMMA StartCompletion ==
    ASSUME ReleaseInv, CompletionInv, \A c \in Commands : c.phases = Phases,
           NEW command \in Commands, NEW drawn \in Draws, Start(command, drawn)
    PROVE  CompletionInv'
<1> DEFINE found == command.resume /\ saved # Nothing
           refused == found /\ saved.config # command.config /\ ~command.force
<1>1. /\ pc = "down" /\ disk' = disk /\ saved' = saved /\ failed' = failed
      /\ refused => pc' = pc
      /\ ~refused => /\ todo' = SelectedSteps(Phases)
                     /\ held' = IF found THEN saved
                                ELSE [config |-> command.config, done |-> {}, status |-> "none"]
                     /\ opts'.resume = command.resume
  BY DEF Start
<1>2. ReportedComplete' <=> ReportedComplete
  BY <1>1 DEF ReportedComplete
<1>3. CASE refused
  <2>1. pc' = "down" /\ saved' = saved
    BY <1>1, <1>3
  <2>2. QED
    BY <1>2, <2>1 DEF CompletionInv
<1>4. CASE ~refused
  <2>1. todo' = BuildSteps
    BY <1>1, <1>4, AllSteps
  <2>2. DOMAIN BuildSteps = 1 .. Len(BuildSteps) /\ BuildSteps # <<>>
    <3>1. DOMAIN BuildSteps = 1 .. Len(BuildSteps)
      BY BuildStepsType, LenProperties
    <3>2. Len(BuildSteps) # 0
      BY BuildStepsEnds
    <3>3. QED
      BY <3>1, <3>2
  <2>3. todo' # <<>> /\ \A i \in DOMAIN todo' : todo'[i] = Report <=> i = Len(todo')
    BY <2>1, <2>2, BuildStepsEnds
  <2> HIDE DEF refused
  <2>4. CASE found
    <3>1. held' = saved' /\ saved # Nothing /\ opts'.resume
      BY <1>1, <1>4, <2>4
    <3>2. /\ saved.status = "complete" => Report \in saved.done
          /\ Report \in saved.done => ReportedComplete
      BY <3>1 DEF CompletionInv
    <3> HIDE DEF found
    <3>3. QED
      BY <1>1, <1>2, <2>3, <3>1, <3>2 DEF CompletionInv
  <2>5. CASE ~found
    <3>1. held'.done = {} /\ held'.status = "none"
      BY <1>1, <1>4, <2>5
    <3>2. saved' # Nothing => /\ saved'.status = "complete" => Report \in saved'.done
                              /\ Report \in saved'.done => ReportedComplete'
      BY <1>1, <1>2 DEF CompletionInv
    <3> HIDE DEF found
    <3>3. QED
      BY <2>1, <2>3, <3>1, <3>2 DEF CompletionInv
  <2>6. QED
    BY <2>4, <2>5
<1>5. QED
  BY <1>3, <1>4

LEMMA StepCompletion ==
    ASSUME ReleaseInv, CompletionInv, \A c \in Commands : c.phases = Phases, [Next]_vars
    PROVE  CompletionInv'
<1>1. ASSUME NEW command \in Commands, NEW drawn \in Draws, Start(command, drawn)
      PROVE  CompletionInv'
  BY <1>1, StartCompletion
<1>2. ASSUME Left # <<>>, NEW outcome \in Outcomes(Head(Left)), RunStep(outcome)
      PROVE  CompletionInv'
  BY <1>2, RunStepCompletion
<1>3. ASSUME Finish PROVE CompletionInv'
  <2>1. /\ pc = "running" /\ Left = <<>> /\ pc' = "down" /\ disk' = disk
        /\ saved' = [held EXCEPT !.status = IF failed THEN "failed" ELSE "complete"]
    BY <1>3 DEF Finish, Stop
  <2>2. ControlTyped /\ held \in States
    BY <2>1 DEF ReleaseInv, ControlTyped
  <2>3. saved'.done = held.done /\ (saved'.status = "complete" => ~failed)
    BY <2>1, <2>2 DEF States
  <2>4. ~failed => Report \in held.done
    <3>1. SUFFICES ASSUME todo # <<>> PROVE Report \in held.done
      BY <2>1 DEF CompletionInv
    <3>2. todo \in Seq(Range(BuildSteps)) /\ DOMAIN todo = 1 .. Len(todo) /\ Len(todo) \in Nat
      BY <2>2, LenProperties DEF ControlTyped
    <3>3. Len(todo) \in DOMAIN todo
      BY <3>1, <3>2, EmptySeq
    <3>4. todo[Len(todo)] = Report
      BY <2>1, <3>3 DEF CompletionInv
    <3>5. Skips(todo[Len(todo)])
      BY <2>1, <3>2, <3>3, LeftParts
    <3>6. QED
      BY <3>4, <3>5 DEF Skips
  <2>5. Report \in held.done => ReportedComplete'
    BY <2>1 DEF CompletionInv, ReportedComplete
  <2>6. QED
    BY <2>1, <2>3, <2>4, <2>5 DEF CompletionInv
<1>4. ASSUME Left # <<>>, NEW outcome \in Outcomes(Head(Left)), Crash(outcome)
      PROVE  CompletionInv'
  <2>1. pc = "running" /\ pc' = "down" /\ disk' = outcome.disk /\ saved' = saved
    BY <1>4 DEF Crash, Stop
  <2>2. CASE Head(Left) # Report
    <3>1. outcome.disk.summary = disk.summary /\ outcome.disk.page = disk.page
      BY <1>4, <2>1, <2>2, OutcomeSummary
    <3>2. ReportedComplete' <=> ReportedComplete
      BY <2>1, <3>1 DEF ReportedComplete
    <3>3. QED
      BY <2>1, <3>2 DEF CompletionInv
  <2>3. CASE Head(Left) = Report
    <3>1. saved # Nothing => Report \notin saved.done
      BY <1>4, <2>1, <2>3, ReportBegins
    <3>2. QED
      BY <2>1, <3>1 DEF CompletionInv
  <2>4. QED
    BY <2>2, <2>3
<1>5. ASSUME Crash(Failed) PROVE CompletionInv'
  <2>1. pc' = "down" /\ disk' = disk /\ saved' = saved
    BY <1>5 DEF Crash, Stop, Failed, Outcome
  <2>2. QED
    BY <2>1 DEF CompletionInv, ReportedComplete
<1>6. ASSUME pc = "down", saved' = saved, pc' = pc,
             disk'.summary = disk.summary, disk'.page = disk.page
      PROVE  CompletionInv'
  <2>1. ReportedComplete' <=> ReportedComplete
    BY <1>6 DEF ReportedComplete
  <2>2. QED
    BY <1>6, <2>1 DEF CompletionInv
<1>7. Filed(disk)
  BY DEF ReleaseInv, FilesSound
<1>8. ASSUME NEW r \in ReviewerSet, NEW judged \in [ReviewIds -> Judgements], Fill(r, judged)
      PROVE  CompletionInv'
  <2> DEFINE new == [id \in DOMAIN disk.packets[r] |-> [s \in Sides |->
                        [disk.packets[r][id][s] EXCEPT !.scores = judged[id][s]]]]
  <2>1. /\ disk' = [disk EXCEPT !.packets[r] = new]
        /\ pc = "down" /\ saved' = saved /\ pc' = pc
    BY <1>8 DEF Fill
  <2> HIDE DEF new
  <2>2. disk'.summary = disk.summary /\ disk'.page = disk.page
    BY <1>7, <2>1 DEF Filed
  <2>3. QED
    BY <1>6, <2>1, <2>2
<1>9. ASSUME NEW judged \in [ReviewIds -> Judgements], Adjudicate(judged)
      PROVE  CompletionInv'
  <2> DEFINE new == [id \in disk.reviewed.review.disputed |->
                        [candidate |-> [scores |-> judged[id]["a"]],
                         baseline |-> [scores |-> judged[id]["b"]]]]
  <2>1. /\ disk' = [disk EXCEPT !.adjudications = new]
        /\ pc = "down" /\ saved' = saved /\ pc' = pc
    BY <1>9 DEF Adjudicate
  <2> HIDE DEF new
  <2>2. disk'.summary = disk.summary /\ disk'.page = disk.page
    BY <1>7, <2>1 DEF Filed
  <2>3. QED
    BY <1>6, <2>1, <2>2
<1>10. ASSUME UNCHANGED vars PROVE CompletionInv'
  BY <1>10 DEF vars, CompletionInv, ReportedComplete
<1>11. QED
  BY <1>1, <1>2, <1>3, <1>4, <1>5, <1>8, <1>9, <1>10 DEF Next

(* Of releases whose processes run all phases, as they do unless they are  *)
(* told to run some (selected_steps): state.json says complete only when   *)
(* summary.json does, and REPORT.md was written with it, whatever was      *)
(* forced, gone on with after errors, reconfigured or killed.              *)
THEOREM CompleteIsReported ==
    ASSUME \A c \in Commands : c.phases = Phases
    PROVE  Spec => []CompleteMeansReported
<1>1. Init => CompletionInv
  BY DEF Init, CompletionInv
<1>2. ReleaseInv /\ CompletionInv /\ [Next]_vars => CompletionInv'
  BY StepCompletion
<1>3. CompletionInv => CompleteMeansReported
  BY DEF CompletionInv, CompleteMeansReported, RecordedComplete
<1>4. QED
  BY <1>1, <1>2, <1>3, ReleaseInvariant, PTL DEF Spec

-----------------------------------------------------------------------------
(* What the record is of.                                                  *)
Matrix == <<"matrix">>
Apply == <<"review-apply">>
Preparing == {Prepare(r) : r \in ReviewerSet}

(* The steps whose files the release is recorded over.                     *)
KeySteps == Preparing \cup {Matrix, Apply, Report}

(* Recorded after what they rest on.                                       *)
Ordered(done) ==
    /\ \A r \in ReviewerSet : Prepare(r) \in done => Matrix \in done
    /\ Apply \in done \/ Report \in done => \A r \in ReviewerSet : Prepare(r) \in done

(* No packet is there without its record: from any other state there is no *)
(* way on, since packets that exist are not prepared again.                *)
Alive(d, done) == \A r \in ReviewerSet : d.packets[r] # Nothing => Prepare(r) \in done

Evident(d, done) == \A step \in KeySteps : step \in done => EvidenceExists(d, step)

(* Packets show the answers that are there.                                *)
Current(d) ==
    \A r \in ReviewerSet : d.packets[r] # Nothing =>
        \A id \in DOMAIN d.packets[r], s \in Sides :
            d.packets[r][id][s].text = d.answers[d.packets[r][id][s].text[1]]

AdjudicationsOf(d) == IF d.adjudications # Nothing THEN d.adjudications ELSE NoReviews
AppliedOf(d) == Applied(d.results.rows, d.packets, d.mappings, AdjudicationsOf(d))
ReviewedOf(d) == [d.results EXCEPT !.rows = AppliedOf(d).rows, !.review = AppliedOf(d).review]

(* The reviewed results are what an apply would write now.                 *)
AppliedNow(d) ==
    /\ d.results # Nothing
    /\ \A r \in ReviewerSet : d.packets[r] # Nothing /\ d.mappings[r] # Nothing
    /\ ~Inconsistent(d.results.rows, d.packets, d.mappings, AdjudicationsOf(d))
    /\ d.reviewed = ReviewedOf(d)

(* The reviewed results, once complete, and the report, once recorded,     *)
(* stand.                                                                  *)
ReviewStands(d) == d.reviewed # Nothing /\ d.reviewed.review.complete => AppliedNow(d)
ReportStands(d, done) ==
    Report \in done =>
        /\ d.reviewed # Nothing /\ d.summary # Nothing
        /\ d.summary.status = "complete" /\ d.summary.matrix = d.reviewed
        /\ MatrixHolds(d.reviewed, Candidates)

Kept(d, done) ==
    /\ Ordered(done)
    /\ Evident(d, done)
    /\ d.reviewed # Nothing => \A r \in ReviewerSet : d.packets[r] # Nothing
    /\ Alive(d, done) => Current(d) /\ ReviewStands(d) /\ ReportStands(d, done)

(* Rows are of one configuration and of the answers that are there.        *)
ScoredUnder(d, config) ==
    d.results # Nothing =>
        \A i \in DOMAIN d.results.rows :
            /\ d.results.rows[i].config = config
            /\ d.results.rows[i].success =>
                d.results.rows[i].answer = d.answers[d.results.rows[i].key]

Done == IF saved = Nothing THEN {} ELSE saved.done

(* What a process has still to do, after what it has done.                 *)
Before(x, j) == x \in held.done \/ \E i \in 1 .. j - 1 : todo[i] = x
Rested ==
    \A j \in DOMAIN todo :
        /\ todo[j] \in Preparing => Before(Matrix, j)
        /\ todo[j] \in {Apply, Report} => \A r \in ReviewerSet : Before(Prepare(r), j)
Unrepeated ==
    /\ \A j \in DOMAIN todo : todo[j] \in KeySteps /\ todo[j] \in held.done => opts.resume
    /\ \A i, j \in DOMAIN todo : todo[i] = todo[j] /\ todo[i] \in KeySteps => i = j
Covered ==
    ~failed => \A x \in KeySteps : x \in held.done \/ \E i \in DOMAIN todo : todo[i] = x
Scheduled == Rested /\ Unrepeated /\ Covered

Begun ==
    /\ held.done = {} /\ held.status = "none" /\ todo = BuildSteps
    /\ saved # Nothing => saved.config = held.config

AtWork ==
    /\ ~opts.force /\ ~opts.continue /\ opts.config = held.config
    /\ held = saved \/ Begun
    /\ Scheduled

Tame ==
    /\ Kept(disk, Done)
    /\ disk.results # Nothing => saved # Nothing
    /\ saved # Nothing => ScoredUnder(disk, saved.config)
    /\ saved # Nothing /\ saved.status = "complete" => KeySteps \subseteq saved.done
    /\ pc = "running" => AtWork

(* A process knows of the adjudications that are there.                    *)
Told == opts # Nothing /\ disk.adjudications # Nothing => opts.adjudicated

(* Of releases that nobody forces, reconfigures or lets go on after        *)
(* errors.                                                                 *)
RecordInv == Told /\ (~strayed => Tame)

(* The releases of the theorem: all phases run, and every reviewer counts. *)
WholeReviews ==
    /\ \A c \in Commands : c.phases = Phases
    /\ Policy.reviewers = Len(Reviewers)
    /\ Policy.reviewNeeded

LEMMA KeyPhases ==
    /\ PhaseOf(Matrix) = "matrix" /\ PhaseOf(Apply) = "review-apply"
    /\ PhaseOf(Report) = "report"
    /\ \A r \in ReviewerSet : PhaseOf(Prepare(r)) = "review-prepare" /\ Prepare(r)[2] = r
    /\ \A step \in Range(BuildSteps) :
        /\ PhaseOf(step) = "matrix" <=> step = Matrix
        /\ PhaseOf(step) = "review-apply" <=> step = Apply
        /\ PhaseOf(step) = "report" <=> step = Report
        /\ PhaseOf(step) = "review-prepare" <=> step \in Preparing
<1>1. /\ PhaseOf(Matrix) = "matrix" /\ PhaseOf(Apply) = "review-apply"
      /\ PhaseOf(Report) = "report"
  BY StepPhases DEF Matrix, Apply, Report
<1>2. \A r \in ReviewerSet : PhaseOf(Prepare(r)) = "review-prepare"
  BY StepPhases
<1>3. ASSUME NEW step \in Range(BuildSteps)
      PROVE  /\ PhaseOf(step) = "matrix" <=> step = Matrix
             /\ PhaseOf(step) = "review-apply" <=> step = Apply
             /\ PhaseOf(step) = "report" <=> step = Report
             /\ PhaseOf(step) = "review-prepare" <=> step \in Preparing
  <2>1. step \in StepSet
    BY BuildStepsType
  <2>2. step \in Preparing => PhaseOf(step) = "review-prepare"
    BY <1>2 DEF Preparing
  <2>3. CASE step \in {<<"unit-tests">>, <<"runtime">>}
    BY <1>1, <2>2, <2>3, StepPhases
  <2>4. CASE step = Matrix \/ step = Apply \/ step = Report
    BY <1>1, <2>2, <2>4
  <2>5. CASE \E c \in Range(CheckSteps) : step = <<c>>
    BY <1>1, <2>2, <2>5, StepPhases
  <2>6. CASE step \in Preparing
    BY <1>1, <2>2, <2>6
  <2>7. QED
    BY <2>1, <2>3, <2>4, <2>5, <2>6 DEF StepSet, Preparing, Matrix, Apply, Report
<1>4. \A r \in ReviewerSet : Prepare(r)[2] = r
  BY DEF Prepare
<1>5. QED
  BY <1>1, <1>2, <1>3, <1>4

LEMMA ReviewerThere == ReviewerSet # {}
<1>1. Len(Reviewers) \in Nat /\ DOMAIN Reviewers = 1 .. Len(Reviewers) /\ Len(Reviewers) >= 2
  <2>1. Len(Reviewers) \in Nat /\ DOMAIN Reviewers = 1 .. Len(Reviewers)
    BY ReleaseAssumption, LenProperties
  <2>2. Policy.reviewers \in 2 .. Len(Reviewers)
    BY ReleaseAssumption
  <2>3. QED
    BY <2>1, <2>2
<1>2. 1 \in DOMAIN Reviewers
  BY <1>1
<1>3. Reviewers[1] \in ReviewerSet
  BY <1>2 DEF ReviewerSet, Range
<1>4. QED
  BY <1>3

(* What is kept depends on the key steps that are recorded.                *)
LEMMA KeptByKeys ==
    ASSUME NEW d, NEW done, NEW other, Kept(d, done),
           \A x \in KeySteps : x \in other <=> x \in done
    PROVE  Kept(d, other)
<1>1. /\ \A r \in ReviewerSet : Prepare(r) \in other <=> Prepare(r) \in done
      /\ Matrix \in other <=> Matrix \in done
      /\ Apply \in other <=> Apply \in done
      /\ Report \in other <=> Report \in done
  BY DEF KeySteps, Preparing
<1>2. Ordered(other)
  BY <1>1 DEF Kept, Ordered
<1>3. Evident(d, other)
  BY DEF Kept, Evident
<1>4. Alive(d, other) <=> Alive(d, done)
  BY <1>1 DEF Alive
<1>5. ReportStands(d, done) => ReportStands(d, other)
  BY <1>1 DEF ReportStands
<1>6. QED
  BY <1>2, <1>3, <1>4, <1>5 DEF Kept

(* Where no packet is recorded none may be there.                          *)
LEMMA KeptBefore ==
    ASSUME NEW d, NEW done, Evident(d, done),
           \A r \in ReviewerSet : Prepare(r) \notin done,
           Apply \notin done, Report \notin done,
           d.reviewed # Nothing => \A r \in ReviewerSet : d.packets[r] # Nothing
    PROVE  Kept(d, done)
<1>1. Ordered(done)
  BY DEF Ordered
<1>2. ASSUME Alive(d, done)
      PROVE  Current(d) /\ ReviewStands(d) /\ ReportStands(d, done)
  <2>1. \A r \in ReviewerSet : d.packets[r] = Nothing
    BY <1>2 DEF Alive
  <2>2. d.reviewed = Nothing
    BY <2>1, ReviewerThere
  <2>3. QED
    BY <2>1, <2>2 DEF Current, ReviewStands, ReportStands
<1>3. QED
  BY <1>1, <1>2 DEF Kept

LEMMA KeptAnew ==
    ASSUME NEW d, NEW done, NEW other, Kept(d, done), \A x \in KeySteps : x \notin other
    PROVE  Kept(d, other)
<1>1. /\ \A r \in ReviewerSet : Prepare(r) \notin other
      /\ Apply \notin other /\ Report \notin other
  BY DEF KeySteps, Preparing
<1>2. Evident(d, other)
  BY DEF Evident
<1>3. QED
  BY <1>1, <1>2, KeptBefore DEF Kept

(* What is kept depends on the files of the key steps.                     *)
SameFiles(d, e) ==
    /\ e.results = d.results /\ e.answers = d.answers
    /\ e.packets = d.packets /\ e.mappings = d.mappings
    /\ e.adjudications = d.adjudications /\ e.reviewed = d.reviewed
    /\ e.page = d.page /\ e.summary = d.summary

LEMMA KeyEvidence ==
    ASSUME NEW d
    PROVE  /\ EvidenceExists(d, Matrix) <=> d.results # Nothing
           /\ EvidenceExists(d, Apply) <=> d.reviewed # Nothing
           /\ EvidenceExists(d, Report) <=> d.page # Nothing /\ d.summary # Nothing
           /\ \A r \in ReviewerSet : EvidenceExists(d, Prepare(r))
                <=> d.packets[r] # Nothing /\ d.mappings[r] # Nothing
BY KeyPhases DEF EvidenceExists

LEMMA KeptOfSame ==
    ASSUME NEW d, NEW e, NEW done, Kept(d, done), SameFiles(d, e)
    PROVE  Kept(e, done)
<1>1. /\ e.results = d.results /\ e.answers = d.answers
      /\ e.packets = d.packets /\ e.mappings = d.mappings
      /\ e.adjudications = d.adjudications /\ e.reviewed = d.reviewed
      /\ e.page = d.page /\ e.summary = d.summary
  BY DEF SameFiles
<1>2. ASSUME NEW x \in KeySteps PROVE EvidenceExists(e, x) <=> EvidenceExists(d, x)
  BY <1>1, KeyEvidence DEF KeySteps, Preparing
<1>3. Evident(e, done)
  BY <1>2 DEF Kept, Evident
<1>4. Alive(e, done) <=> Alive(d, done)
  BY <1>1 DEF Alive
<1>5. Current(d) => Current(e)
  BY <1>1 DEF Current
<1>6. AppliedNow(d) => AppliedNow(e)
  BY <1>1 DEF AppliedNow, ReviewedOf, AppliedOf, AdjudicationsOf
<1>7. ReviewStands(d) => ReviewStands(e)
  BY <1>1, <1>6 DEF ReviewStands
<1>8. ReportStands(d, done) => ReportStands(e, done)
  BY <1>1 DEF ReportStands
<1>9. QED
  BY <1>1, <1>3, <1>4, <1>5, <1>7, <1>8 DEF Kept

(* A step leaves the files of the others.                                  *)
Untouched(step, d, e) ==
    /\ step # Matrix => e.results = d.results /\ e.answers = d.answers
    /\ step \notin Preparing => e.packets = d.packets /\ e.mappings = d.mappings
    /\ step # Apply => e.reviewed = d.reviewed
    /\ step # Report => e.page = d.page /\ e.summary = d.summary
    /\ e.adjudications = d.adjudications

LEMMA OutcomeFields ==
    ASSUME ReleaseInv, pc = "running", Left # <<>>, NEW outcome \in Outcomes(Head(Left))
    PROVE  Untouched(Head(Left), disk, outcome.disk)
<1> DEFINE step == Head(Left)
           e == outcome.disk
<1>1. ControlTyped /\ FilesSound(disk)
  BY DEF ReleaseInv
<1>2. step \in Range(BuildSteps)
  BY <1>1, StepRun
<1>3. PhaseOf(step) = "review-prepare" => \A r \in ReviewerSet : seeds[r] \in Seeds
  BY <1>1, StepRun
<1> HIDE DEF step
<1>4. /\ PhaseOf(step) = "matrix" => step = Matrix
      /\ PhaseOf(step) = "review-apply" => step = Apply
      /\ PhaseOf(step) = "report" => step = Report
      /\ PhaseOf(step) = "review-prepare" => step \in Preparing
  BY <1>2, KeyPhases
<1>5. disk = [checks |-> disk.checks, results |-> disk.results, answers |-> disk.answers,
              packets |-> disk.packets, mappings |-> disk.mappings,
              adjudications |-> disk.adjudications, reviewed |-> disk.reviewed,
              runtime |-> disk.runtime, page |-> disk.page, summary |-> disk.summary]
  BY <1>1 DEF FilesSound, Filed
<1>6. SUFFICES Untouched(step, disk, e)
  BY DEF step
<1>7. CASE e = disk
  BY <1>7 DEF Untouched
<1>8. CASE outcome = KilledWith(disk)
  BY <1>7, <1>8 DEF KilledWith
<1>9. CASE PhaseOf(step) = "verification" /\ \E ok \in BOOLEAN : outcome = Outcome(disk, ok)
  BY <1>7, <1>9 DEF Outcome
<1>10. CASE /\ PhaseOf(step) = "deterministic" /\ step[1] \in Range(CheckSteps)
            /\ outcome \in CheckOutcomes(step[1])
  <2>1. e = [disk EXCEPT !.checks = e.checks]
    BY <1>1, <1>10, CheckSound
  <2> HIDE DEF e
  <2>2. QED
    BY <1>5, <2>1 DEF Untouched
<1>11. CASE PhaseOf(step) = "matrix" /\ outcome \in MatrixOutcomes
  <2>1. e = [disk EXCEPT !.results = e.results, !.answers = e.answers]
    BY <1>1, <1>11, MatrixRows
  <2> HIDE DEF e
  <2>2. step = Matrix
    BY <1>4, <1>11
  <2>3. QED
    BY <1>5, <2>1, <2>2 DEF Untouched
<1>12. CASE /\ PhaseOf(step) = "review-prepare" /\ step[2] \in ReviewerSet
            /\ outcome \in PrepareOutcomes(step[2])
  <2>1. e = [disk EXCEPT !.packets = e.packets, !.mappings = e.mappings]
    BY <1>1, <1>3, <1>12, PrepareSound
  <2> HIDE DEF e
  <2>2. step \in Preparing
    BY <1>4, <1>12
  <2>3. QED
    BY <1>5, <2>1, <2>2 DEF Untouched
<1>13. CASE PhaseOf(step) = "review-apply" /\ outcome \in ApplyOutcomes
  <2>1. e = [disk EXCEPT !.reviewed = e.reviewed]
    BY <1>1, <1>13, ApplySound
  <2> HIDE DEF e
  <2>2. step = Apply
    BY <1>4, <1>13
  <2>3. QED
    BY <1>5, <2>1, <2>2 DEF Untouched
<1>14. CASE PhaseOf(step) = "runtime" /\ outcome \in RuntimeOutcomes
  <2>1. e = [disk EXCEPT !.runtime = e.runtime]
    BY <1>1, <1>14, RuntimeSound
  <2> HIDE DEF e
  <2>2. QED
    BY <1>5, <2>1 DEF Untouched
<1>15. CASE /\ PhaseOf(step) = "report" /\ step = <<"release-report">>
            /\ outcome \in ReportOutcomes
  <2>1. step = Report
    BY <1>15 DEF Report
  <2>2. e = [disk EXCEPT !.page = e.page, !.summary = e.summary]
    BY <1>1, <1>15, ReportSound
  <2> HIDE DEF e
  <2>3. QED
    BY <1>5, <2>1, <2>2 DEF Untouched
<1>16. outcome \in Outcomes(step)
  BY DEF step
<1>17. QED
  BY <1>2, <1>8, <1>9, <1>10, <1>11, <1>12, <1>13, <1>14, <1>15, <1>16, OutcomesByPhase

(* What an apply makes of the files as they are, pair by pair.             *)
IdsOf(d) == UNION {DOMAIN d.mappings[r] : r \in DOMAIN d.mappings}
VerdictOf(d, id) ==
    IF id \in DOMAIN AdjudicationsOf(d) THEN AdjudicationsOf(d)[id] ELSE Nothing
CellOf(d, id, side) ==
    Aggregate(side, Entries(d.packets, d.mappings, id), VerdictOf(d, id))
ScoresOf(d) ==
    [id \in IdsOf(d) |-> [side \in {"candidate", "baseline"} |-> CellOf(d, id, side)]]
StatusIn(d, id) == CellOf(d, id, "candidate").status

LEMMA AppliedFields ==
    ASSUME NEW d, AppliedNow(d), Answered(d)
    PROVE  /\ d.reviewed.review.disputed
                = {id \in IdsOf(d) : StatusIn(d, id) = "needs_adjudication"}
           /\ d.reviewed.review.complete
                => IdsOf(d) # {} /\ \A id \in IdsOf(d) : StatusIn(d, id) \in Settled
           /\ DOMAIN d.reviewed.rows = DOMAIN d.results.rows
           /\ \E last : \A i \in DOMAIN d.results.rows :
                d.reviewed.rows[i] = ApplyTo(d.results.rows[i], IdsOf(d), last, ScoresOf(d))
<1> DEFINE rows == d.results.rows
           ids == UNION {DOMAIN d.mappings[r] : r \in DOMAIN d.mappings}
           adjudications == AdjudicationsOf(d)
           Verdict(id) == IF id \in DOMAIN adjudications THEN adjudications[id] ELSE Nothing
           scores == [id \in ids |-> [side \in {"candidate", "baseline"} |->
                        Aggregate(side, Entries(d.packets, d.mappings, id), Verdict(id))]]
           Place(id) == CHOOSE i \in DOMAIN rows : Identity(rows[i]) = id
           last == [S \in SUBSET ids \ {{}} |->
                        CHOOSE id \in S : \A other \in S : Place(other) <= Place(id)]
           disputed == {id \in ids : scores[id]["candidate"].status = "needs_adjudication"}
           complete == ids # {} /\ \A id \in ids : scores[id]["candidate"].status \in Settled
           new == [i \in DOMAIN rows |-> ApplyTo(rows[i], ids, last, scores)]
           review == [reviewers |-> DOMAIN d.packets, disputed |-> disputed,
                      complete |-> complete]
           made == AppliedOf(d)
<1>1. made = [rows |-> new, review |-> review]
  BY DEF AppliedNow, AppliedOf, Applied
<1>2. made.rows = new /\ made.review = review
  <2> HIDE DEF made, new, review
  <2>1. QED
    BY <1>1
<1> HIDE DEF made
<1>3. ids = IdsOf(d) /\ scores = ScoresOf(d)
  BY DEF IdsOf, ScoresOf, CellOf, VerdictOf
<1>4. \A id \in ids : scores[id]["candidate"].status = StatusIn(d, id)
  BY DEF StatusIn, CellOf, VerdictOf
<1>5. complete \in BOOLEAN
  OBVIOUS
<1>6. disputed = {id \in ids : StatusIn(d, id) = "needs_adjudication"}
  BY <1>4
<1>7. complete => ids # {} /\ \A id \in ids : StatusIn(d, id) \in Settled
  BY <1>4
<1>8. \A i \in DOMAIN rows : new[i] = ApplyTo(rows[i], ids, last, scores)
  OBVIOUS
<1>9. DOMAIN new = DOMAIN rows
  OBVIOUS
<1> HIDE DEF ids, scores, last, disputed, complete, new
<1>10. review.disputed = disputed /\ review.complete = complete
  BY <1>5
<1> HIDE DEF review
<1>11. d.results = [slots |-> d.results.slots, variants |-> d.results.variants,
                    rows |-> d.results.rows, review |-> d.results.review]
  BY DEF AppliedNow, Answered
<1>12. d.reviewed = [d.results EXCEPT !.rows = new, !.review = review]
  BY <1>2 DEF AppliedNow, ReviewedOf, made
<1>13. d.reviewed = [slots |-> d.results.slots, variants |-> d.results.variants,
                     rows |-> new, review |-> review]
  BY <1>11, <1>12
<1>14. d.reviewed.rows = new /\ d.reviewed.review = review
  BY <1>13
<1>15. d.reviewed.review.disputed = {id \in IdsOf(d) : StatusIn(d, id) = "needs_adjudication"}
  BY <1>3, <1>6, <1>10, <1>14
<1>16. d.reviewed.review.complete
         => IdsOf(d) # {} /\ \A id \in IdsOf(d) : StatusIn(d, id) \in Settled
  BY <1>3, <1>7, <1>10, <1>14
<1>17. \A i \in DOMAIN d.results.rows :
         d.reviewed.rows[i] = ApplyTo(d.results.rows[i], IdsOf(d), last, ScoresOf(d))
  BY <1>3, <1>8, <1>14
<1>18. QED
  BY <1>9, <1>14, <1>15, <1>16, <1>17

(* A pair that is settled has been reviewed by as many as are needed, also *)
(* when it has been adjudicated.                                           *)
LEMMA SettledEntries ==
    ASSUME NEW d, AppliedNow(d), NEW id, StatusIn(d, id) \in Settled
    PROVE  ~(Cardinality(Entries(d.packets, d.mappings, id)) < Policy.reviewers)
<1> DEFINE entries == Entries(d.packets, d.mappings, id)
           verdict == VerdictOf(d, id)
<1>1. StatusIn(d, id) = IF verdict = Nothing THEN StatusOf(entries) ELSE "adjudicated"
  BY DEF StatusIn, CellOf, Aggregate
<1>2. CASE verdict = Nothing
  BY <1>1, <1>2 DEF StatusOf, Settled
<1>3. CASE verdict # Nothing
  <2>1. id \in DOMAIN AdjudicationsOf(d)
    BY <1>3 DEF VerdictOf
  <2>2. StatusOf(entries) = "needs_adjudication"
    BY <2>1 DEF AppliedNow, Inconsistent
  <2>3. QED
    BY <2>2 DEF StatusOf
<1>4. QED
  BY <1>2, <1>3

(* Who fills a pair in, when as many do as there are reviewers.            *)
LEMMA EveryReviewer ==
    ASSUME FilesSound(disk), NEW id, NEW r \in ReviewerSet,
           ~(Cardinality(Entries(disk.packets, disk.mappings, id)) < Len(Reviewers))
    PROVE  /\ id \in DOMAIN disk.packets[r]
           /\ \A s \in Sides : Filled(disk.packets[r][id][s].scores)
<1> DEFINE by == {q \in DOMAIN disk.packets :
                    /\ id \in DOMAIN disk.packets[q]
                    /\ \A s \in Sides : Filled(disk.packets[q][id][s].scores)}
           entries == Entries(disk.packets, disk.mappings, id)
           f == [q \in by |-> EntryOf(disk, q, id)]
<1>1. entries = {f[q] : q \in by}
  BY DEF Entries, EntryOf
<1>2. DOMAIN disk.packets = ReviewerSet
  BY DEF FilesSound, Filed
<1>3. by \subseteq ReviewerSet
  BY <1>2
<1>4. SUFFICES r \in by
  OBVIOUS
<1>5. f \in Surjection(by, entries)
  <2>1. f \in [by -> entries]
    BY <1>1
  <2>2. \A e \in entries : \E q \in by : f[q] = e
    BY <1>1
  <2> HIDE DEF f, entries, by
  <2>3. QED
    BY <2>1, <2>2 DEF Surjection
<1> HIDE DEF by, entries, f
<1>6. SUFFICES ASSUME r \notin by PROVE FALSE
  OBVIOUS
<1>7. IsFiniteSet(ReviewerSet \ {r})
      /\ Cardinality(ReviewerSet \ {r}) = Cardinality(ReviewerSet) - 1
  BY ReviewersFinite, FS_RemoveElement
<1>8. IsFiniteSet(by) /\ Cardinality(by) <= Cardinality(ReviewerSet \ {r})
  BY <1>3, <1>6, <1>7, FS_Subset
<1>9. IsFiniteSet(entries) /\ Cardinality(entries) <= Cardinality(by)
  BY <1>5, <1>8, FS_Surjection
<1>10. /\ Cardinality(entries) \in Nat /\ Cardinality(by) \in Nat
       /\ Cardinality(ReviewerSet) \in Nat
  BY <1>8, <1>9, ReviewersFinite, FS_CardinalityType
<1>11. Cardinality(ReviewerSet) = Len(Reviewers)
  BY ReleaseAssumption
<1>12. ~(Cardinality(entries) < Len(Reviewers))
  BY DEF entries
<1>13. QED
  BY <1>7, <1>8, <1>9, <1>10, <1>11, <1>12

(* What is scored of a settled pair is the answer that is there.           *)
LEMMA SettledTexts ==
    ASSUME FilesSound(disk), AppliedNow(disk), Current(disk),
           NEW id \in IdsOf(disk), StatusIn(disk, id) \in Settled,
           NEW side \in {"candidate", "baseline"}, NEW k,
           k = <<id[1][1], IF side = "candidate" THEN id[2] ELSE "baseline">>
    PROVE  CellOf(disk, id, side).scored = {disk.answers[k]}
<1> DEFINE entries == Entries(disk.packets, disk.mappings, id)
<1>1. /\ \A r \in ReviewerSet : disk.packets[r] # Nothing /\ disk.mappings[r] # Nothing
      /\ DOMAIN disk.packets = ReviewerSet /\ DOMAIN disk.mappings = ReviewerSet
      /\ Packed(disk)
  BY DEF AppliedNow, FilesSound, Filed
<1>2. \A r \in ReviewerSet : DOMAIN disk.packets[r] \subseteq DOMAIN disk.mappings[r]
  BY <1>1 DEF AppliedNow, Inconsistent
<1>3. id \in ReviewIds
  BY <1>1 DEF IdsOf, Packed
<1>4. /\ IsFiniteSet(entries)
      /\ \A e \in entries : e[2][side].text[1] = k
      /\ \A e \in entries : e[1] \in ReviewerSet /\ id \in DOMAIN disk.packets[e[1]]
                            /\ e = EntryOf(disk, e[1], id)
  BY <1>1, <1>2, <1>3, EntriesTyped
<1>5. ASSUME NEW e \in entries PROVE e[2][side].text = disk.answers[k]
  <2> DEFINE r == e[1]
             m == disk.mappings[r][id]
             review == disk.packets[r][id]
  <2>1. r \in ReviewerSet /\ id \in DOMAIN disk.packets[r] /\ e = EntryOf(disk, r, id)
    BY <1>4
  <2>2. id \in DOMAIN disk.mappings[r] /\ disk.packets[r] # Nothing /\ disk.mappings[r] # Nothing
    BY <1>1, <1>2, <2>1
  <2>3. m = seeds[r][id] /\ seeds[r] \in Seeds
    BY <1>1, <2>1, <2>2 DEF Packed
  <2>4. m \in Sides /\ Across(m) \in Sides
    BY <1>3, <2>3 DEF Seeds, Sides, Across
  <2>5. e[2] = [candidate |-> review[m], baseline |-> review[Across(m)]]
    BY <2>1 DEF EntryOf, Entry
  <2>6. \A s \in Sides : review[s].text = disk.answers[review[s].text[1]]
    BY <2>1, <2>2 DEF Current
  <2>7. PICK s \in Sides : e[2][side] = review[s]
    <3> HIDE DEF review, m
    <3>1. QED
      BY <2>4, <2>5
  <2>8. e[2][side].text[1] = k
    BY <1>4
  <2> HIDE DEF review
  <2>9. QED
    BY <2>6, <2>7, <2>8
<1>6. entries # {}
  <2>1. ~(Cardinality(entries) < Policy.reviewers)
    BY SettledEntries
  <2>2. Policy.reviewers \in Int /\ 0 < Policy.reviewers
    <3>1. Len(Reviewers) \in Nat
      BY ReleaseAssumption, LenProperties
    <3>2. Policy.reviewers \in 2 .. Len(Reviewers)
      BY ReleaseAssumption
    <3>3. QED
      BY <3>1, <3>2
  <2> HIDE DEF entries
  <2>3. QED
    BY <2>1, <2>2, FS_EmptySet
<1>7. CellOf(disk, id, side).scored = {e[2][side].text : e \in entries}
  BY DEF CellOf, Aggregate
<1> HIDE DEF entries
<1>8. QED
  BY <1>5, <1>6, <1>7

(* Rows of complete reviewed results: who is reviewed, and of what.        *)
LEMMA ReviewedRows ==
    ASSUME FilesSound(disk), AppliedNow(disk), disk.reviewed.review.complete, Current(disk)
    PROVE  /\ DOMAIN disk.reviewed.rows = DOMAIN disk.results.rows
           /\ \A i \in DOMAIN disk.results.rows :
                LET row == disk.results.rows[i]
                    new == disk.reviewed.rows[i]
                IN /\ new.key = row.key /\ new.answer = row.answer
                   /\ new.success = row.success
                   /\ \A v \in DOMAIN new.reviews :
                        new.reviews[v].scored = {disk.answers[new.key]}
<1>1. Answered(disk) /\ disk.results # Nothing
  BY DEF FilesSound, AppliedNow
<1>2. /\ \A id \in IdsOf(disk) : StatusIn(disk, id) \in Settled
      /\ DOMAIN disk.reviewed.rows = DOMAIN disk.results.rows
  BY <1>1, AppliedFields
<1>3. PICK last : \A i \in DOMAIN disk.results.rows :
        disk.reviewed.rows[i] = ApplyTo(disk.results.rows[i], IdsOf(disk), last, ScoresOf(disk))
  BY <1>1, AppliedFields
<1>4. IdsOf(disk) \subseteq ReviewIds
  <2>1. \A r \in ReviewerSet : disk.mappings[r] # Nothing
    BY DEF AppliedNow
  <2>2. DOMAIN disk.mappings = ReviewerSet /\ Packed(disk)
    BY DEF FilesSound, Filed
  <2>3. QED
    BY <2>1, <2>2 DEF IdsOf, Packed
<1>5. ASSUME NEW i \in DOMAIN disk.results.rows
      PROVE  LET row == disk.results.rows[i]
                 new == disk.reviewed.rows[i]
             IN /\ new.key = row.key /\ new.answer = row.answer
                /\ new.success = row.success
                /\ \A v \in DOMAIN new.reviews :
                     new.reviews[v].scored = {disk.answers[new.key]}
  <2> DEFINE row == disk.results.rows[i]
             new == disk.reviewed.rows[i]
             ids == IdsOf(disk)
             scores == ScoresOf(disk)
  <2>1. /\ row.key \in Keys /\ row.sampling = Sample.sampling /\ row.reviews = Sample.reviews
        /\ {"scored", "reviews", "retention"} \subseteq DOMAIN row
    BY <1>1 DEF Answered
  <2>2. new = ApplyTo(row, ids, last, scores) /\ ids \subseteq ReviewIds
    BY <1>3, <1>4
  <2> HIDE DEF row, new, ids, scores
  <2>3. /\ new.key = row.key /\ new.answer = row.answer /\ new.success = row.success
        /\ PairReviews(new, ids, scores)
    BY <2>1, <2>2, AppliedReviews
  <2>4. ASSUME NEW v \in DOMAIN new.reviews
        PROVE  new.reviews[v].scored = {disk.answers[new.key]}
    <3>1. PICK id \in ids, side \in {"candidate", "baseline"} :
            /\ new.reviews[v] = scores[id][side]
            /\ new.key = <<id[1][1], IF side = "candidate" THEN id[2] ELSE "baseline">>
      BY <2>3 DEF PairReviews
    <3>2. id \in IdsOf(disk) /\ StatusIn(disk, id) \in Settled
      BY <1>2, <3>1 DEF ids
    <3>3. CellOf(disk, id, side).scored = {disk.answers[new.key]}
      BY <3>1, <3>2, SettledTexts
    <3>4. scores[id][side] = CellOf(disk, id, side)
      BY <3>1, <3>2 DEF scores, ScoresOf
    <3>5. QED
      BY <3>1, <3>3, <3>4
  <2>5. QED
    BY <2>3, <2>4 DEF row, new
<1>6. QED
  BY <1>2, <1>5

(* Complete reviewed results leave nothing to adjudicate and, where every  *)
(* reviewer counts, nothing to fill in.                                    *)
LEMMA NothingLeft ==
    ASSUME FilesSound(disk), AppliedNow(disk), disk.reviewed.review.complete
    PROVE  /\ disk.reviewed.review.disputed = {}
           /\ Policy.reviewers = Len(Reviewers) =>
                \A r \in ReviewerSet : \E id \in DOMAIN disk.packets[r] :
                    \A s \in Sides : Filled(disk.packets[r][id][s].scores)
<1>1. Answered(disk)
  BY DEF FilesSound
<1>2. /\ IdsOf(disk) # {}
      /\ \A id \in IdsOf(disk) : StatusIn(disk, id) \in Settled
      /\ disk.reviewed.review.disputed
            = {id \in IdsOf(disk) : StatusIn(disk, id) = "needs_adjudication"}
  BY <1>1, AppliedFields
<1>3. disk.reviewed.review.disputed = {}
  BY <1>2 DEF Settled
<1>4. ASSUME Policy.reviewers = Len(Reviewers), NEW r \in ReviewerSet
      PROVE  \E id \in DOMAIN disk.packets[r] :
                \A s \in Sides : Filled(disk.packets[r][id][s].scores)
  <2>1. PICK id \in IdsOf(disk) : StatusIn(disk, id) \in Settled
    BY <1>2
  <2>2. ~(Cardinality(Entries(disk.packets, disk.mappings, id)) < Len(Reviewers))
    BY <1>4, <2>1, SettledEntries
  <2>3. QED
    BY <2>2, EveryReviewer
<1>5. QED
  BY <1>3, <1>4

(* What is accepted has been reviewed to the end, and has no failures.     *)
LEMMA AcceptedRows ==
    ASSUME ReviewFiled(disk), disk.reviewed # Nothing, MatrixHolds(disk.reviewed, Candidates),
           Policy.reviewNeeded
    PROVE  /\ disk.reviewed.review.complete
           /\ \A i \in DOMAIN disk.reviewed.rows : disk.reviewed.rows[i].success
<1> DEFINE payload == disk.reviewed
           p == Normalized(payload)
<1>1. /\ payload = [slots |-> payload.slots, variants |-> payload.variants,
                    rows |-> payload.rows, review |-> payload.review]
      /\ payload.rows \in Seq(Range(payload.rows))
  BY DEF ReviewFiled
<1>2. MatrixHolds(payload, Candidates)
  OBVIOUS
<1> HIDE DEF payload
<1>3. p.rows = payload.rows /\ p.review = payload.review
  BY <1>1 DEF Normalized
<1>4. Complete(p, MatrixPass(p.rows)) /\ CapabilityAccepted(p, Candidates)
  BY <1>2 DEF MatrixHolds
<1> HIDE DEF p
<1>5. p.review.complete
  BY <1>4 DEF CapabilityAccepted, ReviewComplete
<1>6. DOMAIN p.rows \subseteq MatrixPass(p.rows)
  BY <1>1, <1>3, <1>4, RowsByKey
<1>7. QED
  BY <1>3, <1>5, <1>6 DEF MatrixPass, payload

(* What a matrix run leaves is of its own configuration.                   *)
LEMMA MatrixScores ==
    ASSUME ControlTyped, FilesSound(disk), pc = "running", NEW outcome \in MatrixOutcomes,
           ScoredUnder(disk, opts.config)
    PROVE  ScoredUnder(outcome.disk, opts.config)
<1> DEFINE e == outcome.disk
           rows == e.results.rows
           config == opts.config
<1>1. \A i \in DOMAIN rows :
        \/ \E k \in Keys, end \in Succeeding : rows[i] = RowOf(k, end) /\ e.answers[k] = Text(k)
        \/ \E k \in Keys, end \in JobEndings \ Succeeding : rows[i] = RowOf(k, end)
        \/ /\ disk.results # Nothing
           /\ \E j \in DOMAIN disk.results.rows : rows[i] = disk.results.rows[j]
           /\ rows[i].success /\ rows[i].config = config
                => e.answers[rows[i].key] = disk.answers[rows[i].key]
  BY MatrixRows
<1> HIDE DEF e, rows
<1>2. ASSUME NEW i \in DOMAIN rows
      PROVE  /\ rows[i].config = config
             /\ rows[i].success => rows[i].answer = e.answers[rows[i].key]
  <2> DEFINE row == rows[i]
  <2>5. \A k \in Keys : \A end : LET new == RowOf(k, end)
            IN /\ new.config = config /\ new.key = k
               /\ new.success => end \in Succeeding
               /\ end \in Scoring => new.answer = Text(k)
    BY RowFields
  <2>1. CASE \E k \in Keys, end \in Succeeding : row = RowOf(k, end) /\ e.answers[k] = Text(k)
    BY <2>1, <2>5 DEF Scoring
  <2>2. CASE \E k \in Keys, end \in JobEndings \ Succeeding : row = RowOf(k, end)
    BY <2>2, <2>5
  <2>3. CASE /\ disk.results # Nothing
             /\ \E j \in DOMAIN disk.results.rows : row = disk.results.rows[j]
             /\ row.success /\ row.config = config => e.answers[row.key] = disk.answers[row.key]
    BY <2>3 DEF ScoredUnder
  <2>4. QED
    BY <1>1, <2>1, <2>2, <2>3
<1>3. QED
  BY <1>2 DEF ScoredUnder, e, rows

(* A packet is made once, of the answers that are there.                   *)
LEMMA PrepareOnce ==
    ASSUME FilesSound(disk), NEW r \in ReviewerSet, seeds[r] \in Seeds,
           NEW outcome \in PrepareOutcomes(r), ~opts.force
    PROVE  /\ \/ outcome.disk = disk /\ ~outcome.ok
              \/ disk.packets[r] = Nothing
           /\ \A q \in ReviewerSet \ {r} :
                /\ outcome.disk.packets[q] = disk.packets[q]
                /\ outcome.disk.mappings[q] = disk.mappings[q]
           /\ Current(disk) => Current(outcome.disk)
<1> DEFINE made == Prepared(disk.results.rows, disk.answers, Candidates, seeds[r])
           packed == [disk EXCEPT !.packets[r] = made.packet]
           e == outcome.disk
<1>1. CASE outcome = Failed
  BY <1>1 DEF Failed, Outcome
<1>2. CASE /\ disk.results # Nothing /\ made # Refused
           /\ disk.packets[r] = Nothing /\ disk.mappings[r] = Nothing
           /\ \/ outcome = KilledWith(packed)
              \/ outcome = Outcome([packed EXCEPT !.mappings[r] = made.mapping], TRUE)
  <2> DEFINE packet == made.packet
             mapping == made.mapping
  <2>1. \A id \in DOMAIN packet, s \in Sides :
            packet[id][s].text = disk.answers[packet[id][s].text[1]]
    <3>1. Filed(disk) /\ Answered(disk)
      BY DEF FilesSound
    <3>2. QED
      BY <1>2, <3>1, PreparedTyped
  <2> HIDE DEF made
  <2>2. \/ e = [disk EXCEPT !.packets[r] = packet]
        \/ e = [[disk EXCEPT !.packets[r] = packet] EXCEPT !.mappings[r] = mapping]
    BY <1>2 DEF KilledWith, Outcome
  <2> HIDE DEF packet, mapping, e
  <2>3. Filed(disk)
    BY DEF FilesSound
  <2>4. /\ e.answers = disk.answers
        /\ e.packets = [disk.packets EXCEPT ![r] = packet]
        /\ e.mappings \in {disk.mappings, [disk.mappings EXCEPT ![r] = mapping]}
    <3> DEFINE one == [disk EXCEPT !.packets[r] = packet]
    <3>1. one = [checks |-> disk.checks, results |-> disk.results, answers |-> disk.answers,
                 packets |-> [disk.packets EXCEPT ![r] = packet], mappings |-> disk.mappings,
                 adjudications |-> disk.adjudications, reviewed |-> disk.reviewed,
                 runtime |-> disk.runtime, page |-> disk.page, summary |-> disk.summary]
      BY <2>3 DEF Filed
    <3>2. e = one \/ e = [one EXCEPT !.mappings[r] = mapping]
      BY <2>2
    <3> HIDE DEF one
    <3>3. QED
      BY <3>1, <3>2
  <2>5. \A q \in ReviewerSet :
          /\ e.packets[q] = IF q = r THEN packet ELSE disk.packets[q]
          /\ q # r => e.mappings[q] = disk.mappings[q]
    BY <2>3, <2>4 DEF Filed
  <2>6. Current(disk) => Current(e)
    BY <2>1, <2>4, <2>5 DEF Current
  <2>7. QED
    BY <1>2, <2>5, <2>6 DEF e
<1>3. QED
  BY <1>1, <1>2, PrepareEffects

(* An apply makes nothing else of the files than they give now.            *)
LEMMA ApplyAnew ==
    ASSUME ControlTyped, FilesSound(disk), pc = "running", NEW outcome \in ApplyOutcomes,
           disk.adjudications # Nothing => opts.adjudicated
    PROVE  /\ outcome.disk = disk \/ AppliedNow(outcome.disk)
           /\ AppliedNow(disk) => outcome.disk.reviewed = disk.reviewed
<1> DEFINE adjudications == IF opts.adjudicated THEN disk.adjudications ELSE NoReviews
           made == Applied(disk.results.rows, disk.packets, disk.mappings, adjudications)
           file == [disk.results EXCEPT !.rows = made.rows, !.review = made.review]
           e == outcome.disk
<1>1. adjudications = AdjudicationsOf(disk)
  <2>1. opts \in Options /\ opts # Nothing
    BY NothingAssumption DEF ControlTyped
  <2>2. opts.adjudicated <=> disk.adjudications # Nothing
    BY <2>1 DEF ControlTyped
  <2>3. QED
    BY <2>2 DEF AdjudicationsOf
<1>2. made = AppliedOf(disk)
  BY <1>1 DEF AppliedOf
<1>3. file = ReviewedOf(disk)
  BY <1>2 DEF ReviewedOf
<1>4. CASE outcome = Failed
  BY <1>4 DEF Failed, Outcome
<1>5. CASE /\ disk.results # Nothing
           /\ \A r \in ReviewerSet : disk.packets[r] # Nothing /\ disk.mappings[r] # Nothing
           /\ ~Inconsistent(disk.results.rows, disk.packets, disk.mappings, adjudications)
           /\ e = [disk EXCEPT !.reviewed = file]
  <2> HIDE DEF e, file, made
  <2>1. e = [checks |-> disk.checks, results |-> disk.results, answers |-> disk.answers,
             packets |-> disk.packets, mappings |-> disk.mappings,
             adjudications |-> disk.adjudications, reviewed |-> file,
             runtime |-> disk.runtime, page |-> disk.page, summary |-> disk.summary]
    BY <1>5 DEF FilesSound, Filed
  <2>2. /\ e.results = disk.results /\ e.packets = disk.packets /\ e.mappings = disk.mappings
        /\ e.adjudications = disk.adjudications /\ e.reviewed = file
    BY <2>1
  <2>3. AdjudicationsOf(e) = AdjudicationsOf(disk)
    BY <2>2 DEF AdjudicationsOf
  <2>4. ReviewedOf(e) = ReviewedOf(disk)
    BY <2>2, <2>3 DEF ReviewedOf, AppliedOf
  <2>5. AppliedNow(e)
    BY <1>1, <1>3, <1>5, <2>2, <2>3, <2>4 DEF AppliedNow
  <2>6. AppliedNow(disk) => e.reviewed = disk.reviewed
    BY <1>3, <2>2 DEF AppliedNow
  <2>7. QED
    BY <2>5, <2>6 DEF e
<1>6. QED
  BY <1>4, <1>5, ApplyEffects DEF Outcome

LEMMA KeyDistinct ==
    /\ Matrix # Apply /\ Matrix # Report /\ Apply # Report
    /\ Matrix \notin Preparing /\ Apply \notin Preparing /\ Report \notin Preparing
    /\ \A q, r \in ReviewerSet : Prepare(q) = Prepare(r) => q = r
    /\ {Matrix, Apply, Report} \subseteq KeySteps /\ Preparing \subseteq KeySteps
BY KeyPhases DEF Preparing, KeySteps

(* What is kept when a step leaves e of the files d: with the record as it *)
(* was, and with the step recorded.                                        *)
StepKeeps(step, e, done, ok) == Kept(e, done) /\ (ok => Kept(e, done \cup {step}))

LEMMA KeptByOther ==
    ASSUME NEW d, NEW e, NEW done, NEW step, Kept(d, done), Untouched(step, d, e),
           step \notin KeySteps
    PROVE  StepKeeps(step, e, done, TRUE)
<1>1. SameFiles(d, e)
  BY KeyDistinct DEF Untouched, SameFiles
<1>2. Kept(e, done)
  BY <1>1, KeptOfSame
<1>3. \A x \in KeySteps : x \in done \cup {step} <=> x \in done
  OBVIOUS
<1>4. Kept(e, done \cup {step})
  BY <1>2, <1>3, KeptByKeys
<1>5. QED
  BY <1>2, <1>4 DEF StepKeeps

LEMMA KeptByMatrix ==
    ASSUME NEW d, NEW e, NEW done, Kept(d, done), Untouched(Matrix, d, e), Matrix \notin done
    PROVE  StepKeeps(Matrix, e, done, EvidenceExists(e, Matrix))
<1>1. \A r \in ReviewerSet : Prepare(r) \notin done
  BY DEF Kept, Ordered
<1>2. Apply \notin done /\ Report \notin done
  BY <1>1, ReviewerThere DEF Kept, Ordered
<1>3. e.reviewed # Nothing => \A r \in ReviewerSet : e.packets[r] # Nothing
  BY KeyDistinct DEF Kept, Untouched
<1>4. \A x \in KeySteps : x \in done \cup {Matrix} => x = Matrix
  BY <1>1, <1>2 DEF KeySteps, Preparing
<1>5. Evident(e, done)
  BY <1>4 DEF Evident
<1>6. Kept(e, done)
  BY <1>1, <1>2, <1>3, <1>5, KeptBefore
<1>7. ASSUME EvidenceExists(e, Matrix) PROVE Kept(e, done \cup {Matrix})
  <2>1. Evident(e, done \cup {Matrix})
    BY <1>4, <1>7 DEF Evident
  <2>2. /\ \A r \in ReviewerSet : Prepare(r) \notin done \cup {Matrix}
        /\ Apply \notin done \cup {Matrix} /\ Report \notin done \cup {Matrix}
    BY <1>1, <1>2, KeyDistinct DEF Preparing
  <2>3. QED
    BY <1>3, <2>1, <2>2, KeptBefore
<1>8. QED
  BY <1>6, <1>7 DEF StepKeeps

LEMMA KeptByPrepare ==
    ASSUME NEW d, NEW e, NEW done, NEW r \in ReviewerSet,
           Kept(d, done), Untouched(Prepare(r), d, e),
           Prepare(r) \notin done, Matrix \in done, d.packets[r] = Nothing,
           \A q \in ReviewerSet \ {r} :
                e.packets[q] = d.packets[q] /\ e.mappings[q] = d.mappings[q],
           Current(d) => Current(e)
    PROVE  StepKeeps(Prepare(r), e, done, EvidenceExists(e, Prepare(r)))
<1> DEFINE more == done \cup {Prepare(r)}
<1>1. Prepare(r) \in Preparing
  BY DEF Preparing
<1>2. /\ e.results = d.results /\ e.reviewed = d.reviewed
      /\ e.page = d.page /\ e.summary = d.summary
      /\ d.reviewed = Nothing
  BY <1>1, KeyDistinct DEF Untouched, Kept
<1>3. Apply \notin done /\ Report \notin done
  BY DEF Kept, Ordered
<1>4. Apply \notin more /\ Report \notin more
  BY <1>1, <1>3, KeyDistinct
<1>5. \A q \in ReviewerSet \ {r} : Prepare(q) \in more => Prepare(q) \in done
  BY KeyDistinct
<1>6. Ordered(done) /\ Ordered(more)
  BY <1>3, <1>4 DEF Kept, Ordered
<1>7. ASSUME NEW x \in KeySteps, x \in done PROVE EvidenceExists(e, x)
  <2>1. EvidenceExists(d, x)
    BY <1>7 DEF Kept, Evident
  <2>2. x = Matrix \/ \E q \in ReviewerSet \ {r} : x = Prepare(q)
    BY <1>3, <1>7 DEF KeySteps, Preparing
  <2>3. QED
    BY <1>2, <2>1, <2>2, KeyEvidence
<1>8. Evident(e, done) /\ (EvidenceExists(e, Prepare(r)) => Evident(e, more))
  BY <1>7 DEF Evident
<1>9. Alive(e, more) => Alive(d, done)
  BY <1>5 DEF Alive
<1>10. Alive(e, done) => Alive(e, more)
  BY DEF Alive
<1>11. Alive(e, more) => Current(e)
  BY <1>9 DEF Kept
<1>12. ReviewStands(e) /\ ReportStands(e, done) /\ ReportStands(e, more)
  BY <1>2, <1>3, <1>4 DEF ReviewStands, ReportStands
<1> HIDE DEF more
<1>13. Kept(e, done) /\ (EvidenceExists(e, Prepare(r)) => Kept(e, more))
  BY <1>2, <1>6, <1>8, <1>10, <1>11, <1>12 DEF Kept
<1>14. QED
  BY <1>13 DEF StepKeeps, more

LEMMA KeptByApply ==
    ASSUME NEW d, NEW e, NEW done, Kept(d, done), Untouched(Apply, d, e),
           Apply \notin done, \A r \in ReviewerSet : Prepare(r) \in done,
           e = d \/ AppliedNow(e), AppliedNow(d) => e.reviewed = d.reviewed,
           d.reviewed # Nothing /\ MatrixHolds(d.reviewed, Candidates)
                => d.reviewed.review.complete
    PROVE  StepKeeps(Apply, e, done, EvidenceExists(e, Apply))
<1> DEFINE more == done \cup {Apply}
<1>1. /\ e.results = d.results /\ e.answers = d.answers
      /\ e.packets = d.packets /\ e.mappings = d.mappings
      /\ e.adjudications = d.adjudications /\ e.page = d.page /\ e.summary = d.summary
  BY KeyDistinct DEF Untouched
<1>2. Matrix \in done
  BY ReviewerThere DEF Kept, Ordered
<1>3. /\ \A r \in ReviewerSet : Prepare(r) \in more
      /\ Matrix \in more
      /\ Report \in more <=> Report \in done
  BY <1>2, KeyDistinct
<1>4. Ordered(done) /\ Ordered(more)
  BY <1>2, <1>3 DEF Ordered
<1>5. ASSUME NEW x \in KeySteps, x \in done PROVE EvidenceExists(e, x)
  <2>1. EvidenceExists(d, x)
    BY <1>5 DEF Kept, Evident
  <2>2. x # Apply
    BY <1>5
  <2>3. QED
    BY <1>1, <2>1, <2>2, KeyEvidence DEF KeySteps, Preparing
<1>6. Evident(e, done) /\ (EvidenceExists(e, Apply) => Evident(e, more))
  BY <1>5 DEF Evident
<1>7. e.reviewed # Nothing => \A r \in ReviewerSet : e.packets[r] # Nothing
  BY DEF Kept, AppliedNow
<1>8. Current(d) /\ ReviewStands(d) /\ ReportStands(d, done)
  <2>1. Alive(d, done)
    BY DEF Alive
  <2>2. QED
    BY <2>1 DEF Kept
<1>9. Current(e)
  BY <1>1, <1>8 DEF Current
<1>10. ReviewStands(e)
  BY <1>8 DEF ReviewStands
<1>11. ReportStands(e, done) /\ ReportStands(e, more)
  <2>1. CASE Report \notin done
    BY <1>3, <2>1 DEF ReportStands
  <2>2. CASE Report \in done
    <3>1. d.reviewed # Nothing /\ MatrixHolds(d.reviewed, Candidates)
      BY <1>8, <2>2 DEF ReportStands
    <3>2. e.reviewed = d.reviewed
      BY <1>8, <3>1 DEF ReviewStands
    <3>3. QED
      BY <1>1, <1>8, <2>2, <3>2 DEF ReportStands
  <2>3. QED
    BY <2>1, <2>2
<1> HIDE DEF more
<1>12. Kept(e, done) /\ (EvidenceExists(e, Apply) => Kept(e, more))
  BY <1>4, <1>6, <1>7, <1>9, <1>10, <1>11 DEF Kept
<1>13. QED
  BY <1>12 DEF StepKeeps, more

LEMMA KeptByReport ==
    ASSUME NEW d, NEW e, NEW done, NEW ok \in BOOLEAN, Kept(d, done), Untouched(Report, d, e),
           Report \notin done, \A r \in ReviewerSet : Prepare(r) \in done,
           ok => /\ d.reviewed # Nothing /\ e.page # Nothing /\ e.summary # Nothing
                 /\ e.summary.status = "complete" /\ e.summary.matrix = d.reviewed
                 /\ MatrixHolds(d.reviewed, Candidates)
    PROVE  StepKeeps(Report, e, done, ok)
<1> DEFINE more == done \cup {Report}
<1>1. /\ e.results = d.results /\ e.answers = d.answers
      /\ e.packets = d.packets /\ e.mappings = d.mappings
      /\ e.adjudications = d.adjudications /\ e.reviewed = d.reviewed
  BY KeyDistinct DEF Untouched
<1>2. Matrix \in done
  BY ReviewerThere DEF Kept, Ordered
<1>3. Ordered(done) /\ Ordered(more)
  BY <1>2 DEF Ordered
<1>4. ASSUME NEW x \in KeySteps, x \in done PROVE EvidenceExists(e, x)
  <2>1. EvidenceExists(d, x)
    BY <1>4 DEF Kept, Evident
  <2>2. x # Report
    BY <1>4
  <2>3. QED
    BY <1>1, <2>1, <2>2, KeyEvidence DEF KeySteps, Preparing
<1>5. Evident(e, done) /\ (ok => Evident(e, more))
  <2>1. ok => EvidenceExists(e, Report)
    BY KeyEvidence
  <2>2. QED
    BY <1>4, <2>1 DEF Evident
<1>6. e.reviewed # Nothing => \A r \in ReviewerSet : e.packets[r] # Nothing
  BY <1>1 DEF Kept
<1>7. Current(d) /\ ReviewStands(d)
  <2>1. Alive(d, done)
    BY DEF Alive
  <2>2. QED
    BY <2>1 DEF Kept
<1>8. Current(e)
  BY <1>1, <1>7 DEF Current
<1>9. ReviewStands(e)
  <2>1. AppliedNow(d) => AppliedNow(e)
    BY <1>1 DEF AppliedNow, ReviewedOf, AppliedOf, AdjudicationsOf
  <2>2. QED
    BY <1>1, <1>7, <2>1 DEF ReviewStands
<1>10. ReportStands(e, done) /\ (ok => ReportStands(e, more))
  BY <1>1 DEF ReportStands
<1> HIDE DEF more
<1>11. Kept(e, done) /\ (ok => Kept(e, more))
  BY <1>3, <1>5, <1>6, <1>8, <1>9, <1>10 DEF Kept
<1>12. QED
  BY <1>11 DEF StepKeeps, more

(* A step that is run comes after those it rests on, and is not recorded.  *)
Ready(step) ==
    /\ step \in KeySteps => step \notin held.done
    /\ step \in Preparing => Matrix \in held.done
    /\ step \in {Apply, Report} => \A r \in ReviewerSet : Prepare(r) \in held.done

LEMMA StepKept ==
    ASSUME ReleaseInv, Policy.reviewNeeded, pc = "running", Left # <<>>,
           NEW outcome \in Outcomes(Head(Left)), ~opts.force,
           disk.adjudications # Nothing => opts.adjudicated,
           Kept(disk, held.done), Ready(Head(Left))
    PROVE  StepKeeps(Head(Left), outcome.disk, held.done,
                     outcome.ok /\ EvidenceExists(outcome.disk, Head(Left)))
<1> DEFINE step == Head(Left)
           e == outcome.disk
           done == held.done
           ok == outcome.ok /\ EvidenceExists(e, step)
<1>1. /\ ControlTyped /\ FilesSound(disk) /\ ReviewFiled(disk)
      /\ step \in Range(BuildSteps) /\ Untouched(step, disk, e)
      /\ PhaseOf(step) = "review-prepare" => \A r \in ReviewerSet : seeds[r] \in Seeds
      /\ Ready(step) /\ outcome \in Outcomes(step) /\ Kept(disk, done)
  BY StepRun, OutcomeFields DEF ReleaseInv, FilesSound
<1> HIDE DEF step
<1>2. /\ step = Matrix <=> PhaseOf(step) = "matrix"
      /\ step = Apply <=> PhaseOf(step) = "review-apply"
      /\ step = Report <=> PhaseOf(step) = "report"
      /\ step \in Preparing <=> PhaseOf(step) = "review-prepare"
  BY <1>1, KeyPhases
<1>3. SUFFICES StepKeeps(step, e, done, ok)
  BY DEF step
<1> HIDE DEF e, done, ok
<1>4. CASE outcome = KilledWith(disk) \/ (e = disk /\ ~outcome.ok)
  <2>1. e = disk /\ ~outcome.ok
    BY <1>4 DEF KilledWith, e
  <2>2. QED
    BY <1>1, <2>1 DEF StepKeeps, ok
<1>5. CASE step \notin KeySteps
  <2>1. StepKeeps(step, e, done, TRUE)
    BY <1>1, <1>5, KeptByOther
  <2>2. QED
    BY <2>1 DEF StepKeeps
<1>6. CASE step = Matrix
  <2>1. Matrix \notin done
    BY <1>1, <1>6, KeyDistinct DEF Ready, done
  <2>2. StepKeeps(Matrix, e, done, EvidenceExists(e, Matrix))
    BY <1>1, <1>6, <2>1, KeptByMatrix
  <2>3. QED
    BY <1>6, <2>2 DEF StepKeeps, ok
<1>7. ASSUME NEW r \in ReviewerSet, step = Prepare(r)
      PROVE  StepKeeps(step, e, done, ok)
  <2>1. step \in Preparing /\ PhaseOf(step) = "review-prepare" /\ step[2] = r
    BY <1>2, <1>7, KeyPhases DEF Preparing
  <2>2. Prepare(r) \notin done /\ Matrix \in done
    BY <1>1, <1>7, <2>1, KeyDistinct DEF Ready, done
  <2>3. outcome = KilledWith(disk) \/ outcome \in PrepareOutcomes(r)
    BY <1>1, <2>1, OutcomesByPhase
  <2>4. CASE outcome \in PrepareOutcomes(r)
    <3>1. /\ \/ e = disk /\ ~outcome.ok
             \/ disk.packets[r] = Nothing
          /\ \A q \in ReviewerSet \ {r} :
                e.packets[q] = disk.packets[q] /\ e.mappings[q] = disk.mappings[q]
          /\ Current(disk) => Current(e)
      BY <1>1, <2>1, <2>4, PrepareOnce DEF e
    <3>2. CASE disk.packets[r] = Nothing
      <4>1. StepKeeps(Prepare(r), e, done, EvidenceExists(e, Prepare(r)))
        BY <1>1, <1>7, <2>2, <3>1, <3>2, KeptByPrepare
      <4>2. QED
        BY <1>7, <4>1 DEF StepKeeps, ok
    <3>3. QED
      BY <1>4, <3>1, <3>2
  <2>5. CASE outcome = KilledWith(disk)
    BY <1>4, <2>5
  <2>6. QED
    BY <2>3, <2>4, <2>5
<1>8. CASE step = Apply
  <2>1. Apply \notin done /\ \A r \in ReviewerSet : Prepare(r) \in done
    BY <1>1, <1>8, KeyDistinct DEF Ready, done
  <2>2. outcome = KilledWith(disk) \/ outcome \in ApplyOutcomes
    BY <1>1, <1>2, <1>8, OutcomesByPhase
  <2>3. CASE outcome \in ApplyOutcomes
    <3>1. /\ e = disk \/ AppliedNow(e)
          /\ AppliedNow(disk) => e.reviewed = disk.reviewed
      BY <1>1, <2>3, ApplyAnew DEF e
    <3>2. disk.reviewed # Nothing /\ MatrixHolds(disk.reviewed, Candidates)
            => disk.reviewed.review.complete
      BY <1>1, AcceptedRows
    <3>3. StepKeeps(Apply, e, done, EvidenceExists(e, Apply))
      BY <1>1, <1>8, <2>1, <3>1, <3>2, KeptByApply
    <3>4. QED
      BY <1>8, <3>3 DEF StepKeeps, ok
  <2>4. QED
    BY <1>4, <2>2, <2>3
<1>9. CASE step = Report
  <2>1. Report \notin done /\ \A r \in ReviewerSet : Prepare(r) \in done
    BY <1>1, <1>9, KeyDistinct DEF Ready, done
  <2>2. outcome = KilledWith(disk) \/ outcome \in ReportOutcomes
    BY <1>1, <1>2, <1>9, OutcomesByPhase
  <2>3. CASE outcome \in ReportOutcomes
    <3>1. outcome.ok => /\ e.summary.status = "complete" /\ e.summary.matrix = disk.reviewed
                        /\ disk.reviewed # Nothing
                        /\ MatrixHolds(disk.reviewed, Candidates)
      BY <1>1, <2>3, ReportSound DEF e
    <3>2. EvidenceExists(e, Report) <=> e.page # Nothing /\ e.summary # Nothing
      BY KeyEvidence
    <3> DEFINE fine == outcome.ok /\ EvidenceExists(e, Report)
    <3>3. /\ fine \in BOOLEAN
          /\ fine => /\ disk.reviewed # Nothing /\ e.page # Nothing /\ e.summary # Nothing
                     /\ e.summary.status = "complete" /\ e.summary.matrix = disk.reviewed
                     /\ MatrixHolds(disk.reviewed, Candidates)
      BY <3>1, <3>2
    <3> HIDE DEF fine
    <3>4. StepKeeps(Report, e, done, fine)
      BY <1>1, <1>9, <2>1, <3>3, KeptByReport
    <3>5. QED
      BY <1>9, <3>4 DEF StepKeeps, fine, ok
  <2>4. QED
    BY <1>4, <2>2, <2>3
<1>10. QED
  BY <1>5, <1>6, <1>7, <1>8, <1>9 DEF KeySteps, Preparing

-----------------------------------------------------------------------------
(* Where the key steps are among the steps of a release: n is the place of *)
(* the matrix.                                                             *)
Placed(n, m) ==
    /\ n \in Nat /\ m \in Nat /\ n >= 1
    /\ Len(BuildSteps) = n + m + 3
    /\ \A i \in 1 .. n - 1 : BuildSteps[i] \notin KeySteps
    /\ BuildSteps[n] = Matrix
    /\ \A i \in n + 1 .. n + m : BuildSteps[i] = Prepare(Reviewers[i - n])
    /\ BuildSteps[n + m + 1] = Apply
    /\ BuildSteps[n + m + 2] \notin KeySteps
    /\ BuildSteps[n + m + 3] = Report

LEMMA OtherSteps ==
    /\ <<"unit-tests">> \notin KeySteps /\ <<"runtime">> \notin KeySteps
    /\ \A c \in Range(CheckSteps) : <<c>> \notin KeySteps
<1>1. \A x \in KeySteps : PhaseOf(x) \in {"matrix", "review-apply", "report", "review-prepare"}
  BY KeyPhases DEF KeySteps, Preparing
<1>2. QED
  BY <1>1, StepPhases

LEMMA BuildPlaces == \E n : Placed(n, Len(Reviewers))
<1> DEFINE T == StepSet
           checks == [i \in DOMAIN CheckSteps |-> <<CheckSteps[i]>>]
           prepares == [i \in DOMAIN Reviewers |-> Prepare(Reviewers[i])]
           one == <<<<"unit-tests">>>>
           mid == <<<<"matrix">>>>
           back == <<<<"review-apply">>, <<"runtime">>, <<"release-report">>>>
           two == one \o checks
           three == two \o mid
           front == three \o prepares
           all == front \o back
           c == Len(CheckSteps)
           m == Len(Reviewers)
           n == c + 2
<1>1. BuildSteps = all
  BY DEF BuildSteps
<1>2. c \in Nat /\ DOMAIN CheckSteps = 1 .. c /\ m \in Nat /\ DOMAIN Reviewers = 1 .. m
  BY ReleaseAssumption, LenProperties
<1>3. one \in Seq(T) /\ mid \in Seq(T) /\ back \in Seq(T)
      /\ Len(one) = 1 /\ Len(mid) = 1 /\ Len(back) = 3
      /\ one[1] = <<"unit-tests">> /\ mid[1] = Matrix
      /\ back[1] = Apply /\ back[2] = <<"runtime">> /\ back[3] = Report
  <2>1. <<"unit-tests">> \in T /\ <<"matrix">> \in T /\ <<"review-apply">> \in T
        /\ <<"runtime">> \in T /\ <<"release-report">> \in T
    BY DEF StepSet
  <2> HIDE DEF T
  <2>2. QED
    BY <2>1 DEF Matrix, Apply, Report
<1>4. /\ checks \in Seq(T) /\ Len(checks) = c
      /\ \A i \in 1 .. c : checks[i] \notin KeySteps
  <2>1. \A i \in 1 .. c : CheckSteps[i] \in Range(CheckSteps)
    BY <1>2 DEF Range
  <2>2. \A i \in 1 .. c : <<CheckSteps[i]>> \in T /\ <<CheckSteps[i]>> \notin KeySteps
    BY <2>1, OtherSteps DEF StepSet
  <2>3. /\ checks \in [1 .. c -> T] /\ DOMAIN checks = 1 .. c
        /\ \A i \in 1 .. c : checks[i] \notin KeySteps
    <3> HIDE DEF T, c
    <3>1. QED
      BY <1>2, <2>2
  <2> HIDE DEF T, checks, c
  <2>4. checks \in Seq(T)
    BY <1>2, <2>3, SeqDef
  <2>5. Len(checks) = c
    BY <1>2, <2>3, <2>4, LenProperties
  <2>6. QED
    BY <2>3, <2>4, <2>5
<1>5. /\ prepares \in Seq(T) /\ Len(prepares) = m
      /\ \A i \in 1 .. m : prepares[i] = Prepare(Reviewers[i])
  <2>1. \A i \in 1 .. m : Reviewers[i] \in ReviewerSet
    BY <1>2 DEF ReviewerSet, Range
  <2>2. \A i \in 1 .. m : Prepare(Reviewers[i]) \in T
    BY <2>1 DEF StepSet
  <2>3. /\ prepares \in [1 .. m -> T] /\ DOMAIN prepares = 1 .. m
        /\ \A i \in 1 .. m : prepares[i] = Prepare(Reviewers[i])
    <3> HIDE DEF T, m
    <3>1. QED
      BY <1>2, <2>2
  <2> HIDE DEF T, prepares, m
  <2>4. prepares \in Seq(T)
    BY <1>2, <2>3, SeqDef
  <2>5. Len(prepares) = m
    BY <1>2, <2>3, <2>4, LenProperties
  <2>6. QED
    BY <2>3, <2>4, <2>5
<1> HIDE DEF T, checks, prepares, one, mid, back, c, m
<1>6. /\ two \in Seq(T) /\ Len(two) = c + 1
      /\ \A i \in 1 .. c + 1 : two[i] \notin KeySteps
  <2>1. /\ two \in Seq(T) /\ Len(two) = Len(one) + Len(checks)
        /\ \A i \in 1 .. Len(one) + Len(checks) :
            two[i] = IF i <= Len(one) THEN one[i] ELSE checks[i - Len(one)]
    BY <1>3, <1>4, ConcatProperties
  <2> HIDE DEF two
  <2>2. Len(two) = c + 1
        /\ \A i \in 1 .. c + 1 : two[i] = IF i <= 1 THEN one[i] ELSE checks[i - 1]
    BY <1>2, <1>3, <1>4, <2>1
  <2>3. ASSUME NEW i \in 1 .. c + 1 PROVE two[i] \notin KeySteps
    <3>1. CASE i = 1
      BY <1>3, <2>2, <3>1, OtherSteps
    <3>2. CASE i # 1
      <4>1. i - 1 \in 1 .. c /\ ~(i <= 1)
        BY <1>2, <3>2
      <4>2. QED
        BY <1>4, <2>2, <4>1
    <3>3. QED
      BY <3>1, <3>2
  <2>4. QED
    BY <2>1, <2>2, <2>3
<1> HIDE DEF two
<1>7. /\ three \in Seq(T) /\ Len(three) = n
      /\ \A i \in 1 .. n - 1 : three[i] \notin KeySteps
      /\ three[n] = Matrix
  <2>1. /\ three \in Seq(T) /\ Len(three) = Len(two) + Len(mid)
        /\ \A i \in 1 .. Len(two) + Len(mid) :
            three[i] = IF i <= Len(two) THEN two[i] ELSE mid[i - Len(two)]
    BY <1>3, <1>6, ConcatProperties
  <2> HIDE DEF three
  <2>2. Len(three) = n
        /\ \A i \in 1 .. n : three[i] = IF i <= c + 1 THEN two[i] ELSE mid[i - (c + 1)]
    BY <1>2, <1>3, <1>6, <2>1
  <2>3. \A i \in 1 .. n - 1 : i \in 1 .. c + 1 /\ i \in 1 .. n /\ i <= c + 1
    BY <1>2
  <2>4. n \in 1 .. n /\ ~(n <= c + 1) /\ n - (c + 1) = 1
    BY <1>2
  <2> HIDE DEF n
  <2>5. QED
    BY <1>3, <1>6, <2>1, <2>2, <2>3, <2>4
<1> HIDE DEF three
<1>8. n \in Nat /\ n >= 1
  BY <1>2
<1> HIDE DEF n
<1>9. /\ front \in Seq(T) /\ Len(front) = n + m
      /\ \A i \in 1 .. n + m : front[i] = IF i <= n THEN three[i] ELSE Prepare(Reviewers[i - n])
  <2>1. /\ front \in Seq(T) /\ Len(front) = Len(three) + Len(prepares)
        /\ \A i \in 1 .. Len(three) + Len(prepares) :
            front[i] = IF i <= Len(three) THEN three[i] ELSE prepares[i - Len(three)]
    BY <1>5, <1>7, ConcatProperties
  <2> HIDE DEF front
  <2>2. ASSUME NEW i \in 1 .. n + m
        PROVE  front[i] = IF i <= n THEN three[i] ELSE Prepare(Reviewers[i - n])
    <3>1. front[i] = IF i <= n THEN three[i] ELSE prepares[i - n]
      BY <1>5, <1>7, <2>1
    <3>2. ~(i <= n) => i - n \in 1 .. m
      BY <1>2, <1>8
    <3>3. QED
      BY <1>5, <3>1, <3>2
  <2>3. QED
    BY <1>5, <1>7, <2>1, <2>2
<1> HIDE DEF front
<1>10. /\ Len(all) = n + m + 3
       /\ \A i \in 1 .. n + m + 3 : all[i] = IF i <= n + m THEN front[i] ELSE back[i - (n + m)]
  <2>1. /\ Len(all) = Len(front) + Len(back)
        /\ \A i \in 1 .. Len(front) + Len(back) :
            all[i] = IF i <= Len(front) THEN front[i] ELSE back[i - Len(front)]
    BY <1>3, <1>9, ConcatProperties
  <2> HIDE DEF all
  <2>2. QED
    BY <1>3, <1>9, <2>1
<1> HIDE DEF all
<1>11. ASSUME NEW i \in 1 .. n - 1 PROVE all[i] \notin KeySteps
  <2>1. i \in 1 .. n + m + 3 /\ i \in 1 .. n + m /\ i <= n + m /\ i <= n
    BY <1>2, <1>8
  <2>2. all[i] = three[i]
    BY <1>9, <1>10, <2>1
  <2>3. QED
    BY <1>7, <2>2
<1>12. all[n] = Matrix
  <2>1. n \in 1 .. n + m + 3 /\ n \in 1 .. n + m /\ n <= n + m /\ n <= n
    BY <1>2, <1>8
  <2>2. QED
    BY <1>7, <1>9, <1>10, <2>1
<1>13. ASSUME NEW i \in n + 1 .. n + m PROVE all[i] = Prepare(Reviewers[i - n])
  <2>1. i \in 1 .. n + m + 3 /\ i \in 1 .. n + m /\ i <= n + m /\ ~(i <= n)
    BY <1>2, <1>8
  <2>2. QED
    BY <1>9, <1>10, <2>1
<1>14. all[n + m + 1] = back[1] /\ all[n + m + 2] = back[2] /\ all[n + m + 3] = back[3]
  <2> DEFINE k == n + m
  <2>1. k \in Nat /\ \A i \in 1 .. k + 3 : all[i] = IF i <= k THEN front[i] ELSE back[i - k]
    BY <1>2, <1>8, <1>10
  <2> HIDE DEF k
  <2>2. \A j \in 1 .. 3 : k + j \in 1 .. k + 3 /\ ~(k + j <= k) /\ (k + j) - k = j
    BY <2>1
  <2>3. \A j \in 1 .. 3 : all[k + j] = back[j]
    BY <2>1, <2>2
  <2>4. all[k + 1] = back[1] /\ all[k + 2] = back[2] /\ all[k + 3] = back[3]
    BY <2>3
  <2>5. QED
    BY <2>4 DEF k
<1>15. back[2] \notin KeySteps
  BY <1>3, OtherSteps
<1>16. Placed(n, m)
  BY <1>1, <1>2, <1>3, <1>8, <1>10, <1>11, <1>12, <1>13, <1>14, <1>15 DEF Placed
<1>17. QED
  BY <1>16 DEF m

(* Every reviewer has one place.                                           *)
LEMMA ReviewersOnce ==
    /\ Len(Reviewers) \in Nat
    /\ \A i, j \in 1 .. Len(Reviewers) : Reviewers[i] = Reviewers[j] => i = j
    /\ \A r \in ReviewerSet : \E i \in 1 .. Len(Reviewers) : Reviewers[i] = r
    /\ \A i \in 1 .. Len(Reviewers) : Reviewers[i] \in ReviewerSet
<1> DEFINE m == Len(Reviewers)
<1>1. m \in Nat /\ DOMAIN Reviewers = 1 .. m /\ Reviewers \in [1 .. m -> ReviewerSet]
  BY ReleaseAssumption, LenProperties
<1>2. \A r \in ReviewerSet : \E i \in 1 .. m : Reviewers[i] = r
  BY <1>1 DEF ReviewerSet, Range
<1>3. Cardinality(ReviewerSet) = m
  BY ReleaseAssumption
<1> HIDE DEF m
<1>4. Reviewers \in Surjection(1 .. m, ReviewerSet)
  BY <1>1, <1>2 DEF Surjection
<1>5. IsFiniteSet(1 .. m) /\ Cardinality(1 .. m) = m
  <2>1. 1 \in Int /\ m \in Int
    BY <1>1
  <2>2. IsFiniteSet(1 .. m) /\ Cardinality(1 .. m) = IF 1 > m THEN 0 ELSE m - 1 + 1
    BY <2>1, FS_Interval
  <2>3. QED
    BY <1>1, <2>2
<1>6. Reviewers \in Injection(1 .. m, ReviewerSet)
  BY <1>3, <1>4, <1>5, FS_Surjection
<1>7. \A i, j \in 1 .. m : Reviewers[i] = Reviewers[j] => i = j
  BY <1>1, <1>6 DEF Injection, IsInjective
<1>8. QED
  BY <1>1, <1>2, <1>7 DEF m

(* The key steps are there once, and come after those they rest on.        *)
LEMMA BuildOrder ==
    /\ DOMAIN BuildSteps = 1 .. Len(BuildSteps) /\ Len(BuildSteps) \in Nat
    /\ \A i, j \in DOMAIN BuildSteps :
        BuildSteps[i] = BuildSteps[j] /\ BuildSteps[i] \in KeySteps => i = j
    /\ \A x \in KeySteps : \E i \in DOMAIN BuildSteps : BuildSteps[i] = x
    /\ \A j \in DOMAIN BuildSteps :
        /\ BuildSteps[j] \in Preparing => \E i \in 1 .. j - 1 : BuildSteps[i] = Matrix
        /\ BuildSteps[j] \in {Apply, Report} => \A r \in ReviewerSet :
            \E i \in 1 .. j - 1 : BuildSteps[i] = Prepare(r)
<1> DEFINE m == Len(Reviewers)
           B == BuildSteps
<1>1. PICK n : Placed(n, m)
  BY BuildPlaces
<1> DEFINE last == n + m + 3
<1>2. /\ n \in Nat /\ m \in Nat /\ n >= 1 /\ Len(B) = last
      /\ \A i \in 1 .. n - 1 : B[i] \notin KeySteps
      /\ B[n] = Matrix
      /\ \A i \in n + 1 .. n + m : B[i] = Prepare(Reviewers[i - n])
      /\ B[n + m + 1] = Apply /\ B[n + m + 2] \notin KeySteps /\ B[n + m + 3] = Report
  BY <1>1 DEF Placed
<1>3. DOMAIN B = 1 .. last
  <2>1. B \in Seq(StepSet)
    BY BuildStepsType
  <2> HIDE DEF B, last
  <2>2. QED
    BY <1>2, <2>1, LenProperties
<1> HIDE DEF m, B
<1>4. /\ \A i, j \in 1 .. m : Reviewers[i] = Reviewers[j] => i = j
      /\ \A r \in ReviewerSet : \E i \in 1 .. m : Reviewers[i] = r
      /\ \A i \in 1 .. m : Reviewers[i] \in ReviewerSet
  BY ReviewersOnce DEF m
<1>5. ASSUME NEW i \in 1 .. last, B[i] \in KeySteps
      PROVE  \/ i = n /\ B[i] = Matrix
             \/ i \in n + 1 .. n + m /\ B[i] \in Preparing
             \/ i = n + m + 1 /\ B[i] = Apply
             \/ i = n + m + 3 /\ B[i] = Report
  <2>1. \/ i \in 1 .. n - 1 \/ i = n \/ i \in n + 1 .. n + m
        \/ i = n + m + 1 \/ i = n + m + 2 \/ i = n + m + 3
    BY <1>2
  <2>2. CASE i \in n + 1 .. n + m
    <3>1. i - n \in 1 .. m
      BY <1>2, <2>2
    <3>2. B[i] = Prepare(Reviewers[i - n]) /\ Reviewers[i - n] \in ReviewerSet
      BY <1>2, <1>4, <2>2, <3>1
    <3>3. QED
      BY <2>2, <3>2 DEF Preparing
  <2>3. QED
    BY <1>2, <1>5, <2>1, <2>2
<1>6. ASSUME NEW i \in 1 .. last, NEW j \in 1 .. last, B[i] = B[j], B[i] \in KeySteps
      PROVE  i = j
  <2>1. CASE B[i] \notin Preparing
    BY <1>5, <1>6, <2>1, KeyDistinct
  <2>2. CASE B[i] \in Preparing
    <3>1. i \in n + 1 .. n + m /\ j \in n + 1 .. n + m
      BY <1>5, <1>6, <2>2, KeyDistinct
    <3>2. i - n \in 1 .. m /\ j - n \in 1 .. m
      BY <1>2, <3>1
    <3>3. B[i] = Prepare(Reviewers[i - n]) /\ B[j] = Prepare(Reviewers[j - n])
      BY <1>2, <3>1
    <3>4. Reviewers[i - n] = Reviewers[j - n]
      BY <1>4, <1>6, <3>2, <3>3, KeyDistinct
    <3>5. i - n = j - n
      BY <1>4, <3>2, <3>4
    <3>6. QED
      BY <1>2, <3>1, <3>5
  <2>3. QED
    BY <2>1, <2>2
<1>7. ASSUME NEW r \in ReviewerSet
      PROVE  \E i \in n + 1 .. n + m : B[i] = Prepare(r)
  <2>1. PICK k \in 1 .. m : Reviewers[k] = r
    BY <1>4
  <2>2. n + k \in n + 1 .. n + m /\ (n + k) - n = k
    BY <1>2, <2>1
  <2>3. B[n + k] = Prepare(r)
    BY <1>2, <2>1, <2>2
  <2>4. QED
    BY <2>2, <2>3
<1>8. ASSUME NEW x \in KeySteps PROVE \E i \in 1 .. last : B[i] = x
  <2>1. /\ n \in 1 .. last /\ n + m + 1 \in 1 .. last /\ n + m + 3 \in 1 .. last
        /\ \A i \in n + 1 .. n + m : i \in 1 .. last
    BY <1>2
  <2>2. x = Matrix \/ x = Apply \/ x = Report \/ \E r \in ReviewerSet : x = Prepare(r)
    BY DEF KeySteps, Preparing
  <2> HIDE DEF last
  <2>3. CASE x = Matrix
    BY <1>2, <2>1, <2>3
  <2>4. CASE x = Apply
    BY <1>2, <2>1, <2>4
  <2>5. CASE x = Report
    BY <1>2, <2>1, <2>5
  <2>6. CASE \E r \in ReviewerSet : x = Prepare(r)
    BY <1>7, <2>1, <2>6
  <2>7. QED
    BY <2>2, <2>3, <2>4, <2>5, <2>6
<1>9. ASSUME NEW j \in 1 .. last, B[j] \in Preparing
      PROVE  \E i \in 1 .. j - 1 : B[i] = Matrix
  <2>1. j \in n + 1 .. n + m
    BY <1>5, <1>9, KeyDistinct
  <2>2. n \in 1 .. j - 1
    BY <1>2, <2>1
  <2>3. QED
    BY <1>2, <2>2
<1>10. ASSUME NEW j \in 1 .. last, B[j] \in {Apply, Report}, NEW r \in ReviewerSet
       PROVE  \E i \in 1 .. j - 1 : B[i] = Prepare(r)
  <2>1. j \in {n + m + 1, n + m + 3}
    BY <1>5, <1>10, KeyDistinct
  <2>2. \A i \in n + 1 .. n + m : i \in 1 .. j - 1
    BY <1>2, <2>1
  <2>3. QED
    BY <1>7, <2>2
<1>11. last \in Nat
  BY <1>2
<1> HIDE DEF last
<1>12. QED
  BY <1>2, <1>3, <1>6, <1>8, <1>9, <1>10, <1>11 DEF B

-----------------------------------------------------------------------------
(* The schedule.                                                           *)
LEMMA WorkKept ==
    ASSUME ReleaseInv, Tame, pc = "running"
    PROVE  /\ AtWork /\ Kept(disk, held.done)
           /\ held.config = opts.config /\ held \in States /\ opts \in Options
<1>1. AtWork /\ Kept(disk, Done) /\ held \in States /\ opts \in Options
  BY DEF Tame, ReleaseInv, ControlTyped
<1>2. CASE held = saved
  <2>1. Done = held.done
    BY <1>1, <1>2, NothingAssumption DEF Done
  <2>2. QED
    BY <1>1, <2>1 DEF AtWork
<1>3. CASE Begun
  <2>1. Kept(disk, held.done)
    BY <1>1, <1>3, KeptAnew DEF Begun
  <2>2. QED
    BY <1>1, <2>1 DEF AtWork
<1>4. QED
  BY <1>1, <1>2, <1>3 DEF AtWork

LEMMA StepReady ==
    ASSUME ReleaseInv, AtWork, Kept(disk, held.done), Left # <<>>
    PROVE  Ready(Head(Left))
<1> DEFINE step == Head(Left)
           T == Range(BuildSteps)
<1>1. todo \in Seq(T) /\ DOMAIN todo = 1 .. Len(todo) /\ Len(todo) \in Nat
  BY LenProperties DEF ReleaseInv, ControlTyped
<1>2. PICK i \in 1 .. Len(todo) : step = todo[i] /\ \A j \in 1 .. i - 1 : Skips(todo[j])
  BY <1>1, LeftParts
<1>3. ~Skips(step)
  BY <1>1, LeftParts
<1> HIDE DEF step, T
<1>4. i \in DOMAIN todo
  BY <1>1, <1>2
<1>5. ASSUME step \in KeySteps, step \in held.done PROVE FALSE
  <2>1. opts.resume
    BY <1>2, <1>4, <1>5 DEF AtWork, Scheduled, Unrepeated
  <2>2. EvidenceExists(disk, step)
    BY <1>5 DEF Kept, Evident
  <2>3. QED
    BY <1>3, <1>5, <2>1, <2>2 DEF Skips
<1>6. ASSUME NEW x, Before(x, i) PROVE x \in held.done
  BY <1>2, <1>6 DEF Before, Skips
<1>7. step \in Preparing => Matrix \in held.done
  BY <1>2, <1>4, <1>6 DEF AtWork, Scheduled, Rested
<1>8. step \in {Apply, Report} => \A r \in ReviewerSet : Prepare(r) \in held.done
  BY <1>2, <1>4, <1>6 DEF AtWork, Scheduled, Rested
<1>9. Ready(step)
  BY <1>5, <1>7, <1>8 DEF Ready
<1>10. QED
  BY <1>9 DEF step

LEMMA ScheduledNext ==
    ASSUME ReleaseInv, AtWork, Kept(disk, held.done), Left # <<>>,
           NEW outcome \in Outcomes(Head(Left)), RunStep(outcome)
    PROVE  Scheduled'
<1> DEFINE step == Head(Left)
           ok == outcome.ok /\ EvidenceExists(outcome.disk, step)
           on == ok \/ opts.continue \/ PhaseOf(step) = "review-apply"
           n == Len(todo)
           rest == Tail(Left)
<1>1. /\ pc = "running"
      /\ held' = [held EXCEPT !.done = IF ok THEN @ \cup {step} ELSE @ \ {step}]
      /\ failed' = (failed \/ ~ok)
      /\ todo' = IF on THEN rest ELSE <<>>
      /\ opts' = opts
  BY DEF RunStep, Record
<1>2. ControlTyped /\ held \in States
  BY <1>1 DEF ReleaseInv, ControlTyped
<1>3. held'.done = IF ok THEN held.done \cup {step} ELSE held.done \ {step}
  <2> HIDE DEF ok, step
  <2>1. QED
    BY <1>1, <1>2 DEF States
<1>4. todo \in Seq(Range(BuildSteps)) /\ DOMAIN todo = 1 .. n /\ n \in Nat
  BY <1>2, LenProperties DEF ControlTyped
<1>5. PICK i \in 1 .. Len(todo) :
        /\ step = todo[i]
        /\ \A j \in 1 .. i - 1 : Skips(todo[j])
        /\ Len(rest) = Len(todo) - i
        /\ \A j \in 1 .. Len(todo) - i : rest[j] = todo[i + j]
  BY <1>2, TailLeft
<1>6. DOMAIN rest = 1 .. n - i
  <2>1. rest \in Seq(Range(BuildSteps))
    BY <1>2, TailLeft
  <2> HIDE DEF rest
  <2>2. QED
    BY <1>5, <2>1, LenProperties
<1>7. Ready(step)
  BY StepReady
<1>8. step \in Range(BuildSteps)
  BY <1>2, StepRun
<1>9. ok \in BOOLEAN
  OBVIOUS
<1>10. ~opts.continue /\ Rested /\ Unrepeated /\ Covered
  BY DEF AtWork, Scheduled
<1>11. PhaseOf(step) = "review-apply" => step = Apply
  <2> HIDE DEF step
  <2>1. QED
    BY <1>8, KeyPhases
<1>12. on => ok \/ step = Apply
  BY <1>10, <1>11
<1> HIDE DEF step, ok, on, rest, n
<1>13. i \in 1 .. n /\ i \in Nat /\ \A j \in 1 .. n - i : rest[j] = todo[i + j]
  BY <1>4, <1>5 DEF n
<1>14. DOMAIN todo' = {} \/ (on /\ todo' = rest)
  <2>1. DOMAIN <<>> = {}
    OBVIOUS
  <2>2. QED
    BY <1>1, <2>1
\* What is recorded stays.
<1>15. ASSUME NEW x \in KeySteps, x \in held.done PROVE x \in held'.done
  BY <1>3, <1>7, <1>15 DEF Ready
\* What came before comes before, or has been done.
<1>16. ASSUME NEW k \in 1 .. n, todo[k] \in KeySteps
       PROVE  \/ todo[k] \in held'.done
              \/ k = i /\ ~ok
              \/ k - i \in 1 .. n - i /\ rest[k - i] = todo[k]
  <2>1. CASE k \in 1 .. i - 1
    <3>1. todo[k] \in held.done
      BY <1>5, <2>1 DEF Skips
    <3>2. QED
      BY <1>15, <1>16, <3>1
  <2>2. CASE k = i
    BY <1>3, <1>5, <2>2
  <2>3. CASE k > i
    <3>1. k - i \in 1 .. n - i /\ i + (k - i) = k
      BY <1>4, <1>13, <2>3
    <3>2. QED
      BY <1>13, <3>1
  <2>4. k \in 1 .. i - 1 \/ k = i \/ k > i
    BY <1>4, <1>13
  <2>5. QED
    BY <2>1, <2>2, <2>3, <2>4
<1>17. ASSUME NEW j \in DOMAIN todo', NEW x \in KeySteps, x # Apply, Before(x, i + j)
       PROVE  x \in held'.done \/ \E k \in 1 .. j - 1 : todo'[k] = x
  <2>1. on /\ todo' = rest /\ j \in 1 .. n - i
    BY <1>6, <1>14, <1>17
  <2>2. CASE x \in held.done
    BY <1>15, <2>2
  <2>3. ASSUME NEW k \in 1 .. (i + j) - 1, todo[k] = x
        PROVE  x \in held'.done \/ \E h \in 1 .. j - 1 : todo'[h] = x
    <3>1. k \in 1 .. n
      BY <1>4, <1>13, <2>1
    <3>2. CASE k - i \in 1 .. n - i /\ rest[k - i] = todo[k]
      <4>1. k - i \in 1 .. j - 1
        BY <1>4, <1>13, <2>1, <3>1, <3>2
      <4>2. QED
        BY <2>1, <2>3, <3>2, <4>1
    <3>3. CASE k = i /\ ~ok
      BY <1>5, <1>12, <1>17, <2>1, <2>3, <3>3
    <3>4. QED
      BY <1>16, <2>3, <3>1, <3>2, <3>3
  <2>4. x \in held.done \/ \E k \in 1 .. (i + j) - 1 : todo[k] = x
    BY <1>17 DEF Before
  <2>5. QED
    BY <2>2, <2>3, <2>4
<1>18. ASSUME NEW j \in DOMAIN todo'
       PROVE  i + j \in DOMAIN todo /\ todo'[j] = todo[i + j] /\ i + j # i /\ j \in Nat
  <2>1. todo' = rest /\ j \in 1 .. n - i
    BY <1>6, <1>14, <1>18
  <2>2. QED
    BY <1>4, <1>13, <2>1
<1>19. Rested'
  <2>1. ASSUME NEW j \in DOMAIN todo', todo'[j] \in Preparing
        PROVE  Matrix \in held'.done \/ \E k \in 1 .. j - 1 : todo'[k] = Matrix
    <3>1. Before(Matrix, i + j)
      BY <1>10, <1>18, <2>1 DEF Rested
    <3>2. Matrix \in KeySteps /\ Matrix # Apply
      BY KeyDistinct DEF KeySteps
    <3>3. QED
      BY <1>17, <3>1, <3>2
  <2>2. ASSUME NEW j \in DOMAIN todo', todo'[j] \in {Apply, Report}, NEW r \in ReviewerSet
        PROVE  Prepare(r) \in held'.done \/ \E k \in 1 .. j - 1 : todo'[k] = Prepare(r)
    <3>1. Before(Prepare(r), i + j)
      BY <1>10, <1>18, <2>2 DEF Rested
    <3>2. Prepare(r) \in KeySteps /\ Prepare(r) # Apply
      BY KeyDistinct DEF KeySteps, Preparing
    <3>3. QED
      BY <1>17, <3>1, <3>2
  <2>3. QED
    BY <2>1, <2>2 DEF Rested, Before
<1>20. Unrepeated'
  <2>1. ASSUME NEW j \in DOMAIN todo', todo'[j] \in KeySteps, todo'[j] \in held'.done
        PROVE  opts'.resume
    <3>1. todo'[j] # step
      BY <1>5, <1>10, <1>13, <1>18, <2>1, <1>4 DEF Unrepeated
    <3>2. todo'[j] \in held.done
      BY <1>3, <2>1, <3>1
    <3>3. QED
      BY <1>1, <1>10, <1>18, <2>1, <3>2 DEF Unrepeated
  <2>2. ASSUME NEW j \in DOMAIN todo', NEW k \in DOMAIN todo',
               todo'[j] = todo'[k], todo'[j] \in KeySteps
        PROVE  j = k
    <3>1. i + j = i + k
      BY <1>10, <1>18, <2>2 DEF Unrepeated
    <3>2. j \in Nat /\ k \in Nat
      BY <1>18
    <3>3. QED
      BY <1>13, <3>1, <3>2
  <2>3. QED
    BY <2>1, <2>2 DEF Unrepeated
<1>21. Covered'
  <2>1. SUFFICES ASSUME ~failed', NEW x \in KeySteps
                 PROVE  x \in held'.done \/ \E k \in DOMAIN todo' : todo'[k] = x
    BY DEF Covered
  <2>2. ok /\ ~failed
    BY <1>1, <1>9, <2>1
  <2>3. on /\ todo' = rest
    BY <1>1, <2>2 DEF on
  <2>4. CASE x \in held.done
    BY <1>15, <2>4
  <2>5. ASSUME NEW k \in DOMAIN todo, todo[k] = x
        PROVE  x \in held'.done \/ \E j \in DOMAIN todo' : todo'[j] = x
    BY <1>4, <1>6, <1>16, <2>2, <2>3, <2>5
  <2>6. QED
    BY <1>10, <2>2, <2>4, <2>5 DEF Covered
<1>22. QED
  BY <1>19, <1>20, <1>21 DEF Scheduled

(* Rows stay of the configuration and the answers.                         *)
LEMMA WorkScored ==
    ASSUME ReleaseInv, Tame, pc = "running"
    PROVE  ScoredUnder(disk, held.config)
<1>1. AtWork
  BY WorkKept
<1>2. CASE disk.results = Nothing
  BY <1>2 DEF ScoredUnder
<1>3. CASE disk.results # Nothing
  <2>1. saved # Nothing /\ ScoredUnder(disk, saved.config)
    BY <1>3 DEF Tame
  <2>2. saved.config = held.config
    BY <1>1, <2>1 DEF AtWork, Begun
  <2>3. QED
    BY <2>1, <2>2
<1>4. QED
  BY <1>2, <1>3

LEMMA OutcomeScored ==
    ASSUME ReleaseInv, Tame, pc = "running", Left # <<>>, NEW outcome \in Outcomes(Head(Left))
    PROVE  ScoredUnder(outcome.disk, held.config)
<1> DEFINE step == Head(Left)
           e == outcome.disk
<1>1. ControlTyped /\ FilesSound(disk) /\ step \in Range(BuildSteps) /\ Untouched(step, disk, e)
  BY StepRun, OutcomeFields DEF ReleaseInv
<1>2. held.config = opts.config
  BY WorkKept
<1>3. ScoredUnder(disk, held.config)
  BY WorkScored
<1> HIDE DEF step
<1>4. CASE step # Matrix
  <2>1. e.results = disk.results /\ e.answers = disk.answers
    BY <1>1, <1>4 DEF Untouched
  <2> HIDE DEF e
  <2>2. ScoredUnder(e, held.config)
    BY <1>3, <2>1 DEF ScoredUnder
  <2>3. QED
    BY <2>2 DEF e
<1>5. CASE step = Matrix
  <2>1. PhaseOf(step) = "matrix" /\ outcome \in Outcomes(step)
    BY <1>5, KeyPhases DEF step
  <2>2. outcome = KilledWith(disk) \/ outcome \in MatrixOutcomes
    BY <1>1, <2>1, OutcomesByPhase
  <2>3. CASE outcome = KilledWith(disk)
    BY <1>3, <2>3 DEF KilledWith
  <2>4. CASE outcome \in MatrixOutcomes
    BY <1>1, <1>2, <1>3, <2>4, MatrixScores
  <2>5. QED
    BY <2>2, <2>3, <2>4
<1>6. QED
  BY <1>4, <1>5

LEMMA RunStepTame ==
    ASSUME ReleaseInv, Tame, Policy.reviewNeeded, disk.adjudications # Nothing => opts.adjudicated,
           Left # <<>>, NEW outcome \in Outcomes(Head(Left)), RunStep(outcome)
    PROVE  Tame'
<1> DEFINE step == Head(Left)
           e == outcome.disk
           ok == outcome.ok /\ EvidenceExists(e, step)
<1>1. /\ pc = "running" /\ disk' = e /\ saved' = held' /\ pc' = pc /\ opts' = opts
      /\ held' = [held EXCEPT !.done = IF ok THEN @ \cup {step} ELSE @ \ {step}]
  BY DEF RunStep, Record
<1>2. AtWork /\ Kept(disk, held.done) /\ held.config = opts.config /\ held \in States
  BY <1>1, WorkKept
<1>3. Ready(step)
  BY <1>2, StepReady
<1>4. ~opts.force
  BY <1>2 DEF AtWork
<1>5. StepKeeps(step, e, held.done, ok)
  BY <1>1, <1>2, <1>3, <1>4, StepKept
<1>6. ScoredUnder(e, held.config)
  BY <1>1, OutcomeScored
<1>7. Scheduled'
  BY <1>2, ScheduledNext
<1>8. held' \in States /\ saved' # Nothing
  <2>1. ReleaseInv'
    BY RunStepSound
  <2>2. held' \in States
    BY <1>1, <2>1 DEF ReleaseInv, ControlTyped
  <2>3. QED
    BY <1>1, <2>2, NothingAssumption
<1>9. ok \in BOOLEAN
  OBVIOUS
<1> HIDE DEF step, ok, e
<1>10. /\ held'.config = held.config /\ held'.status = held.status
       /\ held'.done = IF ok THEN held.done \cup {step} ELSE held.done \ {step}
  BY <1>1, <1>2 DEF States
<1>11. \A x \in KeySteps : x \in held.done => x \in held'.done
  BY <1>3, <1>10 DEF Ready
<1>12. Kept(e, held'.done)
  <2>1. CASE ok
    BY <1>5, <1>10, <2>1 DEF StepKeeps
  <2>2. CASE ~ok
    <3>1. Kept(e, held.done)
      BY <1>5 DEF StepKeeps
    <3>2. \A x \in KeySteps : x \in held'.done <=> x \in held.done
      BY <1>3, <1>10, <2>2 DEF Ready
    <3>3. QED
      BY <3>1, <3>2, KeptByKeys
  <2>3. QED
    BY <2>1, <2>2
<1>13. Done' = held'.done
  BY <1>1, <1>8 DEF Done
<1>14. held'.status = "complete" => KeySteps \subseteq held'.done
  <2>1. SUFFICES ASSUME held.status = "complete" PROVE KeySteps \subseteq held.done
    BY <1>10, <1>11
  <2>2. held = saved
    BY <1>2, <2>1 DEF AtWork, Begun
  <2>3. saved # Nothing
    BY <1>2, <2>2, NothingAssumption
  <2>4. QED
    BY <2>1, <2>2, <2>3 DEF Tame
<1>15. AtWork'
  BY <1>1, <1>2, <1>7, <1>10 DEF AtWork
<1>16. Kept(disk', Done') /\ ScoredUnder(disk', saved'.config)
  BY <1>1, <1>6, <1>10, <1>12, <1>13
<1>17. QED
  BY <1>1, <1>8, <1>14, <1>15, <1>16 DEF Tame

-----------------------------------------------------------------------------
(* The other steps of the process, the reviewers and the adjudicator.      *)
LEMMA StartTame ==
    ASSUME ReleaseInv, Tame, WholeReviews, NEW command \in Commands, NEW drawn \in Draws,
           Start(command, drawn), ~strayed'
    PROVE  Tame'
<1> DEFINE found == command.resume /\ saved # Nothing
           refused == found /\ saved.config # command.config /\ ~command.force
           differs == saved # Nothing /\ saved.config # command.config
<1>1. /\ disk' = disk /\ saved' = saved
      /\ strayed' = (strayed \/ command.continue \/ command.force \/ differs)
      /\ ~refused => /\ todo' = SelectedSteps(command.phases)
                     /\ held' = IF found THEN saved
                                ELSE [config |-> command.config, done |-> {}, status |-> "none"]
                     /\ opts' = [resume |-> command.resume, force |-> command.force,
                                 continue |-> command.continue, config |-> command.config,
                                 adjudicated |-> disk.adjudications # Nothing]
  BY DEF Start
<1>2. ~command.continue /\ ~command.force /\ ~differs
  <2> HIDE DEF differs
  <2>1. QED
    BY <1>1
<1>3. ~refused
  BY <1>2
<1> HIDE DEF refused
<1>4. todo' = BuildSteps
  BY <1>1, <1>3, AllSteps DEF WholeReviews
<1>5. /\ opts'.resume = command.resume /\ opts'.force = command.force
      /\ opts'.continue = command.continue /\ opts'.config = command.config
  <2> DEFINE adjudicated == disk.adjudications # Nothing
  <2>1. opts' = [resume |-> command.resume, force |-> command.force,
                 continue |-> command.continue, config |-> command.config,
                 adjudicated |-> adjudicated]
    BY <1>1, <1>3
  <2> HIDE DEF adjudicated
  <2>2. QED
    BY <2>1
<1>6. /\ held'.config = command.config
      /\ opts'.resume \/ held'.done = {}
      /\ held' = saved' \/ (held'.done = {} /\ held'.status = "none")
  <2>1. CASE found
    BY <1>1, <1>2, <1>3, <1>5, <2>1
  <2>2. CASE ~found
    BY <1>1, <1>3, <2>2
  <2>3. QED
    BY <2>1, <2>2
<1>7. Scheduled'
  <2>1. Rested'
    BY <1>4, BuildOrder DEF Rested, Before
  <2>2. Unrepeated'
    BY <1>4, <1>6, BuildOrder DEF Unrepeated
  <2>3. Covered'
    BY <1>4, BuildOrder DEF Covered
  <2>4. QED
    BY <2>1, <2>2, <2>3 DEF Scheduled
<1>8. AtWork'
  <2>1. saved' # Nothing => saved'.config = held'.config
    BY <1>1, <1>2, <1>6
  <2> HIDE DEF found, differs
  <2>2. held' = saved' \/ Begun'
    BY <1>4, <1>6, <2>1 DEF Begun
  <2>3. QED
    BY <1>2, <1>5, <1>6, <1>7, <2>2 DEF AtWork
<1>9. Done' = Done
  BY <1>1 DEF Done
<1> HIDE DEF found, differs
<1>10. QED
  BY <1>1, <1>8, <1>9 DEF Tame

LEMMA FinishTame ==
    ASSUME ReleaseInv, Tame, Finish
    PROVE  Tame'
<1>1. /\ pc = "running" /\ Left = <<>> /\ pc' = "down" /\ disk' = disk
      /\ saved' = [held EXCEPT !.status = IF failed THEN "failed" ELSE "complete"]
  BY DEF Finish, Stop
<1>2. AtWork /\ Kept(disk, held.done) /\ held \in States /\ ScoredUnder(disk, held.config)
  BY <1>1, WorkKept, WorkScored
<1>3. /\ saved'.done = held.done /\ saved'.config = held.config
      /\ saved'.status = "complete" => ~failed
  BY <1>1, <1>2 DEF States
<1>4. saved' # Nothing
  <2>1. saved' \in States
    BY <1>1, <1>2 DEF States
  <2>2. QED
    BY <2>1, NothingAssumption
<1>5. ~failed => KeySteps \subseteq held.done
  <2>1. SUFFICES ASSUME ~failed, NEW x \in KeySteps PROVE x \in held.done
    OBVIOUS
  <2>2. \A i \in DOMAIN todo : Skips(todo[i])
    <3> DEFINE T == Range(BuildSteps)
    <3>1. todo \in Seq(T)
      BY DEF ReleaseInv, ControlTyped
    <3> HIDE DEF T
    <3>2. QED
      BY <1>1, <3>1, LeftParts
  <2>3. x \in held.done \/ \E i \in DOMAIN todo : todo[i] = x
    BY <1>2, <2>1 DEF AtWork, Scheduled, Covered
  <2>4. QED
    BY <2>2, <2>3 DEF Skips
<1>6. Done' = held.done
  BY <1>3, <1>4 DEF Done
<1>7. QED
  BY <1>1, <1>2, <1>3, <1>4, <1>5, <1>6 DEF Tame

(* A new release begins with a step that leaves these files alone.         *)
LEMMA BeginsAside ==
    ASSUME ReleaseInv, Begun, Left # <<>>
    PROVE  Head(Left) \notin KeySteps
<1>1. todo \in Seq(Range(BuildSteps))
  BY DEF ReleaseInv, ControlTyped
<1>2. PICK i \in 1 .. Len(todo) : Head(Left) = todo[i] /\ \A j \in 1 .. i - 1 : Skips(todo[j])
  BY <1>1, LeftParts
<1>3. ~Skips(todo[1])
  BY DEF Begun, Skips
<1>4. i = 1
  <2>1. Len(todo) \in Nat
    BY BuildStepsEnds DEF Begun
  <2>2. ~(1 \in 1 .. i - 1)
    BY <1>2, <1>3
  <2>3. QED
    BY <2>1, <2>2
<1>5. Head(Left) = <<"unit-tests">>
  BY <1>2, <1>4, BuildStepsEnds DEF Begun
<1>6. QED
  BY <1>5, OtherSteps

LEMMA CrashTame ==
    ASSUME ReleaseInv, Tame, Policy.reviewNeeded, disk.adjudications # Nothing => opts.adjudicated,
           Left # <<>>, NEW outcome \in Outcomes(Head(Left)), Crash(outcome)
    PROVE  Tame'
<1> DEFINE step == Head(Left)
           e == outcome.disk
<1>1. pc = "running" /\ pc' = "down" /\ disk' = e /\ saved' = saved
  BY DEF Crash, Stop
<1>2. AtWork /\ Kept(disk, held.done) /\ held \in States
  BY <1>1, WorkKept
<1>3. Done' = Done
  BY <1>1 DEF Done
<1>4. Untouched(step, disk, e)
  BY <1>1, OutcomeFields
<1>5. CASE held = saved
  <2>1. saved # Nothing /\ Done = held.done
    BY <1>2, <1>5, NothingAssumption DEF Done
  <2>2. Ready(step) /\ ~opts.force
    BY <1>2, StepReady DEF AtWork
  <2>3. Kept(e, held.done)
    BY <1>1, <1>2, <2>2, StepKept DEF StepKeeps
  <2>4. ScoredUnder(e, saved.config)
    BY <1>1, <1>5, OutcomeScored
  <2> HIDE DEF e
  <2>5. QED
    BY <1>1, <1>3, <2>1, <2>3, <2>4 DEF Tame
<1>6. CASE Begun
  <2>1. step \notin KeySteps
    BY <1>6, BeginsAside
  <2> HIDE DEF step, e
  <2>2. SameFiles(disk, e)
    BY <1>4, <2>1 DEF Untouched, SameFiles, KeySteps
  <2>3. Kept(e, Done)
    BY <2>2, KeptOfSame DEF Tame
  <2>4. e.results = disk.results /\ e.answers = disk.answers
    BY <2>2 DEF SameFiles
  <2>5. saved # Nothing => ScoredUnder(e, saved.config)
    BY <2>4 DEF Tame, ScoredUnder
  <2>6. QED
    BY <1>1, <1>3, <2>3, <2>4, <2>5 DEF Tame
<1>7. QED
  BY <1>2, <1>5, <1>6 DEF AtWork

(* Nobody fills in a packet that has been counted: it is filled in already.*)
LEMMA FillTame ==
    ASSUME ReleaseInv, Tame, Policy.reviewers = Len(Reviewers),
           NEW r \in ReviewerSet, NEW judged \in [ReviewIds -> Judgements], Fill(r, judged)
    PROVE  Tame'
<1> DEFINE packet == disk.packets[r]
           new == [id \in DOMAIN packet |-> [s \in Sides |->
                    [packet[id][s] EXCEPT !.scores = judged[id][s]]]]
<1>1. /\ pc = "down" /\ packet # Nothing
      /\ \A id \in DOMAIN packet : \A s \in Sides : packet[id][s].scores = Blank
      /\ disk' = [disk EXCEPT !.packets[r] = new] /\ saved' = saved /\ pc' = pc
  BY DEF Fill
<1>2. FilesSound(disk) /\ Filed(disk) /\ Packed(disk)
  BY DEF ReleaseInv, FilesSound
<1>3. /\ DOMAIN packet \subseteq ReviewIds
      /\ \A id \in DOMAIN packet, s \in Sides :
            /\ packet[id][s] = [text |-> packet[id][s].text, scores |-> packet[id][s].scores]
            /\ packet[id][s].text \in Texts
            /\ judged[id][s] \in Scores
  <2>1. ASSUME NEW id \in ReviewIds, NEW s \in Sides PROVE judged[id][s] \in Scores
    <3>1. judged[id] \in Judgements
      OBVIOUS
    <3>2. QED
      BY <3>1, ReleaseAssumption
  <2>2. QED
    BY <1>1, <1>2, <2>1 DEF Packed
<1>4. ASSUME NEW id \in DOMAIN packet, NEW s \in Sides
      PROVE  /\ new[id][s] \in [text : Texts, scores : Scores]
             /\ new[id][s].text = packet[id][s].text
  <2> DEFINE side == packet[id][s]
  <2>1. new[id][s] = [side EXCEPT !.scores = judged[id][s]]
    OBVIOUS
  <2>2. /\ side = [text |-> side.text, scores |-> side.scores]
        /\ side.text \in Texts /\ judged[id][s] \in Scores
    BY <1>3
  <2> HIDE DEF side, new, packet
  <2>3. new[id][s] = [text |-> side.text, scores |-> judged[id][s]]
    BY <2>1, <2>2
  <2>4. QED
    BY <2>2, <2>3 DEF side
<1>5. new # Nothing
  <2>1. DOMAIN packet \in SUBSET ReviewIds
    BY <1>3
  <2>2. \A id \in DOMAIN packet : new[id] = [s \in Sides |-> new[id][s]]
    OBVIOUS
  <2>3. new = [id \in DOMAIN packet |-> new[id]]
    OBVIOUS
  <2> HIDE DEF packet, new
  <2>4. new \in PacketsOf(DOMAIN packet)
    BY <1>4, <2>2, <2>3 DEF PacketsOf
  <2>5. QED
    BY <2>1, <2>4, NothingAssumption
<1>6. DOMAIN new = DOMAIN packet
  OBVIOUS
<1> HIDE DEF new
<1>7. disk' = [checks |-> disk.checks, results |-> disk.results, answers |-> disk.answers,
               packets |-> [disk.packets EXCEPT ![r] = new], mappings |-> disk.mappings,
               adjudications |-> disk.adjudications, reviewed |-> disk.reviewed,
               runtime |-> disk.runtime, page |-> disk.page, summary |-> disk.summary]
  BY <1>1, <1>2 DEF Filed
<1> DEFINE e == disk'
<1>8. /\ e.results = disk.results /\ e.answers = disk.answers /\ e.mappings = disk.mappings
      /\ e.reviewed = disk.reviewed /\ e.page = disk.page /\ e.summary = disk.summary
      /\ \A q \in ReviewerSet : e.packets[q] = IF q = r THEN new ELSE disk.packets[q]
  BY <1>2, <1>7 DEF Filed
<1>9. \A q \in ReviewerSet : e.packets[q] # Nothing <=> disk.packets[q] # Nothing
  BY <1>1, <1>5, <1>8
<1>10. Kept(disk, Done)
  BY DEF Tame
<1> HIDE DEF e
<1>11. Ordered(Done)
  BY <1>10 DEF Kept
<1>12. Evident(e, Done)
  <2>1. \A x \in KeySteps : EvidenceExists(e, x) <=> EvidenceExists(disk, x)
    BY <1>8, <1>9, KeyEvidence DEF KeySteps, Preparing
  <2>2. QED
    BY <1>10, <2>1 DEF Kept, Evident
<1>13. e.reviewed # Nothing => \A q \in ReviewerSet : e.packets[q] # Nothing
  BY <1>8, <1>9, <1>10 DEF Kept
<1>14. ASSUME Alive(e, Done)
       PROVE  Current(e) /\ ReviewStands(e) /\ ReportStands(e, Done)
  <2>1. Current(disk) /\ ReviewStands(disk) /\ ReportStands(disk, Done)
    BY <1>9, <1>10, <1>14 DEF Kept, Alive
  <2>2. Current(e)
    <3>1. SUFFICES ASSUME NEW q \in ReviewerSet, e.packets[q] # Nothing,
                          NEW id \in DOMAIN e.packets[q], NEW s \in Sides
                   PROVE  e.packets[q][id][s].text = e.answers[e.packets[q][id][s].text[1]]
      BY DEF Current
    <3>2. CASE q = r
      <4>1. e.packets[q] = new /\ id \in DOMAIN packet
        BY <1>6, <1>8, <3>1, <3>2
      <4>2. new[id][s].text = packet[id][s].text
        BY <1>4, <4>1
      <4>3. packet[id][s].text = disk.answers[packet[id][s].text[1]]
        BY <1>1, <2>1, <4>1 DEF Current
      <4> HIDE DEF packet
      <4>4. QED
        BY <1>8, <4>1, <4>2, <4>3
    <3>3. CASE q # r
      BY <1>8, <2>1, <3>1, <3>3 DEF Current
    <3>4. QED
      BY <3>2, <3>3
  <2>3. ReviewStands(e)
    <3>1. SUFFICES ASSUME disk.reviewed # Nothing, disk.reviewed.review.complete PROVE FALSE
      BY <1>8 DEF ReviewStands
    <3>2. AppliedNow(disk)
      BY <2>1, <3>1 DEF ReviewStands
    <3>3. PICK id \in DOMAIN packet : \A s \in Sides : Filled(packet[id][s].scores)
      BY <1>2, <3>1, <3>2, NothingLeft
    <3>4. "a" \in Sides
      BY DEF Sides
    <3>5. Filled(Blank)
      BY <1>1, <3>3, <3>4
    <3>6. QED
      BY <3>5, ReleaseAssumption DEF Filled, Blank
  <2>4. ReportStands(e, Done)
    BY <1>8, <2>1 DEF ReportStands
  <2>5. QED
    BY <2>2, <2>3, <2>4
<1>15. Kept(e, Done)
  BY <1>11, <1>12, <1>13, <1>14 DEF Kept
<1>16. saved # Nothing => ScoredUnder(e, saved.config)
  BY <1>8 DEF Tame, ScoredUnder
<1>17. Done' = Done
  BY <1>1 DEF Done
<1>18. QED
  BY <1>1, <1>8, <1>15, <1>16, <1>17 DEF Tame, e

(* Nor is there a dispute left then.                                       *)
LEMMA AdjudicateTame ==
    ASSUME ReleaseInv, Tame, NEW judged \in [ReviewIds -> Judgements], Adjudicate(judged)
    PROVE  Tame'
<1> DEFINE new == [id \in disk.reviewed.review.disputed |->
                    [candidate |-> [scores |-> judged[id]["a"]],
                     baseline |-> [scores |-> judged[id]["b"]]]]
<1>1. /\ pc = "down" /\ disk.reviewed # Nothing /\ disk.reviewed.review.disputed # {}
      /\ disk' = [disk EXCEPT !.adjudications = new] /\ saved' = saved /\ pc' = pc
  BY DEF Adjudicate
<1> HIDE DEF new
<1>2. FilesSound(disk) /\ Filed(disk) /\ Kept(disk, Done)
  BY DEF ReleaseInv, FilesSound, Tame
<1>3. disk' = [checks |-> disk.checks, results |-> disk.results, answers |-> disk.answers,
               packets |-> disk.packets, mappings |-> disk.mappings,
               adjudications |-> new, reviewed |-> disk.reviewed,
               runtime |-> disk.runtime, page |-> disk.page, summary |-> disk.summary]
  BY <1>1, <1>2 DEF Filed
<1> DEFINE e == disk'
<1>4. /\ e.results = disk.results /\ e.answers = disk.answers /\ e.mappings = disk.mappings
      /\ e.packets = disk.packets /\ e.reviewed = disk.reviewed /\ e.page = disk.page /\ e.summary = disk.summary
  BY <1>3
<1> HIDE DEF e
<1>5. Evident(e, Done)
  <2>1. \A x \in KeySteps : EvidenceExists(e, x) <=> EvidenceExists(disk, x)
    BY <1>4, KeyEvidence DEF KeySteps, Preparing
  <2>2. QED
    BY <1>2, <2>1 DEF Kept, Evident
<1>6. ASSUME Alive(e, Done)
      PROVE  Current(e) /\ ReviewStands(e) /\ ReportStands(e, Done)
  <2>1. Current(disk) /\ ReviewStands(disk) /\ ReportStands(disk, Done)
    BY <1>2, <1>4, <1>6 DEF Kept, Alive
  <2>2. ~disk.reviewed.review.complete
    <3>1. SUFFICES ASSUME disk.reviewed.review.complete PROVE FALSE
      OBVIOUS
    <3>2. AppliedNow(disk)
      BY <1>1, <2>1, <3>1 DEF ReviewStands
    <3>3. QED
      BY <1>1, <1>2, <3>1, <3>2, NothingLeft
  <2>3. QED
    BY <1>4, <2>1, <2>2 DEF Current, ReviewStands, ReportStands
<1>7. Kept(e, Done)
  BY <1>2, <1>4, <1>5, <1>6 DEF Kept
<1>8. saved # Nothing => ScoredUnder(e, saved.config)
  BY <1>4 DEF Tame, ScoredUnder
<1>9. Done' = Done
  BY <1>1 DEF Done
<1>10. QED
  BY <1>1, <1>4, <1>7, <1>8, <1>9 DEF Tame, e

(* Adjudications that are there have been found by the process.            *)
LEMMA StepTold ==
    ASSUME ReleaseInv, Told, [Next]_vars
    PROVE  Told'
<1>1. ControlTyped
  BY DEF ReleaseInv
<1>2. ASSUME NEW command \in Commands, NEW drawn \in Draws, Start(command, drawn) PROVE Told'
  <2> DEFINE refused == /\ command.resume /\ saved # Nothing
                        /\ saved.config # command.config /\ ~command.force
             adjudicated == disk.adjudications # Nothing
  <2>1. /\ pc = "down" /\ disk' = disk
        /\ refused => opts' = opts
        /\ ~refused => opts' = [resume |-> command.resume, force |-> command.force,
                                continue |-> command.continue, config |-> command.config,
                                adjudicated |-> adjudicated]
    BY <1>2 DEF Start
  <2>2. adjudicated \in BOOLEAN
    OBVIOUS
  <2> HIDE DEF refused, adjudicated
  <2>3. CASE refused
    BY <1>1, <2>1, <2>3 DEF ControlTyped, Told
  <2>4. CASE ~refused
    <3>1. opts'.adjudicated = adjudicated
      BY <2>1, <2>4
    <3>2. QED
      BY <2>1, <3>1 DEF Told, adjudicated
  <2>5. QED
    BY <2>3, <2>4
<1>3. ASSUME Left # <<>>, NEW outcome \in Outcomes(Head(Left)), RunStep(outcome) PROVE Told'
  <2>1. pc = "running" /\ disk' = outcome.disk /\ opts' = opts
    BY <1>3 DEF RunStep
  <2>2. outcome.disk.adjudications = disk.adjudications
    BY <1>3, <2>1, OutcomeFields DEF Untouched
  <2>3. QED
    BY <2>1, <2>2 DEF Told
<1>4. ASSUME Stop PROVE Told'
  BY <1>4 DEF Stop, Told
<1>5. ASSUME pc = "down", opts' = opts PROVE Told'
  BY <1>1, <1>5 DEF ControlTyped, Told
<1>6. CASE UNCHANGED vars
  BY <1>6 DEF vars, Told
<1>7. CASE Finish \/ \E outcome : Crash(outcome)
  BY <1>4, <1>7 DEF Finish, Crash
<1>8. CASE \/ \E r \in ReviewerSet, judged \in [ReviewIds -> Judgements] : Fill(r, judged)
           \/ \E judged \in [ReviewIds -> Judgements] : Adjudicate(judged)
  BY <1>5, <1>8 DEF Fill, Adjudicate
<1>9. QED
  BY <1>2, <1>3, <1>6, <1>7, <1>8 DEF Next

LEMMA StepRecord ==
    ASSUME ReleaseInv, RecordInv, WholeReviews, [Next]_vars
    PROVE  RecordInv'
<1>1. Told'
  BY StepTold DEF RecordInv
<1>2. strayed \in BOOLEAN
  BY DEF ReleaseInv, ControlTyped
<1>3. ASSUME ~strayed' PROVE ~strayed
  BY <1>2, <1>3 DEF Next, vars, Start, RunStep, Finish, Crash, Fill, Adjudicate
<1>4. ASSUME ~strayed' PROVE Tame'
  <2>1. /\ Tame /\ Policy.reviewNeeded /\ Policy.reviewers = Len(Reviewers)
        /\ Told
    BY <1>3, <1>4 DEF RecordInv, WholeReviews
  <2>2. ASSUME NEW command \in Commands, NEW drawn \in Draws, Start(command, drawn)
        PROVE  Tame'
    BY <1>4, <2>1, <2>2, StartTame
  <2>3. ASSUME Left # <<>>, NEW outcome \in Outcomes(Head(Left)), RunStep(outcome)
        PROVE  Tame'
    <3>1. disk.adjudications # Nothing => opts.adjudicated
      BY <2>1, <2>3, NothingAssumption DEF Told, RunStep, ReleaseInv, ControlTyped
    <3>2. QED
      BY <2>1, <2>3, <3>1, RunStepTame
  <2>4. ASSUME Finish PROVE Tame'
    BY <2>1, <2>4, FinishTame
  <2>5. ASSUME Left # <<>>, NEW outcome \in Outcomes(Head(Left)), Crash(outcome)
        PROVE  Tame'
    <3>1. disk.adjudications # Nothing => opts.adjudicated
      BY <2>1, <2>5, NothingAssumption DEF Told, Crash, ReleaseInv, ControlTyped
    <3>2. QED
      BY <2>1, <2>5, <3>1, CrashTame
  <2>6. ASSUME Crash(Failed) PROVE Tame'
    <3>1. pc' = "down" /\ disk' = disk /\ saved' = saved
      BY <2>6 DEF Crash, Stop, Failed, Outcome
    <3>2. Done' = Done
      BY <3>1 DEF Done
    <3>3. QED
      BY <2>1, <3>1, <3>2 DEF Tame
  <2>7. ASSUME NEW r \in ReviewerSet, NEW judged \in [ReviewIds -> Judgements], Fill(r, judged)
        PROVE  Tame'
    BY <2>1, <2>7, FillTame
  <2>8. ASSUME NEW judged \in [ReviewIds -> Judgements], Adjudicate(judged)
        PROVE  Tame'
    BY <2>1, <2>8, AdjudicateTame
  <2>9. ASSUME UNCHANGED vars PROVE Tame'
    <3>1. /\ disk' = disk /\ saved' = saved /\ pc' = pc /\ opts' = opts /\ held' = held
          /\ todo' = todo /\ failed' = failed
      BY <2>9 DEF vars
    <3>2. Done' = Done
      BY <3>1 DEF Done
    <3>3. AtWork' = AtWork
      BY <3>1 DEF AtWork, Begun, Scheduled, Rested, Unrepeated, Covered, Before
    <3>4. QED
      BY <2>1, <3>1, <3>2, <3>3 DEF Tame
  <2>10. QED
    BY <2>2, <2>3, <2>4, <2>5, <2>6, <2>7, <2>8, <2>9 DEF Next
<1>5. QED
  BY <1>1, <1>4 DEF RecordInv

LEMMA InitRecord == Init => RecordInv
<1> SUFFICES ASSUME Init PROVE RecordInv
  OBVIOUS
<1>1. /\ disk.results = Nothing /\ disk.reviewed = Nothing /\ saved = Nothing
      /\ pc = "down" /\ opts = Nothing
  BY DEF Init
<1>2. Done = {}
  BY <1>1 DEF Done
<1>3. Kept(disk, {})
  <2>1. Evident(disk, {})
    BY DEF Evident
  <2>2. QED
    BY <1>1, <2>1, KeptBefore
<1>4. Tame
  BY <1>1, <1>2, <1>3 DEF Tame
<1>5. QED
  BY <1>1, <1>4 DEF RecordInv, Told

LEMMA RecordStands ==
    ASSUME ReleaseInv, RecordInv, Policy.reviewNeeded
    PROVE  RecordedAsReviewed
<1> SUFFICES ASSUME RecordedComplete, ~strayed
             PROVE  /\ disk.summary.matrix = disk.reviewed
                    /\ ReviewedAsScored
                    /\ \A i \in DOMAIN disk.summary.matrix.rows :
                        LET row == disk.summary.matrix.rows[i]
                        IN  row.answer = disk.answers[row.key]
  BY DEF RecordedAsReviewed
<1>1. FilesSound(disk) /\ ReviewFiled(disk) /\ Tame
  BY DEF ReleaseInv, FilesSound, RecordInv
<1>2. saved # Nothing /\ KeySteps \subseteq saved.done /\ Done = saved.done
  BY <1>1 DEF Tame, RecordedComplete, Done
<1>3. Current(disk) /\ ReviewStands(disk) /\ ReportStands(disk, Done)
  <2>1. Alive(disk, Done)
    BY <1>2 DEF Alive, KeySteps, Preparing
  <2>2. QED
    BY <1>1, <2>1 DEF Tame, Kept
<1>4. /\ disk.reviewed # Nothing /\ disk.summary.matrix = disk.reviewed
      /\ MatrixHolds(disk.reviewed, Candidates)
  BY <1>2, <1>3 DEF ReportStands, KeySteps
<1>5. /\ disk.reviewed.review.complete
      /\ \A i \in DOMAIN disk.reviewed.rows : disk.reviewed.rows[i].success
  BY <1>1, <1>4, AcceptedRows
<1>6. AppliedNow(disk)
  BY <1>3, <1>4, <1>5 DEF ReviewStands
<1>7. DOMAIN disk.reviewed.rows = DOMAIN disk.results.rows
  BY <1>1, <1>3, <1>5, <1>6, ReviewedRows
<1>8. disk.results # Nothing /\ ScoredUnder(disk, saved.config)
  BY <1>1, <1>2, <1>6 DEF Tame, AppliedNow
<1>9. ASSUME NEW i \in DOMAIN disk.reviewed.rows
      PROVE  LET row == disk.reviewed.rows[i]
             IN  /\ row.answer = disk.answers[row.key]
                 /\ \A v \in DOMAIN row.reviews : row.reviews[v].scored = {row.answer}
  <2> DEFINE row == disk.results.rows[i]
             new == disk.reviewed.rows[i]
  <2>1. i \in DOMAIN disk.results.rows
    BY <1>7
  <2>2. /\ new.key = row.key /\ new.answer = row.answer /\ new.success = row.success
        /\ \A v \in DOMAIN new.reviews : new.reviews[v].scored = {disk.answers[new.key]}
    BY <1>1, <1>3, <1>5, <1>6, <2>1, ReviewedRows
  <2>3. row.success => row.answer = disk.answers[row.key]
    BY <1>8, <2>1 DEF ScoredUnder
  <2>4. new.success
    BY <1>5
  <2> HIDE DEF row, new
  <2>5. new.answer = disk.answers[new.key]
    BY <2>2, <2>3, <2>4
  <2>6. QED
    BY <2>2, <2>5 DEF new
<1>10. QED
  BY <1>4, <1>9 DEF ReviewedAsScored

(* Of releases of all phases that require reviews, as without them there   *)
(* is nothing to apply (build_steps), and in which every reviewer counts   *)
(* (pairwise_reviewers: as many as the minimum): when state.json says      *)
(* complete, and nothing was forced, reconfigured or gone on with after an *)
(* error, the summary is of the reviewed results that are there, each row  *)
(* scored and reviewed from the answer that is on disk, whatever was       *)
(* killed, and however often the release was resumed or begun again.       *)
THEOREM RecordIsOfTheReviews ==
    ASSUME WholeReviews
    PROVE  Spec => []RecordedAsReviewed
<1>1. ReleaseInv /\ RecordInv /\ [Next]_vars => RecordInv'
  BY StepRecord
<1>2. ReleaseInv /\ RecordInv => RecordedAsReviewed
  BY RecordStands DEF WholeReviews
<1>3. QED
  BY <1>1, <1>2, InitRecord, ReleaseInvariant, PTL DEF Spec

=============================================================================
