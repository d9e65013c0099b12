--------------------------- MODULE MatrixJobProofs ---------------------------
(***************************************************************************)
(* Proofs about a job of the experiment matrix, for every set of terms,    *)
(* aims and cases, every plan the model may answer with, every score and   *)
(* any number of attempts: first the plan rules (PlanPolicy), then the     *)
(* planning phase (PlanLoop), then the job (MatrixJob) and what it         *)
(* implements (MatrixJobRefinement).                                       *)
(***************************************************************************)
EXTENDS MatrixJobRefinement, WellFoundedInduction, TLAPS

-----------------------------------------------------------------------------
(* The loop of synthesize_minimal_plan.                                    *)

(* Induction over the natural numbers, for the members of a set.           *)
LEMMA NatSetInduction ==
    ASSUME NEW S, 0 \in S, \A n \in Nat : n \in S => n + 1 \in S
    PROVE  Nat \subseteq S
<1> DEFINE T == Nat \ S
           R == OpToRel(<, Nat)
<1>1. SUFFICES ASSUME T # {} PROVE FALSE
  OBVIOUS
<1>2. IsWellFoundedOn(R, Nat)
  BY NatLessThanWellFounded
<1>3. PICK x \in T : \A y \in T : <<y, x>> \notin R
  <2>1. T \subseteq Nat
    OBVIOUS
  <2> HIDE DEF R, T
  <2>2. QED
    BY <1>1, <1>2, <2>1, WFMin
<1>4. x \in Nat /\ x # 0
  BY <1>3
<1>5. x - 1 \in Nat /\ x - 1 < x /\ (x - 1) + 1 = x
  BY <1>4
<1>6. x - 1 \notin T
  BY <1>3, <1>4, <1>5 DEF OpToRel
<1>7. QED
  BY <1>3, <1>5, <1>6

LEMMA TermsLength ==
    /\ Len(TermOrder) \in Nat
    /\ \A i \in 1 .. Len(TermOrder) : TermOrder[i] \in Terms
    /\ Terms = {TermOrder[i] : i \in 1 .. Len(TermOrder)}
<1>1. Len(TermOrder) \in Nat /\ DOMAIN TermOrder = 1 .. Len(TermOrder)
  BY TermsAssumption
<1>2. QED
  BY <1>1, TermsAssumption

LEMMA FoundationType ==
    ASSUME NEW p \in Plans \cup {Nothing}
    PROVE  Foundation(p) \in Plans
<1>1. EmptyPlan \in Plans
  BY DEF EmptyPlan, Plans
<1>2. CASE p = Nothing
  BY <1>1, <1>2 DEF Foundation
<1>3. CASE p # Nothing
  BY <1>3 DEF Foundation, Plans
<1>4. QED
  BY <1>2, <1>3

LEMMA UserConstraintType ==
    ASSUME NEW t \in Terms, NEW c \in Cases
    PROVE  UserConstraint(t, c) \in Constraints
BY TermsAssumption DEF UserConstraint, Constraints, Cases, GateReadings, Polarities

(* Completing a plan for a term: it stays a plan, keeps what it answers,   *)
(* and answers that term if the case asks for it.                          *)
LEMMA AddTermType ==
    ASSUME NEW p \in Plans, NEW t \in Terms, NEW c \in Cases
    PROVE  AddTerm(p, t, c) \in Plans
<1>1. CASE t \in Grounded(p, c) \/ t \notin c.terms
  BY <1>1 DEF AddTerm
<1>2. CASE ~(t \in Grounded(p, c) \/ t \notin c.terms) /\ c.soft
  BY <1>2, TermsAssumption DEF AddTerm, Plans
<1>3. CASE ~(t \in Grounded(p, c) \/ t \notin c.terms) /\ ~c.soft
  <2>1. AddTerm(p, t, c) = [p EXCEPT !.constraints = @ \cup {UserConstraint(t, c)}]
    BY <1>3 DEF AddTerm
  <2>2. QED
    BY <2>1, UserConstraintType DEF Plans
<1>4. QED
  BY <1>1, <1>2, <1>3

LEMMA AddTermGrounds ==
    ASSUME NEW p \in Plans, NEW t \in Terms, NEW c \in Cases
    PROVE  /\ Grounded(p, c) \subseteq Grounded(AddTerm(p, t, c), c)
           /\ t \in c.terms => t \in Grounded(AddTerm(p, t, c), c)
<1>1. CASE t \in Grounded(p, c) \/ t \notin c.terms
  BY <1>1 DEF AddTerm
<1>2. CASE ~(t \in Grounded(p, c) \/ t \notin c.terms) /\ c.soft
  <2>1. AddTerm(p, t, c).preferences = p.preferences \cup {Sentence[t]}
    BY <1>2 DEF AddTerm, Plans
  <2>2. QED
    BY <1>2, <2>1, TermsAssumption DEF Grounded
<1>3. CASE ~(t \in Grounded(p, c) \/ t \notin c.terms) /\ ~c.soft
  <2>1. AddTerm(p, t, c).constraints = p.constraints \cup {UserConstraint(t, c)}
    BY <1>3 DEF AddTerm, Plans
  <2>2. UserConstraint(t, c).terms = Sentence[t]
    BY DEF UserConstraint
  <2>3. QED
    BY <1>3, <2>1, <2>2, TermsAssumption DEF Grounded
<1>4. QED
  BY <1>1, <1>2, <1>3

(* The recursion defines a function: after each term there is a plan.      *)
LEMMA CompletedDefined ==
    ASSUME NEW p \in Plans \cup {Nothing}, NEW c \in Cases
    PROVE  Completed(p, c) = [n \in 0 .. Len(TermOrder) |->
                                IF n = 0 THEN Foundation(p)
                                ELSE AddTerm(Completed(p, c)[n - 1], TermOrder[n], c)]
<1> DEFINE N == Len(TermOrder)
           Defines(f, m) == f = [n \in 0 .. m |->
                                   IF n = 0 THEN Foundation(p)
                                   ELSE AddTerm(f[n - 1], TermOrder[n], c)]
           S == {m \in Nat : \E f : Defines(f, m)}
<1>1. 0 \in S
  <2> DEFINE f == [n \in 0 .. 0 |-> Foundation(p)]
  <2>1. Defines(f, 0)
    OBVIOUS
  <2>2. QED
    BY <2>1
<1>2. ASSUME NEW m \in Nat, m \in S PROVE m + 1 \in S
  <2>1. PICK f : Defines(f, m)
    BY <1>2
  <2> DEFINE g == [n \in 0 .. m + 1 |->
                     IF n = m + 1 THEN AddTerm(f[m], TermOrder[m + 1], c) ELSE f[n]]
  <2>2. ASSUME NEW n \in 0 .. m + 1
        PROVE  g[n] = IF n = 0 THEN Foundation(p) ELSE AddTerm(g[n - 1], TermOrder[n], c)
    <3>1. CASE n = m + 1
      <4>1. n # 0 /\ n - 1 = m /\ m \in 0 .. m + 1 /\ m # m + 1
        BY <3>1
      <4>2. g[n] = AddTerm(f[m], TermOrder[m + 1], c) /\ g[n - 1] = f[m]
        BY <3>1, <4>1
      <4>3. QED
        BY <3>1, <4>1, <4>2
    <3>2. CASE n # m + 1
      <4>1. n \in 0 .. m
        BY <3>2
      <4>2. f[n] = IF n = 0 THEN Foundation(p) ELSE AddTerm(f[n - 1], TermOrder[n], c)
        BY <2>1, <4>1
      <4>3. g[n] = f[n]
        BY <3>2
      <4>4. n # 0 => g[n - 1] = f[n - 1]
        BY <4>1
      <4>5. QED
        BY <4>2, <4>3, <4>4
    <3>3. QED
      BY <3>1, <3>2
  <2>3. Defines(g, m + 1)
    BY <2>2
  <2> HIDE DEF g, Defines
  <2>4. QED
    BY <2>3
<1>3. N \in S
  <2> HIDE DEF S
  <2>1. Nat \subseteq S
    BY <1>1, <1>2, NatSetInduction
  <2>2. QED
    BY <2>1, TermsLength
<1>4. \E f : Defines(f, N)
  BY <1>3
<1>5. Completed(p, c) = CHOOSE f : Defines(f, N)
  BY DEF Completed
<1>6. Defines(Completed(p, c), N)
  <2> HIDE DEF Defines
  <2>1. QED
    BY <1>4, <1>5
<1>7. QED
  BY <1>6

(* What the loop has done after n terms: a plan that has kept what it      *)
(* started from, and answers the terms of the case among them.             *)
LEMMA CompletedSteps ==
    ASSUME NEW p \in Plans \cup {Nothing}, NEW c \in Cases
    PROVE  /\ Completed(p, c)[0] = Foundation(p)
           /\ \A n \in Nat : n + 1 \in 0 .. Len(TermOrder) =>
                Completed(p, c)[n + 1] = AddTerm(Completed(p, c)[n], TermOrder[n + 1], c)
<1> DEFINE f == Completed(p, c)
           N == Len(TermOrder)
<1>1. f = [n \in 0 .. N |->
             IF n = 0 THEN Foundation(p) ELSE AddTerm(f[n - 1], TermOrder[n], c)]
  BY CompletedDefined
<1>2. N \in Nat
  BY TermsLength
<1> HIDE DEF f
<1>3. f[0] = Foundation(p)
  BY <1>1, <1>2
<1>4. ASSUME NEW n \in Nat, n + 1 \in 0 .. N
      PROVE  f[n + 1] = AddTerm(f[n], TermOrder[n + 1], c)
  <2>1. n + 1 # 0 /\ (n + 1) - 1 = n
    OBVIOUS
  <2>2. f[n + 1] = AddTerm(f[(n + 1) - 1], TermOrder[n + 1], c)
    BY <1>1, <1>4, <2>1
  <2>3. QED
    BY <2>1, <2>2
<1>5. QED
  BY <1>3, <1>4 DEF f

LEMMA CompletedType ==
    ASSUME NEW p \in Plans \cup {Nothing}, NEW c \in Cases
    PROVE  \A n \in 0 .. Len(TermOrder) :
             /\ Completed(p, c)[n] \in Plans
             /\ \A i \in 1 .. n : TermOrder[i] \in c.terms =>
                    TermOrder[i] \in Grounded(Completed(p, c)[n], c)
<1> DEFINE f == Completed(p, c)
           N == Len(TermOrder)
           Holds(n) == /\ f[n] \in Plans
                       /\ \A i \in 1 .. n : TermOrder[i] \in c.terms =>
                              TermOrder[i] \in Grounded(f[n], c)
           S == {n \in Nat : n <= N => Holds(n)}
<1>1. 0 \in S
  <2>1. f[0] \in Plans
    BY CompletedSteps, FoundationType
  <2>2. QED
    BY <2>1
<1>2. ASSUME NEW n \in Nat, n \in S PROVE n + 1 \in S
  <2>1. SUFFICES ASSUME n + 1 <= N PROVE Holds(n + 1)
    OBVIOUS
  <2>2. N \in Nat /\ n + 1 \in 0 .. N /\ n + 1 \in 1 .. N
    BY <2>1, TermsLength
  <2>3. TermOrder[n + 1] \in Terms /\ Holds(n)
    BY <1>2, <2>1, <2>2, TermsLength
  <2>4. f[n + 1] = AddTerm(f[n], TermOrder[n + 1], c)
    BY <2>2, CompletedSteps
  <2>5. f[n + 1] \in Plans
    BY <2>3, <2>4, AddTermType
  <2>6. /\ Grounded(f[n], c) \subseteq Grounded(f[n + 1], c)
        /\ TermOrder[n + 1] \in c.terms => TermOrder[n + 1] \in Grounded(f[n + 1], c)
    BY <2>3, <2>4, AddTermGrounds
  <2>7. ASSUME NEW i \in 1 .. n + 1, TermOrder[i] \in c.terms
        PROVE  TermOrder[i] \in Grounded(f[n + 1], c)
    <3>1. CASE i = n + 1
      BY <2>6, <2>7, <3>1
    <3>2. CASE i # n + 1
      <4>1. i \in 1 .. n
        BY <3>2
      <4>2. QED
        BY <2>3, <2>6, <2>7, <4>1
    <3>3. QED
      BY <3>1, <3>2
  <2>8. QED
    BY <2>5, <2>7
<1>3. Nat \subseteq S
  <2> HIDE DEF S
  <2>1. QED
    BY <1>1, <1>2, NatSetInduction
<1>4. QED
  BY <1>3, TermsLength

(* The completed plan is a plan, and answers every term of the case.       *)
LEMMA SynthesizeType ==
    ASSUME NEW p \in Plans \cup {Nothing}, NEW c \in Cases
    PROVE  /\ Synthesize(p, c) \in Plans
           /\ Grounded(Synthesize(p, c), c) = c.terms
<1> DEFINE N == Len(TermOrder)
<1>1. N \in Nat /\ N \in 0 .. N
  BY TermsLength
<1>2. Synthesize(p, c) \in Plans
  BY <1>1, CompletedType DEF Synthesize
<1>3. ASSUME NEW t \in c.terms PROVE t \in Grounded(Synthesize(p, c), c)
  <2>1. t \in Terms
    BY DEF Cases
  <2>2. PICK i \in 1 .. N : t = TermOrder[i]
    BY <2>1, TermsLength
  <2>3. QED
    BY <1>1, <2>2, CompletedType DEF Synthesize
<1>4. Grounded(Synthesize(p, c), c) \subseteq c.terms
  BY DEF Grounded
<1>5. QED
  BY <1>2, <1>3, <1>4

-----------------------------------------------------------------------------
(* The fallback of a job whose model never answered with a plan.           *)

(* A plan of nothing but what synthesize_minimal_plan adds.                *)
OwnPlan(p, c) ==
    /\ p \in Plans
    /\ p.rest = "fine"
    /\ c.soft => p.constraints = {}
    /\ \A d \in p.constraints : \E t \in c.terms : d = UserConstraint(t, c)

LEMMA AddTermOwn ==
    ASSUME NEW c \in Cases, NEW p, OwnPlan(p, c), NEW t \in Terms
    PROVE  OwnPlan(AddTerm(p, t, c), c)
<1>1. AddTerm(p, t, c) \in Plans
  BY AddTermType DEF OwnPlan
<1>2. CASE t \in Grounded(p, c) \/ t \notin c.terms
  BY <1>2 DEF AddTerm
<1>3. CASE ~(t \in Grounded(p, c) \/ t \notin c.terms) /\ c.soft
  <2>1. AddTerm(p, t, c) = [p EXCEPT !.preferences = @ \cup {Sentence[t]}]
    BY <1>3 DEF AddTerm
  <2>2. QED
    BY <1>1, <1>3, <2>1 DEF OwnPlan, Plans
<1>4. CASE ~(t \in Grounded(p, c) \/ t \notin c.terms) /\ ~c.soft
  <2>1. AddTerm(p, t, c) = [p EXCEPT !.constraints = @ \cup {UserConstraint(t, c)}]
    BY <1>4 DEF AddTerm
  <2>2. /\ AddTerm(p, t, c).constraints = p.constraints \cup {UserConstraint(t, c)}
        /\ AddTerm(p, t, c).rest = p.rest
    BY <2>1 DEF OwnPlan, Plans
  <2>3. QED
    BY <1>1, <1>4, <2>2 DEF OwnPlan
<1>5. QED
  BY <1>2, <1>3, <1>4

LEMMA SynthesizeOwn ==
    ASSUME NEW c \in Cases
    PROVE  OwnPlan(Synthesize(Nothing, c), c)
<1> DEFINE f == Completed(Nothing, c)
           N == Len(TermOrder)
           S == {n \in Nat : n <= N => OwnPlan(f[n], c)}
<1>1. 0 \in S
  <2>1. f[0] = EmptyPlan
    BY CompletedSteps DEF Foundation
  <2>2. OwnPlan(EmptyPlan, c)
    BY DEF OwnPlan, EmptyPlan, Plans
  <2>3. QED
    BY <2>1, <2>2
<1>2. ASSUME NEW n \in Nat, n \in S PROVE n + 1 \in S
  <2>1. SUFFICES ASSUME n + 1 <= N PROVE OwnPlan(f[n + 1], c)
    OBVIOUS
  <2>2. N \in Nat /\ n + 1 \in 0 .. N /\ n + 1 \in 1 .. N
    BY <2>1, TermsLength
  <2>3. TermOrder[n + 1] \in Terms /\ OwnPlan(f[n], c)
    BY <1>2, <2>1, <2>2, TermsLength
  <2>4. f[n + 1] = AddTerm(f[n], TermOrder[n + 1], c)
    BY <2>2, CompletedSteps
  <2>5. QED
    BY <2>3, <2>4, AddTermOwn
<1>3. Nat \subseteq S
  <2> HIDE DEF S
  <2>1. QED
    BY <1>1, <1>2, NatSetInduction
<1>4. QED
  BY <1>3, TermsLength DEF Synthesize

(* Where a case can be met at all, the plan made of its terms alone meets  *)
(* it.                                                                     *)
LEMMA OwnPlanValid ==
    ASSUME NEW c \in Cases, Coherent(c), NEW p, OwnPlan(p, c), Grounded(p, c) = c.terms
    PROVE  Valid(p, c)
<1>1. ASSUME NEW d \in p.constraints
      PROVE  /\ ConstraintStands(d)
             /\ d.aim = NoAim
             /\ d.gate = c.gated
             /\ d.terms \cap c.terms # {}
  <2>1. PICK t \in c.terms : d = UserConstraint(t, c)
    BY DEF OwnPlan
  <2>2. t \in Terms /\ t \in Sentence[t]
    BY TermsAssumption DEF Cases
  <2>3. /\ d.terms = Sentence[t] /\ d.gate = c.gated /\ d.action = c.gated
        /\ d.aim = NoAim /\ d.reads = "never"
        /\ d.type = IF c.gated THEN "enforcement" ELSE "hard"
    BY <2>1 DEF UserConstraint
  <2>4. QED
    BY <2>2, <2>3 DEF ConstraintStands, ReadsAsGate, Cases
<1>2. StructurallyValid(p)
  BY <1>1 DEF StructurallyValid, Conflict, OwnPlan
<1>3. c.soft => p.constraints = {} /\ ~c.allowed
  BY DEF OwnPlan, Coherent
<1>4. ~c.soft => p.constraints # {} /\ c.gated = c.allowed
  BY DEF Grounded, Coherent
<1>5. FitsCase(p, c)
  BY <1>1, <1>3, <1>4 DEF FitsCase, Ungrounded, Unrequested, Cases
<1>6. QED
  BY <1>2, <1>5 DEF Valid

LEMMA FallbackOfNothing ==
    ASSUME NEW c \in Cases, Coherent(c)
    PROVE  FallbackStands(Nothing, c)
<1>1. Grounded(Synthesize(Nothing, c), c) = c.terms
  BY SynthesizeType
<1>2. Valid(Synthesize(Nothing, c), c)
  BY <1>1, SynthesizeOwn, OwnPlanValid
<1>3. Grounded(EmptyPlan, c) = {}
  BY DEF Grounded, EmptyPlan
<1>4. c.terms # {}
  BY DEF Coherent
<1>5. Synthesize(Nothing, c) # Foundation(Nothing)
  BY <1>1, <1>3, <1>4 DEF Foundation
<1>6. QED
  BY <1>2, <1>5 DEF FallbackStands

-----------------------------------------------------------------------------
(* normalize_plan_validation_issues.                                       *)

LEMMA NormalizeType ==
    ASSUME NEW p \in Plans, NEW c \in Cases
    PROVE  Normalize(p, c) \in Plans
<1> DEFINE left == {IF Unrequested(d, c) THEN Reclassified(d) ELSE d :
                      d \in p.constraints \ Removed(p, c)}
<1>1. ASSUME NEW d \in Constraints PROVE Reclassified(d) \in Constraints
  BY DEF Reclassified, Constraints
<1>2. p.constraints \subseteq Constraints
  BY DEF Plans
<1>3. left \in SUBSET Constraints
  BY <1>1, <1>2
<1>4. Normalize(p, c) = [p EXCEPT !.constraints = left]
  BY DEF Normalize
<1> HIDE DEF left
<1>5. QED
  BY <1>3, <1>4 DEF Plans

(* Only constraints that answer nothing are removed, and a constraint that *)
(* loses its gate keeps its terms.                                         *)
LEMMA NormalizeGrounds ==
    ASSUME NEW p \in Plans, NEW c \in Cases
    PROVE  Grounded(Normalize(p, c), c) = Grounded(p, c)
<1> DEFINE kept == p.constraints \ Removed(p, c)
           Mended(d) == IF Unrequested(d, c) THEN Reclassified(d) ELSE d
           left == {Mended(d) : d \in kept}
<1>1. /\ Normalize(p, c).constraints = left
      /\ Normalize(p, c).preferences = p.preferences
  BY DEF Normalize, Plans
<1>2. CASE c.soft
  BY <1>1, <1>2 DEF Grounded
<1>3. CASE ~c.soft
  <2>1. ASSUME NEW d \in p.constraints PROVE Mended(d).terms = d.terms
    <3>1. d \in Constraints
      BY DEF Plans
    <3>2. QED
      BY <3>1 DEF Reclassified, Constraints
  <2>2. ASSUME NEW d \in p.constraints, NEW t \in d.terms, t \in c.terms
        PROVE  d \in kept
    BY <1>3, <2>2 DEF Removed, Ungrounded
  <2>3. Grounded(p, c) = c.terms \cap UNION {d.terms : d \in p.constraints}
    BY <1>3 DEF Grounded
  <2>4. Grounded(Normalize(p, c), c) = c.terms \cap UNION {d.terms : d \in left}
    BY <1>1, <1>3 DEF Grounded
  <2> HIDE DEF Mended, kept
  <2>5. kept \subseteq p.constraints
    BY DEF kept
  <2>6. QED
    BY <2>1, <2>2, <2>3, <2>4, <2>5
<1>4. QED
  BY <1>2, <1>3 DEF Cases

-----------------------------------------------------------------------------
(* The planning phase.                                                     *)

(* Files of attempts to come do not exist yet.                             *)
AttemptsInOrder ==
    \A i \in 1 .. PlanAttempts :
        i > attempt => /\ planFiles[<<"answer", i>>] = Nothing
                       /\ planFiles[<<"normalized", i>>] = Nothing

(* What planning ended with.                                               *)
PlanSettled ==
    /\ planning = "planned" => planFile \in PlanNames /\ plan # Nothing
    /\ planning = "exhausted" => ~FallbackStands(last, case)

PlanInv ==
    /\ PlanTypeOK
    /\ AttemptsInOrder
    /\ PlanSettled
    /\ ExecutesValidPlan
    /\ PlanEvidence
    /\ RepairKeepsTerms

LEMMA FileNames ==
    /\ <<"fallback", 0>> \in PlanNames
    /\ \A i \in 1 .. PlanAttempts :
        /\ <<"answer", i>> \in PlanNames
        /\ <<"normalized", i>> \in PlanNames
        /\ <<"answer", i>> # <<"fallback", 0>>
        /\ <<"normalized", i>> # <<"fallback", 0>>
        /\ \A j \in 1 .. PlanAttempts :
            /\ <<"answer", i>> # <<"normalized", j>>
            /\ i # j => <<"answer", i>> # <<"answer", j>>
            /\ i # j => <<"normalized", i>> # <<"normalized", j>>
BY DEF PlanNames

LEMMA PlanContentsTold ==
    /\ Plans \subseteq PlanContents
    /\ Unreadable \in PlanContents /\ Nothing \in PlanContents
    /\ Unreadable # Nothing
    /\ Nothing \notin Plans
BY LoopAssumption DEF PlanContents

LEMMA PlanInvInit == PlanInit => PlanInv
<1> SUFFICES ASSUME PlanInit PROVE PlanInv
  OBVIOUS
<1>1. PlanTypeOK
  BY LoopAssumption, PlanContentsTold DEF PlanInit, PlanTypeOK
<1>2. \A i \in 1 .. PlanAttempts :
        /\ planFiles[<<"answer", i>>] = Nothing
        /\ planFiles[<<"normalized", i>>] = Nothing
  BY FileNames DEF PlanInit
<1>3. QED
  BY <1>1, <1>2 DEF PlanInit, PlanInv, AttemptsInOrder, PlanSettled, ExecutesValidPlan,
                    PlanEvidence, RepairKeepsTerms

(* A model call.                                                           *)
LEMMA AsksFacts ==
    ASSUME PlanTypeOK, Asks
    PROVE  /\ planning = "open"
           /\ attempt' = attempt + 1
           /\ attempt' \in 1 .. PlanAttempts
           /\ UNCHANGED <<case, validates>>
           /\ case \in Cases
BY LoopAssumption DEF PlanTypeOK, Asks, MayAsk, Attempts

(* The files after a call whose answer is kept as it is.                   *)
LEMMA AnswerWritten ==
    ASSUME PlanInv, Asks, NEW a \in PlanContents,
           planFiles' = [planFiles EXCEPT ![<<"answer", attempt + 1>>] = a]
    PROVE  /\ planFiles' \in [PlanNames -> PlanContents]
           /\ planFiles'[<<"answer", attempt + 1>>] = a
           /\ AttemptsInOrder'
           /\ RepairKeepsTerms'
<1>1. PlanTypeOK
  BY DEF PlanInv
<1>2. attempt' = attempt + 1 /\ attempt + 1 \in 1 .. PlanAttempts /\ case' = case
  BY <1>1, AsksFacts
<1>3. planFiles \in [PlanNames -> PlanContents] /\ attempt \in Nat
  BY <1>1 DEF PlanTypeOK
<1>4. planFiles' \in [PlanNames -> PlanContents]
  BY <1>3
<1>5. planFiles'[<<"answer", attempt + 1>>] = a
  BY <1>2, <1>3, FileNames
<1>6. ASSUME NEW i \in 1 .. PlanAttempts
      PROVE  /\ planFiles'[<<"normalized", i>>] = planFiles[<<"normalized", i>>]
             /\ i # attempt + 1 => planFiles'[<<"answer", i>>] = planFiles[<<"answer", i>>]
  BY <1>2, <1>3, FileNames
<1>7. AttemptsInOrder'
  BY <1>2, <1>3, <1>6 DEF PlanInv, AttemptsInOrder
<1>8. RepairKeepsTerms'
  <2>1. planFiles[<<"normalized", attempt + 1>>] = Nothing
    BY <1>2, <1>3 DEF PlanInv, AttemptsInOrder
  <2>2. QED
    BY <1>2, <1>6, <2>1 DEF PlanInv, RepairKeepsTerms
<1>9. QED
  BY <1>4, <1>5, <1>7, <1>8

(* The files after a call whose answer is repaired.                        *)
LEMMA RepairWritten ==
    ASSUME PlanInv, Asks, NEW p \in Plans, NEW r \in Plans,
           Grounded(r, case) = Grounded(p, case),
           planFiles' = [planFiles EXCEPT ![<<"answer", attempt + 1>>] = p,
                                          ![<<"normalized", attempt + 1>>] = r]
    PROVE  /\ planFiles' \in [PlanNames -> PlanContents]
           /\ planFiles'[<<"normalized", attempt + 1>>] = r
           /\ AttemptsInOrder'
           /\ RepairKeepsTerms'
<1>1. PlanTypeOK
  BY DEF PlanInv
<1>2. attempt' = attempt + 1 /\ attempt + 1 \in 1 .. PlanAttempts /\ case' = case
  BY <1>1, AsksFacts
<1>3. planFiles \in [PlanNames -> PlanContents] /\ attempt \in Nat
  BY <1>1 DEF PlanTypeOK
<1>4. planFiles' \in [PlanNames -> PlanContents]
  BY <1>3, PlanContentsTold
<1>5. /\ planFiles'[<<"answer", attempt + 1>>] = p
      /\ planFiles'[<<"normalized", attempt + 1>>] = r
  BY <1>2, <1>3, FileNames
<1>6. ASSUME NEW i \in 1 .. PlanAttempts, i # attempt + 1
      PROVE  /\ planFiles'[<<"normalized", i>>] = planFiles[<<"normalized", i>>]
             /\ planFiles'[<<"answer", i>>] = planFiles[<<"answer", i>>]
  BY <1>2, <1>3, <1>6, FileNames
<1>7. AttemptsInOrder'
  <2>1. SUFFICES ASSUME NEW i \in 1 .. PlanAttempts, i > attempt + 1
                 PROVE  /\ planFiles'[<<"answer", i>>] = Nothing
                        /\ planFiles'[<<"normalized", i>>] = Nothing
    BY <1>2 DEF AttemptsInOrder
  <2>2. i # attempt + 1 /\ i > attempt
    BY <1>3, <2>1
  <2>3. QED
    BY <1>6, <2>2 DEF PlanInv, AttemptsInOrder
<1>8. RepairKeepsTerms'
  BY <1>2, <1>5, <1>6 DEF PlanInv, RepairKeepsTerms
<1>9. QED
  BY <1>4, <1>5, <1>7, <1>8

(* Going on with a plan, or asking again.                                  *)
LEMMA SettleKeeps ==
    ASSUME PlanInv, PlanTypeOK', AttemptsInOrder', RepairKeepsTerms',
           UNCHANGED <<case, validates>>,
           NEW content \in PlanContents, NEW name \in PlanNames,
           content # Nothing,
           validates => content \in Plans /\ Valid(content, case),
           planFiles'[name] = content,
           Settle(content, name)
    PROVE  PlanInv'
BY DEF PlanInv, PlanSettled, ExecutesValidPlan, PlanEvidence, Settle

LEMMA AskAgainKeeps ==
    ASSUME PlanInv, PlanTypeOK', AttemptsInOrder', RepairKeepsTerms',
           planning = "open", AskAgain
    PROVE  PlanInv'
BY DEF PlanInv, PlanSettled, ExecutesValidPlan, PlanEvidence, AskAgain

LEMMA CallFailsKeeps ==
    ASSUME PlanInv, PlanCallFails
    PROVE  PlanInv'
<1>1. Asks /\ AskAgain /\ last' = last
      /\ planFiles' = [planFiles EXCEPT ![<<"answer", attempt + 1>>] = Unreadable]
  BY DEF PlanCallFails
<1>2. PlanTypeOK
  BY DEF PlanInv
<1>3. /\ planFiles' \in [PlanNames -> PlanContents]
      /\ AttemptsInOrder' /\ RepairKeepsTerms'
  BY <1>1, AnswerWritten, PlanContentsTold
<1>4. PlanTypeOK'
  BY <1>1, <1>2, <1>3, AsksFacts DEF PlanTypeOK, AskAgain
<1>5. QED
  BY <1>1, <1>2, <1>3, <1>4, AsksFacts, AskAgainKeeps

LEMMA UnreadableKeeps ==
    ASSUME PlanInv, PlanUnreadable
    PROVE  PlanInv'
<1> DEFINE name == <<"answer", attempt + 1>>
<1>1. /\ Asks /\ last' = last
      /\ planFiles' = [planFiles EXCEPT ![<<"answer", attempt + 1>>] = Unreadable]
      /\ IF validates THEN AskAgain ELSE Settle(Unreadable, name)
  BY DEF PlanUnreadable
<1>2. PlanTypeOK
  BY DEF PlanInv
<1>3. /\ planFiles' \in [PlanNames -> PlanContents] /\ planFiles'[name] = Unreadable
      /\ AttemptsInOrder' /\ RepairKeepsTerms'
  BY <1>1, AnswerWritten, PlanContentsTold
<1>4. name \in PlanNames
  BY <1>1, <1>2, AsksFacts, FileNames
<1> HIDE DEF name
<1>5. PlanTypeOK'
  BY <1>1, <1>2, <1>3, <1>4, AsksFacts, PlanContentsTold DEF PlanTypeOK, AskAgain, Settle
<1>6. CASE validates
  BY <1>1, <1>2, <1>3, <1>5, <1>6, AsksFacts, AskAgainKeeps
<1>7. CASE ~validates
  BY <1>1, <1>2, <1>3, <1>4, <1>5, <1>7, AsksFacts, SettleKeeps, PlanContentsTold
<1>8. QED
  BY <1>6, <1>7

(* The answer is taken, or asked for again, as it is or repaired.          *)
LEMMA TakenKeeps ==
    ASSUME PlanInv, Asks, NEW q \in Plans, NEW name \in PlanNames,
           planFiles' \in [PlanNames -> PlanContents], planFiles'[name] = q,
           AttemptsInOrder', RepairKeepsTerms',
           last' = q,
           IF validates /\ ~Valid(q, case) THEN AskAgain ELSE Settle(q, name)
    PROVE  PlanInv'
<1>1. PlanTypeOK
  BY DEF PlanInv
<1>2. q \in PlanContents /\ q # Nothing
  BY PlanContentsTold
<1>3. CASE validates /\ ~Valid(q, case)
  <2>0. AskAgain
    BY <1>3
  <2>1. PlanTypeOK'
    BY <1>1, <2>0, AsksFacts DEF PlanTypeOK, AskAgain
  <2>2. QED
    BY <1>1, <2>0, <2>1, AsksFacts, AskAgainKeeps
<1>4. CASE ~(validates /\ ~Valid(q, case))
  <2>1. PlanTypeOK'
    BY <1>1, <1>2, <1>4, AsksFacts DEF PlanTypeOK, Settle
  <2>2. QED
    BY <1>1, <1>2, <1>4, <2>1, AsksFacts, SettleKeeps
<1>5. QED
  BY <1>3, <1>4

LEMMA ReadKeeps ==
    ASSUME PlanInv, NEW p \in AnswerPlans, PlanRead(p)
    PROVE  PlanInv'
<1>1. p \in Plans /\ p \in PlanContents
  BY LoopAssumption, PlanContentsTold
<1>2. /\ Asks /\ last' = p
      /\ planFiles' = [planFiles EXCEPT ![<<"answer", attempt + 1>>] = p]
      /\ IF validates /\ ~Valid(p, case) THEN AskAgain ELSE Settle(p, <<"answer", attempt + 1>>)
  BY DEF PlanRead
<1>3. PlanTypeOK
  BY DEF PlanInv
<1>4. /\ planFiles' \in [PlanNames -> PlanContents]
      /\ planFiles'[<<"answer", attempt + 1>>] = p
      /\ AttemptsInOrder' /\ RepairKeepsTerms'
  BY <1>1, <1>2, AnswerWritten
<1>5. <<"answer", attempt + 1>> \in PlanNames
  BY <1>2, <1>3, AsksFacts, FileNames
<1>6. QED
  BY <1>1, <1>2, <1>4, <1>5, TakenKeeps

LEMMA NormalizedKeeps ==
    ASSUME PlanInv, NEW p \in AnswerPlans, PlanNormalized(p)
    PROVE  PlanInv'
<1> DEFINE r == Normalize(p, case)
           name == <<"normalized", attempt + 1>>
<1>1. /\ Asks /\ last' = r
      /\ planFiles' = [planFiles EXCEPT ![<<"answer", attempt + 1>>] = p,
                                        ![<<"normalized", attempt + 1>>] = r]
      /\ IF validates /\ ~Valid(r, case) THEN AskAgain ELSE Settle(r, name)
  BY DEF PlanNormalized
<1>2. PlanTypeOK
  BY DEF PlanInv
<1>3. p \in Plans /\ case \in Cases
  BY <1>1, <1>2, AsksFacts, LoopAssumption
<1>4. r \in Plans /\ Grounded(r, case) = Grounded(p, case)
  BY <1>3, NormalizeType, NormalizeGrounds
<1> HIDE DEF r
<1>5. /\ planFiles' \in [PlanNames -> PlanContents]
      /\ planFiles'[name] = r
      /\ AttemptsInOrder' /\ RepairKeepsTerms'
  BY <1>1, <1>3, <1>4, RepairWritten
<1>6. name \in PlanNames
  BY <1>1, <1>2, AsksFacts, FileNames
<1> HIDE DEF name
<1>7. QED
  BY <1>1, <1>4, <1>5, <1>6, TakenKeeps

LEMMA FallbackKeeps ==
    ASSUME PlanInv, PlanFallback
    PROVE  PlanInv'
<1> DEFINE s == Synthesize(last, case)
           name == <<"fallback", 0>>
<1>1. /\ planning = "open"
      /\ UNCHANGED <<case, validates, attempt, last>>
      /\ Valid(s, case)
      /\ planFiles' = [planFiles EXCEPT ![<<"fallback", 0>>] = s]
      /\ Settle(s, name)
  BY DEF PlanFallback, NoPlanAccepted, FallbackStands
<1>2. PlanTypeOK /\ case \in Cases
  BY LoopAssumption DEF PlanInv, PlanTypeOK
<1>3. s \in Plans
  BY <1>2, SynthesizeType DEF PlanTypeOK
<1>4. s \in PlanContents /\ s # Nothing
  BY <1>3, PlanContentsTold
<1> HIDE DEF s
<1>5. /\ planFiles' \in [PlanNames -> PlanContents]
      /\ planFiles'[name] = s
      /\ \A i \in 1 .. PlanAttempts :
           /\ planFiles'[<<"answer", i>>] = planFiles[<<"answer", i>>]
           /\ planFiles'[<<"normalized", i>>] = planFiles[<<"normalized", i>>]
  BY <1>1, <1>2, <1>4, FileNames DEF PlanTypeOK
<1>6. AttemptsInOrder' /\ RepairKeepsTerms'
  BY <1>1, <1>5 DEF PlanInv, AttemptsInOrder, RepairKeepsTerms
<1>7. name \in PlanNames
  BY FileNames
<1> HIDE DEF name
<1>8. PlanTypeOK'
  BY <1>1, <1>2, <1>4, <1>5, <1>7 DEF PlanTypeOK, Settle
<1>9. QED
  BY <1>1, <1>3, <1>4, <1>5, <1>6, <1>7, <1>8, SettleKeeps

LEMMA ExhaustedKeeps ==
    ASSUME PlanInv, PlanExhausted
    PROVE  PlanInv'
BY DEF PlanExhausted, NoPlanAccepted, PlanInv, PlanTypeOK, AttemptsInOrder, PlanSettled,
       ExecutesValidPlan, PlanEvidence, RepairKeepsTerms

LEMMA PlanInvNext ==
    ASSUME PlanInv, PlanNext
    PROVE  PlanInv'
BY CallFailsKeeps, UnreadableKeeps, ReadKeeps, NormalizedKeeps, FallbackKeeps, ExhaustedKeeps
   DEF PlanNext

LEMMA PlanInvStutter ==
    ASSUME PlanInv, UNCHANGED planVars
    PROVE  PlanInv'
BY DEF planVars, PlanInv, PlanTypeOK, AttemptsInOrder, PlanSettled, ExecutesValidPlan,
       PlanEvidence, RepairKeepsTerms

-----------------------------------------------------------------------------
(* The job.                                                                *)

JobTypeOK ==
    /\ <<structured, validates, mends>> \in Variants
    /\ stage \in {"plan", "execute", "scored", "failed", "done"}
    /\ response \in Answers \cup {Nothing}
    /\ answerFile \in Answers \cup {Nothing, Partial}
    /\ status \in Statuses \cup {"none"}
    /\ errors \in BOOLEAN
    /\ repairs \in 0 .. ArtifactAttempts
    /\ mended \in BOOLEAN
    /\ row \in Rows \cup {Nothing}

(* The job asks for its answer after its plan, if it has one, and holds no *)
(* row before it returns.                                                  *)
JobInOrder ==
    /\ stage # "done" => row = Nothing
    /\ stage = "plan" => structured
    /\ stage \in {"execute", "failed", "scored"} /\ structured => planning = "planned"
    /\ stage \in {"plan", "execute", "failed"} => repairs = 0

(* The score a job holds is that of the answer in its file, and only a     *)
(* repair turns one that fails into one that does not.                     *)
ScoreStands ==
    stage = "scored" =>
        /\ answerFile \in Answers
        /\ status = Score[answerFile]
        /\ errors = (status = "fail")
        /\ repairs > 0 /\ ~mended => status = "fail"

JobInv == PlanInv /\ JobTypeOK /\ JobInOrder /\ ScoreStands /\ AnswerEvidence

LEMMA TypeParts == TypeOK <=> PlanTypeOK /\ JobTypeOK
BY DEF TypeOK, JobTypeOK

LEMMA StatusType ==
    /\ \A a \in Answers : Score[a] \in Statuses
    /\ "pass" \in Statuses /\ "fail" \in Statuses
BY AnswerAssumption DEF Statuses

LEMMA JobInvInit == Init => JobInv
<1> SUFFICES ASSUME Init PROVE JobInv
  OBVIOUS
<1>1. PlanInv
  BY PlanInvInit DEF Init
<1>2. <<structured, validates, mends>> \in Variants /\ structured \in BOOLEAN
  <2>1. PICK v \in Variants : structured = v[1] /\ validates = v[2] /\ mends = v[3]
    BY DEF Init
  <2>2. \/ v = <<FALSE, FALSE, FALSE>> \/ v = <<TRUE, FALSE, FALSE>>
        \/ v = <<TRUE, TRUE, FALSE>> \/ v = <<TRUE, TRUE, TRUE>>
    BY DEF Variants
  <2>3. CASE v = <<FALSE, FALSE, FALSE>>
    <3>1. structured = FALSE /\ validates = FALSE /\ mends = FALSE
      BY <2>1, <2>3
    <3>2. QED
      BY <3>1 DEF Variants
  <2>4. CASE v = <<TRUE, FALSE, FALSE>>
    <3>1. structured = TRUE /\ validates = FALSE /\ mends = FALSE
      BY <2>1, <2>4
    <3>2. QED
      BY <3>1 DEF Variants
  <2>5. CASE v = <<TRUE, TRUE, FALSE>>
    <3>1. structured = TRUE /\ validates = TRUE /\ mends = FALSE
      BY <2>1, <2>5
    <3>2. QED
      BY <3>1 DEF Variants
  <2>6. CASE v = <<TRUE, TRUE, TRUE>>
    <3>1. structured = TRUE /\ validates = TRUE /\ mends = TRUE
      BY <2>1, <2>6
    <3>2. QED
      BY <3>1 DEF Variants
  <2>7. QED
    BY <2>2, <2>3, <2>4, <2>5, <2>6
<1>3. JobTypeOK
  <2>1. repairs \in 0 .. ArtifactAttempts
    BY AnswerAssumption DEF Init
  <2>2. QED
    BY <1>2, <2>1 DEF Init, JobTypeOK
<1>4. JobInOrder /\ ScoreStands /\ AnswerEvidence
  BY DEF Init, JobInOrder, ScoreStands, AnswerEvidence
<1>5. QED
  BY <1>1, <1>3, <1>4 DEF JobInv

(* A step of the planning phase.                                           *)
LEMMA PlanKeeps ==
    ASSUME JobInv, Plan
    PROVE  JobInv'
<1>1. PlanInv'
  BY PlanInvNext DEF JobInv, Plan
<1>2. /\ stage = "plan" /\ planning = "open"
      /\ stage' = IF planning' = "planned" THEN "execute" ELSE "plan"
      /\ UNCHANGED <<structured, mends, response, answerFile, status, errors, repairs,
                     mended, row>>
  BY DEF Plan
<1>3. validates' = validates
  BY DEF Plan, PlanNext, PlanCallFails, PlanUnreadable, PlanRead, PlanNormalized, PlanFallback,
         PlanExhausted, Asks, NoPlanAccepted
<1>4. JobTypeOK'
  BY <1>2, <1>3 DEF JobInv, JobTypeOK
<1>5. JobInOrder' /\ ScoreStands' /\ AnswerEvidence'
  BY <1>2 DEF JobInv, JobInOrder, ScoreStands, AnswerEvidence
<1>6. QED
  BY <1>1, <1>4, <1>5 DEF JobInv

(* A row is returned.                                                      *)
LEMMA ReturnKeeps ==
    ASSUME JobInv, UNCHANGED <<planVars, structured, mends, response, answerFile, status,
                               errors, repairs, mended>>,
           NEW success \in BOOLEAN, NEW failure \in {"none", "plan", "execute", "artifact"},
           NEW repaired \in BOOLEAN,
           Return(success, failure, repaired),
           failure \in {"none", "artifact"} =>
                /\ status = Score[answerFile]
                /\ success = (Score[answerFile] # "fail")
                /\ repaired => mended /\ Score[answerFile] = "pass"
    PROVE  JobInv'
<1>1. PlanInv'
  BY PlanInvStutter DEF JobInv
<1>2. /\ row' = [success |-> success, failure |-> failure,
                 status |-> status, repaired |-> repaired]
      /\ stage' = "done"
  BY DEF Return
<1>3. row' \in Rows
  BY <1>2 DEF Rows, JobInv, JobTypeOK
<1>4. validates' = validates
  BY DEF planVars
<1>5. JobTypeOK'
  BY <1>2, <1>3, <1>4 DEF JobInv, JobTypeOK
<1>6. JobInOrder' /\ ScoreStands'
  BY <1>2 DEF JobInOrder, ScoreStands
<1>7. /\ row'.failure = failure /\ row'.status = status /\ row'.success = success
      /\ row'.repaired = repaired
  BY <1>2
<1>8. AnswerEvidence'
  BY <1>7 DEF AnswerEvidence
<1>9. QED
  BY <1>1, <1>5, <1>6, <1>8 DEF JobInv

LEMMA ReturnsKeep ==
    ASSUME JobInv, ReturnUnplanned \/ ReturnUnexecuted \/ ReturnScored
    PROVE  JobInv'
<1>1. CASE ReturnUnplanned
  BY <1>1, ReturnKeeps DEF ReturnUnplanned
<1>2. CASE ReturnUnexecuted
  BY <1>2, ReturnKeeps DEF ReturnUnexecuted
<1>3. CASE ReturnScored
  <2> DEFINE failure == IF status = "fail" THEN "artifact" ELSE "none"
             success == status # "fail"
             repaired == repairs > 0 /\ status = "pass"
  <2>1. /\ stage = "scored"
        /\ UNCHANGED <<planVars, structured, mends, response, answerFile, status, errors,
                       repairs, mended>>
        /\ Return(success, failure, repaired)
    BY <1>3 DEF ReturnScored
  <2>2. status = Score[answerFile]
    BY <2>1 DEF JobInv, ScoreStands
  <2>3. repaired => mended
    BY <2>1 DEF JobInv, ScoreStands
  <2>4. failure \in {"none", "plan", "execute", "artifact"} /\ success \in BOOLEAN
        /\ repaired \in BOOLEAN
    OBVIOUS
  <2>5. /\ success = (Score[answerFile] # "fail")
        /\ repaired => Score[answerFile] = "pass"
    BY <2>2
  <2> HIDE DEF failure, success, repaired
  <2>6. QED
    BY <2>1, <2>2, <2>3, <2>4, <2>5, ReturnKeeps
<1>4. QED
  BY <1>1, <1>2, <1>3

(* The answer, and its repairs.                                            *)
LEMMA AnswersKeep ==
    ASSUME JobInv,
           ExecuteFails \/ RepairFails \/ \E a \in Answers : Execute(a) \/ Repair(a)
    PROVE  JobInv'
<1>1. CASE ExecuteFails
  <2>1. PlanInv'
    BY <1>1, PlanInvStutter DEF JobInv, ExecuteFails
  <2>2. validates' = validates /\ planning' = planning
    BY <1>1 DEF ExecuteFails, planVars
  <2>3. JobTypeOK' /\ JobInOrder' /\ ScoreStands' /\ AnswerEvidence'
    BY <1>1, <2>2 DEF JobInv, JobTypeOK, JobInOrder, ScoreStands, AnswerEvidence, ExecuteFails
  <2>4. QED
    BY <2>1, <2>3 DEF JobInv
<1>2. CASE RepairFails
  <2>1. PlanInv'
    BY <1>2, PlanInvStutter DEF JobInv, RepairFails, Repairs
  <2>2. validates' = validates /\ planning' = planning
    BY <1>2 DEF RepairFails, Repairs, planVars
  <2>3. JobTypeOK'
    BY <1>2, <2>2, AnswerAssumption DEF JobInv, JobTypeOK, RepairFails, Repairs
  <2>4. JobInOrder' /\ ScoreStands' /\ AnswerEvidence'
    BY <1>2, <2>2 DEF JobInv, JobTypeOK, JobInOrder, ScoreStands, AnswerEvidence, RepairFails,
                      Repairs
  <2>5. QED
    BY <2>1, <2>3, <2>4 DEF JobInv
<1>3. ASSUME NEW a \in Answers, Execute(a) PROVE JobInv'
  <2>1. PlanInv'
    BY <1>3, PlanInvStutter DEF JobInv, Execute
  <2>2. validates' = validates /\ planning' = planning
    BY <1>3 DEF Execute, planVars
  <2>3. JobTypeOK'
    BY <1>3, <2>2, StatusType DEF JobInv, JobTypeOK, Execute, Scored
  <2>4. JobInOrder' /\ ScoreStands' /\ AnswerEvidence'
    BY <1>3, <2>2 DEF JobInv, JobTypeOK, JobInOrder, ScoreStands, AnswerEvidence, Execute, Scored
  <2>5. QED
    BY <2>1, <2>3, <2>4 DEF JobInv
<1>4. ASSUME NEW a \in Answers, Repair(a) PROVE JobInv'
  <2>1. PlanInv'
    BY <1>4, PlanInvStutter DEF JobInv, Repair, Repairs
  <2>2. validates' = validates /\ planning' = planning
    BY <1>4 DEF Repair, Repairs, planVars
  <2>3. JobTypeOK'
    BY <1>4, <2>2, StatusType, AnswerAssumption DEF JobInv, JobTypeOK, Repair, Repairs, Scored
  <2>4. JobInOrder' /\ ScoreStands' /\ AnswerEvidence'
    BY <1>4, <2>2 DEF JobInv, JobTypeOK, JobInOrder, ScoreStands, AnswerEvidence, Repair,
                      Repairs, Scored
  <2>5. QED
    BY <2>1, <2>3, <2>4 DEF JobInv
<1>5. QED
  BY <1>1, <1>2, <1>3, <1>4

LEMMA JobInvNext == JobInv /\ [Next]_vars => JobInv'
<1> SUFFICES ASSUME JobInv, [Next]_vars PROVE JobInv'
  OBVIOUS
<1>1. CASE Next
  BY <1>1, PlanKeeps, ReturnsKeep, AnswersKeep DEF Next
<1>2. CASE UNCHANGED vars
  <2>1. PlanInv'
    BY <1>2, PlanInvStutter DEF vars, planVars, JobInv
  <2>2. QED
    BY <1>2, <2>1 DEF vars, JobInv, JobTypeOK, JobInOrder, ScoreStands, AnswerEvidence
<1>3. QED
  BY <1>1, <1>2

LEMMA JobInvAlways == Spec => []JobInv
BY JobInvInit, JobInvNext, PTL DEF Spec

(* Every state of a job has its type; the fallback plan is a plan.         *)
THEOREM MatrixJobTyped == Spec => []TypeOK
<1>1. JobInv => TypeOK
  BY TypeParts DEF JobInv, PlanInv
<1>2. QED
  BY <1>1, JobInvAlways, PTL

(* A job that validates its plan goes on with a valid one, whether the     *)
(* model gave it, a repair made it or it was put together from the case.   *)
THEOREM ValidPlanExecuted == Spec => []ExecutesValidPlan
<1>1. JobInv => ExecutesValidPlan
  BY DEF JobInv, PlanInv
<1>2. QED
  BY <1>1, JobInvAlways, PTL

(* The plan file a row names holds the plan that was used.                 *)
THEOREM PlanEvidenced == Spec => []PlanEvidence
<1>1. JobInv => PlanEvidence
  BY DEF JobInv, PlanInv
<1>2. QED
  BY <1>1, JobInvAlways, PTL

(* A case whose rules can be met gets a plan although no answer was one.   *)
THEOREM FailureExplained == Spec => []FailureIsTheAnswers
<1>1. JobInv => FailureIsTheAnswers
  BY FallbackOfNothing, LoopAssumption
     DEF JobInv, PlanInv, PlanTypeOK, PlanSettled, FailureIsTheAnswers
<1>2. QED
  BY <1>1, JobInvAlways, PTL

(* Repairing a plan loses no term of the user that it answered.            *)
THEOREM TermsKept == Spec => []RepairKeepsTerms
<1>1. JobInv => RepairKeepsTerms
  BY DEF JobInv, PlanInv
<1>2. QED
  BY <1>1, JobInvAlways, PTL

(* A scored row tells the score of the answer in its evidence file.        *)
THEOREM AnswerEvidenced == Spec => []AnswerEvidence
<1>1. JobInv => AnswerEvidence
  BY DEF JobInv
<1>2. QED
  BY <1>1, JobInvAlways, PTL

-----------------------------------------------------------------------------
(* What the runner sees of a job.                                          *)

SeenFiles ==
    [k \in JobKeys |->
        [plan |-> IF k = Key /\ PlanWritten THEN 1 ELSE 0,
         answer |-> IF k = Key /\ answerFile # Nothing THEN 1 ELSE 0]]
SeenJob ==
    [k \in JobKeys |->
        IF k # Key THEN "none" ELSE IF row = Nothing THEN "running" ELSE "returned"]
SeenFuture == [k \in JobKeys |-> IF k = Key THEN RunnerRow ELSE Nothing]

(* Nothing the runner sees is changed by a step that changes none of these. *)
LEMMA SameSeen ==
    ASSUME SeenFiles' = SeenFiles, SeenJob' = SeenJob, SeenFuture' = SeenFuture,
           structured' = structured
    PROVE  UNCHANGED Runner!vars
<1>1. Key' = Key
  BY DEF Key
<1>2. QED
  BY <1>1 DEF Runner!vars, SeenFiles, SeenJob, SeenFuture

LEMMA JobKey == Key \in JobKeys /\ (structured => Key = "structured")
BY DEF Key, JobKeys

(* A step that writes one file of the job.                                 *)
LEMMA SeenWrite ==
    ASSUME NEW k \in JobKeys, k = Key,
           NEW f \in {"plan", "answer"}, f = "plan" => structured,
           structured' = structured, row = Nothing, row' = Nothing,
           SeenFiles' = [SeenFiles EXCEPT ![k] = [SeenFiles[k] EXCEPT ![f] = 1]]
    PROVE  Runner!WriteEvidence(k, f)
<1>1. Key' = k /\ k \in JobKeys
  BY DEF Key
<1>2. SeenJob[k] = "running" /\ SeenJob' = SeenJob
  BY <1>1 DEF SeenJob
<1>3. SeenFuture' = SeenFuture
  BY <1>1 DEF SeenFuture, RunnerRow
<1>4. f \in Runner!Evidence(k)
  BY JobKey DEF Runner!Evidence, Runner!Kinds
<1>5. Runner!Current = 1
  BY DEF Runner!Current
<1>6. QED
  BY <1>1, <1>2, <1>3, <1>4, <1>5 DEF Runner!WriteEvidence, SeenFiles, SeenJob, SeenFuture

(* The plan files a job writes stay.                                       *)
LEMMA PlanWrittenStays ==
    ASSUME PlanInv, PlanNext, PlanWritten
    PROVE  PlanWritten'
<1>1. PICK name \in PlanNames : planFiles[name] # Nothing
  BY DEF PlanWritten
<1>2. planFiles \in [PlanNames -> PlanContents] /\ case \in Cases
      /\ last \in Plans \cup {Nothing}
  BY LoopAssumption DEF PlanInv, PlanTypeOK
<1>3. SUFFICES planFiles'[name] # Nothing
  BY DEF PlanWritten
<1>4. CASE PlanCallFails \/ PlanUnreadable
  BY <1>1, <1>2, <1>4, PlanContentsTold DEF PlanCallFails, PlanUnreadable
<1>5. ASSUME NEW p \in AnswerPlans, PlanRead(p) PROVE planFiles'[name] # Nothing
  BY <1>1, <1>2, <1>5, LoopAssumption DEF PlanRead
<1>6. ASSUME NEW p \in AnswerPlans, PlanNormalized(p) PROVE planFiles'[name] # Nothing
  <2>1. p # Nothing /\ Normalize(p, case) # Nothing
    BY <1>2, NormalizeType, LoopAssumption
  <2>2. planFiles' = [planFiles EXCEPT ![<<"answer", attempt + 1>>] = p,
                                       ![<<"normalized", attempt + 1>>] = Normalize(p, case)]
    BY <1>6 DEF PlanNormalized
  <2>3. QED
    BY <1>1, <1>2, <2>1, <2>2
<1>7. CASE PlanFallback
  <2>1. Synthesize(last, case) # Nothing
    BY <1>2, SynthesizeType, LoopAssumption
  <2>2. QED
    BY <1>1, <1>2, <1>7, <2>1 DEF PlanFallback
<1>8. CASE PlanExhausted
  BY <1>1, <1>8 DEF PlanExhausted
<1>9. QED
  BY <1>4, <1>5, <1>6, <1>7, <1>8 DEF PlanNext

LEMMA SeenFilesFacts ==
    /\ \A k \in JobKeys : k # Key => SeenFiles[k] = [plan |-> 0, answer |-> 0]
    /\ SeenFiles[Key] = [plan |-> IF PlanWritten THEN 1 ELSE 0,
                         answer |-> IF answerFile # Nothing THEN 1 ELSE 0]
    /\ SeenFiles = [k \in JobKeys |-> SeenFiles[k]]
BY JobKey DEF SeenFiles

(* Planning: the first file written makes the job's plan evidence.         *)
LEMMA PlanSeen ==
    ASSUME JobInv, Plan, NEW k \in JobKeys, k = Key
    PROVE  Runner!WriteEvidence(k, "plan") \/ UNCHANGED Runner!vars
<1>1. /\ PlanInv /\ PlanNext /\ structured
      /\ row = Nothing
      /\ UNCHANGED <<structured, answerFile, row>>
  BY DEF JobInv, JobInOrder, Plan
<1>2. PlanWritten => PlanWritten'
  BY <1>1, PlanWrittenStays
<1>3. Key' = k
  BY <1>1 DEF Key
<1>4. CASE PlanWritten' = PlanWritten
  <2>1. SeenFiles' = SeenFiles
    BY <1>1, <1>3, <1>4 DEF SeenFiles
  <2>2. SeenJob' = SeenJob /\ SeenFuture' = SeenFuture
    BY <1>1, <1>3 DEF SeenJob, SeenFuture, RunnerRow
  <2>3. QED
    BY <1>1, <2>1, <2>2, SameSeen
<1>5. CASE ~PlanWritten /\ PlanWritten'
  <2>1. SeenFiles' = [SeenFiles EXCEPT ![k] = [SeenFiles[k] EXCEPT !["plan"] = 1]]
    BY <1>1, <1>3, <1>5 DEF SeenFiles
  <2>2. QED
    BY <1>1, <2>1, SeenWrite
<1>6. QED
  BY <1>2, <1>4, <1>5 DEF PlanWritten

(* The answer, or a repair of it, is written.                              *)
LEMMA AnswerSeen ==
    ASSUME NEW k \in JobKeys, k = Key,
           row = Nothing, UNCHANGED <<planVars, structured, row>>, answerFile' # Nothing
    PROVE  Runner!WriteEvidence(k, "answer")
<1>1. Key' = k /\ PlanWritten' = PlanWritten
  BY DEF Key, planVars, PlanWritten
<1>2. SeenFiles' = [SeenFiles EXCEPT ![k] = [SeenFiles[k] EXCEPT !["answer"] = 1]]
  BY <1>1 DEF SeenFiles
<1>3. QED
  BY <1>2, SeenWrite

(* A row is returned: signed if the answer was scored.                     *)
LEMMA RowSeen ==
    ASSUME JobInv, stage # "done", UNCHANGED <<planVars, structured, answerFile>>,
           NEW k \in JobKeys, k = Key,
           NEW success \in BOOLEAN, NEW failure \in {"none", "plan", "execute", "artifact"},
           NEW repaired \in BOOLEAN, Return(success, failure, repaired)
    PROVE  Runner!Returns(k,
              [success |-> success,
               signature |-> IF failure \in {"none", "artifact"} THEN "signed" ELSE Nothing,
               made |-> 1])
<1> DEFINE seen ==
        [success |-> success,
         signature |-> IF failure \in {"none", "artifact"} THEN "signed" ELSE Nothing,
         made |-> 1]
<1>1. Key' = k /\ PlanWritten' = PlanWritten
  BY DEF Key, planVars, PlanWritten
<1>2. row = Nothing
  BY DEF JobInv, JobInOrder
<1>3. row' = [success |-> success, failure |-> failure,
              status |-> status, repaired |-> repaired]
  BY DEF Return
<1>4. row' # Nothing
  BY <1>3, NoRowAssumption DEF Rows, JobInv, JobTypeOK
<1>5. RunnerRow' = seen
  BY <1>3, <1>4 DEF RunnerRow
<1>6. SeenFiles' = SeenFiles
  BY <1>1 DEF SeenFiles
<1>7. SeenJob[k] = "running" /\ SeenJob' = [SeenJob EXCEPT ![k] = "returned"]
  BY <1>1, <1>2, <1>4 DEF SeenJob
<1>8. SeenFuture' = [SeenFuture EXCEPT ![k] = seen]
  BY <1>1, <1>5 DEF SeenFuture
<1> HIDE DEF seen
<1>9. Runner!Returns(k, seen)
  BY <1>1, <1>6, <1>7, <1>8 DEF Runner!Returns, SeenFiles, SeenJob, SeenFuture
<1>10. QED
  BY <1>9 DEF seen

(* When an answer has been scored all evidence of the job is there.        *)
LEMMA AllEvidence ==
    ASSUME JobInv, stage = "scored", NEW k \in JobKeys, k = Key
    PROVE  \A f \in Runner!Evidence(k) : SeenFiles[k][f] = 1
<1>1. answerFile # Nothing
  BY AnswerAssumption DEF JobInv, ScoreStands
<1>2. structured => PlanWritten
  BY DEF JobInv, JobInOrder, PlanInv, PlanSettled, PlanEvidence, PlanWritten
<1>3. SeenFiles[k] = [plan |-> IF PlanWritten THEN 1 ELSE 0, answer |-> 1]
  BY <1>1, SeenFilesFacts
<1>4. CASE structured
  BY <1>2, <1>3, <1>4 DEF Runner!Evidence, Runner!Kinds
<1>5. CASE ~structured
  BY <1>3, <1>5 DEF Runner!Evidence, Runner!Kinds, Key
<1>6. QED
  BY <1>4, <1>5

LEMMA ReturnsSeen ==
    ASSUME JobInv, ReturnUnplanned \/ ReturnUnexecuted \/ ReturnScored,
           NEW k \in JobKeys, k = Key
    PROVE  Runner!JobStep(k)
<1>0. Runner!Current = 1 /\ Runner!Config = "command"
  BY DEF Runner!Current, Runner!Config
<1>1. CASE ReturnUnplanned
  <2>1. Runner!Returns(k, [success |-> FALSE, signature |-> Nothing, made |-> 1])
    BY <1>1, RowSeen DEF ReturnUnplanned
  <2>2. Runner!ReturnFailed(k)
    BY <1>0, <2>1 DEF Runner!ReturnFailed
  <2>3. QED
    BY <2>2 DEF Runner!JobStep
<1>2. CASE ReturnUnexecuted
  <2>1. Runner!Returns(k, [success |-> FALSE, signature |-> Nothing, made |-> 1])
    BY <1>2, RowSeen DEF ReturnUnexecuted
  <2>2. Runner!ReturnFailed(k)
    BY <1>0, <2>1 DEF Runner!ReturnFailed
  <2>3. QED
    BY <2>2 DEF Runner!JobStep
<1>3. CASE ReturnScored
  <2>1. PICK success \in BOOLEAN : success = (status # "fail")
    OBVIOUS
  <2>2. PICK failure \in {"none", "artifact"} :
            failure = IF status = "fail" THEN "artifact" ELSE "none"
    OBVIOUS
  <2>3. PICK repaired \in BOOLEAN : repaired = (repairs > 0 /\ status = "pass")
    OBVIOUS
  <2>4. /\ stage = "scored"
        /\ UNCHANGED <<planVars, structured, answerFile>>
        /\ Return(success, failure, repaired)
    BY <1>3, <2>1, <2>2, <2>3 DEF ReturnScored, Return
  <2>5. Runner!Returns(k, [success |-> success, signature |-> "signed", made |-> 1])
    BY <2>4, RowSeen
  <2>6. \A f \in Runner!Evidence(k) : SeenFiles[k][f] = Runner!Current
    BY <1>0, <2>4, AllEvidence
  <2>7. Runner!ReturnScored(k, success)
    BY <1>0, <2>5, <2>6 DEF Runner!ReturnScored, SeenFiles
  <2>8. QED
    BY <2>7 DEF Runner!JobStep
<1>4. QED
  BY <1>1, <1>2, <1>3

LEMMA AnswersSeen ==
    ASSUME JobInv,
           ExecuteFails \/ RepairFails \/ \E a \in Answers : Execute(a) \/ Repair(a),
           NEW k \in JobKeys, k = Key
    PROVE  Runner!JobStep(k) \/ UNCHANGED Runner!vars
<1>1. "answer" \in Runner!Kinds
  BY DEF Runner!Kinds
<1>2. Unreadable # Nothing /\ Nothing \notin Answers
  BY LoopAssumption, AnswerAssumption
<1>3. CASE RepairFails
  <2>1. UNCHANGED <<planVars, structured, answerFile, row>>
    BY <1>3 DEF RepairFails, Repairs
  <2>2. Key' = Key /\ PlanWritten' = PlanWritten /\ RunnerRow' = RunnerRow
    BY <2>1 DEF Key, planVars, PlanWritten, RunnerRow
  <2>3. SeenFiles' = SeenFiles /\ SeenJob' = SeenJob /\ SeenFuture' = SeenFuture
    BY <2>1, <2>2 DEF SeenFiles, SeenJob, SeenFuture
  <2>4. QED
    BY <2>1, <2>3, SameSeen
<1>4. CASE ExecuteFails \/ \E a \in Answers : Execute(a) \/ Repair(a)
  <2>1. /\ stage # "done"
        /\ UNCHANGED <<planVars, structured, row>>
        /\ answerFile' # Nothing
    BY <1>2, <1>4 DEF ExecuteFails, Execute, Repair, Repairs, Partial
  <2>2. row = Nothing
    BY <2>1 DEF JobInv, JobInOrder
  <2>3. Runner!WriteEvidence(k, "answer")
    BY <2>1, <2>2, AnswerSeen
  <2>4. QED
    BY <1>1, <2>3 DEF Runner!JobStep
<1>5. QED
  BY <1>3, <1>4

LEMMA StepSeen ==
    ASSUME JobInv, [Next]_vars
    PROVE  [\E k \in JobKeys : Runner!JobStep(k)]_(Runner!vars)
<1>0. PICK k \in JobKeys : k = Key
  BY JobKey
<1>1. CASE Plan
  <2>1. "plan" \in Runner!Kinds
    BY DEF Runner!Kinds
  <2>2. Runner!JobStep(k) \/ UNCHANGED Runner!vars
    BY <1>0, <1>1, <2>1, PlanSeen DEF Runner!JobStep
  <2>3. QED
    BY <2>2
<1>2. CASE ReturnUnplanned \/ ReturnUnexecuted \/ ReturnScored
  BY <1>0, <1>2, ReturnsSeen
<1>3. CASE ExecuteFails \/ RepairFails \/ \E a \in Answers : Execute(a) \/ Repair(a)
  BY <1>0, <1>3, AnswersSeen
<1>4. CASE UNCHANGED vars
  <2>1. UNCHANGED <<structured, planFiles, answerFile, row>>
    BY <1>4 DEF vars
  <2>2. Key' = Key /\ PlanWritten' = PlanWritten /\ RunnerRow' = RunnerRow
    BY <2>1 DEF Key, PlanWritten, RunnerRow
  <2>3. SeenFiles' = SeenFiles /\ SeenJob' = SeenJob /\ SeenFuture' = SeenFuture
    BY <2>1, <2>2 DEF SeenFiles, SeenJob, SeenFuture
  <2>4. QED
    BY <2>1, <2>3, SameSeen
<1>5. QED
  BY <1>1, <1>2, <1>3, <1>4 DEF Next

(* Every step of a job is one that the runner's model of a job can make,   *)
(* or changes nothing the runner sees.                                     *)
THEOREM JobImplementsRunner == Spec => ImplementsRunnerJob
<1>1. JobInv /\ [Next]_vars => [\E k \in JobKeys : Runner!JobStep(k)]_(Runner!vars)
  BY StepSeen
<1>2. QED
  BY <1>1, JobInvAlways, PTL DEF Spec, ImplementsRunnerJob

=============================================================================
