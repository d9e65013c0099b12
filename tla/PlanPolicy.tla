----------------------------- MODULE PlanPolicy -----------------------------
(***************************************************************************)
(* The plan rules of evals/protocol.py and evals/constraint_policy.py:     *)
(* what makes a plan valid by itself (validate_plan) and for a case        *)
(* (validate_plan_context), the deterministic repair of a plan             *)
(* (normalize_plan_validation_issues) and the plan built when no answer of *)
(* the model was accepted (synthesize_minimal_plan).                       *)
(*                                                                         *)
(* Texts are known by what the rules look for in them: the user's terms a  *)
(* statement contains, whether a strategy reads as a failure gate, what a  *)
(* constraint aims at.  The lists of a plan are sets: no rule depends on   *)
(* their order, and a repeated entry is judged like the first.             *)
(***************************************************************************)
EXTENDS Naturals, Sequences

CONSTANTS
    Terms,      \* the words a case's constraint_terms are taken from
    TermOrder,  \* the order they are listed in
    Sentence,   \* [Terms -> SUBSET Terms] the terms of the sentence of the
                \* prompt that a term is first found in
    Aims,       \* (target, scope) pairs
    NoAim,      \* no target
    Nothing     \* no plan

ASSUME TermsAssumption ==
    /\ TermOrder \in Seq(Terms)
    /\ Terms = {TermOrder[i] : i \in DOMAIN TermOrder}
    /\ Sentence \in [Terms -> SUBSET Terms]
    /\ \A t \in Terms : t \in Sentence[t]
    /\ NoAim \notin Aims

Polarities == {"require", "forbid", "prefer", "avoid", "unknown"}

(* How the strategy, alone or with the failure action, reads to            *)
(* detect_gate_relation.                                                   *)
GateReadings == {"never", "withAction", "always"}

Constraints ==
    [terms : SUBSET Terms, type : {"hard", "enforcement"}, gate : BOOLEAN,
     reads : GateReadings, action : BOOLEAN,
     aim : Aims \cup {NoAim}, polarity : Polarities]

(* rest: the fields no repair touches are as the schema wants them, or some *)
(* are absent, or some are wrong.  A preference is the terms of its text.   *)
Plans ==
    [constraints : SUBSET Constraints, preferences : SUBSET SUBSET Terms,
     rest : {"fine", "absent", "wrong"}]

(* A case: its constraint_terms, required_gates_allowed as the runner      *)
(* computes it, the gate synthesize_minimal_plan would add, and            *)
(* soft_preference.                                                        *)
Cases == [terms : SUBSET Terms, allowed : BOOLEAN, gated : BOOLEAN, soft : BOOLEAN]

-----------------------------------------------------------------------------
(* validate_plan                                                           *)

ReadsAsGate(c) ==
    c.reads = "always" \/ (c.reads = "withAction" /\ c.action)

ConstraintStands(c) ==
    /\ ~c.gate => ~ReadsAsGate(c)               \* UNREQUESTED_FAILURE_GATE
    /\ c.gate => c.action                       \* FAILURE_ACTION_REQUIRED
    /\ c.type = "enforcement" => c.gate         \* ENFORCEMENT_GATE_REQUIRED

Opposites ==
    {<<"require", "forbid">>, <<"forbid", "require">>,
     <<"prefer", "avoid">>, <<"avoid", "prefer">>}

(* evaluate_constraint_policy: the only conflict that is an error.         *)
Conflict(c, d) ==
    /\ c.aim # NoAim
    /\ c.aim = d.aim
    /\ <<c.polarity, d.polarity>> \in Opposites

StructurallyValid(plan) ==
    /\ plan.rest = "fine"
    /\ \A c \in plan.constraints : ConstraintStands(c)
    /\ \A c, d \in plan.constraints : ~Conflict(c, d)

-----------------------------------------------------------------------------
(* validate_plan_context                                                   *)

Ungrounded(c, case) == case.terms # {} /\ c.terms \cap case.terms = {}
Unrequested(c, case) == c.gate /\ ~case.allowed

(* The terms of the user the plan answers, where it is asked to.           *)
Grounded(plan, case) ==
    case.terms \cap UNION (IF case.soft THEN plan.preferences
                           ELSE {c.terms : c \in plan.constraints})

FitsCase(plan, case) ==
    /\ \A c \in plan.constraints :
        ~Ungrounded(c, case) /\ ~Unrequested(c, case) /\ ~case.soft
    /\ Grounded(plan, case) = case.terms
    /\ case.allowed => \E c \in plan.constraints : c.gate

Valid(plan, case) == StructurallyValid(plan) /\ FitsCase(plan, case)

-----------------------------------------------------------------------------
(* normalize_plan_validation_issues, for the issues of a plan that is      *)
(* structurally valid: the runners call it for no other.                   *)

Removed(plan, case) ==
    {c \in plan.constraints : Ungrounded(c, case) \/ case.soft}

Reclassified(c) == [c EXCEPT !.type = "hard", !.gate = FALSE, !.action = FALSE]

(* Wrong: a constraint whose gate was not asked for is dropped.            *)
NormalizeDroppingGates(plan, case) ==
    [plan EXCEPT !.constraints =
        {c \in plan.constraints \ Removed(plan, case) : ~Unrequested(c, case)}]

Normalize(plan, case) ==
    [plan EXCEPT !.constraints =
        {IF Unrequested(c, case) THEN Reclassified(c) ELSE c :
            c \in plan.constraints \ Removed(plan, case)}]

(* Is anything changed?                                                    *)
Normalizable(plan, case) ==
    \E c \in plan.constraints :
        Ungrounded(c, case) \/ case.soft \/ Unrequested(c, case)

-----------------------------------------------------------------------------
(* synthesize_minimal_plan                                                 *)

EmptyPlan == [constraints |-> {}, preferences |-> {}, rest |-> "fine"]

UserConstraint(t, case) ==
    [terms |-> Sentence[t], type |-> IF case.gated THEN "enforcement" ELSE "hard",
     gate |-> case.gated, reads |-> "never", action |-> case.gated,
     aim |-> NoAim, polarity |-> "unknown"]

AddTerm(plan, t, case) ==
    IF t \in Grounded(plan, case) \/ t \notin case.terms THEN plan
    ELSE IF case.soft
         THEN [plan EXCEPT !.preferences = @ \cup {Sentence[t]}]
         ELSE [plan EXCEPT !.constraints = @ \cup {UserConstraint(t, case)}]

(* What the model's last readable plan, if any, is completed from.         *)
Foundation(last) ==
    IF last = Nothing THEN EmptyPlan
    ELSE [last EXCEPT !.rest = IF @ = "absent" THEN "fine" ELSE @]

(* Wrong: only the first missing term is added.                            *)
SynthesizeFirst(last, case) ==
    LET base == Foundation(last)
        missing == SelectSeq(TermOrder, LAMBDA t : t \in case.terms \ Grounded(base, case))
    IN IF missing = <<>> THEN base ELSE AddTerm(base, Head(missing), case)

(* The plan after the first n terms of the order.                          *)
Completed(last, case) ==
    LET completed[n \in 0 .. Len(TermOrder)] ==
            IF n = 0 THEN Foundation(last)
            ELSE AddTerm(completed[n - 1], TermOrder[n], case)
    IN completed

Synthesize(last, case) == Completed(last, case)[Len(TermOrder)]

(* The fallback: used if it adds something and is valid.                   *)
FallbackStands(last, case) ==
    /\ Synthesize(last, case) # Foundation(last)
    /\ Valid(Synthesize(last, case), case)

=============================================================================
