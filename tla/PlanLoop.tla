------------------------------ MODULE PlanLoop ------------------------------
(***************************************************************************)
(* The planning phase of a job: run_job of evals/run_matrix.py, and with   *)
(* the same code run_runtime_job of evals/run_runtime.py.  A job is one    *)
(* thread with files of its own; each action is one model call with all    *)
(* that is done with its answer.                                           *)
(***************************************************************************)
EXTENDS PlanPolicy

CONSTANTS
    JobCases,      \* the cases a job may be given
    AnswerPlans,   \* the plans the model may answer with
    PlanAttempts,  \* --plan-attempts, at least one
    Unreadable     \* an answer that is no JSON object

ASSUME LoopAssumption ==
    /\ JobCases \subseteq Cases
    /\ AnswerPlans \subseteq Plans
    /\ PlanAttempts \in Nat \ {0}
    /\ Nothing \notin Plans
    /\ Unreadable \notin Plans \cup {Nothing}

VARIABLES
    case,       \* the case of the job
    validates,  \* variant.validate_plan
    planning,   \* "open", "planned" or "exhausted"
    attempt,    \* plan calls made
    last,       \* the last plan that could be read
    plan,       \* the plan the job goes on with
    planFile,   \* the file it is found in: <<kind, attempt>>
    planFiles   \* what the plan files of the job hold

planVars == <<case, validates, planning, attempt, last, plan, planFile, planFiles>>

NoFile == <<"none", 0>>
PlanNames ==
    {<<"answer", i>> : i \in 1 .. PlanAttempts}
        \cup {<<"normalized", i>> : i \in 1 .. PlanAttempts}
        \cup {<<"fallback", 0>>}
PlanContents == Plans \cup {Unreadable, Nothing}

PlanInit ==
    /\ case \in JobCases
    /\ validates \in BOOLEAN
    /\ planning = "open"
    /\ attempt = 0
    /\ last = Nothing
    /\ plan = Nothing
    /\ planFile = NoFile
    /\ planFiles = [name \in PlanNames |-> Nothing]

(* A variant that does not validate its plan asks for it once.             *)
Attempts == IF validates THEN PlanAttempts ELSE 1

MayAsk == planning = "open" /\ attempt < Attempts

Asks ==
    /\ MayAsk
    /\ attempt' = attempt + 1
    /\ UNCHANGED <<case, validates>>

Settle(content, name) ==
    /\ planning' = "planned"
    /\ plan' = content
    /\ planFile' = name

AskAgain ==
    /\ planning' = planning
    /\ plan' = plan
    /\ planFile' = planFile

(* The call fails.  Executors write the output file all the same.          *)
PlanCallFails ==
    /\ Asks
    /\ planFiles' = [planFiles EXCEPT ![<<"answer", attempt + 1>>] = Unreadable]
    /\ AskAgain
    /\ UNCHANGED last

PlanUnreadable ==
    /\ Asks
    /\ planFiles' = [planFiles EXCEPT ![<<"answer", attempt + 1>>] = Unreadable]
    /\ IF validates THEN AskAgain ELSE Settle(Unreadable, <<"answer", attempt + 1>>)
    /\ UNCHANGED last

(* The answer is a plan that no repair applies to.                         *)
PlanRead(p) ==
    /\ Asks
    /\ ~(StructurallyValid(p) /\ Normalizable(p, case))
    /\ planFiles' = [planFiles EXCEPT ![<<"answer", attempt + 1>>] = p]
    /\ last' = p
    /\ IF validates /\ ~Valid(p, case)
       THEN AskAgain ELSE Settle(p, <<"answer", attempt + 1>>)

(* Wrong: the row goes on naming the answer of the model.                  *)
NormalizedNamesAnswer(p) ==
    LET repaired == Normalize(p, case) IN
    /\ Asks
    /\ StructurallyValid(p)
    /\ Normalizable(p, case)
    /\ planFiles' = [planFiles EXCEPT ![<<"answer", attempt + 1>>] = p,
                                      ![<<"normalized", attempt + 1>>] = repaired]
    /\ last' = repaired
    /\ IF validates /\ ~Valid(repaired, case)
       THEN AskAgain ELSE Settle(repaired, <<"answer", attempt + 1>>)

(* Wrong: a repaired plan is not validated again.                          *)
NormalizedUnchecked(p) ==
    LET repaired == Normalize(p, case) IN
    /\ Asks
    /\ StructurallyValid(p)
    /\ Normalizable(p, case)
    /\ planFiles' = [planFiles EXCEPT ![<<"answer", attempt + 1>>] = p,
                                      ![<<"normalized", attempt + 1>>] = repaired]
    /\ last' = repaired
    /\ Settle(repaired, <<"normalized", attempt + 1>>)

(* The answer is repaired, the repaired plan kept in a file of its own and *)
(* validated again.                                                        *)
PlanNormalized(p) ==
    LET repaired == Normalize(p, case) IN
    /\ Asks
    /\ StructurallyValid(p)
    /\ Normalizable(p, case)
    /\ planFiles' = [planFiles EXCEPT ![<<"answer", attempt + 1>>] = p,
                                      ![<<"normalized", attempt + 1>>] = repaired]
    /\ last' = repaired
    /\ IF validates /\ ~Valid(repaired, case)
       THEN AskAgain ELSE Settle(repaired, <<"normalized", attempt + 1>>)

NoPlanAccepted ==
    /\ planning = "open"
    /\ attempt = Attempts
    /\ UNCHANGED <<case, validates, attempt, last>>

PlanFallback ==
    /\ NoPlanAccepted
    /\ FallbackStands(last, case)
    /\ planFiles' = [planFiles EXCEPT ![<<"fallback", 0>>] = Synthesize(last, case)]
    /\ Settle(Synthesize(last, case), <<"fallback", 0>>)

PlanExhausted ==
    /\ NoPlanAccepted
    /\ ~FallbackStands(last, case)
    /\ planning' = "exhausted"
    /\ UNCHANGED <<plan, planFile, planFiles>>

PlanNext ==
    \/ PlanCallFails
    \/ PlanUnreadable
    \/ MayAsk /\ \E p \in AnswerPlans : PlanRead(p) \/ PlanNormalized(p)
    \/ PlanFallback
    \/ PlanExhausted

PlanSpec == PlanInit /\ [][PlanNext]_planVars

-----------------------------------------------------------------------------
PlanTypeOK ==
    /\ case \in JobCases
    /\ validates \in BOOLEAN
    /\ planning \in {"open", "planned", "exhausted"}
    /\ attempt \in 0 .. PlanAttempts
    /\ last \in Plans \cup {Nothing}
    /\ plan \in PlanContents
    /\ planFile \in PlanNames \cup {NoFile}
    /\ planFiles \in [PlanNames -> PlanContents]

(* A job that validates its plan never goes on with one that breaks the    *)
(* plan rules or the case's constraints, whichever way the plan came about. *)
ExecutesValidPlan ==
    planning = "planned" /\ validates => plan \in Plans /\ Valid(plan, case)

(* The plan file a row names as evidence holds the plan the job used.      *)
PlanEvidence ==
    planning = "planned" => planFiles[planFile] = plan

(* Can the rules be met at all?  Not by a case that names no constraint,   *)
(* nor by one whose gate is wanted and not allowed, or allowed beside a    *)
(* soft preference only.                                                   *)
Coherent(c) ==
    c.terms # {} /\ (IF c.soft THEN ~c.allowed ELSE c.gated = c.allowed)

(* Planning fails only over what the model's plan holds: when no answer    *)
(* could be read, a coherent case still gets a plan.                       *)
FailureIsTheAnswers ==
    planning = "exhausted" => last # Nothing \/ ~Coherent(case)

(* Repairing a plan never loses a constraint of the user that it answered. *)
RepairKeepsTerms ==
    \A i \in 1 .. PlanAttempts :
        LET answer == planFiles[<<"answer", i>>]
            repaired == planFiles[<<"normalized", i>>]
        IN repaired # Nothing => Grounded(repaired, case) = Grounded(answer, case)

=============================================================================
