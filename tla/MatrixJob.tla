------------------------------ MODULE MatrixJob ------------------------------
(***************************************************************************)
(* One job of the experiment matrix: run_job of evals/run_matrix.py.  It   *)
(* plans if its variant does (PlanLoop), asks for the answer, scores it,   *)
(* and asks for repairs as long as the score has errors.                   *)
(***************************************************************************)
EXTENDS PlanLoop

CONSTANTS
    Answers,          \* the answers the model may give
    Score,            \* [Answers -> Statuses] artifact_errors
    ArtifactAttempts  \* --artifact-attempts

Statuses == {"pass", "fail", "unsupported"}

ASSUME AnswerAssumption ==
    /\ Score \in [Answers -> Statuses]
    /\ Nothing \notin Answers
    /\ ArtifactAttempts \in Nat

VARIABLES
    structured,  \* variant.structured_plan
    mends,       \* variant.repair_artifact
    stage,       \* "plan", "execute", "scored", "failed" or "done"
    response,    \* the answer the job holds
    answerFile,  \* the answer file
    status,      \* the status of the last score
    errors,      \* did that score have errors?
    repairs,     \* repair calls made
    mended,      \* history: a repair call succeeded
    row          \* what the job returns

jobVars == <<structured, mends, stage, response, answerFile, status, errors,
             repairs, mended, row>>
vars == <<case, validates, planning, attempt, last, plan, planFile, planFiles,
          structured, mends, stage, response, answerFile, status, errors,
          repairs, mended, row>>

(* <<structured_plan, validate_plan, repair_artifact>> of VARIANTS.        *)
Variants ==
    {<<FALSE, FALSE, FALSE>>, <<TRUE, FALSE, FALSE>>,
     <<TRUE, TRUE, FALSE>>, <<TRUE, TRUE, TRUE>>}

Partial == Unreadable

Rows ==
    [success : BOOLEAN, failure : {"none", "plan", "execute", "artifact"},
     status : Statuses \cup {"none"}, repaired : BOOLEAN]

(* No row yet is told apart from every row.                                *)
ASSUME NoRowAssumption == Nothing \notin Rows

Init ==
    /\ PlanInit
    /\ \E v \in Variants : structured = v[1] /\ validates = v[2] /\ mends = v[3]
    /\ stage = IF structured THEN "plan" ELSE "execute"
    /\ response = Nothing
    /\ answerFile = Nothing
    /\ status = "none"
    /\ errors = FALSE
    /\ repairs = 0
    /\ mended = FALSE
    /\ row = Nothing

Return(success, failure, repaired) ==
    /\ stage' = "done"
    /\ row' = [success |-> success, failure |-> failure,
               status |-> status, repaired |-> repaired]

Plan ==
    /\ stage = "plan"
    /\ planning = "open"
    /\ PlanNext
    /\ stage' = IF planning' = "planned" THEN "execute" ELSE "plan"
    /\ UNCHANGED <<structured, mends, response, answerFile, status, errors, repairs,
                   mended, row>>

(* Wrong: a row without an answer is signed.                               *)
ReturnUnplannedSigned ==
    /\ stage = "plan"
    /\ planning = "exhausted"
    /\ Return(FALSE, "artifact", FALSE)
    /\ UNCHANGED <<planVars, structured, mends, response, answerFile, status, errors,
                   repairs, mended>>

ReturnUnplanned ==
    /\ stage = "plan"
    /\ planning = "exhausted"
    /\ Return(FALSE, "plan", FALSE)
    /\ UNCHANGED <<planVars, structured, mends, response, answerFile, status, errors,
                   repairs, mended>>

ExecuteFails ==
    /\ stage = "execute"
    /\ stage' = "failed"
    /\ answerFile' = Partial
    /\ UNCHANGED <<planVars, structured, mends, response, status, errors, repairs,
                   mended, row>>

ReturnUnexecuted ==
    /\ stage = "failed"
    /\ Return(FALSE, "execute", FALSE)
    /\ UNCHANGED <<planVars, structured, mends, response, answerFile, status, errors,
                   repairs, mended>>

(* The answer a score is taken of.                                         *)
Scored(a) ==
    /\ response' = a
    /\ status' = Score[a]
    /\ errors' = (Score[a] = "fail")

Execute(a) ==
    /\ stage = "execute"
    /\ stage' = "scored"
    /\ answerFile' = a
    /\ Scored(a)
    /\ UNCHANGED <<planVars, structured, mends, repairs, mended, row>>

(* Wrong: off by one.                                                      *)
RepairsOnceMore ==
    /\ stage = "scored"
    /\ mends
    /\ errors
    /\ repairs <= ArtifactAttempts
    /\ repairs' = repairs + 1
    /\ UNCHANGED <<planVars, structured, mends, stage, row>>

(* choose_retry never says stop within the loop: attempt < max_attempts.   *)
Repairs ==
    /\ stage = "scored"
    /\ mends
    /\ errors
    /\ repairs < ArtifactAttempts
    /\ repairs' = repairs + 1
    /\ UNCHANGED <<planVars, structured, mends, stage, row>>

RepairFails ==
    /\ Repairs
    /\ UNCHANGED <<response, answerFile, status, errors, mended>>

(* Wrong: the repaired answer stays in its own file.                       *)
RepairUnsaved(a) ==
    /\ Repairs
    /\ mended' = TRUE
    /\ Scored(a)
    /\ UNCHANGED answerFile

(* A repair goes to a file of its own and, from there, over the answer.    *)
Repair(a) ==
    /\ Repairs
    /\ mended' = TRUE
    /\ answerFile' = a
    /\ Scored(a)

ReturnScored ==
    /\ stage = "scored"
    /\ ~mends \/ ~errors \/ repairs = ArtifactAttempts
    /\ Return(status # "fail", IF status = "fail" THEN "artifact" ELSE "none",
              repairs > 0 /\ status = "pass")
    /\ UNCHANGED <<planVars, structured, mends, response, answerFile, status, errors,
                   repairs, mended>>

Next ==
    \/ Plan
    \/ ReturnUnplanned
    \/ ExecuteFails
    \/ ReturnUnexecuted
    \/ \E a \in Answers : Execute(a) \/ Repair(a)
    \/ RepairFails
    \/ ReturnScored

Spec == Init /\ [][Next]_vars

-----------------------------------------------------------------------------
(* The types of the state.                                                 *)
TypeOK ==
    /\ PlanTypeOK
    /\ <<structured, validates, mends>> \in Variants
    /\ stage \in {"plan", "execute", "scored", "failed", "done"}
    /\ response \in Answers \cup {Nothing}
    /\ answerFile \in Answers \cup {Nothing, Partial}
    /\ status \in Statuses \cup {"none"}
    /\ errors \in BOOLEAN
    /\ repairs \in 0 .. ArtifactAttempts
    /\ mended \in BOOLEAN
    /\ row \in Rows \cup {Nothing}

(* A scored row and the answer file it names as evidence agree, through    *)
(* repairs that fail, that change nothing and that make things worse; a    *)
(* row is called repaired only after a repair turned a failing answer into *)
(* a passing one.                                                          *)
AnswerEvidence ==
    row # Nothing /\ row.failure \in {"none", "artifact"} =>
        /\ row.status = Score[answerFile]
        /\ row.success = (Score[answerFile] # "fail")
        /\ row.repaired => mended /\ Score[answerFile] = "pass"

=============================================================================
