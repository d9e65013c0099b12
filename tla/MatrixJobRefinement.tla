------------------------- MODULE MatrixJobRefinement -------------------------
(***************************************************************************)
(* What MatrixRunner takes a job for is what MatrixJob does: every step of *)
(* a job writes evidence, returns a row or is invisible to the runner.     *)
(***************************************************************************)
EXTENDS MatrixJob

Key == IF structured THEN "structured" ELSE "plain"
JobKeys == {"structured", "plain"}

PlanWritten == \E name \in PlanNames : planFiles[name] # Nothing

RunnerRow ==
    IF row = Nothing THEN Nothing
    ELSE [success |-> row.success, made |-> 1,
          signature |-> IF row.failure \in {"none", "artifact"} THEN "signed" ELSE Nothing]

Runner == INSTANCE MatrixRunner WITH
    Keys <- JobKeys,
    NeedsPlan <- {"structured"},
    Configs <- {"command"},
    Planned <- [c \in {"command"} |-> JobKeys],
    Signature <- [c \in {"command"} |-> [k \in JobKeys |-> "signed"]],
    Workers <- [c \in {"command"} |-> 1],
    MaxStarts <- 1,
    NoRow <- Nothing,
    results <- [k \in JobKeys |-> Nothing],
    files <- [k \in JobKeys |->
                [plan |-> IF k = Key /\ PlanWritten THEN 1 ELSE 0,
                 answer |-> IF k = Key /\ answerFile # Nothing THEN 1 ELSE 0]],
    pc <- "collecting",
    commands <- <<"command">>,
    rows <- [k \in JobKeys |-> Nothing],
    job <- [k \in JobKeys |->
              IF k # Key THEN "none" ELSE IF row = Nothing THEN "running" ELSE "returned"],
    future <- [k \in JobKeys |-> IF k = Key THEN RunnerRow ELSE Nothing],
    exit <- "none",
    launched <- [k \in JobKeys |-> IF k = Key THEN 1 ELSE 0],
    collected <- [k \in JobKeys |-> Nothing]

(* Every step of a job is a step of the runner's model of a job.           *)
ImplementsRunnerJob ==
    [][\E k \in JobKeys : Runner!JobStep(k)]_(Runner!vars)

=============================================================================
