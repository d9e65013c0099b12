--------------------------- MODULE MCResumeRunner ---------------------------
(* An instance of ResumeRunner for TLC: the first command line selects     *)
(* both keys; of the others one selects the first key in the same way, one *)
(* in another, and one selects the second key and another executor.        *)
EXTENDS ResumeRunner

CONSTANTS k1, k2

MCPlanned == [c \in Configs |->
    CASE c = "both" -> {k1, k2} [] c = "executor" -> {k2} [] OTHER -> {k1}]
MCSignature == [c \in Configs |-> [k \in Keys |-> IF c = "same" THEN "both" ELSE c]]
MCExecutor == [c \in Configs |-> IF c = "executor" THEN "ollama" ELSE "codex"]
MCWorkers == [c \in Configs |-> IF c = "both" THEN 2 ELSE 1]
MCAttempts == [c \in Configs |-> IF c = "both" THEN 2 ELSE 1]

=============================================================================
