--------------------------- MODULE MCMatrixRunner ---------------------------
(* Instances of MatrixRunner for TLC.                                      *)
EXTENDS MatrixRunner

CONSTANTS k1, k2, quick, thorough, other

TwoKeys == {k1, k2}
OneKey == {k1}
PlanKeys == {k1}

(* thorough differs from quick in its budgets, which signature() leaves    *)
(* out, and has one worker only; other runs one key under another model    *)
(* setting.                                                                *)
AllConfigs == {quick, thorough, other}
SignedConfigs == {quick, other}
BudgetConfigs == {quick, thorough}
MCWorkers == [c \in Configs |-> IF c = thorough THEN 1 ELSE 2]
MCPlanned == [c \in Configs |-> IF c = other THEN {k1} ELSE Keys]
MCSignature ==
    [c \in Configs |-> [k \in Keys |-> IF c = other THEN "other" ELSE "same"]]

=============================================================================
