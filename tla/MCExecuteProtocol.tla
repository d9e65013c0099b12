-------------------------- MODULE MCExecuteProtocol --------------------------
(* Instances of ExecuteProtocol for TLC.                                   *)
EXTENDS ExecuteRefinement

CONSTANTS structured, direct, incapable, tests, schema, src, stray

MCRequests == {structured, direct, incapable}
OneRequest == {structured}
MCFiles == {src, stray}
MCContents == {"old", "good"}
MCAllowedFiles == {src}
MCValidators == {tests, schema}
MCRequired == {tests, schema}

MCStructured == [r \in Requests |-> r # direct]
MCCapable == [r \in Requests |-> r # incapable]
MCTransport == [r \in Requests |-> IF r = direct THEN 2 ELSE 1]
MCPlanBudget == [r \in Requests |-> IF r = structured THEN 2 ELSE 1]
MCArtifactBudget == [r \in Requests |-> IF r = structured THEN 2 ELSE 0]

(* The tests pass on the good source; the schema check has no              *)
(* deterministic answer when the stray file is good.                       *)
MCVerdict ==
    [v \in MCValidators |->
        [w \in [MCFiles -> MCContents] |->
            IF v = tests THEN IF w[src] = "good" THEN "pass" ELSE "fail"
            ELSE IF w[stray] = "good" THEN "unsupported" ELSE "pass"]]

=============================================================================
