---------------------------- MODULE MCRuntimeJob ----------------------------
(* Instances of RuntimeJob for TLC.                                        *)
EXTENDS RuntimeJob

CONSTANTS main, Main, readme, other, old, new, huge

MCPaths == {main, Main, readme, other}
MCFiles == {main, Main, readme}
MCFold == [p \in MCPaths |-> IF p = Main THEN main ELSE p]
MCContents == {old, new, huge}

(* Two new files are too much for one bundle.                              *)
MCSize == [c \in MCContents |-> IF c = old THEN 1 ELSE IF c = new THEN 2 ELSE 3]

(* The program must be new; a readme alone cannot be judged.               *)
MCHasErrors == [w \in Workspaces |-> w[main] # new]
MCHasUnsupported == [w \in Workspaces |-> w[readme] = old]

=============================================================================
