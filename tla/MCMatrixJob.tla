----------------------------- MODULE MCMatrixJob -----------------------------
(* Instances of MatrixJob for TLC.                                         *)
EXTENDS MatrixJobRefinement, FiniteSets

CONSTANTS redis, orm, database, good, plain, bad

MCTerms == {redis, orm}
MCTermOrder == <<redis, orm>>
MCSentence == [t \in MCTerms |-> IF t = orm THEN {orm, redis} ELSE {redis}]
MCAims == {database}

(* Every case either runner can be given: with a gate allowed, one is      *)
(* wanted.                                                                 *)
MCJobCases ==
    {c \in [terms : {{}, {redis}, {redis, orm}}, allowed : BOOLEAN,
            gated : BOOLEAN, soft : BOOLEAN] : c.allowed => c.gated}

Few(S, n) == {T \in SUBSET S : Cardinality(T) <= n}

Ungated(ts) == [terms |-> ts, type |-> "hard", gate |-> FALSE, reads |-> "never",
                action |-> FALSE, aim |-> NoAim, polarity |-> "forbid"]
Gated(ts, r) == [terms |-> ts, type |-> "enforcement", gate |-> TRUE, reads |-> r,
                 action |-> TRUE, aim |-> NoAim, polarity |-> "forbid"]
Aimed(p) == [Ungated({redis}) EXCEPT !.aim = database, !.polarity = p]

MixedConstraints ==
    {Ungated({}), Ungated({redis}), Ungated({orm}), Gated({redis}, "never"),
     Gated({orm}, "withAction"), Gated({redis, orm}, "always"),
     [Gated({redis, orm}, "withAction") EXCEPT !.type = "hard"],
     Aimed("require"), Aimed("forbid")}

(* Plans to be taken as they are, repaired, repaired in vain, completed    *)
(* and refused.                                                            *)
MixedPlans ==
    [constraints : Few(MixedConstraints, 2), preferences : {{}}, rest : {"fine", "absent"}]
        \cup [constraints : {{}}, preferences : {{{redis, orm}}}, rest : {"fine", "wrong"}]

MCAnswers == {good, plain, bad}
MCScore == [a \in MCAnswers |->
              CASE a = good -> "pass" [] a = plain -> "unsupported" [] OTHER -> "fail"]

=============================================================================
