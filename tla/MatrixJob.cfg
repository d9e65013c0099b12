SPECIFICATION Spec
CONSTANTS
    redis = redis
    orm = orm
    database = database
    good = good
    plain = plain
    bad = bad
    NoAim = NoAim
    Nothing = Nothing
    Unreadable = Unreadable
    Terms <- MCTerms
    TermOrder <- MCTermOrder
    Sentence <- MCSentence
    Aims <- MCAims
    JobCases <- MCJobCases
    AnswerPlans <- MixedPlans
    PlanAttempts = 2
    Answers <- MCAnswers
    Score <- MCScore
    ArtifactAttempts = 2
INVARIANTS
    TypeOK
    ExecutesValidPlan
    PlanEvidence
    FailureIsTheAnswers
    RepairKeepsTerms
    AnswerEvidence
PROPERTIES
    ImplementsRunnerJob
CHECK_DEADLOCK FALSE
