SPECIFICATION Spec
CONSTANTS
    k1 = k1
    k2 = k2
    quick = quick
    thorough = thorough
    other = other
    NoRow = NoRow
    Keys <- TwoKeys
    NeedsPlan <- PlanKeys
    Configs <- AllConfigs
    Planned <- MCPlanned
    Signature <- MCSignature
    Workers <- MCWorkers
    MaxStarts = 3
INVARIANTS
    TypeOK
    CompletedResultsKept
    EvidenceOfTheRow
    Account
PROPERTIES
    ExitZeroIsComplete
CHECK_DEADLOCK FALSE
