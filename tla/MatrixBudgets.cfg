SPECIFICATION Spec
CONSTANTS
    k1 = k1
    k2 = k2
    quick = quick
    thorough = thorough
    other = other
    NoRow = NoRow
    Keys <- OneKey
    NeedsPlan <- PlanKeys
    Configs <- BudgetConfigs
    Planned <- MCPlanned
    Signature <- MCSignature
    Workers <- MCWorkers
    MaxStarts = 2
PROPERTIES
    RowsOfThisConfiguration
CHECK_DEADLOCK FALSE
