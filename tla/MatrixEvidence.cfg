SPECIFICATION Spec
CONSTANTS
    k1 = k1
    k2 = k2
    quick = quick
    thorough = thorough
    other = other
    NoRow = NoRow
    Keys <- OneKey
    NeedsPlan <- PlanKeys
    Configs <- SignedConfigs
    Planned <- MCPlanned
    Signature <- MCSignature
    Workers <- MCWorkers
    MaxStarts = 3
PROPERTIES
    EvidenceNotMixed
CHECK_DEADLOCK FALSE
