SPECIFICATION Spec
CONSTANTS
    k1 = k1
    k2 = k2
    NoRow = NoRow
    Programs = {"ab", "runtime"}
    Keys = {k1, k2}
    Configs = {"both", "same", "other", "executor"}
    Planned <- MCPlanned
    Signature <- MCSignature
    Executor <- MCExecutor
    Workers <- MCWorkers
    Attempts <- MCAttempts
    MaxStarts = 4
INVARIANTS
    TypeOK
    AnswersStand
    ExitZeroMeansDone
PROPERTIES
    NothingGoodLost
CHECK_DEADLOCK FALSE
