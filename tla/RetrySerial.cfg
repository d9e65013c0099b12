SPECIFICATION FairSpec
CONSTANTS
    t1 = t1
    t2 = t2
    t3 = t3
    Threads <- ThreeThreads
    MaxConcurrency = 1
    Cooldown = 2
    MaxAttempts = 3
    Backoff = 1
    MaxBackoff = 2
INVARIANTS
    TypeOK
    PublishedTogether
    SlotsConserved
PROPERTIES
    RecoveryBetweenCalls
    AllDone
