SPECIFICATION Spec
CONSTANTS
    t1 = t1
    t2 = t2
    t3 = t3
    Threads <- TwoThreads
    MaxConcurrency = 2
    Cooldown = 2
    MaxAttempts = 1
    Backoff = 1
    MaxBackoff = 2
PROPERTIES
    RecoveryBetweenCalls
