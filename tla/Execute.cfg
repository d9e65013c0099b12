SPECIFICATION FairSpec
CONSTANTS
    structured = structured
    direct = direct
    incapable = incapable
    tests = tests
    schema = schema
    src = src
    stray = stray
    Absent = Absent
    Requests <- MCRequests
    Structured <- MCStructured
    Capable <- MCCapable
    Transport <- MCTransport
    PlanBudget <- MCPlanBudget
    ArtifactBudget <- MCArtifactBudget
    Files <- MCFiles
    Contents <- MCContents
    AllowedFiles <- MCAllowedFiles
    Validators <- MCValidators
    Required <- MCRequired
    Verdict <- MCVerdict
    MaxCrashes = 1
INVARIANTS
    TypeOK
    CallsWithinBudget
    CallsAccounted
    Ledger
    SuccessIsValidated
    NoOrphanedReads
PROPERTIES
    BaselineFrozen
    TerminalIsFinal
    ImplementsContract
    ResultFollowsCheckpoint
    EveryRunSettles
