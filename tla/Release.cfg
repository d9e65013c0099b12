SPECIFICATION Spec
CONSTANTS
    case1 = case1
    case2 = case2
    r1 = r1
    r2 = r2
    Nothing = Nothing
    Refused = Refused
    Components <- MCComponents
    Compliance = "compliance"
    Behaviors <- MCBehaviors
    Policy <- MCPolicy
    Dimensions <- MCDimensions
    KeyOrder <- MCKeyOrder
    Candidates <- MCCandidates
    Payloads <- MCPayloads
    Reviewers <- MCReviewers
    CheckSteps <- MCCheckSteps
    Judgements <- MCJudgements
    Endings <- MCEndings
    Sample <- MCSample
    Configs = {"first", "second"}
    Commands <- WholeReleases
    Draws <- MCDraws
    MaxStarts = 3
    MaxFaults = 1
INVARIANTS
    TypeOK
    
    CompletePairsHold
    UnblindedRight
    
PROPERTIES
    FilledPacketsSurvive
CHECK_DEADLOCK FALSE
