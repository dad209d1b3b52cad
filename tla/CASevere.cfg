\* Is a severe finding against a suspicious participant remembered?
SPECIFICATION EngineSpec
CONSTANTS
    Participant <- MCPair
    Neighbors <- MCFacing
    PromotionRounds = 3
    RecoveryRounds = 3
    ExclusionRounds = 2
    ProbationRounds = 1
    CooldownRounds = 3
    MinTrusted = 0
    FractionPercent = 0
    PromotionPercent = 70
    RecoveryPercent = 60
    RecoveryEnabled = FALSE
    SevereTrustedTarget = "suspicious"
    SourceRound <- MCRounds
    TrustScore <- MCScores
INVARIANT SevereIsRemembered
CHECK_DEADLOCK FALSE
