\* Recovery enabled, short thresholds: cells leave and re-enter every state.
SPECIFICATION EngineSpec
CONSTANTS
    Participant <- MCPair
    Neighbors <- MCFacing
    PromotionRounds = 2
    RecoveryRounds = 2
    ExclusionRounds = 2
    ProbationRounds = 2
    CooldownRounds = 1
    MinTrusted = 0
    FractionPercent = 0
    PromotionPercent = 70
    RecoveryPercent = 60
    RecoveryEnabled = TRUE
    SevereTrustedTarget = "suspicious"
    SourceRound <- MCRounds
    TrustScore <- MCScores
INVARIANTS ProvenanceBacked ProbationIsBounded
CHECK_DEADLOCK FALSE
