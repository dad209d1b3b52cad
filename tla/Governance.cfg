\* Roles from trust and automaton, the ledger's adapter, and the comparators of runs.
\* The selection: participants and validators of
\* configs/smoke/mnist_ca_runtime_attacked.yaml under two strategies, with two
\* contributors; validators 0, 3 and 4 may disagree.
SPECIFICATION GovernanceSpec
CONSTANTS
    Participant = {0, 1, 2, 3, 4}
    Neighbors <- Complete
    PromotionRounds = 3
    RecoveryRounds = 3
    ExclusionRounds = 2
    ProbationRounds = 1
    CooldownRounds = 3
    MinTrusted = 0
    FractionPercent = 0
    PromotionPercent = 70
    RecoveryPercent = 60
    RecoveryEnabled = FALSE
    SevereTrustedTarget = "suspicious"
    Contributors = {0, 1}
    Validators = {0, 3, 4}
    Eligible = {0, 1, 2, 3, 4}
    Byzantine = {0, 3, 4}
    Strategies = {"trust_ranked", "ca_state"}
    TargetCount = 3
    MinTrustPercent = 50
    BootstrapRounds = 1
    SuspiciousContribute = TRUE
    Rounds = 4
    Members = {n1, n2, n3}
    Owners = {n1, n2}
    Judges = {n2, n3}
    Settings <- LedgerSettings
    MaxRound = 1
    MaxFaults = 1
    None = None
    Learner = {"n1", "n2"}
    Voter = {"n2", "n3", "n4"}
    Inverter = {"n4"}
    AdmissionPolicies <- VotePolicies
    PriorCount = 1
    LastVoted = 1
    MaxLies = 1
    Peer = {0, 1, 2, 3}
    Seats = 2
    Policies <- CAPolicies
    Evaluable = {{0, 3}, {0, 2, 3}}
    Interventions = {{}, {3}, {0, 3}}
    Lengths = {1, 5}
    Trainer = {"n0", "n1", "n2"}
    Unit = 36
    AttackConfigs <- UpdateConfigs
    LastRound = 1
    MaxAbsences = 1
    MaxNoise = 1
INVARIANTS
    TrustIsEarned
    OnlyDissentIsPunished
    SelectionIsDeserved
    AdmissionCoversCandidates
    RefusalsAreContained
    RoleClaimsAreTrue
    ComparisonsAreTrue
CHECK_DEADLOCK FALSE
