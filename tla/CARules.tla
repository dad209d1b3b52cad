------------------------------ MODULE CARules ------------------------------
(***************************************************************************)
(* The rule of the participant cellular automaton, brbfl/ca/model.py: what *)
(* one round does to one participant's cell.  A cell reads its own         *)
(* history, its evidence and trust of the round and its neighbours' states *)
(* in the PREVIOUS generation.  A trust score is the pair of Beta counts   *)
(* it is computed from; fractions and minimum scores are percentages.      *)
(***************************************************************************)
EXTENDS Integers, FiniteSets

CONSTANTS
    Participant,
    Neighbors,             \* participant -> its direct neighbours
    PromotionRounds,       \* promotion_positive_rounds
    RecoveryRounds,        \* recovery_positive_rounds
    ExclusionRounds,       \* exclusion_negative_rounds
    ProbationRounds,       \* severe_suspicious_probation_rounds
    CooldownRounds,        \* excluded_cooldown_rounds
    MinTrusted,            \* trusted_neighbor_min_count
    FractionPercent,       \* trusted_neighbor_min_fraction
    PromotionPercent,      \* promotion_min_trust
    RecoveryPercent,       \* recovery_min_trust
    RecoveryEnabled,       \* recovery_enabled
    SevereTrustedTarget    \* severe_trusted_target

ASSUME CAPolicyAssumption ==
    /\ Neighbors \in [Participant -> SUBSET Participant]
    /\ \A p \in Participant : IsFiniteSet(Neighbors[p]) /\ p \notin Neighbors[p]
    /\ \A p \in Participant : \A q \in Neighbors[p] : p \in Neighbors[q]
    /\ {PromotionRounds, RecoveryRounds, ExclusionRounds, ProbationRounds,
        CooldownRounds, MinTrusted} \subseteq Nat
    /\ {FractionPercent, PromotionPercent, RecoveryPercent} \subseteq 0..100
    /\ RecoveryEnabled \in BOOLEAN
    /\ SevereTrustedTarget \in {"observation", "suspicious"}

ParticipantState == {"trusted", "observation", "suspicious", "excluded"}
EvidenceCategory == {"positive", "neutral", "negative", "severe"}
NoRound == -1
RoundOrNone == Nat \cup {NoRound}

Cell == [state : ParticipantState, positive : Nat, negative : Nat,
         held : Nat, moved : RoundOrNone, severe : RoundOrNone]

\* ParticipantCAState(participant_id): the defaults of a registered participant.
FreshCell == [state |-> "observation", positive |-> 0, negative |-> 0,
              held |-> 0, moved |-> NoRound, severe |-> NoRound]

Meets(trust, percent) == 100 * trust.alpha >= percent * (trust.alpha + trust.beta)

TrustedNeighbors(cells, p) == {q \in Neighbors[p] : cells[q].state = "trusted"}

\* A participant without neighbours has trusted fraction zero.
Supported(cells, p) ==
    LET trusted == Cardinality(TrustedNeighbors(cells, p)) IN
    /\ trusted >= MinTrusted
    /\ IF Neighbors[p] = {} THEN FractionPercent = 0
       ELSE 100 * trusted >= FractionPercent * Cardinality(Neighbors[p])

Positives(cell, category) == IF category = "positive" THEN cell.positive + 1 ELSE 0

Negatives(cell, category) ==
    IF category \in {"negative", "severe"} THEN cell.negative + 1 ELSE 0

Promoted(cells, p, category, trust) ==
    /\ category = "positive"
    /\ Positives(cells[p], category) >= PromotionRounds
    /\ Meets(trust, PromotionPercent)
    /\ Supported(cells, p)

Recovered(cells, p, category, trust) ==
    /\ RecoveryEnabled
    /\ category = "positive"
    /\ Positives(cells[p], category) >= RecoveryRounds
    /\ Meets(trust, RecoveryPercent)
    /\ Supported(cells, p)

RepeatedNegative(cell, category) ==
    /\ category \in {"negative", "severe"}
    /\ Negatives(cell, category) >= ExclusionRounds

\* Mutated form: Probation compared off by one round.
ProbationExpiredLate(cell) == cell.severe # NoRound /\ cell.held >= ProbationRounds

ProbationExpired(cell) == cell.severe # NoRound /\ cell.held + 1 >= ProbationRounds

NextState(cells, p, category, trust) ==
    LET cell == cells[p] IN
    CASE cell.state = "observation" ->
            IF category \in {"negative", "severe"} THEN "suspicious"
            ELSE IF Promoted(cells, p, category, trust) THEN "trusted" ELSE "observation"
      [] cell.state = "trusted" ->
            IF category = "severe" THEN SevereTrustedTarget
            ELSE IF category = "negative" THEN "observation" ELSE "trusted"
      [] cell.state = "suspicious" ->
            IF RepeatedNegative(cell, category) THEN "excluded"
            ELSE IF Recovered(cells, p, category, trust) THEN "observation"
            ELSE IF ProbationExpired(cell) THEN "excluded" ELSE "suspicious"
      [] cell.state = "excluded" ->
            IF cell.held >= CooldownRounds /\ Recovered(cells, p, category, trust)
            THEN "suspicious" ELSE "excluded"

\* Mutated form: Recovery forgets to clear the severe finding.
ProvenanceKept(cell, next, category, round) ==
    IF cell.state \in {"observation", "trusted"} /\ category = "severe" /\ next = "suspicious"
    THEN round ELSE cell.severe

\* The round of the severe finding that is still unresolved.
Provenance(cell, next, category, round) ==
    IF cell.state \in {"observation", "trusted"} /\ category = "severe" /\ next = "suspicious"
    THEN round
    ELSE IF \/ cell.state = "suspicious" /\ next = "observation"
            \/ cell.state = "excluded" /\ next = "suspicious"
    THEN NoRound ELSE cell.severe

\* One cell's step from the generation `cells`.
Evolved(cells, p, category, trust, round) ==
    LET cell == cells[p]
        next == NextState(cells, p, category, trust)
    IN  [state |-> next,
         positive |-> Positives(cell, category),
         negative |-> Negatives(cell, category),
         held |-> IF next = cell.state THEN cell.held + 1 ELSE 0,
         moved |-> IF next = cell.state THEN cell.moved ELSE round,
         severe |-> Provenance(cell, next, category, round)]
=============================================================================
