--------------------------- MODULE RoleGovernance ---------------------------
(***************************************************************************)
(* The feedback loop of brbfl/ledger/runtime.py around the ledger: opening *)
(* a round selects its roles from the previous round's finalized trust and *)
(* automaton snapshot (brbfl/selection/roles.py); finalizing it counts the *)
(* selected validators' votes into their Beta trust                        *)
(* (brbfl/trust/runtime.py), maps them to evidence (brbfl/ca/runtime.py)   *)
(* and steps the automaton (CARules).  The round's lifecycle in between is *)
(* RoundLedger's; here a round ends with the number of candidates on which *)
(* each selected validator's reported decision differed from the reference *)
(* decision.  Participants are numbers, so that the node id breaks ties.   *)
(***************************************************************************)
EXTENDS CARules, Sequences

CONSTANTS
    Contributors,       \* configured contributors, also the aggregators
    Validators,         \* configured (bootstrap) validators
    Eligible,           \* validator_eligible_participants: who has trust state
    Byzantine,          \* whose reported decisions may differ from the reference
    Strategies,         \* role-selection strategies an experiment may choose from
    TargetCount,        \* validators to select under "trust_ranked"
    MinTrustPercent,    \* minimum_trust
    BootstrapRounds,    \* bootstrap_rounds
    SuspiciousContribute,  \* suspicious_contributors
    Rounds              \* total_rounds of the experiment

ASSUME GovernanceAssumption ==
    /\ Participant \subseteq Nat /\ IsFiniteSet(Participant)
    /\ Contributors \subseteq Participant /\ Contributors # {}
    /\ Validators \subseteq Eligible /\ Validators # {}
    /\ Eligible \subseteq Participant /\ Byzantine \subseteq Eligible
    /\ Strategies \subseteq {"static", "trust_ranked", "ca_state"}
    /\ TargetCount \in 1..Cardinality(Eligible)
    /\ MinTrustPercent \in 0..100
    /\ BootstrapRounds \in Nat \ {0} /\ Rounds \in Nat \ {0}
    /\ SuspiciousContribute \in BOOLEAN

VARIABLES
    strategy,    \* that of the experiment
    phase,       \* "closed" between rounds, "open" in one, "failed" when selection raised
    validators,  \* per opened round, the selected validators (_assignments)
    dissent,     \* per finalized round, each selected validator's disagreements
    trust,       \* Beta counts of the eligible participants (TrustRuntime._states)
    snapshots    \* per generation, the cells (_ca_snapshots)

vars == <<strategy, phase, validators, dissent, trust, snapshots>>

Finalized == Len(dissent)           \* rounds 0..Finalized-1 are finalized
SelectedIn(r) == validators[r + 1]
DissentIn(r) == dissent[r + 1]
Generation(g) == snapshots[g + 1]
Candidates == Cardinality(Contributors)

\* The disagreements of a round's validators, whoever they are.
Dissent == UNION {[selected -> 0..Candidates] : selected \in SUBSET Participant}

Count == [alpha : Nat, beta : Nat]
Prior == [alpha |-> 1, beta |-> 1]  \* score 0.5, also of participants without trust state

TypeOK ==
    /\ strategy \in Strategies
    /\ phase \in {"closed", "open", "failed"}
    /\ validators \in Seq(SUBSET Participant)
    /\ dissent \in Seq(Dissent)
    /\ trust \in [Eligible -> Count]
    /\ snapshots \in Seq([Participant -> Cell])
    /\ Len(snapshots) = Finalized + 1
    /\ Len(validators) = Finalized + (IF phase = "open" THEN 1 ELSE 0)
    /\ \A i \in DOMAIN dissent : DOMAIN dissent[i] = validators[i]

-----------------------------------------------------------------------------
(* Selection of a round's roles. *)

Score(p) == IF p \in Eligible THEN trust[p] ELSE Prior

\* alpha/(alpha+beta) of p is greater than that of q.
ScoresHigher(p, q) ==
    Score(p).alpha * (Score(q).alpha + Score(q).beta)
        > Score(q).alpha * (Score(p).alpha + Score(p).beta)

\* Sort key (-score, node).
TrustedBefore(p, q) == ScoresHigher(p, q) \/ (~ScoresHigher(q, p) /\ p < q)

\* The first k of a pool by trust.
MostTrusted(k, pool) ==
    {p \in pool : Cardinality({q \in pool : TrustedBefore(q, p)}) < k}

\* trust_ranked: the scores offered to the selector. From round 1 on
\* open_round passes one for every participant, not one per eligible participant.
ScoreDomain == IF Finalized = 0 THEN Eligible ELSE Participant

RankedPool == {p \in Eligible : Meets(trust[p], MinTrustPercent)}

\* ca_state: position of a state in the priority order.
Priority(p) ==
    CASE Generation(Finalized)[p].state = "trusted" -> 0
      [] Generation(Finalized)[p].state = "observation" -> 1
      [] OTHER -> 2

\* Sort key (priority, -score, node).
StateBefore(p, q) ==
    \/ Priority(p) < Priority(q)
    \/ Priority(p) = Priority(q) /\ TrustedBefore(p, q)

\* The first k of a pool by state and trust.
Foremost(k, pool) ==
    {p \in pool : Cardinality({q \in pool : StateBefore(q, p)}) < k}

InState(pool, states) == {p \in pool : Generation(Finalized)[p].state \in states}

ContributorPool ==
    InState(Contributors, {"trusted", "observation"}
                            \cup IF SuspiciousContribute THEN {"suspicious"} ELSE {})

ValidatorPool == InState(Eligible, {"trusted", "observation"})

Bootstrapping == Finalized < BootstrapRounds

\* TrustRankedValidatorSelector does not raise.
RankedSelectable ==
    IF Bootstrapping THEN Cardinality(Validators) = TargetCount
    ELSE /\ ScoreDomain = Eligible
         /\ Cardinality(RankedPool) >= TargetCount

\* CAStateRoleSelector does not raise: enough of both roles, and the
\* aggregators of the static template (all contributors) stay contributors.
StateSelectable ==
    \/ Bootstrapping
    \/ /\ Cardinality(ContributorPool) >= Cardinality(Contributors)
       /\ Cardinality(ValidatorPool) >= Cardinality(Validators)
       /\ Contributors \subseteq Foremost(Cardinality(Contributors), ContributorPool)

Selectable ==
    CASE strategy = "static" -> TRUE
      [] strategy = "trust_ranked" -> RankedSelectable
      [] strategy = "ca_state" -> StateSelectable

SelectedValidators ==
    CASE strategy = "static" \/ Bootstrapping -> Validators
      [] strategy = "trust_ranked" /\ ~Bootstrapping ->
            MostTrusted(TargetCount, RankedPool)
      [] strategy = "ca_state" /\ ~Bootstrapping ->
            Foremost(Cardinality(Validators), ValidatorPool)

-----------------------------------------------------------------------------
(* What a finalized round does to trust and to the cells. *)

\* TrustRuntime.finalize_round: one vote per selected validator and candidate.
Counted(selected, disagreed) ==
    [p \in Eligible |->
        IF p \in selected
        THEN [alpha |-> trust[p].alpha + Candidates - disagreed[p],
              beta |-> trust[p].beta + disagreed[p]]
        ELSE trust[p]]

\* Mutated form: no evaluated vote passes for agreement.
CategoryUnevaluatedAgrees(p, selected, disagreed) ==
    IF p \notin selected \/ disagreed[p] = 0 THEN "positive" ELSE "severe"

\* Mutated form: any disagreement of the round taints all its validators.
CategoryOfRound(p, selected, disagreed) ==
    IF p \notin selected THEN "neutral"
    ELSE IF \A q \in selected : disagreed[q] = 0 THEN "positive" ELSE "severe"

\* FinalizedTrustEvidenceMapper.categories.
Category(p, selected, disagreed) ==
    IF p \notin selected THEN "neutral"
    ELSE IF disagreed[p] = 0 THEN "positive" ELSE "severe"

-----------------------------------------------------------------------------
Init ==
    /\ strategy \in Strategies
    /\ phase = "closed"
    /\ validators = << >>
    /\ dissent = << >>
    /\ trust = [p \in Eligible |-> Prior]
    /\ snapshots = <<[p \in Participant |-> FreshCell]>>

\* RuntimeLedgerAdapter.open_round, called once per round with effect.
OpenRound ==
    /\ phase = "closed" /\ Finalized < Rounds
    /\ Selectable
    /\ phase' = "open"
    /\ validators' = Append(validators, SelectedValidators)
    /\ UNCHANGED <<strategy, dissent, trust, snapshots>>

\* open_round raises from select_roles, outside the fail_closed guard: nothing is
\* recorded, and every later call raises for the same reason.
SelectionRaises ==
    /\ phase = "closed" /\ Finalized < Rounds
    /\ ~Selectable
    /\ phase' = "failed"
    /\ UNCHANGED <<strategy, validators, dissent, trust, snapshots>>

\* RuntimeLedgerAdapter.finalize_round after the ledger's: trust, then automaton.
FinalizeRound(disagreed) ==
    LET selected == SelectedIn(Finalized)
        counted == Counted(selected, disagreed)
        score(p) == IF p \in Eligible THEN counted[p] ELSE Prior
    IN
    /\ phase = "open"
    /\ disagreed \in [selected -> 0..Candidates]
    /\ \A p \in selected \ Byzantine : disagreed[p] = 0
    /\ phase' = "closed"
    /\ dissent' = Append(dissent, disagreed)
    /\ trust' = counted
    /\ snapshots' = Append(snapshots,
         [p \in Participant |->
            Evolved(Generation(Finalized), p, Category(p, selected, disagreed),
                    score(p), Finalized)])
    /\ UNCHANGED <<strategy, validators>>

Next ==
    \/ OpenRound
    \/ SelectionRaises
    \/ phase = "open" /\ \E disagreed \in [SelectedIn(Finalized) -> 0..Candidates] :
                             FinalizeRound(disagreed)

Spec == Init /\ [][Next]_vars

-----------------------------------------------------------------------------
Disagreed(p, r) == p \in SelectedIn(r) /\ DissentIn(r)[p] > 0
Agreed(p, r) == p \in SelectedIn(r) /\ DissentIn(r)[p] = 0
DidFinalize == 0..Finalized - 1

(* Under ca_state selection with recovery disabled a validator that once   *)
(* disagreed is never selected again after the bootstrap rounds, however   *)
(* it votes later and however scarce validators are: roles.py:335-339      *)
(* admits only trusted and observed participants, and quarantine has no    *)
(* way back.                                                               *)
DisagreementEndsValidation ==
    strategy = "ca_state" /\ ~RecoveryEnabled /\ SevereTrustedTarget = "suspicious" =>
        \A i \in DOMAIN validators, r \in DidFinalize :
            r < i - 1 /\ i - 1 >= BootstrapRounds =>
                \A p \in Participant : Disagreed(p, r) => p \notin validators[i]

(* docs/ca-runtime-validation.md:28-33: a validator that disagrees in a    *)
(* round is suspicious after it, excluded after the next one although the  *)
(* quarantine yields only neutral evidence, and remains excluded.          *)
SevereEscalates ==
    ProbationRounds <= 1 /\ ~RecoveryEnabled /\ SevereTrustedTarget = "suspicious" =>
        \A r \in DidFinalize, p \in Participant :
            /\ Disagreed(p, r)
            /\ Generation(r)[p].state \in {"trusted", "observation"}
            => /\ Generation(r + 1)[p].state = "suspicious"
               /\ \A g \in r + 2..Finalized : Generation(g)[p].state = "excluded"

(* A participant whose votes all agree with the reference never loses its  *)
(* standing, whoever it votes with and whether or not it is evaluated.     *)
HonestNeverSuspected ==
    \A g \in 0..Finalized, p \in Participant \ Byzantine :
        Generation(g)[p].state \in {"trusted", "observation"}

(* Nobody loses a role or its standing but for its own dissent, and dissent *)
(* costs both.                                                             *)
OnlyDissentIsPunished ==
    /\ DisagreementEndsValidation
    /\ SevereEscalates
    /\ HonestNeverSuspected

(* Trust is earned by votes: a trusted participant was a selected          *)
(* validator that agreed throughout in promotion_positive_rounds rounds    *)
(* running, and has not disagreed since (ca-runtime-validation.md:33-34).  *)
TrustIsEarned ==
    \A g \in 0..Finalized, p \in Participant :
        Generation(g)[p].state = "trusted" =>
            \E last \in PromotionRounds - 1..g - 1 :
                /\ \A r \in last - PromotionRounds + 1..last : Agreed(p, r)
                /\ \A r \in last + 1..g - 1 : ~Disagreed(p, r)

-----------------------------------------------------------------------------
(* The comparators that read the artifacts of a finished run, given the    *)
(* nodes its configuration declares malicious.                             *)

\* Mutated form: a comparator that takes every transition on severe evidence.
KnownSevere(p, g) ==
    LET is == Generation(g + 1)[p].state
        category == Category(p, SelectedIn(g), DissentIn(g))
    IN  \/ is = Generation(g)[p].state
        \/ category = "severe"
        \/ is \in {"trusted", "excluded"}

\* validate_runtime_artifact: the reason of p's record in round g is one it knows.
Known(p, g) ==
    LET was == Generation(g)[p]
        is == Generation(g + 1)[p].state
        category == Category(p, SelectedIn(g), DissentIn(g))
    IN  \/ is = was.state
        \/ <<was.state, is, category>> \in
              {<<"observation", "suspicious", "severe">>, <<"suspicious", "excluded", "neutral">>,
               <<"observation", "trusted", "positive">>}
        \/ <<was.state, is, category>> = <<"suspicious", "excluded", "severe">>
              /\ RepeatedNegative(was, category)

\* compare_ca_runtime of an attacked run of Rounds rounds.
RuntimeProven(malicious) ==
    /\ strategy = "ca_state" /\ Finalized = Rounds /\ malicious # {}
    /\ \A p \in Participant, g \in 0..Rounds - 1 : Known(p, g)
    /\ \A p \in malicious :
          /\ Generation(1)[p].state = "suspicious"
          /\ \A g \in 2..Rounds : Generation(g)[p].state = "excluded"
          /\ \A r \in 1..Rounds - 1 :
                p \notin SelectedIn(r) /\ (r >= 2 => p \notin Contributors)

Scored(p, alpha, votes) ==
    trust[p].alpha + trust[p].beta = votes + 2 /\ trust[p].alpha = alpha

\* compare_dynamic of an attacked run of two rounds: the scores of its causal path.
DynamicProven(malicious) ==
    /\ strategy = "trust_ranked" /\ Finalized = 2
    /\ SelectedIn(0) = Validators /\ SelectedIn(1) = Eligible \ malicious
    /\ \A p \in malicious : Scored(p, 1, Candidates)
    /\ \A p \in Validators \ malicious : Scored(p, 1 + 2 * Candidates, 2 * Candidates)
    /\ \A p \in SelectedIn(1) \ Validators : Scored(p, 1 + Candidates, Candidates)

(* The runtime comparator (compare_ca_runtime.py:72-100) claims proof      *)
(* exactly when the declared nodes, none of them a contributor, all        *)
(* disagreed in the first round and no trusted participant ever disagreed: *)
(* the three rounds of quarantine and role changes in between follow.      *)
RuntimeProofIsAttack ==
    \A malicious \in SUBSET Eligible :
        RuntimeProven(malicious) <=>
            /\ strategy = "ca_state" /\ Finalized = Rounds
            /\ malicious # {} /\ malicious \cap Contributors = {}
            /\ \A p \in malicious : Disagreed(p, 0)
            /\ \A p \in Participant, r \in DidFinalize :
                  Disagreed(p, r) => Generation(r)[p].state # "trusted"

(* The dynamic-trust comparator (compare_dynamic_trust_selection.py:56-83) *)
(* claims that low trust rotated the validators exactly when the declared  *)
(* nodes disagreed on every candidate of the first round and nobody else   *)
(* disagreed in either round; a partial dissent, which costs the same      *)
(* rotation, is refused.                                                   *)
DynamicProofIsAttack ==
    \A malicious \in SUBSET Validators :
        Cardinality(Eligible \ malicious) = TargetCount =>
            (DynamicProven(malicious) <=>
                /\ strategy = "trust_ranked" /\ Finalized = 2
                /\ \A p \in malicious : Disagreed(p, 0) /\ DissentIn(0)[p] = Candidates
                /\ \A p \in Participant \ malicious, r \in 0..1 : ~Disagreed(p, r))

\* A participant's votes by finalized round, and their sum over the first rounds.
Agreeing(p) ==
    [r \in DidFinalize |-> IF p \in SelectedIn(r) THEN Candidates - DissentIn(r)[p] ELSE 0]
Dissenting(p) == [r \in DidFinalize |-> IF p \in SelectedIn(r) THEN DissentIn(r)[p] ELSE 0]

SumOf(votes, rounds) ==
    LET sum[n \in 0..rounds] == IF n = 0 THEN 0 ELSE sum[n - 1] + votes[n - 1]
    IN  sum[rounds]

Agreements(p, rounds) == SumOf(Agreeing(p), rounds)
Disagreements(p, rounds) == SumOf(Dissenting(p), rounds)

(* Under trust_ranked selection with minimum trust one half, a participant *)
(* that has disagreed more often than agreed over all the rounds finalized *)
(* before a round is not selected for it (roles.py:205-210).               *)
MajorityDissenterOut ==
    strategy = "trust_ranked" /\ MinTrustPercent = 50 =>
        \A i \in DOMAIN validators :
            i - 1 >= BootstrapRounds =>
                \A p \in validators[i] : Agreements(p, i - 1) >= Disagreements(p, i - 1)

(* Role selection only gives up on an experiment when it must: some        *)
(* contributor disagreed as a validator, or fewer eligible participants    *)
(* never disagreed than validators are needed.                             *)
FailureIsDeserved ==
    phase = "failed" =>
        \/ \E p \in Contributors, r \in DidFinalize : Disagreed(p, r)
        \/ Cardinality({p \in Eligible : \A r \in DidFinalize : ~Disagreed(p, r)})
             < Cardinality(Validators)

(* Selection rejects nobody and nothing without a reason: it never seats   *)
(* who dissented in the majority, and gives up only when it must.          *)
SelectionIsDeserved == MajorityDissenterOut /\ FailureIsDeserved

(* Trust-ranked selection stops an experiment only for lack of trusted     *)
(* participants: roles.py:209 "insufficient participants meet              *)
(* minimum_trust".  The trust runtime always holds a score for the whole   *)
(* eligible pool, so the completeness check before it should never fail:   *)
(* not met when the pool is smaller than the network (README, section 4).  *)
RankedFailsForTrust ==
    strategy = "trust_ranked" /\ phase = "failed" /\ ~Bootstrapping =>
        TargetCount > Cardinality(RankedPool)
=============================================================================
