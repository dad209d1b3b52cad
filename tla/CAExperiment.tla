---------------------------- MODULE CAExperiment ----------------------------
(***************************************************************************)
(* The paired automaton experiment of                                      *)
(* brbfl/experiments/compare_ca_state_transition.py: a clean and an        *)
(* attacked run of one configuration, each stepping the automaton          *)
(* (CARules) on prescribed evidence and assigning the next round's roles   *)
(* from the resulting states, and the comparator that claims the           *)
(* transitions excluded the Byzantine participants.  A run is a function   *)
(* of its configuration, which the comparator recomputes; the              *)
(* nondeterminism is in the configurations the two artifacts were made of. *)
(***************************************************************************)
EXTENDS Integers, Sequences, FiniteSets

CONSTANTS
    Peer,              \* NODES: numbers, so that the node id breaks ties
    Seats,             \* how many of the eligible nodes get a role
    Policies,          \* ca_policy
    Evaluable,         \* choices of evaluable_validators
    Interventions,     \* choices of the adversaries of a byzantine_validator attack
    Lengths            \* choices of rounds

PairAssumption ==
    /\ Lengths \subseteq Nat
    /\ Interventions \subseteq SUBSET Peer
    /\ \A policy \in Policies :
          {policy.promotion, policy.recovery, policy.exclusion, policy.probation,
           policy.cooldown} \subseteq Nat

Rules(policy) == INSTANCE CARules WITH
    Participant <- Peer, Neighbors <- [p \in Peer |-> Peer \ {p}],
    PromotionRounds <- policy.promotion, RecoveryRounds <- policy.recovery,
    ExclusionRounds <- policy.exclusion, ProbationRounds <- policy.probation,
    CooldownRounds <- policy.cooldown, MinTrusted <- 0, FractionPercent <- 0,
    PromotionPercent <- 70, RecoveryPercent <- policy.percent,
    RecoveryEnabled <- policy.recovers, SevereTrustedTarget <- "suspicious"

VARIABLES
    config,      \* the controlled fields of both runs
    attack,      \* for each run, the adversaries of its intervention
    run,         \* the run that is generated
    cells,       \* its CA snapshot
    betas,       \* its Beta counts
    rounds,      \* for each run, the rows of its artifact
    verdict      \* "none" yet, "proven", "refused" or "IndexError"

pairVars == <<config, attack, run, cells, betas, rounds, verdict>>

Run == {"clean", "attacked"}
Round == Len(rounds[run])
Fresh == [p \in Peer |-> Rules(config.policy)!FreshCell]
Priors == [p \in Peer |-> [alpha |-> 1, beta |-> 1]]

PairInit ==
    /\ config \in [policy : Policies, evaluable : Evaluable, rounds : Lengths]
    /\ attack \in [Run -> Interventions]
    /\ run = "clean" /\ verdict = "none"
    /\ cells = Fresh /\ betas = Priors
    /\ rounds = [w \in Run |-> <<>>]

-----------------------------------------------------------------------------
(* One run, round by round. *)

\* The attack shows in round 0 only; quarantined participants are not evaluated.
EvidenceOf(p) ==
    IF Round = 0 /\ p \in attack[run] THEN "severe"
    ELSE IF cells[p].state \in {"suspicious", "excluded"} THEN "neutral"
    ELSE IF p \in config.evaluable THEN "positive" ELSE "neutral"

Tallied(p, category) ==
    [alpha |-> betas[p].alpha + (IF category = "positive" THEN 1 ELSE 0),
     beta |-> betas[p].beta + (IF category = "severe" THEN 1 ELSE 0)]

\* The first Seats of the pool, in node order.
Seated(pool) == {p \in pool : Cardinality({q \in pool : q < p}) < Seats}

GenerateRound ==
    LET evidence == [p \in Peer |-> EvidenceOf(p)]
        scores == [p \in Peer |-> Tallied(p, evidence[p])]
        next == [p \in Peer |->
                   Rules(config.policy)!Evolved(cells, p, evidence[p], scores[p], Round)]
        state == [p \in Peer |-> next[p].state]
    IN
    /\ verdict = "none" /\ Round < config.rounds
    /\ cells' = next /\ betas' = scores
    /\ rounds' = [rounds EXCEPT ![run] = Append(@,
         [evidence |-> evidence, trust |-> scores, state |-> state,
          validators |-> Seated({p \in Peer : state[p] \in {"trusted", "observation"}}),
          contributors |-> Seated({p \in Peer : state[p] # "excluded"})])]
    /\ UNCHANGED <<config, attack, run, verdict>>

StartAttacked ==
    /\ run = "clean" /\ Round = config.rounds
    /\ run' = "attacked" /\ cells' = Fresh /\ betas' = Priors
    /\ UNCHANGED <<config, attack, rounds, verdict>>

-----------------------------------------------------------------------------
(* The comparison. *)

CleanRow(i) == rounds.clean[i + 1]
AttackedRow(i) == rounds.attacked[i + 1]
Less(s, t) == s.alpha * (t.alpha + t.beta) < t.alpha * (s.alpha + s.beta)
Quarantine == {"suspicious", "excluded"}

Excluded(p) ==
    /\ AttackedRow(0).evidence[p] = "severe" /\ AttackedRow(1).evidence[p] = "neutral"
    /\ Less(AttackedRow(1).trust[p], CleanRow(1).trust[p])
    /\ AttackedRow(0).state[p] = "suspicious" /\ AttackedRow(1).state[p] = "excluded"
    /\ p \notin AttackedRow(0).validators
    /\ p \notin AttackedRow(1).validators \cup AttackedRow(1).contributors

\* The assertions that make the causal claim.
Holds ==
    /\ \A p \in attack.attacked : Excluded(p)
    /\ \A p \in Peer \ attack.attacked, i \in 0..config.rounds - 1 :
          AttackedRow(i).state[p] \notin Quarantine
    /\ \A p \in Peer, i \in 0..config.rounds - 1 :
          /\ CleanRow(i).state[p] \notin Quarantine
          /\ p \notin config.evaluable => CleanRow(i).state[p] = "observation"

Compare ==
    /\ run = "attacked" /\ Round = config.rounds /\ verdict = "none"
    /\ verdict' = IF attack.attacked = {} THEN "refused"
                  ELSE IF config.rounds < 2 THEN "IndexError"
                  ELSE IF Holds THEN "proven" ELSE "refused"
    /\ UNCHANGED <<config, attack, run, cells, betas, rounds>>

PairNext == GenerateRound \/ StartAttacked \/ Compare

PairSpec == PairInit /\ [][PairNext]_pairVars

-----------------------------------------------------------------------------
PairTypeOK ==
    /\ attack \in [Run -> Interventions] /\ run \in Run
    /\ cells \in [Peer -> Rules(config.policy)!Cell]
    /\ \A w \in Run : Len(rounds[w]) <= config.rounds
    /\ verdict \in {"none", "proven", "refused", "IndexError"}

(* What the comparator calls proven holds in every round and not only in   *)
(* the two it reads (compare_ca_state_transition.py:155-183): an adversary *)
(* validates nothing after round 0 and has no role after round 1, whatever *)
(* recovery the policy allows, while every other node can always get one.  *)
ClaimHolds ==
    verdict = "proven" =>
        \A i \in 0..config.rounds - 1 :
            /\ AttackedRow(i).validators \cap attack.attacked = {}
            /\ i >= 1 => AttackedRow(i).contributors \cap attack.attacked = {}
            /\ AttackedRow(i).validators = Seated(Peer \ attack.attacked)

(* The comparator decides by the intervention alone: an attacked run of    *)
(* two or more rounds is told from a clean one whichever nodes attack, as  *)
(* long as the policy's probation is a single round.                       *)
AttackIsProven ==
    verdict \in {"proven", "refused"} =>
        (verdict = "proven" <=>
            /\ attack.clean = {} /\ attack.attacked # {}
            /\ config.policy.probation <= 1)
=============================================================================
