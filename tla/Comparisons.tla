---------------------------- MODULE Comparisons ----------------------------
(***************************************************************************)
(* The comparators of brbfl/experiments, each with the pair of runs it     *)
(* reads: of inverted votes under the gate (CausalComparison), of the      *)
(* automaton (CAExperiment), of attacks on training (EvidenceComparison).  *)
(* A behaviour is one comparison of one of them.  The variables that mean  *)
(* the same in several are shared; those a comparison does not use rest.   *)
(***************************************************************************)
EXTENDS CAExperiment

CONSTANTS
    Learner, Voter, Inverter,          \* votes: who trains, who votes, who inverts its votes
    AdmissionPolicies, PriorCount, LastVoted, MaxLies,
    Trainer, Unit, AttackConfigs, LastRound, MaxAbsences,                \* updates
    MaxNoise                                                             \* votes, updates

VARIABLES
    compared,                          \* "votes", "cells", "updates"; "none" elsewhere
    policy, fits, candidates, artifact, lies,                            \* votes
    global, noise,                                                       \* votes, updates
    absences                                                             \* updates

Votes == INSTANCE CausalComparison WITH
    Contributor <- Learner, Validator <- Voter, Byzantine <- Inverter,
    Policies <- AdmissionPolicies, Prior <- PriorCount, MaxRound <- LastVoted,
    phase <- verdict, rows <- candidates, trust <- betas

Updates == INSTANCE EvidenceComparison WITH
    Node <- Trainer, Configs <- AttackConfigs, model <- global

ASSUME ComparatorAssumption ==
    /\ PairAssumption /\ Votes!ComparisonAssumption /\ Updates!EvidenceAssumption

votesOnly == <<policy, fits, candidates, artifact, lies>>
comparisonVars == <<compared, votesOnly, attack, cells, absences, config, betas, global, noise,
                    run, rounds, verdict>>

NoVotes == policy = 0 /\ fits = 0 /\ candidates = 0 /\ artifact = 0 /\ lies = 0
NoCells == attack = 0 /\ cells = 0
NoModels == global = 0 /\ noise = 0
NoComparison ==
    /\ compared = "none" /\ NoVotes /\ NoCells /\ NoModels
    /\ absences = 0 /\ config = 0 /\ betas = 0 /\ run = 0 /\ rounds = 0 /\ verdict = 0

ComparisonInit ==
    \/ compared = "votes" /\ Votes!Init /\ NoCells /\ absences = 0 /\ config = 0
    \/ compared = "cells" /\ PairInit /\ NoVotes /\ absences = 0 /\ NoModels
    \/ compared = "updates" /\ Updates!Init /\ NoVotes /\ NoCells /\ betas = 0

VotesStep ==
    /\ compared = "votes" /\ Votes!Next
    /\ UNCHANGED <<compared, attack, cells, absences, config>>
CellsStep ==
    /\ compared = "cells" /\ PairNext
    /\ UNCHANGED <<compared, votesOnly, absences, global, noise>>
UpdatesStep ==
    /\ compared = "updates" /\ Updates!Next
    /\ UNCHANGED <<compared, votesOnly, attack, cells, betas>>

ComparisonNext == VotesStep \/ CellsStep \/ UpdatesStep

ComparisonSpec == ComparisonInit /\ [][ComparisonNext]_comparisonVars

-----------------------------------------------------------------------------
(* What a comparator calls proven is so, and what it refuses deserves it.  *)
(* Votes: the inverted votes turned an admission over and are the first    *)
(* cause of another model, a genuine pair in which they do is proven, and  *)
(* the trust that is told is what the votes cost                           *)
(* (compare_byzantine_validator.py:219, compare_byzantine_validator_trust).*)
(* Automaton: the adversaries, and only they, are kept out in every round, *)
(* unless the policy grants a longer probation or nobody attacked          *)
(* (compare_ca_state_transition.py:155-183).  Updates: the attack took     *)
(* effect in every round, and a refused one was void (compare_collusion.py *)
(* and its siblings).                                                      *)
ComparisonsAreTrue ==
    /\ compared = "votes" => Votes!ProvenIsCaused /\ Votes!GenuineIsProven /\ Votes!TrustIsTold
    /\ compared = "cells" => ClaimHolds /\ AttackIsProven
    /\ compared = "updates" => Updates!AttackInEveryRound /\ Updates!RefusalIsDeserved
=============================================================================
