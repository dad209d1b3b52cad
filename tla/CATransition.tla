---------------------------- MODULE CATransition ----------------------------
(***************************************************************************)
(* CATransitionEngine of brbfl/ca/model.py as a state machine over         *)
(* generations: every round gives each participant any category of         *)
(* evidence (the mapper is an extension point) and any trust score, and    *)
(* all the cells step together from the same previous generation.          *)
(***************************************************************************)
EXTENDS CARules

CONSTANTS
    SourceRound,    \* the source rounds a run may use
    TrustScore      \* the trust scores (pairs of Beta counts) a run may use

ASSUME EngineAssumption ==
    /\ SourceRound \subseteq Nat
    /\ TrustScore \subseteq [alpha : Nat, beta : Nat]

VARIABLES
    cells,     \* participant_states of the current snapshot
    source,    \* source_round of the current snapshot, NoRound at generation zero
    evidence   \* evidence categories of its transition_records

engineVars == <<cells, source, evidence>>

EngineTypeOK ==
    /\ cells \in [Participant -> Cell]
    /\ source \in SourceRound \cup {NoRound}
    /\ evidence \in [Participant -> EvidenceCategory]

\* CATransitionEngine.initialize without bootstrap states, as the runtime calls it.
EngineInit ==
    /\ cells = [p \in Participant |-> FreshCell]
    /\ source = NoRound
    /\ evidence = [p \in Participant |-> "neutral"]

\* CATransitionEngine.transition; the source round must advance.
Transition(round, category, trust) ==
    /\ round > source
    /\ cells' = [p \in Participant |-> Evolved(cells, p, category[p], trust[p], round)]
    /\ source' = round
    /\ evidence' = category

EngineNext ==
    \E round \in SourceRound, category \in [Participant -> EvidenceCategory],
       trust \in [Participant -> TrustScore] : Transition(round, category, trust)

EngineSpec == EngineInit /\ [][EngineNext]_engineVars

-----------------------------------------------------------------------------
(* A severe finding that is unresolved belongs to a suspicious or excluded *)
(* participant and is no later than its last change of state: the state    *)
(* invariants ParticipantCAState checks on construction never refuse a     *)
(* transition's result (model.py:69-73), whatever evidence came in and     *)
(* however often the participant recovered before.                         *)
ProvenanceBacked ==
    \A p \in Participant :
        cells[p].severe # NoRound =>
            /\ cells[p].state \in {"suspicious", "excluded"}
            /\ cells[p].severe <= cells[p].moved

(* A suspicious participant with an unresolved severe finding never stays  *)
(* suspicious past its probation (model.py:456), even when it is no longer *)
(* evaluated and its evidence is neutral.                                  *)
ProbationIsBounded ==
    \A p \in Participant :
        /\ cells[p].state = "suspicious"
        /\ cells[p].severe # NoRound
        => cells[p].held = 0 \/ cells[p].held < ProbationRounds

(* With recovery disabled (the default) a suspicious or excluded           *)
(* participant never regains a role-bearing state, and an excluded one     *)
(* stays excluded (model.py:445-467).                                      *)
ExclusionIsFinal ==
    [][~RecoveryEnabled =>
         \A p \in Participant :
            /\ cells[p].state = "excluded" => cells'[p].state = "excluded"
            /\ cells[p].state = "suspicious" =>
                 cells'[p].state \in {"suspicious", "excluded"}]_engineVars

(* A policy that asks for at least one trusted neighbour, as the default   *)
(* does (model.py:85), promotes nobody when generation zero is all         *)
(* observation, the only generation zero the runtime creates               *)
(* (ledger/runtime.py:110): support must come from a participant that is trusted  *)
(* already.                                                                *)
NobodyIsTrustedFirst ==
    MinTrusted > 0 => \A p \in Participant : cells[p].state # "trusted"

(* A severe finding is remembered until it is resolved: test_ca.py:93 says *)
(* "A validator cannot evade its severe finding by becoming unevaluable."  *)
SevereIsRemembered ==
    \A p \in Participant :
        evidence[p] = "severe" /\ cells[p].state = "suspicious" =>
            cells[p].severe # NoRound
=============================================================================
