---------------------------- MODULE MCGovernance ----------------------------
(***************************************************************************)
(* What governs the rounds around the ledger, and the comparators that     *)
(* claim from the artifacts of a clean and an attacked run that it worked, *)
(* for TLC.  A behaviour is one of three: the selection of roles from      *)
(* trust and automaton, the adapter above a ledger that may refuse a call, *)
(* or a comparison.  The variables a part does not use stay 0 or, of the   *)
(* selection, as at the start of an experiment.                            *)
(***************************************************************************)
EXTENDS Governance, Comparisons

selectionOnly == <<strategy, phase, trust, validators, dissent, snapshots>>
adapterOnly == <<setting, ledger, parents, hashes, admissions, aggregates, counted, generation,
                 pc, round, model, decided, arrived, faults>>
governanceVars == <<part, selectionOnly, adapterOnly, comparisonVars>>

-----------------------------------------------------------------------------
(* Of the selection: five participants, all connected.                      *)

Complete == [p \in Participant |-> Participant \ {p}]

(* Two trainers, two validators, two rounds and one failed call, under every *)
(* setting that RuntimeLedgerConfig allows.                                  *)

LedgerSettings ==
    {s \in [failClosed : BOOLEAN, trust : BOOLEAN, ca : BOOLEAN, odd : BOOLEAN] : s.ca => s.trust}

(* Two contributors, three validators of which one inverts its votes, and   *)
(* policies under which that does and does not change an admission.         *)

VotePolicies ==
    {[quorum |-> 3, threshold |-> t, rejects |-> r] : t \in {1, 2, 3}, r \in {{}, {"n2"}}}

(* Four nodes with two seats; policies around that of the smoke             *)
(* configuration.                                                           *)

CAPolicies == [promotion : {1, 3}, recovery : {1, 2}, exclusion : {1, 2}, probation : {1, 2},
               cooldown : {1, 2}, percent : {40, 60}, recovers : BOOLEAN]

(* Three nodes, two rounds; small moves in both directions, and none.       *)

Adversaries(kind) == IF kind = "collusion" THEN {"n1", "n2"} ELSE {"n1"}
UpdateConfigs ==
    {[kind |-> kind, adversaries |-> Adversaries(kind), initial |-> initial,
      moves |-> moves, idle |-> idle, lure |-> -1, direction |-> <<1, -1>>] :
        kind \in {"sign_flipping", "free_rider", "collusion", "backdoor", "label_flipping"},
        initial \in 0..1, moves \in {f \in [Trainer -> -1..1] : f["n0"] # 0},
        idle \in {{}, {"n0"}, {"n1"}}}

-----------------------------------------------------------------------------

NoSelection ==
    /\ strategy = "ca_state" /\ phase = "closed" /\ trust = 0 /\ validators = << >>
    /\ dissent = << >> /\ snapshots = <<[p \in Participant |-> FreshCell]>>
NoAdapter ==
    /\ setting = 0 /\ ledger = 0 /\ parents = 0 /\ hashes = 0 /\ admissions = 0
    /\ aggregates = 0 /\ counted = 0 /\ generation = 0 /\ pc = 0 /\ round = 0 /\ model = 0
    /\ decided = 0 /\ arrived = 0 /\ faults = 0

GovernanceInit ==
    \/ part = "selection" /\ Init /\ NoAdapter /\ NoComparison
    \/ part = "adapter" /\ Adapter!Init /\ NoSelection /\ NoComparison
    \/ part = "comparison" /\ ComparisonInit /\ NoSelection /\ NoAdapter

SelectionStep ==
    /\ part = "selection" /\ Next
    /\ UNCHANGED <<part, adapterOnly, comparisonVars>>
AdapterStep ==
    /\ part = "adapter" /\ Adapter!Next
    /\ UNCHANGED <<part, selectionOnly, comparisonVars>>
ComparisonStep ==
    /\ part = "comparison" /\ ComparisonNext
    /\ UNCHANGED <<part, selectionOnly, adapterOnly>>

GovernanceNext == SelectionStep \/ AdapterStep \/ ComparisonStep

GovernanceSpec == GovernanceInit /\ [][GovernanceNext]_governanceVars
=============================================================================
