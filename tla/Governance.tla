----------------------------- MODULE Governance -----------------------------
(***************************************************************************)
(* What governs the rounds around the ledger: the selection of roles from  *)
(* trust and automaton (RoleGovernance), and the adapter above a ledger    *)
(* that may refuse a call (LedgerAdapter).                                 *)
(***************************************************************************)
EXTENDS RoleGovernance

CONSTANTS
    Members, Owners, Judges,          \* the adapter's participants, trainers and validators
    Settings, MaxRound, MaxFaults, None

VARIABLES
    part,                             \* which of them a behaviour is one of
    setting, ledger, parents, hashes, admissions, aggregates, counted, generation, pc,
    round, model, decided, arrived, faults

Adapter == INSTANCE LedgerAdapter WITH
    Node <- Members, Contributors <- Owners, Validators <- Judges

ASSUME LedgerAdapterAssumption == Adapter!AdapterAssumption

\* A recorded admission decides every and only committed candidate, whatever call was
\* refused (memory.py:270).
AdmissionCoversCandidates == part = "adapter" => Adapter!AdmissionCoversCandidates

\* A refusal in the middle of an adapter's call leaves no cache ahead of the ledger
\* and lets no node pass a round that is not accounted for; a mere observer of the
\* ledger is not stopped by it.
RefusalsAreContained ==
    part = "adapter" =>
        /\ Adapter!CachesBacked
        /\ Adapter!LeavesAccounted
        /\ Adapter!ObserverNeverStops

(* What the comparators of roles call proven is so, and all that is so they *)
(* call proven: the declared nodes dissented and lost their roles for it    *)
(* (compare_ca_runtime.py:72-100, compare_dynamic_trust_selection.py:56-83).*)
RoleClaimsAreTrue == part = "selection" => RuntimeProofIsAttack /\ DynamicProofIsAttack
=============================================================================
