---------------------------- MODULE RoundContract ----------------------------
(***************************************************************************)
(* What a ledger backend promises of the rounds of an experiment, whatever *)
(* its records and its log are: brbfl/ledger/base.py, BlockchainLedger,    *)
(* as InMemoryLedger implements it.  A round settles once which            *)
(* contributors are admitted, then which model they make together, then    *)
(* who holds that model; it is done when all required participants hold    *)
(* it, and only then does the next round begin.                            *)
(***************************************************************************)
EXTENDS Naturals

CONSTANTS Node, MaxRound, Hash, None

Round == 0..MaxRound

VARIABLES
    required, \* who has to hold the model of a round, None when not yet fixed
    admitted, \* the admitted contributors of a round, None when not yet settled
    model,    \* the hash of the round's model, None when not yet settled
    holders,  \* the participants known to hold it
    done      \* the round is final

contractVars == <<required, admitted, model, holders, done>>

Init ==
    /\ required \in (SUBSET Node) \cup {None}
    /\ admitted = [r \in Round |-> None]
    /\ model = [r \in Round |-> None]
    /\ holders = [r \in Round |-> {}]
    /\ done = [r \in Round |-> FALSE]

Current(r) == ~done[r] /\ (r > 0 => done[r - 1])

Start(S) ==
    /\ required = None
    /\ required' = S
    /\ UNCHANGED <<admitted, model, holders, done>>

Admit(r, S) ==
    /\ Current(r)
    /\ admitted[r] = None
    /\ admitted' = [admitted EXCEPT ![r] = S]
    /\ UNCHANGED <<required, model, holders, done>>

\* The model of a round is settled, as whichever hash.
Settles(r) ==
    /\ model'[r] \in Hash
    /\ model' = [model EXCEPT ![r] = model'[r]]

Agree(r) ==
    /\ Current(r)
    /\ admitted[r] # None
    /\ model[r] = None
    /\ Settles(r)
    /\ UNCHANGED <<required, admitted, holders, done>>

\* The first holder may settle the model in the same step.
Hold(r, n) ==
    /\ Current(r)
    /\ admitted[r] # None
    /\ Settles(r)
    /\ model[r] \in {None, model'[r]}
    /\ holders' = [holders EXCEPT ![r] = @ \cup {n}]
    /\ UNCHANGED <<required, admitted, done>>

Finish(r) ==
    /\ Current(r)
    /\ model[r] # None
    /\ required \subseteq holders[r]
    /\ done' = [done EXCEPT ![r] = TRUE]
    /\ UNCHANGED <<required, admitted, model, holders>>

Next ==
    \/ \E S \in SUBSET Node : Start(S)
    \/ \E r \in Round :
          \/ \E S \in SUBSET Node : Admit(r, S)
          \/ Agree(r)
          \/ \E n \in Node : Hold(r, n)
          \/ Finish(r)

Spec == Init /\ [][Next]_contractVars

=============================================================================
