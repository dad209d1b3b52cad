--------------------------- MODULE AdmissionPolicy ---------------------------
(***************************************************************************)
(* The values the rounds of a gated experiment are computed from: the      *)
(* validators' verdict on a candidate (byzantine_gate.py) and the model an *)
(* aggregator makes of its pool (fedavg.py).                               *)
(***************************************************************************)
EXTENDS Naturals, Sequences, FiniteSets, SequencesExt

CONSTANTS
    Node,       \* participants
    Experiments \* what an experiment may be, a record for each: the contributors of
                \* the policy, who are the eligible trainers, the validators of the
                \* frozen assignment, the byzantine ones, the candidates the reference
                \* rule rejects, quorum and acceptance threshold; the last round;
                \* whether FedAvg merges the models it gossips; and as BOUNDS whether
                \* gossip may give up early and the timeouts of the waits may fire

\* AdmissionPolicy.__post_init__; the barrier waits for exactly the
\* contributors and the validators of the policy.
ASSUME PolicyAssumption ==
    \A e \in Experiments :
        /\ Node = e.trainers \cup e.validators
        /\ e.validators # {}
        /\ e.byzantine \subseteq e.validators
        /\ e.rejected \subseteq e.trainers
        /\ e.quorum \in 1..Cardinality(e.validators)
        /\ e.threshold \in 1..e.quorum
        /\ {e.merging, e.early, e.timeouts} \subseteq BOOLEAN

VARIABLE experiment \* the experiment that runs, one of Experiments

Trainer == experiment.trainers
FinalRound == experiment.last
Merging == experiment.merging
EarlyExit == experiment.early
Timeouts == experiment.timeouts

\* submit_and_decide: an honest validator reports the reference decision and a
\* Byzantine one inverts it.
Reference(e, n) == n \notin e.rejected
Reported(e, v, n) == IF v \in e.byzantine THEN ~Reference(e, n) ELSE Reference(e, n)
Accepts(e, n) == {v \in e.validators : Reported(e, v, n)}
AdmittedByGate(e, n) ==
    /\ Cardinality(e.validators) >= e.quorum
    /\ Cardinality(Accepts(e, n)) >= e.threshold

Admitted == [e \in Experiments |-> {n \in e.trainers : AdmittedByGate(e, n)}]
AdmittedSet == Admitted[experiment]

\* FedAvg.aggregate adds the weighted models in the order of the pool: the sum
\* of floats does not depend on the order of the first two, and does on that of
\* the others.  A model is written as the set of contributors it averages, so
\* that two merges of the same three or more contributors are not told apart.
Average(p) ==
    [pair |-> {p[i] : i \in DOMAIN p \cap {1, 2}}, rest |-> SubSeq(p, 3, Len(p))]

Candidate(n) == Average(<<{n}>>)
InitialModel == Average(<<>>)

Digest == [pair : SUBSET SUBSET Node, rest : Seq(SUBSET Node)]

=============================================================================
