---------------------------- MODULE MCExperiment ----------------------------
(***************************************************************************)
(* The repository's smoke configurations: two rounds of two nodes, one     *)
(* round of three, and train sets smaller than the network.                *)
(***************************************************************************)
EXTENDS Experiment

Base == [nodes |-> 2, rounds |-> 2, adversaries |-> {1}, kind |-> "plain",
         gate |-> FALSE, rejected |-> {}, eligible |-> {1, 2}, size |-> 2,
         onNode |-> TRUE, validated |-> TRUE]

FreeRider == [Base EXCEPT !.kind = "training"]
Colluders == [Base EXCEPT !.kind = "collusion", !.nodes = 3, !.adversaries = {1, 2},
                          !.eligible = {1, 2, 3}, !.rounds = 1]
SignFlip == [Base EXCEPT !.kind = "update"]
FewTrainers == [Base EXCEPT !.kind = "training", !.size = 1]
FewFlipped == [Base EXCEPT !.kind = "update", !.size = 1]
Byzantine == [Base EXCEPT !.gate = TRUE, !.nodes = 3, !.adversaries = {3}, !.onNode = FALSE,
                          !.rejected = {2}, !.rounds = 1]
Gated == [Base EXCEPT !.gate = TRUE, !.rejected = {2}, !.onNode = FALSE]
Unsupported == [Base EXCEPT !.validated = FALSE]

MCScenes == {FreeRider, Colluders, SignFlip, FewTrainers, FewFlipped, Byzantine, Gated,
             Unsupported}

\* A gate and an audit in one run, for the property the audits do not meet.
AuditedGate == {[Byzantine EXCEPT !.kind = "training", !.adversaries = {1}, !.onNode = TRUE]}
MCPlain == {Base}
=============================================================================
