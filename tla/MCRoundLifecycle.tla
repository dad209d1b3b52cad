-------------------------- MODULE MCRoundLifecycle --------------------------
(***************************************************************************)
(* The experiments of three nodes that TLC explores: one round of two      *)
(* trainers and a validator in which every wait may time out and any       *)
(* gossip may be given up; two rounds of the same nodes without timeouts;  *)
(* one round of three nodes that train and validate each other, one of     *)
(* them Byzantine and rejected, in which everything is delivered; and, for *)
(* a run of its own, three trainers of which one is rejected, merging the  *)
(* models they gossip.                                                     *)
(***************************************************************************)
EXTENDS RoundLifecycle

CONSTANTS a, b, c

Timed == [
    trainers |-> {a, b}, validators |-> {c}, byzantine |-> {}, rejected |-> {},
    quorum |-> 1, threshold |-> 1, last |-> 0, merging |-> TRUE, early |-> TRUE,
    timeouts |-> TRUE]
Long == [Timed EXCEPT !.last = 1, !.timeouts = FALSE]
Mutual == [
    trainers |-> {a, b, c}, validators |-> {a, b, c}, byzantine |-> {a}, rejected |-> {a},
    quorum |-> 3, threshold |-> 2, last |-> 0, merging |-> FALSE, early |-> FALSE,
    timeouts |-> FALSE]
Merged == [
    trainers |-> {a, b, c}, validators |-> {a}, byzantine |-> {}, rejected |-> {a},
    quorum |-> 1, threshold |-> 1, last |-> 0, merging |-> TRUE, early |-> TRUE,
    timeouts |-> FALSE]

\* RoundLifecycle!Fairness where gossip may be given up, the only experiments of
\* which EveryoneEnds speaks.
RunFairness ==
    /\ \A n \in Node : WF_vars(EarlyExit /\ StageStep(n))
    /\ \A n \in Node : \A m \in Node \ {n} :
          /\ WF_vars(EarlyExit /\ SendPartial(n, m)) /\ WF_vars(EarlyExit /\ LearnModels(n, m))
          /\ WF_vars(EarlyExit /\ SendFull(n, m)) /\ WF_vars(EarlyExit /\ LearnReady(n, m))

RunSpec == Spec /\ RunFairness

MCExperiments == {Timed, Long, Mutual}
MCMerged == {Merged}

=============================================================================
