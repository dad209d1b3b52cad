-------------------------- MODULE MCLearningSession --------------------------
EXTENDS LearningSession, TLC
MCTriangle == (1 :> {2, 3}) @@ (2 :> {1, 3}) @@ (3 :> {1, 2})
MCLine == (1 :> {2}) @@ (2 :> {1, 3}) @@ (3 :> {2})
MCScenes == {[link |-> MCTriangle, rounds |-> 2, stoppers |-> {3}],
             [link |-> MCLine, rounds |-> 1, stoppers |-> {1}]}

\* Learning that is started ends everywhere: with all its rounds, or by the stop that
\* was asked for.
LearningEnds == EveryoneLearns /\ StopEnds
=============================================================================
