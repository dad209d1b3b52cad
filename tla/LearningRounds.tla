---------------------------- MODULE LearningRounds ----------------------------
(***************************************************************************)
(* The rounds of Federation, under names of their own, so that they can be *)
(* spoken of beside the transfers, the data and the sessions of learning.  *)
(***************************************************************************)
EXTENDS Integers

CONSTANTS
    Entry, Norm(_),           \* of the parameters of a model
    OptimizerStep(_, _, _),   \* of a FedOpt optimizer
    Client, SampleCount,      \* nodes, and how many samples each has
    Federations,              \* BOUND: the scenes of Federation
    Dishonest                 \* nodes whose training is not honest

VARIABLES rule, train, drift, late, round, step, base, pool, unhandled, memory, control, fitted,
          result, installed

Ungated == INSTANCE Federation WITH
    Entries <- Entry, Length <- Norm, Adapt <- OptimizerStep, Node <- Client,
    Size <- SampleCount, Scenes <- Federations, Liar <- Dishonest

ASSUME LearningAssumption == Ungated!FederationAssumption

-----------------------------------------------------------------------------

\* Nodes that have finished a round have the same model, and where it is FedAvg's
\* that is the mean of the trainers' models weighted by their samples.
SameWeightedModel == Ungated!SameModel /\ Ungated!WeightedMean

\* A minority of liars neither moves the median out of the range of what honest trainers
\* submitted nor makes Krum select a model far from theirs, in whatever order the models
\* arrive, and also if some come too late for their round (fedmedian.py, krum.py).
HonestRange == Ungated!HonestRange
=============================================================================
