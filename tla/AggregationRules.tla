-------------------------- MODULE AggregationRules --------------------------
(***************************************************************************)
(* The aggregation rules: FedAvg, FedMedian, Krum, SCAFFOLD and the FedOpt  *)
(* family.  The parameters of a model are numbers by entry, multiples of a  *)
(* unit so chosen that the divisions below are exact.  All rules work entry *)
(* by entry but Krum, which measures the difference of whole models.  The   *)
(* result of a rule is the aggregated model and the memory that the         *)
(* aggregator object keeps for the next round.                              *)
(***************************************************************************)
EXTENDS Integers, Sequences, FiniteSets, FiniteSetsExt, SequencesExt

CONSTANTS
    Entries,           \* of the arrays of a model
    Length(_),         \* the sum over the layers of the norms that NumPy gives, rounded up
    Adapt(_, _, _)     \* the step of a FedOpt optimizer, of its moments and its counter

Weights == [Entries -> Int]
Zeros == [e \in Entries |-> 0]
Plus(x, y) == [e \in Entries |-> x[e] + y[e]]
Minus(x, y) == [e \in Entries |-> x[e] - y[e]]

Sum(models, F(_)) == FoldLeft(LAMBDA total, model : total + F(model), 0, models)
Samples(models) == Sum(models, LAMBDA model : model.samples)
Contributors(models) == FlattenSeq([i \in DOMAIN models |-> models[i].contributors])
Copy(models, param, contributors) ==
    [param |-> param, samples |-> Samples(models), contributors |-> contributors,
     delta_y |-> Zeros, delta_c |-> Zeros]

\* What an aggregator remembers: global_model_params or current_weights (a sequence
\* of at most one), the global control variate, the two moments and _round_counter.
NoMemory == [global |-> <<>>, c |-> Zeros, m |-> Zeros, v |-> Zeros, t |-> 0]

\* (Mutated form: the models are not weighted.)
FedAvgUnweighted(models) ==
    Copy(models, [e \in Entries |-> Sum(models, LAMBDA model : model.param[e]) \div Len(models)],
         Contributors(models))
FedAvg(models) ==
    Copy(models,
         [e \in Entries |->
            Sum(models, LAMBDA model : model.param[e] * model.samples) \div Samples(models)],
         Contributors(models))

\* The value of rank k in an entry, and numpy's median.  The copy has no contributors.
Ranked(models, k, e) ==
    CHOOSE value \in {models[i].param[e] : i \in DOMAIN models} :
        /\ Cardinality({i \in DOMAIN models : models[i].param[e] < value}) < k
        /\ Cardinality({i \in DOMAIN models : models[i].param[e] <= value}) >= k
Median(models, e) ==
    LET n == Len(models)
    IN  IF n % 2 = 1 THEN Ranked(models, (n + 1) \div 2, e)
        ELSE (Ranked(models, n \div 2, e) + Ranked(models, n \div 2 + 1, e)) \div 2
FedMedian(models) == Copy(models, [e \in Entries |-> Median(models, e)], <<>>)

\* The distance of two models.  In exact arithmetic it is that of a norm.
Distance(x, y) == Length(Minus(x, y))
IsNormOn(vectors) ==
    /\ Length(Zeros) = 0
    /\ \A x, y \in vectors :
        /\ Length(x) \in Nat /\ Length(Minus(Zeros, x)) = Length(x)
        /\ Length(Minus(x, y)) <= Length(x) + Length(y)
DistanceSum(models, i) == Sum(models, LAMBDA model : Distance(models[i].param, model.param))
\* The model with the least sum of distances, the first one if there are several.
\* (Mutated form: the one with the greatest.)
SelectedFarthest(models) ==
    CHOOSE i \in DOMAIN models : \A j \in DOMAIN models :
        /\ DistanceSum(models, j) <= DistanceSum(models, i)
        /\ j < i => DistanceSum(models, j) < DistanceSum(models, i)
Selected(models) ==
    CHOOSE i \in DOMAIN models : \A j \in DOMAIN models :
        /\ DistanceSum(models, j) >= DistanceSum(models, i)
        /\ j < i => DistanceSum(models, j) > DistanceSum(models, i)
Krum(models) ==
    IF Len(models) = 1 THEN models[1]
    ELSE Copy(models, models[Selected(models)].param, Contributors(models))

\* The global learning rate is 1/2.
GlobalStep(models, e) ==
    Sum(models, LAMBDA model : model.delta_y[e] * model.samples) \div (2 * Samples(models))
\* (Mutated form: weighted with the samples, as the model is.)
ControlStepWeighted(models, e) ==
    Sum(models, LAMBDA model : model.delta_c[e] * model.samples) \div Samples(models)
ControlStep(models, e) == Sum(models, LAMBDA model : model.delta_c[e]) \div Len(models)
Scaffold(memory, models) ==
    LET start == IF memory.global = <<>> THEN models[1].param ELSE memory.global[1]
        next == [memory EXCEPT
                    !.global = <<[e \in Entries |-> start[e] + GlobalStep(models, e)]>>,
                    !.c = [e \in Entries |-> @[e] + ControlStep(models, e)]]
    IN  [model |-> Copy(models, next.global[1], Contributors(models)), memory |-> next]

\* beta_1 and beta_2 are 1/2.
SecondMoment(rule, v, delta) ==
    CASE rule = "fedadagrad" -> v + delta * delta
      [] rule = "fedadam"    -> (v + delta * delta) \div 2
      [] rule = "fedyogi"    -> IF v > delta * delta THEN v - (delta * delta) \div 2
                                ELSE IF v < delta * delta THEN v + (delta * delta) \div 2
                                ELSE v
FedOpt(rule, memory, models) ==
    LET mean == FedAvg(models)
    IN  IF memory.global = <<>>
        THEN [model |-> mean, memory |-> [memory EXCEPT !.global = <<mean.param>>]]
        ELSE LET current == memory.global[1]
                 delta == Minus(mean.param, current)
                 m == [e \in Entries |-> (memory.m[e] + delta[e]) \div 2]
                 v == [e \in Entries |-> SecondMoment(rule, memory.v[e], delta[e])]
                 t == IF rule = "fedadam" THEN memory.t + 1 ELSE 0
                 next == [e \in Entries |-> current[e] + Adapt(m[e], v[e], t)]
             IN  [model |-> [mean EXCEPT !.param = next],
                  memory |-> [global |-> <<next>>, c |-> memory.c, m |-> m, v |-> v, t |-> t]]

Optimizers == {"fedadagrad", "fedadam", "fedyogi"}
Rules == {"fedavg", "fedmedian", "krum", "scaffold"} \cup Optimizers
\* SUPPORTS_PARTIAL_AGGREGATION (FedProx adds only information to FedAvg).
Partial(rule) == rule = "fedavg"

Aggregated(rule, memory, models) ==
    CASE rule = "fedavg"    -> [model |-> FedAvg(models), memory |-> memory]
      [] rule = "fedmedian" -> [model |-> FedMedian(models), memory |-> memory]
      [] rule = "krum"      -> [model |-> Krum(models), memory |-> memory]
      [] rule = "scaffold"  -> Scaffold(memory, models)
      [] OTHER              -> FedOpt(rule, memory, models)
=============================================================================
