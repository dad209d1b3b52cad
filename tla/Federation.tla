----------------------------- MODULE Federation -----------------------------
(***************************************************************************)
(* Rounds of trainers without a validator gate, each with an aggregator of  *)
(* its own: the models that arrive too early or too late, the partial       *)
(* aggregates of FedAvg, what each rule makes of the models in the order of *)
(* their arrival, and the full model that the trainers pass on.  The train  *)
(* set is given; nothing times out here (RoundLifecycle has the timeouts).  *)
(***************************************************************************)
EXTENDS AggregationRules, Functions

CONSTANTS
    Node,
    Size,        \* samples of each node
    Scenes,      \* BOUND: records of a rule, the train sets of the rounds, the drift of each
                 \* node, which is what training adds to its parameters, and how many models
                 \* may come late, to an aggregator that was cleared
    Liar         \* nodes whose drift is not that of honest training

Rounds == 1..Max({Len(s.train) : s \in Scenes})

FederationAssumption ==
    /\ IsFiniteSet(Node) /\ Size \in [Node -> Nat \ {0}]
    /\ IsFiniteSet(Scenes)
    /\ Scenes \subseteq [rule : Rules, train : Seq(SUBSET Node), drift : [Node -> Weights],
                       late : Nat]
    /\ \A s \in Scenes : s.train # <<>>

VARIABLES
    rule, train, drift, late,   \* fixed: those of the scene
    round, step,          \* of each node
    base,       \* the parameters of the learner's model
    pool,       \* __models of the aggregator, in the order of arrival
    unhandled,  \* __unhandled_models
    memory,     \* what the rule remembers
    control,    \* c_i of the SCAFFOLD callback
    fitted,     \* the parameters a trainer submitted, by round
    result,     \* the models a trainer aggregated in its round: at most one
    installed   \* installed_model_hashes has the round

fixed == <<rule, train, drift, late>>
vars == <<rule, train, drift, late, round, step, base, pool, unhandled, memory, control,
          fitted, result, installed>>

Zero == [n \in Node |-> Zeros]
Init ==
    /\ \E scene \in Scenes :
        /\ rule = scene.rule /\ train = scene.train
        /\ drift = scene.drift /\ late = scene.late
    /\ round = [n \in Node |-> 1]
    /\ step = [n \in Node |-> "vote"]
    /\ base = Zero /\ control = Zero /\ fitted = [n \in Node |-> [r \in Rounds |-> Zeros]]
    /\ pool = [n \in Node |-> <<>>] /\ unhandled = [n \in Node |-> <<>>]
    /\ memory = [n \in Node |-> NoMemory]
    /\ result = [n \in Node |-> <<>>]
    /\ installed = [n \in Node |-> FALSE]

TrainSet(n) == train[round[n]]
Covered(models) == ToSet(Contributors(models))

-----------------------------------------------------------------------------
(* The aggregator. *)

\* add_model: [models, unhandled] after it.  A model of which one contributor is in
\* the pool is dropped.  (Mutated form: only when all of them are.)
RepeatsAll(models, model) == ToSet(model.contributors) \subseteq Covered(models)
Repeats(models, model) == ToSet(model.contributors) \cap Covered(models) # {}
AddModel(expected, held, model) ==
    IF Cardinality(expected) <= Len(Contributors(held.models))
    THEN [held EXCEPT !.unhandled = Append(@, model)]
    ELSE IF ToSet(model.contributors) \subseteq expected /\ ~Repeats(held.models, model)
    THEN [held EXCEPT !.models = Append(@, model)]
    ELSE held

\* get_model: at most one model for a node that has those of except, the average of
\* what it lacks or, of a rule that does not average a part, the first of them.
GetModel(models, except) ==
    LET Lacks(model) == ToSet(model.contributors) \cap except = {}
        rest == {k \in DOMAIN models : Lacks(models[k])}
    IN  IF Partial(rule) /\ Cardinality(rest) > 1 THEN {FedAvg(SelectSeq(models, Lacks))}
        ELSE {models[k] : k \in {j \in rest : \A l \in rest : j <= l}}

-----------------------------------------------------------------------------
(* The stages. *)

Goto(n, s) == step' = [step EXCEPT ![n] = s]
Held(n) == [models |-> pool[n], unhandled |-> unhandled[n]]

\* set_nodes_to_aggregate: the models that came early are added.  If one of them is
\* not needed it is appended to the list that is being gone through, for ever.
Open(n) ==
    /\ step[n] = "vote"
    /\ IF n \in TrainSet(n)
       THEN LET held == FoldLeft(LAMBDA h, model : AddModel(TrainSet(n), h, model),
                                 Held(n), unhandled[n])
            IN  /\ held.unhandled = unhandled[n]
                /\ pool' = [pool EXCEPT ![n] = held.models]
                /\ unhandled' = [unhandled EXCEPT ![n] = <<>>]
                /\ Goto(n, "train")
       ELSE Goto(n, "wait") /\ UNCHANGED <<pool, unhandled>>
    /\ UNCHANGED <<fixed, round, base, memory, control, fitted, result, installed>>

\* Learner.fit and add_model of its model.  The callback of SCAFFOLD leaves what the
\* aggregator needs; the local steps times the learning rate are 1.
Fit(n) ==
    /\ step[n] = "train"
    /\ LET model == [param |-> Plus(base[n], drift[n]), samples |-> Size[n],
                     contributors |-> <<n>>, delta_y |-> drift[n],
                     delta_c |-> Minus(Zeros, drift[n])]
           held == AddModel(TrainSet(n), Held(n), model)
       IN  /\ base' = [base EXCEPT ![n] = model.param]
           /\ fitted' = [fitted EXCEPT ![n][round[n]] = model.param]
           /\ control' = [control EXCEPT ![n] = Minus(@, drift[n])]
           /\ pool' = [pool EXCEPT ![n] = held.models]
           /\ unhandled' = [unhandled EXCEPT ![n] = held.unhandled]
    /\ Goto(n, "gossip")
    /\ UNCHANGED <<fixed, round, memory, result, installed>>

\* models_aggregated[n] of another node: what n announced in this round, or did before
\* its last announcements arrive.
Announced(n) ==
    IF step[n] = "cleared" THEN SUBSET TrainSet(n)
    ELSE {Covered(SubSeq(pool[n], 1, k)) : k \in 0..Len(pool[n])}

\* A trainer sends i's model for what it knows of j, and PartialModelCommand of j.
\* In the first round j ignores it before its election.  What comes when the pool of j
\* is complete is dropped with it by Clear, and left out.  BOUND: no unhandled model
\* comes twice; Open would drop the second one.
SendPartial(i, j) ==
    /\ step[i] = "gossip" /\ i # j /\ j \in TrainSet(i)
    /\ round[j] = round[i] /\ ~(step[j] = "vote" /\ round[j] = 1)
    /\ step[j] = "cleared" => Len(unhandled[j]) < late
    /\ Covered(pool[j]) # TrainSet(j)
    /\ \E except \in Announced(j) :
        /\ except # TrainSet(i)
        /\ \E model \in GetModel(pool[i], except) :
            LET expected == IF step[j] \in {"vote", "cleared"} THEN {} ELSE TrainSet(j)
                held == AddModel(expected, Held(j), model)
            IN  /\ held # Held(j) /\ IsInjective(held.unhandled)
                /\ pool' = [pool EXCEPT ![j] = held.models]
                /\ unhandled' = [unhandled EXCEPT ![j] = held.unhandled]
    /\ UNCHANGED <<fixed, round, step, base, memory, control, fitted, result, installed>>

\* wait_and_get_aggregation, and set_model of the result.
Aggregate(n) ==
    /\ step[n] = "gossip" /\ Covered(pool[n]) = TrainSet(n)
    /\ LET outcome == Aggregated(rule, memory[n], pool[n])
       IN  /\ base' = [base EXCEPT ![n] = outcome.model.param]
           /\ memory' = [memory EXCEPT ![n] = outcome.memory]
           /\ result' = [result EXCEPT ![n] = <<outcome.model>>]
    /\ installed' = [installed EXCEPT ![n] = TRUE]
    /\ Goto(n, "full")
    /\ UNCHANGED <<fixed, round, pool, unhandled, control, fitted>>

\* GossipModelStage of i, and FullModelCommand of j: also a trainer of the round
\* installs it.  A node that has announced its model may get one that is on its way.
SendFull(i, j) ==
    /\ step[i] = "full" /\ i # j
    /\ round[j] = round[i]
    /\ base' = [base EXCEPT ![j] = base[i]]
    /\ installed' = [installed EXCEPT ![j] = TRUE]
    /\ UNCHANGED <<fixed, round, step, pool, unhandled, memory, control, fitted, result>>

WaitOver(n) ==
    /\ step[n] = "wait" /\ installed[n]
    /\ Goto(n, "full")
    /\ UNCHANGED <<fixed, round, base, pool, unhandled, memory, control, fitted, result, installed>>

\* RoundFinishedStage, first aggregator.clear ...
Clear(n) ==
    /\ step[n] = "full"
    /\ pool' = [pool EXCEPT ![n] = <<>>]
    /\ unhandled' = [unhandled EXCEPT ![n] = <<>>]
    /\ Goto(n, "cleared")
    /\ UNCHANGED <<fixed, round, base, memory, control, fitted, result, installed>>

\* ... then increase_round.
IncreaseRound(n) ==
    /\ step[n] = "cleared" /\ round[n] < Len(train)
    /\ round' = [round EXCEPT ![n] = @ + 1]
    /\ result' = [result EXCEPT ![n] = <<>>]
    /\ installed' = [installed EXCEPT ![n] = FALSE]
    /\ Goto(n, "vote")
    /\ UNCHANGED <<fixed, base, pool, unhandled, memory, control, fitted>>

Next ==
    \/ \E n \in Node :
        Open(n) \/ Fit(n) \/ Aggregate(n) \/ WaitOver(n) \/ Clear(n) \/ IncreaseRound(n)
    \/ \E i, j \in Node : SendPartial(i, j) \/ SendFull(i, j)

Spec == Init /\ [][Next]_vars

-----------------------------------------------------------------------------
(* Properties. *)

Total(N, f) == FoldSet(LAMBDA n, total : total + f[n], 0, N)
Finished(n) == step[n] \in {"full", "cleared"}
Trained(n) == result[n] # <<>>

\* A FedOpt optimizer remembers what it has averaged, so it agrees with the others
\* only when all have trained in the same rounds.
Comparable(n) ==
    \/ rule \in {"fedavg", "fedmedian"}
    \/ rule \in Optimizers /\ \A r \in 1..round[n] : train[r] = train[1]

\* Nodes that have finished the same round have the same model.  Not met where models
\* come late: such a model counts in the next round, only at the nodes it came to.
Agreement ==
    \A i, j \in Node :
        Finished(i) /\ Finished(j) /\ round[i] = round[j] /\ Comparable(i) => base[i] = base[j]

\* INVARIANT.  Where no model comes late they agree, although every trainer aggregates
\* for itself, over partial aggregates and an order of arrival that are its own, and a
\* full model of another may overwrite its result.
SameModel == late = 0 => Agreement

\* INVARIANT.  FedAvg gives the mean of the trainers' models weighted by their samples,
\* with every trainer counted once, however the partial aggregates were nested.
WeightedMean ==
    rule = "fedavg" /\ late = 0 => \A n \in Node : Trained(n) =>
        LET T == TrainSet(n)
            model == result[n][1]
        IN  /\ model.samples = Total(T, Size)
            /\ Len(model.contributors) = Cardinality(T) /\ ToSet(model.contributors) = T
            /\ \A e \in Entries : model.param[e] * model.samples =
                    Total(T, [k \in T |-> Size[k] * fitted[k][round[n]][e]])

\* What k submitted in the round of n or, where models may come late, in one before it.
Submissions(n, k) ==
    {fitted[k][r] : r \in {r \in 1..round[n] : k \in train[r] /\ (late > 0 \/ r = round[n])}}

Honest(n) == UNION {Submissions(n, k) : k \in TrainSet(n) \ Liar}
InRange(n, x) ==
    \A e \in Entries : \E v, w \in Honest(n) : v[e] <= x[e] /\ x[e] <= w[e]
FewLie(n) == Cardinality(TrainSet(n) \cap Liar) < Cardinality(TrainSet(n) \ Liar)

\* Not met: the model that Krum selects is in the range of what honest trainers submitted.
\* A liar in the middle of them is nearest to all, whatever it has in another entry.
SelectedInRange ==
    rule = "krum" => \A n \in Node : Trained(n) /\ FewLie(n) => InRange(n, result[n][1].param)

\* INVARIANT.  When fewer than half of the trainers lie, every entry of the median is in
\* the range of what the honest ones submitted, and the model that Krum selects, though
\* it may be a liar's, is near to one of each of the H honest trainers: H - L times the
\* distance is at most 2 (H - 1) times that of two honest models, with L liars.
HonestRange ==
    \A n \in Node : Trained(n) /\ FewLie(n) =>
        LET T == TrainSet(n)
            H == Cardinality(T \ Liar)
            L == Cardinality(T \cap Liar)
            x == result[n][1].param
        IN  /\ rule = "fedmedian" => InRange(n, x)
            /\ rule = "krum" => \A k \in T \ Liar :
                    \E y \in Submissions(n, k), v, w \in Honest(n) :
                        (H - L) * Distance(x, y) <= 2 * (H - 1) * Distance(v, w)

\* INVARIANT.  When the same nodes train in every round, the global control variate of
\* each of their aggregators is the mean of their own ones.
ControlIsMean ==
    LET T == train[1]
    IN  (/\ rule = "scaffold" /\ late = 0 /\ ToSet(train) = {T}
         /\ \A n \in T : Trained(n)
         /\ Cardinality({round[n] : n \in T}) = 1) =>
            \A n \in T, e \in Entries :
                memory[n].c[e] * Cardinality(T) = Total(T, [k \in T |-> control[k][e]])
=============================================================================
