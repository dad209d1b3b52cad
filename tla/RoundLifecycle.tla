--------------------------- MODULE RoundLifecycle ---------------------------
(***************************************************************************)
(* The rounds of a gated experiment: every node runs the stage machine of  *)
(* p2pfl/stages/base_node in its own thread, all nodes of the process      *)
(* share the admission registry and the barrier of                         *)
(* brbfl/validation/byzantine_gate.py, and a fail-closed                   *)
(* RuntimeLedgerAdapter (brbfl/ledger/runtime.py) turns their steps into   *)
(* ledger commitments.                                                     *)
(*                                                                         *)
(* A model is the set of contributors it averages.  Sending a model runs   *)
(* the receiver's handler in the sender's thread, so a send and its        *)
(* handler are one action; an announcement (models_aggregated,             *)
(* models_ready) is an action of its own, taken at any later moment or     *)
(* never.  An exception in a stage or a handler stops the node.            *)
(***************************************************************************)
EXTENDS AdmissionPolicy

CONSTANTS
    MaxRound, \* rounds 0..MaxRound: the largest total_rounds - 1 of an experiment
    None

Round == 0..MaxRound

ASSUME BoundAssumption ==
    /\ MaxRound \in Nat
    /\ \A e \in Experiments : e.last \in Round

ASSUME NoneAssumption ==
    /\ None \notin Digest
    /\ \A S \in SUBSET Node : S # None

VARIABLES
    pc,        \* where the learning thread of a node is
    round,     \* state.round; one more than the last when the experiment is over
    elected,   \* state.train_set is set: it is not cleared between rounds
    rows,      \* contributors with a row in the node's gate this round
    pool,      \* Aggregator.__models: what each of them averages, by arrival
    known,     \* state.models_aggregated: what a trainer knows of the others
    ready,     \* neighbours whose nei_status has reached the node's round
    learner,   \* digest of the learner's parameters
    installed, \* installed_model_hashes of the round, None when absent
    fault,     \* why the node stopped
    decided,   \* _round_decisions: the candidates decided in a round
    arrived,   \* _round_barriers
    parent,    \* adapter: _parents of a round
    submitted, \* ledger: contributors with a committed and judged candidate
    admission, \* ledger: the admitted contributors, None before finalization
    aggregate, \* adapter: _aggregates of a round, None when absent
    holders,   \* ledger: participants with a confirmed installation
    final      \* ledger: the round is finalized

nodeVars == <<elected, rows, pool, known, ready, learner, installed>>
registryVars == <<decided, arrived>>
ledgerVars == <<parent, submitted, admission, aggregate, holders, final>>
vars == <<experiment, pc, round, fault, nodeVars, registryVars, ledgerVars>>

Active == {n \in Node : pc[n] \notin {"stopped", "done"}}

At(n, where) == pc[n] = where
Goto(n, where) == pc' = [pc EXCEPT ![n] = where]

\* An exception reaches Node.__start_learning, or a handler calls Node.stop.
Stop(n, why) ==
    /\ Goto(n, "stopped")
    /\ fault' = [fault EXCEPT ![n] = why]
    /\ UNCHANGED round

\* Here and below, the definitions written just before a guard or an effect are
\* plausible wrong forms of it: CompleteAny is satisfied by the first model.
Contributors(n) == UNION ToSet(pool[n])
CompleteAny(n) == pool[n] # <<>>
Complete(n) == AdmittedSet \subseteq Contributors(n)

-----------------------------------------------------------------------------

Init ==
    /\ experiment \in Experiments
    /\ pc = [n \in Node |-> "elect"]
    /\ round = [n \in Node |-> 0]
    /\ fault = [n \in Node |-> None]
    /\ elected = [n \in Node |-> FALSE]
    /\ rows = [n \in Node |-> {}]
    /\ pool = [n \in Node |-> <<>>]
    /\ known = [n \in Node |-> [m \in Node |-> {}]]
    /\ ready = [n \in Node |-> {}]
    /\ learner = [n \in Node |-> InitialModel]
    /\ installed = [n \in Node |-> None]
    /\ decided = [r \in Round |-> {}]
    /\ arrived = [r \in Round |-> {}]
    /\ parent = [r \in Round |-> None]
    /\ submitted = [r \in Round |-> {}]
    /\ admission = [r \in Round |-> None]
    /\ aggregate = [r \in Round |-> None]
    /\ holders = [r \in Round |-> {}]
    /\ final = [r \in Round |-> FALSE]

\* VoteTrainSetStage: a node leaves the election with the votes of all its
\* neighbours, or when VOTE_TIMEOUT has passed.  The eligible trainers are the
\* contributors of the policy and every one of them is voted for.
Elect(n) ==
    /\ At(n, "elect")
    /\ Timeouts \/ \A m \in Active : round[m] >= round[n]
    /\ elected' = [elected EXCEPT ![n] = TRUE]
    /\ Goto(n, IF n \in Trainer THEN "train" ELSE "await")
    /\ UNCHANGED <<experiment, round, fault, rows, pool, known, ready, learner,
                   installed, registryVars, ledgerVars>>

\* The parent of a candidate: the model the local training starts from.
ParentAfterFit(n) == Candidate(n)
ParentOf(n) == learner[n]

\* TrainStage up to the gate's verdict: local training, then the row in the
\* own gate and, through record_candidate, the opened round, the candidate and
\* the decisions of the validators in the ledger.
Submit(n) ==
    LET r == round[n] IN
    /\ At(n, "train")
    /\ learner' = [learner EXCEPT ![n] = Candidate(n)]
    /\ rows' = [rows EXCEPT ![n] = @ \cup {n}]
    /\ IF parent[r] \in {None, ParentOf(n)}
       THEN /\ parent' = [parent EXCEPT ![r] = ParentOf(n)]
            /\ submitted' = [submitted EXCEPT ![r] = @ \cup {n}]
            /\ Goto(n, "publish")
            /\ UNCHANGED <<round, fault>>
       ELSE /\ Stop(n, "conflict")
            /\ UNCHANGED <<parent, submitted>>
    /\ UNCHANGED <<experiment, elected, pool, known, ready, installed, registryVars,
                   admission, aggregate, holders, final>>

\* publish_admission_decision: the last decision finalizes the admission.
AllDecided(r) == decided[r] = Trainer
DecidedAny(r, n) == TRUE
AllDecidedAfter(r, n) == decided[r] \cup {n} = Trainer

Publish(n) ==
    LET r == round[n] IN
    /\ At(n, "publish")
    /\ decided' = [decided EXCEPT ![r] = @ \cup {n}]
    /\ admission' = IF AllDecidedAfter(r, n)
                    THEN [admission EXCEPT ![r] = submitted[r] \cap AdmittedSet]
                    ELSE admission
    /\ Goto(n, "decisions")
    /\ UNCHANGED <<experiment, round, fault, nodeVars, arrived, parent, submitted,
                   aggregate, holders, final>>

\* A filter of a pool, which leaves alone one that holds admitted models only.
Kept(p) ==
    IF \A i \in DOMAIN p : p[i] \subseteq AdmittedSet
    THEN p ELSE SelectSeq(p, LAMBDA m : m \subseteq AdmittedSet)

\* wait_for_admitted_contributors returns, the aggregator is narrowed to the
\* admitted set, and an admitted trainer adds its own model, which must still
\* be the one it submitted (observe_aggregation_input).
Admit(n) ==
    LET kept == Kept(pool[n]) IN
    /\ At(n, "decisions")
    /\ AllDecided(round[n])
    /\ IF n \in AdmittedSet /\ learner[n] # Candidate(n)
       THEN /\ pool' = [pool EXCEPT ![n] = kept]
            /\ Stop(n, "integrity")
       ELSE /\ pool' = [pool EXCEPT ![n] = IF n \in AdmittedSet THEN Append(kept, {n}) ELSE kept]
            /\ Goto(n, "gossip")
            /\ UNCHANGED <<round, fault>>
    /\ UNCHANGED <<experiment, elected, rows, known, ready, learner, installed,
                   registryVars, ledgerVars>>

\* Aggregator.get_model: what a trainer sends to a peer it believes to have the
\* models in except: the average of the others, or the first of them.
Unknown(n, except) == {i \in DOMAIN pool[n] : pool[n][i] \cap except = {}}
Earliest(I) == {i \in I : \A j \in I : i <= j}
Offers(n, except) ==
    LET I == Unknown(n, except) IN
    IF Merging /\ I # {}
    THEN {UNION {pool[n][i] : i \in I}}
    ELSE {pool[n][i] : i \in Earliest(I)}

\* PartialModelCommand at the receiver: only a model of one contributor is put
\* before the gate, and add_model takes what does not overlap its pool.
GateRowNone(m, model) == {}
GateRowList(m, model) == {model}
GateRow(m, model) == IF Cardinality(model) = 1 THEN model ELSE {}

Expected(m) == IF At(m, "decisions") THEN Trainer ELSE AdmittedSet
TakesOverlap(m, model) == Contributors(m) # Expected(m)
Takes(m, model) ==
    /\ Contributors(m) # Expected(m)
    /\ model \cap Contributors(m) = {}

SendPartial(n, m) ==
    /\ At(n, "gossip")
    /\ m \in Trainer \ {n}
    /\ Trainer \ known[n][m] # {}
    /\ m \in Active /\ round[m] = round[n] /\ elected[m]
    /\ \E model \in Offers(n, known[n][m]) :
          /\ rows' = [rows EXCEPT ![m] = @ \cup GateRow(m, model)]
          /\ pool' = [pool EXCEPT ![m] = IF Takes(m, model) THEN Append(@, model) ELSE @]
    /\ UNCHANGED <<experiment, pc, round, fault, elected, known, ready, learner, installed,
                   registryVars, ledgerVars>>

\* ModelsAggregatedCommand from m reaches n.
LearnModels(n, m) ==
    /\ pc[n] \in {"gossip", "wait"}
    /\ m \in Trainer \ {n}
    /\ m \in Active /\ round[m] = round[n]
    /\ known' = [known EXCEPT ![n][m] = @ \cup Contributors(m)]
    /\ UNCHANGED <<experiment, pc, round, fault, elected, rows, pool, ready, learner,
                   installed, registryVars, ledgerVars>>

\* gossip_weights ends when no neighbour is a candidate, or when the status of
\* the neighbours has not changed for a while.
GossipIdle(n) == \A m \in (Trainer \cap Active) \ {n} : Offers(n, known[n][m]) = {}

EndGossip(n) ==
    /\ At(n, "gossip")
    /\ EarlyExit \/ GossipIdle(n)
    /\ Goto(n, "wait")
    /\ UNCHANGED <<experiment, round, fault, nodeVars, registryVars, ledgerVars>>

\* RuntimeLedgerAdapter.confirm_installation: the first confirmed hash of a
\* round becomes its aggregate, a different one is refused.
ConfirmableAny(r, h) == admission[r] # None
Confirmable(r, h) == admission[r] # None /\ aggregate[r] \in {None, h}
Confirm(r, n, h) ==
    /\ aggregate' = [aggregate EXCEPT ![r] = h]
    /\ holders' = [holders EXCEPT ![r] = @ \cup {n}]

\* wait_and_get_aggregation, the check of the contributors against the rows of
\* the own gate, and record_verified_installation.
AdmittedRows(n) == rows[n] \cap AdmittedSet

Learned(n) == IF pool[n] = <<>> THEN learner[n] ELSE Average(pool[n])

Aggregate(n) ==
    LET r == round[n]
        h == Average(pool[n])
    IN
    /\ At(n, "wait")
    /\ Complete(n) \/ Timeouts
    /\ learner' = [learner EXCEPT ![n] = Learned(n)]
    /\ IF /\ pool[n] # <<>>
          /\ Contributors(n) = AdmittedRows(n)
          /\ installed[n] \in {None, h}
          /\ Confirmable(r, h)
       THEN /\ Confirm(r, n, h)
            /\ installed' = [installed EXCEPT ![n] = h]
            /\ Goto(n, "diffuse")
            /\ UNCHANGED <<round, fault>>
       ELSE /\ Stop(n, IF pool[n] = <<>> THEN "empty"
                       ELSE IF Contributors(n) # AdmittedRows(n) THEN "rows"
                       ELSE "conflict")
            /\ UNCHANGED <<installed, aggregate, holders>>
    /\ UNCHANGED <<experiment, elected, rows, pool, known, ready, registryVars, parent,
                   submitted, admission, final>>

\* WaitAggregatedModelsStage: all candidates are decided, then the verified
\* aggregate is installed.
AwaitDecisions(n) ==
    /\ At(n, "await")
    /\ AllDecided(round[n])
    /\ Goto(n, "install")
    /\ UNCHANGED <<experiment, round, fault, nodeVars, registryVars, ledgerVars>>

AwaitInstallation(n) ==
    /\ At(n, "install")
    /\ installed[n] # None
    /\ Goto(n, "diffuse")
    /\ UNCHANGED <<experiment, round, fault, nodeVars, registryVars, ledgerVars>>

\* PreSendModelCommand: a trainer that knows of every trained model refuses.
Refuses(m) ==
    m \in Trainer /\ elected[m] /\ UNION {known[m][o] : o \in Node} = Trainer

\* GossipModelStage sends the learner's model to a neighbour not known to be
\* ready; FullModelCommand installs it there.
FullModelInstalls(m, h) ==
    LET r == round[m] IN
    IF ~elected[m]
    THEN /\ Stop(m, "origin")
         /\ UNCHANGED <<learner, installed, aggregate, holders>>
    ELSE IF installed[m] # None
    THEN /\ IF installed[m] = h THEN UNCHANGED <<pc, round, fault>> ELSE Stop(m, "conflict")
         /\ UNCHANGED <<learner, installed, aggregate, holders>>
    ELSE /\ learner' = [learner EXCEPT ![m] = h]
         /\ IF Confirmable(r, h)
            THEN /\ Confirm(r, m, h)
                 /\ installed' = [installed EXCEPT ![m] = h]
                 /\ UNCHANGED <<pc, round, fault>>
            ELSE /\ Stop(m, "conflict")
                 /\ UNCHANGED <<installed, aggregate, holders>>

SendFull(n, m) ==
    /\ At(n, "diffuse")
    /\ m \in Active \ (ready[n] \cup {n})
    /\ round[m] = round[n]
    /\ ~Refuses(m)
    /\ FullModelInstalls(m, learner[n])
    /\ UNCHANGED <<experiment, elected, rows, pool, known, ready, registryVars, parent,
                   submitted, admission, final>>

\* ModelsReadyCommand from m reaches n.
HasInstalled(m, r) == round[m] > r \/ (round[m] = r /\ pc[m] \in {"diffuse", "barrier"})

LearnReady(n, m) ==
    /\ At(n, "diffuse")
    /\ m \in Node \ (ready[n] \cup {n})
    /\ HasInstalled(m, round[n])
    /\ ready' = [ready EXCEPT ![n] = @ \cup {m}]
    /\ UNCHANGED <<experiment, pc, round, fault, elected, rows, pool, known, learner,
                   installed, registryVars, ledgerVars>>

\* The gossip ends and the node enters the barrier of the round.
Arrive(n) ==
    /\ At(n, "diffuse")
    /\ EarlyExit \/ Active \subseteq ready[n] \cup {n}
    /\ arrived' = [arrived EXCEPT ![round[n]] = @ \cup {n}]
    /\ Goto(n, "barrier")
    /\ UNCHANGED <<experiment, round, fault, nodeVars, decided, ledgerVars>>

\* wait_at_round_barrier returns: finalize_round, Aggregator.clear and
\* increase_round.  After the last round the state is cleared.
BarrierAny(n) == arrived[round[n]] # {}
BarrierOpen(n) == arrived[round[n]] = Node

Finalizable(r) == aggregate[r] # None /\ Node \subseteq holders[r]

PassBarrier(n) ==
    LET r == round[n] IN
    /\ At(n, "barrier")
    /\ BarrierOpen(n)
    /\ IF Finalizable(r)
       THEN /\ final' = [final EXCEPT ![r] = TRUE]
            /\ round' = [round EXCEPT ![n] = r + 1]
            /\ Goto(n, IF r = FinalRound THEN "done" ELSE "elect")
            /\ rows' = [rows EXCEPT ![n] = {}]
            /\ pool' = [pool EXCEPT ![n] = <<>>]
            /\ known' = [known EXCEPT ![n] = [m \in Node |-> {}]]
            /\ ready' = [ready EXCEPT ![n] = {}]
            /\ installed' = [installed EXCEPT ![n] = None]
            /\ UNCHANGED fault
       ELSE /\ Stop(n, "ledger")
            /\ UNCHANGED <<final, rows, pool, known, ready, installed>>
    /\ UNCHANGED <<experiment, elected, learner, registryVars, parent, submitted,
                   admission, aggregate, holders>>

\* The waits for decisions, for the installation and at the barrier raise.
WaitingInside(n) ==
    \/ pc[n] \in {"decisions", "await"} /\ ~AllDecided(round[n])
    \/ At(n, "install") /\ installed[n] = None

Waiting(n) ==
    \/ pc[n] \in {"decisions", "await"} /\ ~AllDecided(round[n])
    \/ At(n, "install") /\ installed[n] = None
    \/ At(n, "barrier") /\ ~BarrierOpen(n)

WaitTimeout(n) ==
    /\ Timeouts
    /\ Waiting(n)
    /\ Stop(n, "timeout")
    /\ UNCHANGED <<experiment, nodeVars, registryVars, ledgerVars>>

-----------------------------------------------------------------------------

StageStep(n) ==
    \/ Elect(n) \/ Submit(n) \/ Publish(n) \/ Admit(n) \/ EndGossip(n)
    \/ Aggregate(n) \/ AwaitDecisions(n) \/ AwaitInstallation(n)
    \/ Arrive(n) \/ PassBarrier(n) \/ WaitTimeout(n)

MessageStep(n, m) ==
    \/ SendPartial(n, m) \/ LearnModels(n, m)
    \/ SendFull(n, m) \/ LearnReady(n, m)

Next ==
    \/ \E n \in Node : StageStep(n)
    \/ \E n, m \in Node : MessageStep(n, m)

Spec == Init /\ [][Next]_vars

\* Every thread is scheduled; the gossip loop keeps sampling its candidates and
\* an announcement among live nodes arrives.
Fairness ==
    /\ \A n \in Node : WF_vars(StageStep(n))
    /\ \A n \in Node : \A m \in Node \ {n} :
          /\ WF_vars(SendPartial(n, m)) /\ WF_vars(LearnModels(n, m))
          /\ WF_vars(SendFull(n, m)) /\ WF_vars(LearnReady(n, m))

FairSpec == Spec /\ Fairness

-----------------------------------------------------------------------------

Stages == {"elect", "train", "publish", "decisions", "gossip", "wait", "await",
           "install", "diffuse", "barrier", "done", "stopped"}
Faults == {"conflict", "integrity", "empty", "rows", "origin", "ledger", "timeout"}

\* Type invariant of the nodes, the registry and the adapter.
TypeOK ==
    /\ experiment \in Experiments
    /\ pc \in [Node -> Stages]
    /\ round \in [Node -> 0..(MaxRound + 1)]
    /\ fault \in [Node -> {None} \cup Faults]
    /\ elected \in [Node -> BOOLEAN]
    /\ rows \in [Node -> SUBSET Trainer]
    /\ pool \in [Node -> Seq(SUBSET Trainer)]
    /\ known \in [Node -> [Node -> SUBSET Trainer]]
    /\ ready \in [Node -> SUBSET Node]
    /\ learner \in [Node -> Digest]
    /\ installed \in [Node -> {None} \cup Digest]
    /\ decided \in [Round -> SUBSET Trainer]
    /\ arrived \in [Round -> SUBSET Node]
    /\ parent \in [Round -> {None} \cup Digest]
    /\ submitted \in [Round -> SUBSET Trainer]
    /\ admission \in [Round -> {None} \cup SUBSET Trainer]
    /\ aggregate \in [Round -> {None} \cup Digest]
    /\ holders \in [Round -> SUBSET Node]
    /\ final \in [Round -> BOOLEAN]

\* Nobody stops: no handler and no stage of a node ever raises.
NobodyStops == \A n \in Node : fault[n] = None

\* A valid aggregate that reaches a node still in its first election is not
\* lost and does not stop it: the intent of vote_train_set_stage.py:55-57, which
\* the code does not meet (README, section 4).
ElectionKeepsAggregate == \A n \in Node : fault[n] # "origin"

\* The barrier keeps the nodes within one round of each other, and a node that
\* is behind has nothing left to do in its round than to pass the barrier.
BarrierSeparation ==
    \A n \in Node, m \in Active :
        round[m] < round[n] => round[n] = round[m] + 1 /\ At(m, "barrier")

\* Each round trains from the model the previous round made final, whoever
\* opens it first (train_stage.py:85, runtime.py:174-177).
ParentIsPreviousAggregate ==
    \A r \in Round : parent[r] # None =>
        parent[r] = IF r = 0 THEN InitialModel ELSE aggregate[r - 1]

\* A node that is past its installation has the round's aggregate in its
\* learner and its confirmation in the ledger, so what it relays is canonical.
RelayIsCanonical ==
    \A n \in Node : pc[n] \in {"diffuse", "barrier"} =>
        /\ installed[n] = aggregate[round[n]]
        /\ learner[n] = aggregate[round[n]]
        /\ n \in holders[round[n]]

\* What a model averages, as its digest tells.
Averaged(h) == UNION (h.pair \cup ToSet(h.rest))

\* The committed aggregate averages exactly the admitted candidates: "aggregate
\* inputs must exactly match finalized admission" (memory.py:295).
AggregateMatchesAdmission ==
    \A r \in Round : aggregate[r] # None => Averaged(aggregate[r]) = admission[r]

\* The chain of models: what is committed, where no wait times out, and what the
\* next round trains from, is made of exactly the admitted.
ChainOfAdmitted ==
    /\ ParentIsPreviousAggregate
    /\ ~Timeouts => AggregateMatchesAdmission

\* The gate of a trainer has judged every contribution in its aggregator's pool.
PoolIsGated == \A n \in Trainer : pc[n] # "stopped" => Contributors(n) \subseteq AdmittedRows(n)

AtMostTwo(S) == \A x, y, z \in S : x = y \/ y = z \/ x = z

\* An experiment in which everything is delivered, every node trains and one or
\* two candidates are admitted, the case of a sum that has only one order.
Harmonious ==
    /\ ~Timeouts /\ ~EarlyExit /\ ~Merging
    /\ Trainer = Node /\ AdmittedSet # {} /\ AtMostTwo(AdmittedSet)

\* The pools hold what the own gate has judged, where single models are gossiped
\* or two nodes train, and nobody raises in a harmonious experiment.
NothingUnexpected ==
    /\ ~Merging \/ AtMostTwo(Trainer) => PoolIsGated
    /\ Harmonious => NobodyStops

\* Trainers that have all admitted models make one model of them: expected by
\* train_stage.py:217 and not met from three models on (README, section 4).
ReceiptsAgree ==
    \A n, m \in Trainer :
        (At(n, "wait") /\ At(m, "wait") /\ round[n] = round[m] /\ Complete(n) /\ Complete(m))
            => Average(pool[n]) = Average(pool[m])

Contract == INSTANCE RoundContract WITH
    Hash <- Digest,
    required <- Node,
    admitted <- admission,
    model <- aggregate,
    done <- final

\* The nodes and their adapter keep the contract of the ledger's rounds.
ImplementsContract == Contract!Spec

\* A node waits for models that nobody sends any more: all others have given
\* up their gossip or wait themselves.
Starved(n) == (At(n, "wait") /\ ~Complete(n)) \/ (At(n, "install") /\ installed[n] = None)
Abandoned == (\E n \in Node : Starved(n)) /\ \A n \in Node : Starved(n) \/ At(n, "barrier")

\* Where gossip may be given up, every node finishes or gives up if the waits time
\* out, and otherwise finishes all rounds, unless all gossip was given up too early
\* for someone or an aggregate stopped a node during its first election.
EveryoneEnds ==
    \A n \in Node :
        <>(\/ At(n, "done")
           \/ Timeouts /\ At(n, "stopped")
           \/ ~Timeouts /\ (Abandoned \/ \E m \in Node : fault[m] = "origin")
           \/ ~EarlyExit)

=============================================================================
