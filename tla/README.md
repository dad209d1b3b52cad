# Formal models of BRBFL

TLA+ models, TLC runs and TLAPS proofs of the Byzantine-robust, ledger-backed
federated learning of this repository: the peer-to-peer learner `src/p2pfl` and
the governance layer `src/brbfl` that plugs into it. Every operator is a
translation of source lines; `PROJECT.json` says which lines, for every run what
it checks, for every property a wrong variant of the code that breaks it, and
the hazards of the code at their lines.

To run it: `tlc -config Lifecycle.cfg MCRoundLifecycle` (and so on, see the
tables below) and `tlapm RoundLedgerProofs.tla`.

## 1. The system

An experiment is one process that holds several `Node` objects. Each node has a
learning thread (its stage machine), a gossip thread, a heartbeat thread, and
runs its message handlers in the threads of the senders (in-memory transport) or
of its gRPC server. The nodes also share process-wide registries: the admission
registry and round barrier (`byzantine_gate.py`) and the runtime ledger adapter
(`ledger/runtime.py`) with its ledger, trust runtime and automaton.

| Component | State it keeps | Operations | Talks to |
|---|---|---|---|
| Lifecycle ledger (`ledger/memory.py`, `base.py`) | participants, one record per round (roles, parent, candidates, decisions, admission, aggregate, installations, final), CA commitments, hash-chained event list, closed flag | `start_experiment`, `register_participant`, `commit_round_roles`, `open_round`, `commit_candidate`, `record_validator_decision`, `finalize_admission`, `commit_aggregate`, `confirm_model_installation`, `finalize_round`, `commit_ca_transition`, `close` | called by the adapter |
| Runtime adapter (`ledger/runtime.py`) | assignments, parents, aggregates, snapshots, evidence | `open_round`, `commit_candidate`, `finalize_admission`, `confirm_installation`, `finalize_round` | ledger, roles, trust, CA; called by gate and stages |
| Validator gate (`byzantine_gate.py`) | per node: judged candidates; per process: decisions and arrivals by round | `submit_and_decide`, `publish_admission_decision`, `wait_for_admitted_contributors`, `wait_at_round_barrier` | stages, partial-model handler, adapter |
| Cellular automaton (`ca/model.py`, `ca/runtime.py`) | a cell per participant: state, streaks, time in state, provenance of a severe finding | `initialize`, `transition`, evidence mapping | adapter |
| Trust (`trust/`) | Beta counts per eligible validator, snapshot per round | `finalize_round`, snapshot queries | adapter |
| Role selection (`selection/roles.py`) | none beyond configuration and cached assignments | `select_roles` of three strategies | adapter |
| Stage machine (`stages/base_node`, `node_state.py`) | round, train set, votes, `models_aggregated`, `nei_status`, locks and events | one stage per phase of a round | aggregator, gate, gossip |
| Aggregator and rules (`aggregators/`) | model pool, expected train set, finish event; memory of SCAFFOLD and FedOpt | `set_nodes_to_aggregate`, `add_model`, `get_model`, `wait_and_get_aggregation`, `clear`, `aggregate` | stages, model handlers |
| Compression (`learning/compression`) | settings that travel with a model | `apply`, `reverse` of each technique | every send of weights |
| Data (`learning/dataset`) | a partition per node | random and Dirichlet cuts, balancing, poisoning, topology | driver |
| Election (`vote_train_set_stage.py`, `vote_train_set_command.py`) | votes by source | vote, receive a vote, tally, validate | broadcast, neighbours |
| Message gossip (`gossiper.py`, `server.py`, clients) | window of processed hashes, pending queue | `broadcast`, `send`, `check_and_set_processed`, periodic forwarding, `gossip_weights` | neighbours |
| Neighbours, heartbeats (`neighbors.py`, `heartbeater.py`) | neighbour table with clients and last beat, its lock | `add`, `remove`, `refresh_or_add`, heartbeat, expiry | clients |
| Start and stop (`node.py`, start/stop/init commands) | learning flags, initialisation lock | `set_start_learning`, `stop_learning`, init model | stage machine |
| Virtual nodes (`learning/frameworks/simulation`) | Ray actor pool, futures | submit, collect | learner |
| Experiment driver, audits and comparators (`mnist.py`, `brbfl/experiments`) | running nodes, registries, rows of evidence, artifacts of a run | create, wait, collect, clean up; `compare_*` | everything |
| Logger (`management/logger`) | registered nodes, metrics and messages, locks of the storages | register, log, forward to the web, reset | every thread |

What is hard about it:

- *Concurrency without a common lock.* A model or a status arrives in any stage
  of its receiver; the handlers test a state that the learning thread is about
  to change. Tables, pools and storages have locks of their own, and some
  methods read them without.
- *Ordering between processes of decision.* Validators decide, contributors
  gossip, aggregators combine, all install: each consumer must see the result of
  exactly the right producer of the right round.
- *Timeouts.* Votes, decisions, models, installations and the barrier are waited
  for with timeouts, after which the code goes on with what it has or raises.
- *Partial failure.* One call of the adapter makes many calls of a ledger that
  may refuse each of them; an experiment may lose a node and still be asked for
  its evidence.
- *Long histories.* Streaks, probation, cool-down and quarantine of the automaton
  and the trust counts show their faults only after several rounds.
- *Numbers.* Aggregates, quantized models and cut datasets must come back as the
  mathematics says, whatever the order of arrival and of the techniques.

What makes each part right: the ledger's records describe one model per round
and never change once final; the barrier keeps rounds apart; every node installs
the aggregate of exactly the admitted candidates; nodes agree on the train set
without comparing it; a participant that misjudges loses its role, and an honest
one never does; a broadcast reaches everybody, is executed once and ends; two
tables agree on a connection; learning starts everywhere from one model; what is
written as evidence happened, and what a comparator claims is true of the runs.

## 2. Modules

    RoundContract        what the rounds of a ledger promise
      ^ refined by
    RoundLedger          the in-memory ledger                    RoundLedgerProofs
    RoundLifecycle       nodes, gate, aggregators, adapter       RoundLifecycleProofs
      AdmissionPolicy    the values rounds are computed from
    CARules              the transition of one cell
      CATransition       the automaton, any evidence             GovernanceProofs
      RoleGovernance     trust, selection, automaton in a loop   GovernanceProofs
      CAExperiment       clean and attacked run of the automaton
    LedgerAdapter        the adapter over a ledger that refuses
    Governance           RoleGovernance and LedgerAdapter        GovernanceProofs
    CausalComparison     clean and attacked run of the gate
    EvidenceComparison   clean and attacked run of an attack on training
    Comparisons          CAExperiment and the two above          ExperimentProofs
    Experiment           driver, hooks and audits of one run     ExperimentProofs
    LearningSession      start, initialisation and stop          LearningProofs
    TrainSetElection     the vote of a round
    MessageGossip        the flood of a broadcast
    Dissemination        TrainSetElection and MessageGossip      DisseminationProofs
    Neighborhood         neighbour tables and heartbeats         NeighborhoodProofs
    ActorPool            the pool of Ray actors
    Telemetry            the logger all nodes share
    Threads              ActorPool and Telemetry                 ThreadsProofs
    AggregationRules     FedAvg, FedMedian, Krum, SCAFFOLD, FedOpt
      Federation         rounds without a gate
    LearningRounds       Federation, beside the rest of learning LearningProofs
    Compression          the way of a model through its techniques
    Partitions           the data of an experiment

`Governance`, `Comparisons`, `Dissemination` and `Threads` put components that
serve the same purpose side by side: one is extended, the others are instances
(`Adapter`; `Votes`, `Updates`; `Gossip`; `Logger`), and the properties of all
are stated there, for the runs and for the proofs. `LearningRounds` is one
instance, `Ungated` of `Federation`, for the same purpose. `MC*` modules give
values to constants. Four of them put several small components into one run: a
variable `part` says which component a behaviour is of, the variables of the
others rest as at their start, and each property speaks of its part.
Where one module is checked in several situations, a variable fixed at the start
holds the situation: `experiment` in `RoundLifecycle`, `load` in `ActorPool`,
`network` in `Neighborhood`, `scene` in `LearningSession`, `Federation`,
`Partitions` and `Experiment`. Definitions called a mutated form are wrong
variants beside the right one; `PROJECT.json` pairs them with the property they
break, and no specification uses them.

**RoundContract** has five variables: who must install (`required`), and by
round the admitted set, the canonical model, its holders, and whether the round
is done. Admission is decided once and before there is a model; holders hold the
canonical model; a round is done when all required participants hold it, and
then nothing about it changes; rounds end in order. It is the abstract
specification of both `RoundLedger` and `RoundLifecycle`.

**RoundLedger** has one variable per field of `InMemoryLedger._Round` and one
action per public operation that changes state. `Mutable(r)` is the guard of
`_round`. A replay of an identical call and a refused call change nothing and
are stuttering steps. The event list `log` is a sequence, so its order can be
compared with the records. `Closable` allows `close()`; on a closed ledger the
code assigns its record and only then fails in `_append`, and so does the
model: the record changes and the log does not. Events carry the facts they
record and no hashes.

**AdmissionPolicy / RoundLifecycle** model a gated experiment. `pc` is the stage
of a node's learning thread: *elect* (`VoteTrainSetStage`, abstracted to its
result, the trainers; the protocol itself is `TrainSetElection`), *train* and
*publish* (training, own candidate through the gate, decision published),
*decisions* (waiting for all decisions), *gossip* (partial models), *wait*
(`wait_and_get_aggregation`), *await* (a node that does not train), *install*,
*diffuse* (`GossipModelStage`), *barrier*, *done* or *stopped*. `SendPartial` and
`SendFull` are a send together with the receiver's whole handler, because the
in-memory transport runs it in the sender's thread; `LearnModels` and
`LearnReady` are the `models_aggregated` and `models_ready` announcements,
received at any later moment or never. The adapter and the ledger appear through
the variables that decide control flow (`parent`, `submitted`, `admission`,
`aggregate`, `holders`, `final`), with `fail_closed` set. A model is the set of
contributors it averages, and a digest separates the first two summands from the
rest, as floating-point addition in the pool's order does. `fault` records why a
node stopped: a conflict of receipts, a missing decision row, an integrity
error, an empty pool, an unknown origin, a refusal of the ledger, a timeout.
Arguments behind the abstraction: partial models are sent only when all
decisions are published, so a receiver under the gate always knows its train
set; a late broadcast equals the same action taken later; an unadmitted model is
never in a sender's pool, so the gate's refusal at the receiver does not occur.

**LedgerAdapter** is the same adapter seen from its calls: `pc` is the place of
each node in a round, and one action is one call of the adapter with all its
calls of the ledger, trust and automaton in their order, each of which may be
refused by the contract or fail once: `Invoke` is the wrapper `_invoke` around
one call (made and taken, or refused, which raises under `fail_closed` and takes
the calls after it with it, and is only noted otherwise), `CastVotes` a validator's decisions on all candidates. Settings are the four switches of
`RuntimeLedgerConfig` that change control flow. `ledger` is any ledger that
keeps the contract of `base.py`.

**CARules / CATransition / RoleGovernance.** A cell has the fields of
`ParticipantCAState`. `Evolved` composes streaks, next state and provenance in
the order of `CATransitionEngine.transition`. `CATransition` (`EngineSpec`) lets
evidence and trust scores be anything in each round: it covers every caller of
the engine.
`RoleGovernance` closes the loop: `OpenRound` selects validators with the
experiment's `strategy` from the previous generation and the trust counts, or
fails; `FinalizeRound` adds the votes to the trust of the selected validators,
maps them to evidence and steps the cells. Byzantine participants may differ from
the reference on any number of candidates in each round, honest ones never do.

**CausalComparison, CAExperiment, EvidenceComparison** each model a clean and an
attacked run of one configuration, the artifact the runs write and the whole
list of checks of the comparators (`compare_byzantine_validator`,
`compare_byzantine_validator_trust`; `compare_ca_state_transition`; `compare_sign_flipping`,
`compare_free_rider`, `compare_collusion`, `compare_backdoor`,
`compare_label_flipping`). A comparator is an operator of the two artifacts;
`verdict` is what it said. What may differ between the runs besides the attack
(trainings that do not repeat, fields that are not what the run did) is bounded
nondeterminism, so that a check that is missing shows as a false claim. The two
comparators of roles (`compare_ca_runtime`, `compare_dynamic_trust_selection`)
read the history of `RoleGovernance` and are operators of it.

**Experiment** is the driver: create the nodes and registries, wait, collect,
clean up in the order of its `finally` blocks; each node's `TrainStage` with its
hooks (attack, gate, audits) and the receptions; a fit, a reception or the
driver's wait may fail. Models are abstracted to what the audits tell apart.
`stops` are the calls of `Node.stop` under way: the driver's, which go through the
nodes one after the other, twice after a failure; that of a learning thread that
has kept its exception; that of a handler. They run beside each other and beside
the threads. A stop quiets its node at once and then returns, is cut short by the
IndexError of `clear_neighbors` and leaves the node running (`broken`), or never
returns, as two nodes hold their tables and wait for each other's (`stuck`).

**LearningSession.** `pc` and `round` are per learning thread, so that a node
that is started twice has two. `StartItself`, `StopItself` are the user's calls,
`Receive` the handlers of start, stop, `model_initialized` and `init_model`, and
the steps of a thread those of `StartLearningStage` with `gossip_weights` and of
the workflow. The initialisation lock that `NodeState.clear` replaces is `held`
together with the threads that wait for an old one ("lost").

**TrainSetElection.** `CastVote` is `__vote` (a ballot is any assignment of
weights to `min(trainset_size, candidates)` candidates: the code draws both at
random), `ReceiveVote` the handler, with its window of this round and the next,
`Tally` the wait, the count with its tie-break, the clearing of the votes and
the validation of the result. `NextRound` is the barrier. Votes travel in
`network` for any time. `Crash` may lose the part of a broadcast not yet sent
and `LoseNeighbor` is a heartbeat expiry at one node. `counted` and `tallied`
are history variables: the votes of each tally and the view it was taken in.

**MessageGossip.** `Broadcast` takes the direct neighbours of the moment and
`BroadcastTo` calls each; `Handle` is the server's `send` with
`check_and_set_processed` and the hop count; `Period`, `SendNext` and
`SendNobody` are the gossip thread; `Disconnect` is a neighbour that leaves.
"memory" hands the same message object to everybody, so that its `ttl` is
decremented for all (`SharedObject`), "grpc" copies it.

**Neighborhood.** A node has a main thread (its user's calls) and a heartbeat
thread; `pc` and `peer` say what each does and with whom. `add` and `remove`
hold the lock of their own table (`lock`) over the call of the other node:
*handshake*, *joined* and *bye*, *parted* are the places around it. `gone` says
which clients a thread still holds have been disconnected since, `shakes` the
handshakes given up by their caller, `late` the beats whose sender was absent
when `refresh_or_add` looked. `crossed` is history: a disconnect has removed a
connection that was made after its own.

**ActorPool.** A thread per node submits a job under the lock, then loops over
`has_next`, `get_next_unordered` and the check for its own future, whose reads
are not under the lock; actors may die, jobs may fail.

**Telemetry.** `calls` are the log calls of threads between lookup, lock and
forwarding; `store` has the entries and the lock of each storage generation, so
that a reset leaves calls with the old one. What a call has read of its storage
(`fresh`: no value of its round; `series`, `seen`) travels with it to the write.
Messages are relayed: `Receive` answers a message whose hash is in `processed`
without a look at it, and without an entry, while its sender logs it as sent;
any other is logged, handled and passed on (`Answer`) to those but its source.

**AggregationRules / Federation.** A model is a vector of numbers by entry, exact
multiples of a unit. The rules are operators: all work entry by entry but Krum,
which selects by the distance of whole models, `Length` of their difference, where
`Length` is a parameter (the sum over the layers of the norms NumPy gives).
`Federation` runs the aggregators of an ungated round with the order of arrival,
unhandled models and partial aggregation. A scene says how many models may come
`late`, between the clearing of an aggregator and the next round.

**Compression.** The techniques of a configuration are applied in its order and
reversed from the last; every scale is exact in the chosen unit, `Wrap` is the
cast to a narrow integer. A technique may raise at the sender, and then nothing is
sent: a factorization of half-precision tensors (`np.linalg.svd` knows no float16,
the default of quantization), a quantization of no parameters.

**Partitions.** The cuts of the training split, the poisoning of one partition,
the audit that compares it with its copy, and the topologies.

## 3. Runs

Each run asks one question; times are with two workers. Every property of a
passing run has a mutant in `PROJECT.json` that breaks it.

| Run (module, time) | Question | Result |
|---|---|---|
| ledger (MCRoundLedger, 2 min) | Competing candidates and aggregates in one round with `close()` anywhere; or two rounds in every order | the log of an open ledger is an exact account of its records; an admission was judged by every validator; the aggregate is that of the admitted; what is installed is canonical; rounds are chained, a final one is frozen; `RoundContract` is implemented |
| lifecycle (MCRoundLifecycle, 2 min) | One round in which every wait may time out; two rounds without timeouts; three trainers that judge each other, one Byzantine and rejected | the barrier keeps rounds apart; each round trains from the previous aggregate, which averages the admitted; what is relayed is canonical; where nothing is unusual nobody raises; `RoundContract` is implemented; everybody comes to an end |
| lifecycle_merged (5 s) | Three trainers, merged models gossiped | refutes `PoolIsGated` |
| ca_recovery (MCCATransition, 10 s) | Recovery enabled | severe provenance is always backed by a finding; probation is bounded |
| ca_severe (5 s) | A severe finding against a suspicious participant | refutes `SevereIsRemembered` |
| governance (MCGovernance, 2 min) | The smoke experiment under two strategies with dissenting validators; the adapter over a ledger that refuses; pairs of runs before their comparators | trust is earned, only dissent is punished, selection is deserved; a refusal leaves no cache ahead of the ledger and no unaccounted round; what the comparators of roles, of the gate, of the automaton and of attacks claim is true, and what they refuse has a reason |
| dissemination (MCDissemination, 3 min) | Two elections with votes ahead of their receivers and a node that may go down; two broadcasts over several paths on both transports, with disconnections | equal views elect equal trainers; a vote counts in its round and a message is executed once; without losses all arrives |
| neighborhood (MCNeighborhood, 35 s) | Two nodes with two calls of their users on either transport, next to one that is off; a line of three with late beats | the two tables of a connection agree; operations end unless nodes wait for each other in a ring, and a node that stopped, or whose heartbeat thread died, is forgotten |
| session (MCLearningSession, 80 s) | Learning started at one node, stopped at one or not, on a triangle and on a line | all enter the rounds with one initial model; a trained model is kept; learning ends everywhere, by its rounds or by the stop |
| threads (MCThreads, 100 s) | Three virtual nodes on two actors with failing jobs; two nodes that log in one or two experiments; three that relay each other's messages | an answer is that of the own last job; no actor is lost or given two jobs; a metric has one value per round; who is on record as having been sent a message has received it, from this sender or another |
| learning (MCLearning, 2 min) | Transfers through every order of techniques; two rounds under each rule, with models of three entries, a liar and late models; data under every strategy, attack and topology | what a plain transfer sends comes back, in its shapes and close to what was sent; nodes agree on the model, which is the weighted mean; a minority neither moves the median out of the range of the honest nor draws Krum far from them; partitions cover, nodes are connected; the audit accepts exactly what the attack asks for |
| experiment (MCExperiment, 100 s) | Eight scenes of the driver with one fault and one stop that goes wrong | evidence that is written happened and has no silent gap; every run ends and is cleaned up, unless a stop hangs |

`TypeOK` is stated in each module; it is proved for the modules of section 5 and
checked through what the other properties need elsewhere. `CHECK_DEADLOCK FALSE`
is set where experiments end: a finished, stopped or failed one has no further
step. `experiment` has no such line: its driver's last step repeats.

### Bounds, and why they are enough

- *ledger*: two participants, two competing candidate and aggregate hashes in one
  round; two rounds with one assignment. A conflict needs two values and a chain
  two rounds; the proofs remove the bounds.
- *lifecycle*: two trainers and one validator that does not train is the
  smallest network where a node only awaits, relays and judges. Three trainers
  are used where a Byzantine judge must be outvoted or a model merged. Two
  rounds expose what crosses the barrier, since the barrier forbids a distance
  of two. Gossip is a set of sends enabled while useful; with `early`, it may
  give up at any point, as the code does when the status of its neighbours
  stagnates.
- *ca_recovery, ca_severe*: two participants that see each other, six rounds,
  thresholds of one to three, so that every streak, probation and cool-down is
  passed at least once. The proofs remove all these bounds.
- *governance*: the five participants and thresholds of
  `configs/smoke/mnist_ca_runtime_attacked.yaml`, with all five eligible for
  three seats, so that selection has to choose, and three dissenters, so that it
  can fail. Four rounds let trust cross its threshold and a severe finding,
  probation and exclusion follow each other. The adapter has two trainers, two
  validators, two rounds and one call that fails; the comparators two or three
  nodes, two rounds (the automaton's up to five), one training that does not
  repeat and one field of an artifact that is wrong, or one absence: each of
  their checks compares two values.
- *dissemination*: three nodes, two of them eligible for one place and one that only
  votes and may go down, so that a vote can reach some nodes and not others.
  Weight one makes a tie as soon as an even number of votes is counted. Two
  rounds let votes overtake the barrier. A triangle with a tail has two ways to
  one node and a single one to another, of length two, which is the `TTL`;
  `Saved = 1` gives the window of processed messages two places (it drops the
  oldest when it has more than `Saved`), which two broadcasts fill: one place
  less and a message is executed twice. A longer history than the window may
  execute a message again, as the code accepts. Connections of node 2, the
  second way to node 3, may break: lost ones are what `EverythingArrives` excuses,
  and `CountedOnce` is proved for any.
- *neighborhood*: a race on one connection needs two nodes and two calls; a beat
  that is passed on needs a line of three and one hop.
- *session*: the line gives the initial model a relay, the triangle two ways.
  Two rounds and two periods of equal status let `gossip_weights` leave early.
- *threads*: more nodes than actors, two jobs per node, one fault; two
  experiments show what crosses the reset; with three nodes a message reaches
  one of them twice, from its source and from a relay.
- *learning*: three-bit integers and three binary digits make every rounding,
  clipping and cast happen; three trainers have an order of arrival; models have a
  layer of two entries and one of one, so that Krum adds a distance that is not
  that of any entry to another; `late` is 0 or 1, one model being enough to
  come before the round it does not belong to; five or six
  rows and three or four partitions make a rest, an empty cut and a retry.
- *experiment*: two rounds, two nodes or three where a train set or a collusion
  needs them, one fault (a failed fit, a failed reception, a driver that gives up);
  `MaxBadStops` = 1: of one node a stop may hang or be cut short, which each of the
  driver's passes and the node's own stop may meet.

### Fairness

Weak fairness only.

- `MCRoundLifecycle!RunFairness` (`RoundLifecycle!Fairness` where gossip may be
  given up): each learning thread is scheduled (they are daemon threads without
  priorities); the gossip loop samples its candidates again in every period,
  hence a send that stays useful is made, until the thread gives up; an
  announcement among live nodes arrives. Where waits may time out, the timeout
  is one of the steps of its thread, since clocks do not stop.
- `MCDissemination!Fairness`: for the election one conjunct per live node over
  all its steps together, weaker than fairness of its learning, server and
  heartbeat threads apart; for the gossip, a broadcast that has begun goes on and
  each gossip thread, while it lives, runs (`gossiper.py:93`).
- `Neighborhood!FairSpec`: each of the two threads of a node, the passing of time,
  beats on their way and late additions. Weak fairness is enough for the locks:
  they are held over several steps only where a direct connection is made or
  ended, and there are finitely many of those.
- `LearningSession!FairSpec`: the user's call goes on, each learning thread runs,
  messages arrive.
- `Experiment!FairSpec`: the driver, each learning thread, the stops under way and
  the receptions. Stops and receptions are finitely many, so that fairness of all
  together lets each go on; a stop that hangs takes no further step.

Crashes, early exits, disconnections and faults are never fair.

## 4. Where the code differs from what it says

Two runs refute a property that the repository states; TLC prints the steps.

- *PoolIsGated* (lifecycle_merged): only models of a single contributor pass the
  receiver's gate; a merged one goes to the pool, and the trainer stops later for
  a missing row (`partial_model_command.py:92`, `train_stage.py:210`). Gossiping
  single models avoids it.
- *SevereIsRemembered* (ca_severe): severe evidence against an already suspicious
  participant without an unresolved finding leaves no provenance
  (`model.py:299`), so neutral evidence afterwards clears it.

The modules state further properties that the code does not meet and no run
lists. Each is refuted by TLC with the change given here, in the place of the
properties of the configuration. Where the module of the property is one part of
a union module, the invariant is stated there under its instance and for its
part: `part = "adapter" => Adapter!NeverStops`, `part = "rounds" =>
Ungated!Agreement`, `part = "transfer" => Transfer!EverythingIsSent`, `compared =
"votes" => Votes!FinalIsTold`, `compared = "updates" => Updates!CauseIsAttack`.

| Property | Change to reproduce | What the code does |
|---|---|---|
| `RoundLedger!AdmissionCoversCandidates` | add to Ledger.cfg | `commit_candidate` ignores that the admission is final, so a candidate may stay undecided (`memory.py:169` against `:270`); above the adapter it cannot happen (governance) |
| `RoundLedger!EveryFactHasEvent` | add to Ledger.cfg | on a closed ledger the record is assigned before `_append` refuses the event (`memory.py:60`) |
| `RoundLifecycle!ElectionKeepsAggregate` | add to Lifecycle.cfg | before its first election has ended a node has no train set and refuses every aggregate by stopping (`full_model_command.py:107`) |
| `RoundLifecycle!ReceiptsAgree` | in LifecycleMerged.cfg, with `rejected` empty and `merging` false | sums of three models in order of arrival may differ, and the second receipt is a conflict (`fedavg.py:66`) |
| `RoundLifecycle!AggregateMatchesAdmission` | add to Lifecycle.cfg | after a timeout a trainer aggregates a part, while the ledger is told the inputs were all admitted hashes (`aggregator.py:311`, `runtime.py:308`) |
| `RoleGovernance!RankedFailsForTrust` | in Governance.cfg, with `Eligible = {0, 3, 4}` and `Strategies = {"trust_ranked"}` | the adapter offers scores for all participants, the ranked selector demands exactly the pool's (`runtime.py:196`, `roles.py:201`) |
| `LedgerAdapter!NeverStops` | add to Governance.cfg | without `fail_closed`, trust and automaton still raise out of `finalize_round` once a round was refused |
| `LedgerAdapter!ConsumesFinal` | add to Governance.cfg | of trust and automaton only the latter asks for a verified round, and `verify_round` says nothing of finality (`runtime.py:331`) |
| `CausalComparison!FinalIsTold` | add to Governance.cfg | `compare_byzantine_validator_trust` never relates the final states to the last round |
| `EvidenceComparison!CauseIsAttack`, `SameTrainers` | add to Governance.cfg | no comparator compares initial models or benign updates; without a training audit every node counts as a participant (`mnist.py:515-519`) |
| `TrainSetElection!VotesOfTheRound` | Dissemination.cfg with `Timeouts = TRUE` | a vote that misses its election is stored for the next one unless replaced in time (`vote_train_set_command.py:55`) |
| `MessageGossip!GossiperSurvives` | add to Dissemination.cfg | `send` raises for a disconnected client although errors were not asked for, and the gossip thread ends (`memory/client.py:135`) |
| `Neighborhood!StopEnds` | add to Neighborhood.cfg | two nodes that stop, remove or connect each other at once each hold their table and wait for the other's (`protobuff_communication_protocol.py:122`) |
| `Neighborhood!HeartBeats` | add to Neighborhood.cfg | a client disconnected since the snapshot raises in the heartbeat thread, which ends (`heartbeater.py:114`) |
| `LearningSession!EveryRoundRuns` | Session.cfg with `MaxStarts = 2`, `Threads = 2` | `current_stage` is never reset, so a second experiment begins at its end (`workflows.py:45-48`, `node.py:124`) |
| `LearningSession!NobodyIsLost` | add to Session.cfg | `clear` replaces the lock a thread waits for (`stop_learning_command.py:60-64`) |
| `ActorPool!EveryJobAnswered` | add to Threads.cfg | `has_next` and the list of futures are read without the lock (`actor_pool.py:337-339`, `:363`) |
| `Experiment!WrittenIsComplete` | add to Experiment.cfg | `wait_to_finish` takes a node that its own handler stopped for finished (`utils.py:234`, `partial_model_command.py:165-167`) |
| `Experiment!ReachedIsEntered` | Experiment.cfg with `Scenes <- AuditedGate` | the audit observes an update before the gate decides on it (`train_stage.py:128-141`, `free_rider_evidence.py:165`) |
| `Experiment!NothingUngated` | add to Experiment.cfg | the `finally` block clears the gate before it stops the nodes (`mnist.py:866-871`) |
| `Experiment!NothingIsLeft` | add to Experiment.cfg, as a PROPERTY | a node's own stop, begun after its exception was kept, and the driver's stop of another hold their tables and wait for each other's (`node.py:437-439`, `utils.py:225-227`, `neighbors.py:112-116`); an IndexError in `stop` is swallowed and leaves the server running (`node.py:258`) |
| `Federation!Agreement` | add to Learning.cfg | a partial model that comes between the clearing of an aggregator and its next round counts in that round, only at the nodes it came to (`round_finished_stage.py:61`) |
| `Federation!SelectedInRange` | add to Learning.cfg | Krum measures whole models: a liar in the middle of the honest is nearest to all, whatever it has in an entry that weighs little (`krum.py:70-83`) |
| `Compression!EverythingIsSent` | add to Learning.cfg | the sender raises in some orders of techniques: low rank leaves quantization no parameters when all layers are matrices ("Empty parameter list", `quantization_strategy.py:82`), cannot factor the float16 tensors quantization makes (`lra_strategy.py:47`); per-channel scales of a vector and a second byte compressor are refused too |
| `Telemetry!FiledAsMeasured` | add to Threads.cfg | a late metric is filed under the experiment and the round of now (`logger.py:300`, `metrics_command.py:53`) |
| `Telemetry!WebAsMeasured` | add to Threads.cfg | the web logger forwards the round of the experiment (`web_logger.py:205-211`) |
| `Telemetry!LearningOutlivesTelemetry` | add to Threads.cfg | an unanswered web request raises out of `log_metric` (`p2pfl_web_services.py:228`) |

More is visible in the actions and operators without a property of its own:

- *Gossip.* The budget of a period is never used up (`gossiper.py:141`), so
  `Period` takes the whole queue; the shared `ttl` of the in-memory transport
  counts forwards, not hops.
- *Neighbours.* A handshake given up by gRPC leaves one end of a connection; an
  entry removed while `clear_neighbors` goes through the table ends `stop` with
  an IndexError.
- *Start and stop.* After a stop a thread about to wait sets the experiment again;
  an initial model overwrites a trained one when the announcement has expired
  (`init_model_command.py:69`) and is lost when it arrives before
  `set_experiment`; two starts of one node run two learning threads.
- *Adapter and gate.* When `publish_admission_decision` raises, waiters are not
  notified and sleep to their timeout (`byzantine_gate.py:384-393`).
- *Federation.* Krum and SCAFFOLD depend on the order of arrival, FedOpt on a
  constant train set (`SameModel` speaks of comparable models only). When the
  replay of late models meets one that completes the pool, those after it are
  appended to the list that is being gone through, for ever
  (`aggregator.py:120`): such a node stays before its round. A result of FedMedian
  has no contributors.
- *Compression.* Per-channel asymmetric quantization casts before it clips, so
  127.5 becomes -128 (`quantization_strategy.py:412-415`); a constant tensor of
  the other sign gets a negative scale, and one-dimensional per-channel scales
  are refused by the decoder; `RoundTrip` speaks of the settings without these.
- *Pool.* A job given to a flagged actor is dropped (`actor_pool.py:205-212`), and
  a dead actor is idle before it is flagged.
- *Experiments.* Evidence of a round is asked of all nodes, so an audited run
  with more nodes than trainers is always refused (`mnist.py:481`); four attacks
  have no validator in `audit_partition` (`attack_evidence.py:239`); a backdoor
  audit refuses correct poisoning of an image that wears the trigger already;
  Dirichlet partitions may be smaller than the promised minimum after rounding
  (`partition_strategies.py:284`). `compare_label_flipping` refuses no pair of
  artifacts and truncates the longer run (`compare_label_flipping.py:22`);
  `compare_ca_runtime` knows four transition reasons and exactly six rounds.

## 5. Proofs

Eight modules `*Proofs.tla` hold theorems checked by TLAPS, for every value of
the constants that satisfies the assumptions named in the modules they extend
(TLC evaluates those assumptions in the runs). A theorem that needs more says so
as its hypothesis. In each the argument is the same: an inductive invariant
`IInv`, of which `TypeOK` is a part, `Init => IInv`, `IInv /\ [Next]_vars =>
IInv'` with one lemma per action, and the property from `IInv`. The safety
properties are seldom inductive by themselves; what follows says what had to be
added and why.

**RoundLedgerProofs** (`BoundAssumption`, `NoneAssumption`, `InputAssumption`).
That a candidate's judges are the selected validators only makes sense while the
round's roles exist and are fixed, so `SettledHasRoles` says that whatever is
settled belongs to a round with roles. With it `AdmissionJudged` survives the
commitment of new roles, `AggregateOfAdmitted` survives late candidates because
finalized maps are immutable, and `RoundsChained` follows from the guards of
`commit_round_roles` and `finalize_round`. `FinalizedIsFrozen` is an action
property, one case per operation; `LedgerKeepsContract` the refinement of
`RoundContract`; `LogAccounts` and `EventsAreJustified` relate the records to the
sequence of events: every operation appends the event of the one fact it adds,
and whatever it needed is before it.

**RoundLifecycleProofs** (`PolicyAssumption`, `BoundAssumption`,
`NoneAssumption`). Threads only go on along the stages of a round, commitments
only grow (`CommitmentsGrow`, itself a theorem), who has arrived at a barrier
stays there and is a holder, a final round has everybody at its barrier
(`Arrivals`, `Finals`); from these `NodesStayTogether`. The first confirmation of
a round comes from a trainer that aggregated, and what it registers is final
(`Settled`, `Installs`, `Parents`): `OnlyCanonicalIsRelayed`, `ChainIsOfAdmitted`.
Pools average nobody twice and only trainers past their own admission (`Pools`);
without timeouts a complete pool is the admitted set (`Matches`). In a harmonious
experiment (no timeouts, at most two admitted, models that pass their gates)
there is one average only, so no receipt conflicts and no stage or handler
raises: `NothingUnexpectedHappens`. `LifecycleKeepsContract` maps each step to a
step of the contract or a stutter.

**GovernanceProofs**, three specifications and the comparators of roles.

The automaton, `EngineSpec` (`CAPolicyAssumption`, `EngineAssumption`): any
topology, policy, evidence and scores. That no cell moved later than the round
its snapshot was made from (`NoLaterThanSource`) is needed because provenance
compares numbers of rounds. `ProvenanceNeverRefused`: the checks in
`ParticipantCAState.__post_init__` never fire on the engine's own results;
`ProbationEnds`, `TrustNeedsASeed`, `QuarantineIsFinal`.

The adapter, `Adapter!Spec` (`LedgerAdapterAssumption`): any participants, rounds,
settings and number of failed calls. That a cache is backed by the ledger
(`CachesBacked`) is not inductive, because what an operation may still do
depends on where its thread is. `AdapterInv` adds: only trainers publish, and
whoever has decided in a round is past its publication (`TrainersPublish`); an
admission decides all candidates and comes with the last trainer's decision
(`AdmissionIsLast`), so no candidate is committed after it; what the ledger calls
final is installed by all (`FinalIsInstalled`); without `fail_closed` the
adapter's own cache of candidates has everything that was decided, although the
ledger may not (`ObserverKnows`). Each operation is then a case distinction over
the call that fails: `AdmissionsCover`, `RefusalsStayContained`.

Selection, `Spec` (`GovernanceAssumption`, `CAPolicyAssumption`). A
counter of positive evidence is a streak of agreement (`Streaks`), a disagreement
is on record (`Found`), without recovery nobody comes back from one
(`Quarantined`): `TrustIsByVotes`, `OnlyDissentersArePunished`. A second
invariant relates the trust counts to the history: trust is the prior plus the
sum of all votes of all finalized rounds (`Accounted`). The sums are recursive
functions in the model, about which the prover has no induction of its own;
their existence is part of the invariant (`Summable`), extended by one summand
with each round. With it `MajorityDissentersAreOut`, and
`SelectionFollowsVotes` for configurations in which everyone is eligible, the
target is the configured number of validators, and even trust suffices (the
shipped ones).

The comparators of roles read a few rounds of such a history: the claim is an
equivalence, for any set of declared nodes. `RoleHistory` says where the history
comes from: every finalized round was answered by its selected validators and
nobody else (`Answered`), those of round 0 were configured (`FirstConfigured`),
under `ca_state` later ones come from the pool of the generation before
(`FromPool`). `Quarantining` is the setting `compare_ca_runtime` is made for: one
bootstrap round, at least three rounds, no recovery, a severe finding that leads
to suspicion and a probation of at most one round. Then a declared node that
disagreed in round 0 is suspicious, then excluded, as its cells say
(`RuntimeClaimIsTrue`). `Rotating` is that of the dynamic trust: the prior meets
the minimum of trust and one round of dissent misses it. Together with the trust
that the votes add up to (`Accounted`) the ranking of round 1 is then known
(`Rotated`), and low trust rotated the validators exactly when the declared nodes
disagreed on everything (`DynamicClaimIsTrue`). `RoleClaims` joins both.

**DisseminationProofs** (`ElectionAssumption`, `GossipAssumption`).

The election (safety for `Timeouts = FALSE`). One vote per node and round, wherever it is stored, under
way or counted (`Unique`, `Once`); the barrier (`Together`); what is stored of a
neighbour is of the node's election or a later one (`Fresh`); so the votes two
nodes count of the same view are the same function, and `Elected` of it is the
same set: `TrainSetsAgree`, `VotesCountInTheirRound`. Not proved: that at most
`TrainSetSize` are elected, a fold.

The gossip, for any network, transport, hop limit and losses. `GossipTypes` says
that no window outgrows what is saved and no hop count leaves 0..TTL, shared
object or not. That a node executes a message once (`ProcessedOnce`) is only true
while its window forgets nothing, hence `FewMessages`: a window of `Saved + 1`
places and at most so many messages. Then `GossipInv` holds: a node has executed
exactly what is in its window, each once, and nothing of its own; the window of a
node that meets a new message has room because it holds each of the others at
most once (`WindowHasRoom`). `EverythingCountsOnce` joins both parts.

**LearningProofs** (`SessionAssumption`, `LearningAssumption`). `InitialModelIsShared` holds for
any networks, starts and stops: past the wait a node has the model of a starter
or a trained one. `TrainedModelIsKept` is for an experiment started once and
stopped by nobody, and rests on an invariant about the whole session (`Session`):
one thread per node, locks other than the starter's are released by models that
were announced, and a node that may still receive an initial model has one
sender only and has trained nothing. With two starts TLC found no counterexample
within ten minutes, but the argument does not cover them. `SessionTypeCorrect`
includes that the loop of the gossip indexes its list of periods within bounds.

`AggregatesAreHonest` is about `Federation`, for models with any entries, any nodes,
rounds, train sets, drifts and numbers of late models. Its one hypothesis is that the
`Length` of a difference is that of a norm on all vectors (`IsNormOn`: naturals,
symmetric, with the triangle inequality), which in exact arithmetic a sum of
norms of the layers is; it is a hypothesis and no assumption of the module because
TLC cannot go through all vectors (it does through those of `Learning.cfg`, an
ASSUME of `MCLearning`). The theorem has two halves. That a pool holds
what was submitted: each model in it is of one node of the round, of no other
model's node, and what that node submitted for good in this round or, where models
may come late, in an earlier one (`Pools`), as a node that has trained does not
train again in the round (`Advances`) and without late models an aggregator is empty
when its round begins (`Emptied`); so the pool of a complete train set is a
bijection of its nodes, and what is fair to the honest by what was submitted stays
so when more is (`FairStays`). And that the rules are not misled: an entry of middle
rank outside the range of the honest ones would need half of the models beyond it
(`RankIsHonest`). The model Krum selects has no greater sum of distances than an
honest one (`SelectedIsNearest`); written out with the triangle inequality, its
distance to that one, once for each honest model and less once for each liar, is at
most twice the sum of the distances of the honest ones (`SumsDiffer`, `KrumIsNear`).
Sums and orders of arrival are folds, which the lemmas follow place by place
(`FoldExists`).

**NeighborhoodProofs** (`NeighborhoodAssumption`), for any nodes, networks and
numbers of calls. The lock of a table is held exactly at the places around a
call of the other node (`Locked`); a client whose message failed belongs to a
direct neighbour or is recorded as disconnected (`HasClient`). `Ends` says, for
each pair, who explains that one table has the other node and not conversely: a
thread that has shaken hands and not yet written, one that has said goodbye and
not yet deleted, one whose message failed. Each of the seven steps on
connections preserves it because the other node's table is free while it is
changed, and a free table has no thread in such a place. `ConnectionsAgree`
follows once no such call is under way. It is for the in-memory transport, and
for histories in which no disconnect removed a newer connection (`crossed`); over
gRPC it is false (section 4).

**ThreadsProofs** (`PoolAssumption`, `LoggerAssumption`).

The pool, for any nodes, actors, jobs and faults. A future belongs to the job last submitted (`OwnFuture`), the lock is held exactly
between its acquisition and its release (`Locked`), idle, busy and lent actors
are disjoint and their number is the pool's count, also while the lock is held
and the count is being changed (`Accounts`), and no job waits while an actor is
idle: `AnswersAreOwn`, `EveryActorIsUsed`.

The logger, for any nodes, rounds, experiments, calls under way, resets, stops and
outages. The test for a value of the round and its write are two steps, so that a
series has one value per round (`OncePerRound`) must say why nobody writes in
between: whoever is about to write holds the lock of its storage (`Held`), and
therefore what it noted still describes that storage (`Noted`); each series has
one value per round (`SeriesOnce`), and a call that has written finds its value
there (`Written`). All of this is about the storage a call looked up, which a reset
may have replaced meanwhile. A node that knows the hash of a message has it on
record, or is about to (`Had`), a reset included, as storages only grow in number,
and no message is sent back to its source (`NotToSource`); so whatever is answered,
with or without a look at it, is on record at its receiver: `LogsAreExact`.

**ExperimentProofs** (`ScenesAssumption`), for any set of scenes with any number
of nodes and rounds, any faults and any stops, of which each may return, break or
hang. Evidence is a row that several hooks wrote at
several places of a thread, so the invariant follows the row along the thread:
the round of the audit and the round of the node agree while it trains
(`InStep`); the model between fit and aggregation is what the attack made of it,
and the row records that model (`ModelOnRecord`); nothing is observed before it is
submitted (`Unseen`), an observed update is the attack's outcome and has entered the
aggregator unless the gate keeps it out, the thread failed, or it is just on its
way (`Recorded`); a row is closed when its round is installed (`Closed`). Of the
driver: the gate is the scene's until the cleanup, and evidence is collected of
finished threads only (`DriverInv`). With it `EvidenceIsTheRun`: what is written
states what entered, and nothing is written with a gap.

The same module proves what `Comparisons` states (`ComparatorAssumption`, the
assumptions of its three parts). `ComparatorsAreRight` joins the three, for any
nodes, policies, configurations and numbers of rounds.

*Automaton* (`ExclusionClaimHolds`, `InterventionIsTold`). The comparator reads two
rounds and its claim is about all, so the invariant of the pair says what the
first two rounds are and that the rest follows: who attacks is suspicious after
round 0 (`Hit`) and, not being evaluated, excluded after round 1 if the probation
is over (`Judged`); an exclusion lasts (`ExclusionLasts`), as recovery asks for
positive evidence and an excluded participant gets none; who does not attack has
no count against it (`Unblemished`), and roles are drawn from the states of the
round (`Assigned`).

*Votes* (`VotesAreJudged`). `GateInv` says what a run under the gate leaves behind:
each candidate of a round is trained from the model of the round before it, with
or without a deviation that does not repeat, and its votes are those of the validators, inverted where they are the adversary's
(`VoteRows`); the line of a round is computed from its rows (`VoteRounds`), the
trust after a round from the votes until then (`VoteTrust`); the clean run comes
first and both are complete when they are compared (`VoteProgress`). An artifact
is what its run did, but for one field of one of them (`VoteArtifacts`). Whatever
that field is, another check of the comparator reads what it contradicts; the
argument needs that what is read there is not wrong too, hence the hypothesis
`MaxLies <= 1`.

*Updates* (`AttacksAreJudged`). `UpdateInv` says of every row what the attack made of
the update: flipped, the model unchanged, displaced by the size of the training to
the side of the round, or as trained. That the updates of a round add up to an
integer is needed to decide whether two runs end with different models; the sum
is a fold over a finite set, and the prover has no induction that could be
instantiated with it. `AllNumbers` states induction for a set of numbers, as the
absence of a least counterexample, and `SumIsInteger` uses it on the set of sizes
for which the fold is defined.

Only model-checked: all liveness, which needs fairness and `ENABLED`
(`EveryoneEnds`,
`EverythingArrives`, `TablesSettle`, `LearningEnds`, `RunEnds`), and four properties of run
*learning* (`RoundTrip`, `SameWeightedModel`, `DataIsPrepared`, `AuditIsExact`).
Those are statements about what folds, sorts and divisions compute from sequences
of any length, in the case of `Partitions` about recursive operators, which the
prover cannot take at all.

## 6. What is not modelled

Tensors and training, differential privacy, ranks, half-precision overflow and
layers of different types in compression, loading and transforming of data,
detectors and offline evaluation, text logs and files, the command-line tools:
numerical or pure input and output. Of the attacks, those without evidence in
the repository (scale, model replacement, delay, sybil). gRPC itself: addresses,
certificates, and the pool of two server threads, which may be exhausted by
handlers that wait for a lock. In the modelled parts: per-round fixtures and the
repetition of a frozen selection, bootstrap states and other priors, the counter
of temporal connections (`memory/client.py:107-163`), timeouts of joins and of an
ungated round, decoding errors of the model commands, the creation of actors.
`TrainSetElection` takes the neighbour table of a tally and of the validation
that follows it as one, and all nodes as started. `PROJECT.json` says for each
component what is left out, and for each hazard that no property covers, or covers
in part, why.

## 7. Plan

Every safety invariant of the runs is proved, under the hypotheses named in
section 5, but for four of run *learning*. What would extend the models further:

1. A liveness property of `Federation`, with the timeouts of an ungated round, for
   the node that stays before its round (`aggregator.py:120`).
2. The bootstrap states and priors of `RoleGovernance`, and its repetition of a
   frozen selection.
3. `InitialModelIsShared`'s companion `TrainedModelIsKept` for two starts.
4. The timeouts of joins and of an ungated round in `RoundLifecycle`.
