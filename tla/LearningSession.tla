--------------------------- MODULE LearningSession ---------------------------
(***************************************************************************)
(* Start, initialisation and stop of learning: set_start_learning and      *)
(* set_stop_learning of node.py, the commands start_learning, stop_learning,*)
(* model_initialized and init_model, the stage StartLearningStage with its *)
(* gossip of the initial model (gossip_weights, PRE_SEND_MODEL), and the   *)
(* workflow that runs the stages.  A round is one step here: what happens  *)
(* in it is RoundLifecycle.                                                *)
(***************************************************************************)
EXTENDS Naturals, Sequences, FiniteSets

CONSTANTS
    Node, Trained, \* nodes; a model that was trained, which is nobody's initial one
    Scenes,      \* BOUND: networks, rounds of an experiment, nodes whose users stop it once
    EqualRounds, \* Settings.gossip.EXIT_ON_X_EQUAL_ROUNDS
    Starters,    \* BOUND: nodes whose users start learning, and how often in all
    MaxStarts,
    Prompt,      \* the second before the gossip is enough for neighbours to begin
    Threads      \* BOUND: learning threads a node ever starts

ASSUME SessionAssumption ==
    /\ Trained \notin Node
    /\ Scenes \subseteq [link : [Node -> SUBSET Node], rounds : Nat \ {0}, stoppers : SUBSET Node]
    /\ \A s \in Scenes : \A n \in Node : \A m \in s.link[n] : m # n /\ n \in s.link[m]
    /\ Starters \subseteq Node
    /\ EqualRounds \in Nat \ {0, 1} /\ MaxStarts \in Nat /\ Threads \in Nat
    /\ Prompt \in BOOLEAN

VARIABLES
    scene,     \* one of Scenes
    running,   \* the node's protocol runs
    started,   \* rounds of the experiment a node is in plus one, 0 without one
    held,      \* model_initialized_lock is locked
    known,     \* keys of nei_status
    announced, \* sending_models holds the announcement of an initial model, for longer
               \* than the gossip lasts (MODE_EXPECTATION_TIMEOUT)
    model,     \* whose initial model the learner has, or Trained
    stage,     \* current_stage of the workflow
    finished,  \* finished of the workflow
    pc,        \* what a learning thread does
    seen, turn,\* last_x_status and j of the gossip of a thread
    targets,   \* whom it sends to in this period
    user,      \* what the user of a node does
    network,   \* messages on their way to nodes that are not direct neighbours
    starts, stopped \* starts so far; nodes whose user has stopped learning

vars == <<scene, running, started, held, known, announced, model, stage, finished,
          pc, seen, turn, targets, user, network, starts, stopped>>

Link == scene.link
Rounds == scene.rounds
Thread == Node \X (1..Threads)
Learning(n) == started[n] > 0   \* state.round is not None
Round(n) == started[n] - 1
Past == {"gossip", "offer", "send", "rounds", "finish"}

\* last_x_status: the first ones are kept as lists, later ones as strings.
Status == [text : BOOLEAN, of : SUBSET Node]

Init ==
    /\ scene \in Scenes
    /\ running = [n \in Node |-> TRUE]
    /\ started = [n \in Node |-> 0]
    /\ held = [n \in Node |-> TRUE]
    /\ known = [n \in Node |-> {}]
    /\ announced = [n \in Node |-> FALSE]
    /\ model = [n \in Node |-> n]
    /\ stage = [n \in Node |-> "start"]
    /\ finished = [n \in Node |-> FALSE]
    /\ pc = [t \in Thread |-> "none"]
    /\ seen = [t \in Thread |-> <<>>] /\ turn = [t \in Thread |-> 1]
    /\ targets = [t \in Thread |-> {}]
    /\ user = [n \in Node |-> "idle"]
    /\ network = {}
    /\ starts = 0 /\ stopped = {}

-----------------------------------------------------------------------------
(* Handlers, for the nodes in a set at once. *)

\* __start_learning_thread, whatever the node is doing.
FirstFree(n) == CHOOSE k \in 1..Threads : pc[<<n, k>>] = "none" /\ \A i \in 1..(k-1) : pc[<<n, i>>] # "none"
HasFree(n) == \E k \in 1..Threads : pc[<<n, k>>] = "none"
Begun(nodes, pcs) ==
    [t \in Thread |-> IF t[1] \in nodes /\ HasFree(t[1]) /\ t[2] = FirstFree(t[1]) THEN "begin" ELSE pcs[t]]

\* NodeState.clear makes new locks: who waits on a locked old one waits for ever.
Unlocked(nodes, pcs) ==
    [t \in Thread |-> IF t[1] \in nodes /\ pcs[t] = "wait" /\ held[t[1]] THEN "lost" ELSE pcs[t]]

\* (Mutated form: nei_status outlives the experiment, which stays set.)
ClearedButRound(nodes) ==
    /\ UNCHANGED started
    /\ held' = [n \in Node |-> IF n \in nodes THEN TRUE ELSE held[n]]
    /\ known' = [n \in Node |-> IF n \in nodes THEN {} ELSE known[n]]
    /\ announced' = [n \in Node |-> IF n \in nodes THEN FALSE ELSE announced[n]]
Cleared(nodes) ==
    /\ started' = [n \in Node |-> IF n \in nodes THEN 0 ELSE started[n]]
    /\ held' = [n \in Node |-> IF n \in nodes THEN TRUE ELSE held[n]]
    /\ known' = [n \in Node |-> IF n \in nodes THEN {} ELSE known[n]]
    /\ announced' = [n \in Node |-> IF n \in nodes THEN FALSE ELSE announced[n]]

Up(nodes) == {n \in nodes : running[n]}

\* A broadcast runs the handlers of the direct neighbours and is gossiped to the rest.
Message(kind, n) == {[kind |-> kind, of |-> n, to |-> m] : m \in Node \ (Link[n] \cup {n})}

\* init_model at node n.  The lock is locked again once the learning thread has
\* acquired it.  (Mutated form: the lock is not looked at.)
AcceptsAny(n, round) == Learning(n) /\ round = Round(n)
Accepts(n, round) == Learning(n) /\ round = Round(n) /\ held[n]

\* PRE_SEND_MODEL of an initial model at node n.  (Mutated form: no record is kept.)
RecordedNot(n) == UNCHANGED announced
Recorded(n) == announced' = [announced EXCEPT ![n] = TRUE]

-----------------------------------------------------------------------------
(* The users of the nodes. *)

\* set_start_learning: the broadcast of start_learning,
SetStartLearning(n) ==
    /\ n \in Starters /\ starts < MaxStarts /\ user[n] = "idle"
    /\ running[n] /\ ~Learning(n)
    /\ starts' = starts + 1
    /\ user' = [user EXCEPT ![n] = "starting"]
    /\ pc' = Begun(Up(Link[n]), pc)
    /\ network' = network \cup Message("start", n)
    /\ UNCHANGED <<scene, running, started, held, known, announced, model, stage, finished, seen, turn, targets, stopped>>

\* then the release of the lock, which raises when it is not locked, the broadcast
\* of model_initialized and the own thread.
StartItself(n) ==
    /\ user[n] = "starting"
    /\ user' = [user EXCEPT ![n] = "idle"]
    /\ IF held[n]
       THEN /\ held' = [held EXCEPT ![n] = FALSE]
            /\ known' = [m \in Node |-> IF m \in Up(Link[n]) THEN known[m] \cup {n} ELSE known[m]]
            /\ network' = network \cup Message("initialized", n)
            /\ pc' = Begun({n}, pc)
       ELSE UNCHANGED <<held, known, network, pc>>
    /\ UNCHANGED <<scene, running, started, announced, model, stage, finished, seen, turn, targets, starts, stopped>>

\* set_stop_learning: broadcast and __stop_learning, the same as the command.
SetStopLearning(n) ==
    /\ n \in scene.stoppers \ stopped /\ running[n] /\ Learning(n)
    /\ stopped' = stopped \cup {n}
    /\ LET nodes == Up(Link[n] \cup {n}) IN Cleared(nodes) /\ pc' = Unlocked(nodes, pc)
    /\ network' = network \cup Message("stop", n)
    /\ UNCHANGED <<scene, running, model, stage, finished, seen, turn, targets, user, starts>>

-----------------------------------------------------------------------------
(* Messages to the other nodes, in any order. *)

Drop(msg) == network' = network \ {msg}

ReceiveStart(msg) ==
    /\ msg \in network /\ msg.kind = "start"
    /\ Drop(msg)
    /\ pc' = Begun(Up({msg.to}), pc)
    /\ UNCHANGED <<scene, running, started, held, known, announced, model, stage, finished, seen, turn, targets, user, starts, stopped>>

ReceiveInitialized(msg) ==
    /\ msg \in network /\ msg.kind = "initialized"
    /\ Drop(msg)
    /\ known' = [known EXCEPT ![msg.to] = IF running[msg.to] THEN @ \cup {msg.of} ELSE @]
    /\ UNCHANGED <<scene, running, started, held, announced, model, stage, finished, pc, seen, turn, targets, user, starts, stopped>>

ReceiveStop(msg) ==
    /\ msg \in network /\ msg.kind = "stop"
    /\ Drop(msg)
    /\ Cleared(Up({msg.to})) /\ pc' = Unlocked(Up({msg.to}), pc)
    /\ UNCHANGED <<scene, running, model, stage, finished, seen, turn, targets, user, starts, stopped>>

-----------------------------------------------------------------------------
(* The learning thread. *)

Goto(t, step) == pc' = [pc EXCEPT ![t] = step]

\* set_experiment keeps an experiment that is set.
Entered(n) == started' = [started EXCEPT ![n] = IF @ = 0 THEN 1 ELSE @]

\* __start_learning: set_experiment, and the workflow where it stands.
BeginLearning(t) ==
    LET n == t[1] IN
    /\ pc[t] = "begin"
    /\ Entered(n)
    /\ finished' = [finished EXCEPT ![n] = FALSE]
    /\ Goto(t, stage[n])
    /\ UNCHANGED <<scene, running, held, known, announced, model, stage, seen, turn, targets, user, network, starts, stopped>>

StartLearningStage(t) ==
    /\ pc[t] = "start"
    /\ Entered(t[1])
    /\ Goto(t, "wait")
    /\ UNCHANGED <<scene, running, held, known, announced, model, stage, finished, seen, turn, targets, user, network, starts, stopped>>

\* The lock is acquired once somebody has released it.  (Mutated form: the lock of a
\* new state is free.)
ReleasedAtFirst(n) == ~held[n] \/ model[n] = n
Released(n) == ~held[n]

Acquire(t) ==
    LET n == t[1] IN
    /\ pc[t] = "wait" /\ Released(n)
    /\ held' = [held EXCEPT ![n] = TRUE]
    /\ known' = [m \in Node |-> IF m \in Up(Link[n]) THEN known[m] \cup {n} ELSE known[m]]
    /\ network' = network \cup Message("initialized", n)
    /\ seen' = [seen EXCEPT ![t] = <<>>] /\ turn' = [turn EXCEPT ![t] = 1]
    /\ Goto(t, "gossip")
    /\ UNCHANGED <<scene, running, started, announced, model, stage, finished, targets, user, starts, stopped>>

\* (Mutated form: only neighbours that are initialised.)
CandidatesKnown(n) == Link[n] \cap known[n]
Candidates(n) == Link[n] \ known[n]

\* The first iterations fill the list, later ones replace an entry in turn.
Saved(t, status) ==
    IF Len(seen[t]) # EqualRounds
    THEN Append(seen[t], [text |-> FALSE, of |-> status])
    ELSE [seen[t] EXCEPT ![turn[t]] = [text |-> TRUE, of |-> status]]

\* The loop over the list returns at the first pair that is equal, if that is the
\* first pair of all.
Exits(t, status) ==
    /\ Len(seen[t]) = EqualRounds
    /\ LET last == Saved(t, status) IN last[1] = last[2]

\* A stage that returns: the workflow goes on unless learning was stopped.
Returned(t, next) ==
    LET n == t[1] IN
    IF Learning(n)
    THEN stage' = [stage EXCEPT ![n] = next] /\ Goto(t, next) /\ UNCHANGED finished
    ELSE finished' = [finished EXCEPT ![n] = TRUE] /\ Goto(t, "ended") /\ UNCHANGED stage

Began(n) == \E t \in Thread : t[1] = n /\ pc[t] \notin {"none", "begin", "start"}

GossipEnds(t) ==
    LET n == t[1] IN
    /\ pc[t] = "gossip"
    /\ ~Learning(n) \/ Candidates(n) = {} \/ Exits(t, Candidates(n))
    /\ Returned(t, "rounds")
    /\ UNCHANGED <<scene, running, started, held, known, announced, model, seen, turn, targets, user, network, starts, stopped>>

\* A period: one of the candidates is chosen (MODELS_PER_ROUND of them in the code).
GossipPeriod(t) ==
    LET n == t[1] IN
    /\ pc[t] = "gossip"
    /\ Learning(n) /\ Candidates(n) # {} /\ ~Exits(t, Candidates(n))
    /\ Prompt => \A m \in Link[n] : Began(m)
    /\ seen' = [seen EXCEPT ![t] = Saved(t, Candidates(n))]
    /\ turn' = [turn EXCEPT ![t] = IF Len(seen[t]) # EqualRounds THEN @ ELSE (@ % EqualRounds) + 1]
    /\ \E m \in Candidates(n) : targets' = [targets EXCEPT ![t] = {m}]
    /\ Goto(t, "offer")
    /\ UNCHANGED <<scene, running, started, held, known, announced, model, stage, finished, user, network, starts, stopped>>

\* The model is encoded, which raises once learning was stopped, and announced; a
\* neighbour that was told of one already refuses.
Offer(t, m) ==
    LET n == t[1] IN
    /\ pc[t] = "offer" /\ m \in targets[t]
    /\ IF ~Learning(n)
       THEN Goto(t, "failing") /\ UNCHANGED <<announced, targets>>
       ELSE IF announced[m] \/ ~running[m]
       THEN Goto(t, "gossip") /\ targets' = [targets EXCEPT ![t] = {}] /\ UNCHANGED announced
       ELSE Recorded(m) /\ Goto(t, "send") /\ UNCHANGED targets
    /\ UNCHANGED <<scene, running, started, held, known, model, stage, finished, seen, turn, user, network, starts, stopped>>

\* The model that was encoded is that of the learner; its round was read before.
SendModel(t, m) ==
    /\ pc[t] = "send" /\ m \in targets[t]
    /\ IF running[m] /\ Accepts(m, 0)
       THEN model' = [model EXCEPT ![m] = model[t[1]]] /\ held' = [held EXCEPT ![m] = FALSE]
       ELSE UNCHANGED <<model, held>>
    /\ targets' = [targets EXCEPT ![t] = {}]
    /\ Goto(t, "gossip")
    /\ UNCHANGED <<scene, running, started, known, announced, stage, finished, seen, turn, user, network, starts, stopped>>

\* The stages of a round, from the vote to the gossip of the aggregate, up to
\* RoundFinishedStage.  A stop ends them, by a return or by an exception.
RunRound(t) ==
    LET n == t[1] IN
    /\ pc[t] = "rounds"
    /\ \/ /\ Learning(n)
          /\ model' = [model EXCEPT ![n] = Trained]
          /\ Returned(t, "finish")
       \/ ~Learning(n) /\ Returned(t, "finish") /\ UNCHANGED model
       \/ ~Learning(n) /\ Goto(t, "failing") /\ UNCHANGED <<model, stage, finished>>
    /\ UNCHANGED <<scene, running, started, held, known, announced, seen, turn, targets, user, network, starts, stopped>>

\* RoundFinishedStage: after the last round the state is cleared, and the workflow
\* stays where it is.
RoundFinishedStage(t) ==
    LET n == t[1] IN
    /\ pc[t] = "finish"
    /\ IF ~Learning(n)
       THEN Goto(t, "failing") /\ UNCHANGED <<started, held, known, announced, stage, finished>>
       ELSE IF Round(n) + 1 < Rounds
       THEN /\ started' = [started EXCEPT ![n] = @ + 1]
            /\ stage' = [stage EXCEPT ![n] = "rounds"] /\ Goto(t, "rounds")
            /\ UNCHANGED <<held, known, announced, finished>>
       ELSE /\ Cleared({n})
            /\ finished' = [finished EXCEPT ![n] = TRUE]
            /\ pc' = [Unlocked({n}, pc) EXCEPT ![t] = "ended"]
            /\ UNCHANGED stage
    /\ UNCHANGED <<scene, running, model, seen, turn, targets, user, network, starts, stopped>>

\* An exception in the thread stops the node.
Fail(t) ==
    LET n == t[1] IN
    /\ pc[t] = "failing"
    /\ running' = [running EXCEPT ![n] = FALSE]
    /\ Cleared({n})
    /\ pc' = [Unlocked({n}, pc) EXCEPT ![t] = "failed"]
    /\ UNCHANGED <<scene, model, stage, finished, seen, turn, targets, user, network, starts, stopped>>

-----------------------------------------------------------------------------
LearningStep(t) ==
    \/ BeginLearning(t) \/ StartLearningStage(t) \/ Acquire(t)
    \/ GossipEnds(t) \/ GossipPeriod(t) \/ RunRound(t) \/ RoundFinishedStage(t) \/ Fail(t)
    \/ \E m \in Node : Offer(t, m) \/ SendModel(t, m)

Receive(msg) == ReceiveStart(msg) \/ ReceiveInitialized(msg) \/ ReceiveStop(msg)

Next ==
    \/ \E n \in Node : SetStartLearning(n) \/ StartItself(n) \/ SetStopLearning(n)
    \/ \E t \in Thread : LearningStep(t)
    \/ \E msg \in network : Receive(msg)

Spec == Init /\ [][Next]_vars

\* A call of a user goes on, threads run and messages arrive.
FairSpec ==
    /\ Spec
    /\ \A n \in Node : WF_vars(StartItself(n))
    /\ \A t \in Thread : WF_vars(LearningStep(t))
    /\ WF_vars(\E msg \in network : Receive(msg))

-----------------------------------------------------------------------------
TypeOK ==
    /\ scene \in Scenes
    /\ running \in [Node -> BOOLEAN] /\ held \in [Node -> BOOLEAN]
    /\ announced \in [Node -> BOOLEAN] /\ finished \in [Node -> BOOLEAN]
    /\ started \in [Node -> 0..Rounds] /\ known \in [Node -> SUBSET Node]
    /\ model \in [Node -> Node \cup {Trained}]
    /\ stage \in [Node -> {"start", "rounds", "finish"}]
    /\ pc \in [Thread -> {"none", "begin", "start", "wait", "gossip", "offer", "send", "rounds",
                          "finish", "failing", "failed", "lost", "ended"}]
    /\ seen \in [Thread -> UNION {[1..k -> Status] : k \in 0..EqualRounds}]
    /\ turn \in [Thread -> 1..EqualRounds] /\ targets \in [Thread -> SUBSET Node]
    /\ user \in [Node -> {"idle", "starting"}]
    /\ network \subseteq [kind : {"start", "initialized", "stop"}, of : Node, to : Node]
    /\ starts \in 0..MaxStarts /\ stopped \subseteq scene.stoppers

\* A node enters its first round with the model of the node where learning was
\* started, never with its own (init_model_command.py:76).
InitialModelShared ==
    \A t \in Thread : pc[t] \in Past => model[t[1]] \in Starters \cup {Trained}

\* No initial model replaces what a node has trained: the lock meant to prevent it
\* (init_model_command.py:69) is locked again while the node learns, and only the
\* announcements and nei_status keep a second sender away.  A stop forgets both, and
\* a thread that was about to wait sets the experiment again: then it happens.
TrainedModelKept ==
    [][stopped = {} => \A n \in Node : model[n] = Trained => model'[n] = Trained]_vars

\* Learning that was started at one node and is not stopped ends at every node, with
\* all its rounds (test/node_test.py:120): although the gossip of the initial model
\* gives up after some equal periods and a model may be announced and not sent.
EveryoneLearns ==
    <>[](starts > 0 /\ stopped = {} => \A n \in Node : finished[n] /\ model[n] = Trained)

\* Learning that is stopped ends everywhere, and no experiment is left, except at a
\* node where the stop came before the start or replaced the lock its thread waits on
\* (node.py:395, "in the entire network").
StopEnds ==
    <>[](stopped # {} => \A t \in Thread :
            \/ pc[t] \in {"none", "ended", "failed", "lost"} /\ ~Learning(t[1])
            \/ pc[t] = "wait")

\* Who starts a second experiment on the same nodes gets all its rounds: not met, the
\* workflow stays at its last stage (README, section 4).
EveryRoundRuns == \A t \in Thread : pc[t] = "finish" => model[t[1]] = Trained /\ t[2] = 1

\* No thread waits for a lock that is gone (stop_learning_command.py:62): not met
\* (README, section 4).
NobodyIsLost == \A t \in Thread : pc[t] # "lost"
=============================================================================
