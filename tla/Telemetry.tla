----------------------------- MODULE Telemetry -----------------------------
(***************************************************************************)
(* What a run leaves behind in the logger all nodes of a process share:    *)
(* the registered nodes with their experiments, the global metrics that    *)
(* arrive both from a node's own evaluation and from the broadcast of it,  *)
(* the entry of each message sent and received, relays included, and the   *)
(* metrics forwarded to the web services.  The driver resets it between    *)
(* two experiments.                                                        *)
(*                                                                         *)
(* A value is where it was measured: the experiment, round and node.  Each *)
(* storage keeps the name of its lock's holder; a lock is not reentrant.   *)
(***************************************************************************)
EXTENDS Integers, Sequences, FiniteSets, SequencesExt

CONSTANTS
    Node,
    Rounds,         \* total_rounds of an experiment
    Connected,      \* the web services are connected
    MaxUnderWay,    \* BOUND: messages of one node under way when it sends the next
    Settings        \* BOUND: the nodes that are started, those of them that have epochs
                    \* to train, experiments run one after the other, and faults:
                    \* unanswered requests and stops amid an experiment

TelemetryAssumption ==
    /\ {Rounds, MaxUnderWay} \subseteq Nat /\ Rounds > 0
    /\ Settings \subseteq [nodes : SUBSET Node, learners : SUBSET Node, experiments : Nat, faults : Nat]
    /\ Connected \in BOOLEAN

VARIABLES
    nodes,      \* _nodes: -1 for a node not registered, 0 without experiment, or its experiment
    round,      \* round of the Experiment object of a node
    state,      \* state.experiment of a node, 0 for none
    learner,    \* what the learning thread of a node does next
    running,    \* nodes that are started
    experiment, \* experiments started by the driver
    messages,   \* metrics messages under way, and how far each has come
    processed,  \* the messages a node has had (known by their hash)
    store,      \* the storages, one tuple for each reset
    calls,      \* log_metric calls under way
    setting,    \* the bounds of this behaviour
    outages,    \* requests that failed
    stops       \* stops in the middle of an experiment

vars == <<nodes, round, state, learner, running, experiment, messages, processed, store,
          calls, setting, outages, stops>>

Own == [by : {"learner"}, at : Node]
Received == [by : {"receiver"}, at : Node]
Thread == Own \cup Received
Free == [by |-> "nobody"]
NotGiven == -2
Current == Len(store)
Empty == [lock |-> Free, metrics |-> <<>>, entries |-> {}]

\* The steps of a learning thread, and what is kept: measured values in the series of an
\* experiment and node, messages, the entries of messages, and the calls of the threads.
Steps == {"off", "begin", "evaluate", "broadcast", "train", "finish", "failed"}
Experiment == UNION {0..s.experiments : s \in Settings}
Measurement == [by : Node, exp : Nat, round : Nat]
Point == [round : Int, value : Measurement]
Message == [from : Node, to : Node, value : Measurement, round : Int,
            at : {"sent", "taken", "running", "answered"}]
LogEntry == [direction : {"sent", "received"}, node : Node, peer : Node, value : Measurement, round : Int]
Call == [next : {"lock", "write", "forward"}, store : Nat \ {0}, addr : Node, exp : Experiment,
         round : Int, value : Measurement, fresh : BOOLEAN, series : Seq(Point), seen : BOOLEAN]

Init ==
    /\ nodes = [n \in Node |-> -1] /\ round = [n \in Node |-> 0]
    /\ state = [n \in Node |-> 0] /\ learner = [n \in Node |-> "off"]
    /\ running = {} /\ experiment = 0 /\ messages = {} /\ store = <<Empty>>
    /\ processed = [n \in Node |-> {}]
    /\ calls = <<>> /\ setting \in Settings /\ outages = 0 /\ stops = 0

Busy(t) == t \in DOMAIN calls
Learner(n) == [by |-> "learner", at |-> n]
Receiver(n) == [by |-> "receiver", at |-> n]
Experiments(n) == nodes[n] > 0

-----------------------------------------------------------------------------
(* log_metric: look the experiment up, add the value under the lock, forward it. *)

\* A node that is not registered, or has no experiment, is skipped.
Lookup(t, addr, given, value) ==
    IF Experiments(addr)
    THEN calls' = [u \in DOMAIN calls \cup {t} |->
           IF u = t THEN [next |-> "lock", store |-> Current, addr |-> addr, exp |-> nodes[addr],
                          round |-> IF given = NotGiven THEN round[addr] ELSE given,
                          value |-> value, fresh |-> FALSE, series |-> <<>>, seen |-> FALSE]
           ELSE calls[u]]
    ELSE UNCHANGED calls

Series(c) == <<c.exp, c.addr>>
Logged(c) == IF Series(c) \in DOMAIN store[c.store].metrics THEN store[c.store].metrics[Series(c)] ELSE <<>>
Fresh(c) == \A k \in DOMAIN store[c.store].metrics : k[1] # c.exp
Seen(c) == \E i \in DOMAIN Logged(c) : Logged(c)[i].round = c.round

\* Mutated form: the lock is not waited for (disable_locks without an actor around it).
AvailableAlways(s) == TRUE
Available(s) == store[s].lock = Free

Appended(seen, series, entry) == IF seen THEN series ELSE Append(series, entry)

Acquire(t) ==
    LET c == calls[t] IN
    /\ Busy(t) /\ c.next = "lock" /\ Available(c.store)
    /\ store' = [store EXCEPT ![c.store].lock = t]
    /\ calls' = [calls EXCEPT ![t] = [@ EXCEPT !.next = "write", !.fresh = Fresh(c),
                                               !.series = Logged(c), !.seen = Seen(c)]]
    /\ UNCHANGED <<nodes, round, state, learner, running, experiment, messages, processed, setting, outages, stops>>

Write(t) ==
    LET c == calls[t]
        series == Appended(c.seen, c.series, [round |-> c.round, value |-> c.value])
        log == store[c.store].metrics
        kept(k) == ~(c.fresh /\ k[1] = c.exp)      \* a dictionary made for c.exp replaces another
    IN
    /\ Busy(t) /\ c.next = "write"
    /\ store' = [store EXCEPT ![c.store] = [@ EXCEPT !.lock = Free, !.metrics =
         [k \in {j \in DOMAIN log : kept(j)} \cup {Series(c)} |->
             IF k = Series(c) THEN series ELSE log[k]]]]
    /\ calls' = [calls EXCEPT ![t].next = "forward"]
    /\ UNCHANGED <<nodes, round, state, learner, running, experiment, messages, processed, setting, outages, stops>>

Returned(t) == calls' = [u \in DOMAIN calls \ {t} |-> calls[u]]

\* A node's learning thread ends with the node stopped; a command that raises is an
\* answer with an error, which the sender does not log as sent.
Fails(n) ==
    /\ learner' = [learner EXCEPT ![n] = "failed"]
    /\ state' = [state EXCEPT ![n] = 0] /\ running' = running \ {n}
    /\ nodes' = [nodes EXCEPT ![n] = -1]

\* WebP2PFLogger reads the experiment again, and its round whatever round was given.
WebEntry(c) ==
    IF Connected /\ Experiments(c.addr) THEN <<[exp |-> nodes[c.addr], round |-> round[c.addr]]>> ELSE <<>>

Forward(t) ==
    LET c == calls[t] IN
    /\ Busy(t) /\ c.next = "forward" /\ Returned(t)
    /\ \/ UNCHANGED <<nodes, state, learner, running, messages, outages>>
       \/ /\ WebEntry(c) # <<>> /\ outages + stops < setting.faults
          /\ outages' = outages + 1
          /\ IF t \in Own THEN Fails(t.at) /\ UNCHANGED messages
             ELSE /\ messages' = {m \in messages : m.at = "running" /\ m.to = t.at => m.value # c.value}
                  /\ UNCHANGED <<nodes, state, learner, running>>
    /\ UNCHANGED <<round, experiment, processed, store, setting, stops>>

-----------------------------------------------------------------------------
(* The nodes and the driver. *)

Start ==
    /\ running = {} /\ experiment < setting.experiments /\ \A n \in Node : nodes[n] = -1 /\ learner[n] \in {"off", "failed"}
    /\ running' = setting.nodes /\ nodes' = [n \in Node |-> IF n \in setting.nodes THEN 0 ELSE -1]
    /\ learner' = [n \in Node |-> "off"] /\ processed' = [n \in Node |-> {}]
    /\ UNCHANGED <<round, state, experiment, messages, store, calls, setting, outages, stops>>

StartLearning ==
    /\ experiment < setting.experiments /\ running = setting.nodes /\ \A n \in Node : state[n] = 0 /\ learner[n] = "off"
    /\ experiment' = experiment + 1
    /\ learner' = [n \in Node |-> IF n \in running THEN "begin" ELSE "off"]
    /\ UNCHANGED <<nodes, round, state, running, messages, processed, store, calls, setting, outages, stops>>

\* state.set_experiment announces the experiment to the logger.
SetExperiment(n) ==
    /\ learner[n] = "begin"
    /\ IF nodes[n] = -1 THEN Fails(n) /\ UNCHANGED round
       ELSE /\ state' = [state EXCEPT ![n] = experiment] /\ round' = [round EXCEPT ![n] = 0]
            /\ nodes' = [nodes EXCEPT ![n] = experiment]
            /\ learner' = [learner EXCEPT ![n] = "evaluate"]
            /\ UNCHANGED running
    /\ UNCHANGED <<experiment, messages, processed, store, calls, setting, outages, stops>>

\* A learner without epochs has no results, and nothing to tell.
Measured(n) == [by |-> n, exp |-> experiment, round |-> round[n]]
Evaluated(n) == IF round[n] < Rounds THEN "train" ELSE "finish"
Evaluate(n) ==
    /\ learner[n] = "evaluate"
    /\ IF n \in setting.learners
       THEN Lookup(Learner(n), n, NotGiven, Measured(n)) /\ learner' = [learner EXCEPT ![n] = "broadcast"]
       ELSE UNCHANGED calls /\ learner' = [learner EXCEPT ![n] = Evaluated(n)]
    /\ UNCHANGED <<nodes, round, state, running, experiment, messages, processed, store, setting, outages, stops>>

\* The round of the message is -1 when the state has been cleared meanwhile.
Sending(n, others, value, r) ==
    {[from |-> n, to |-> m, value |-> value, round |-> r, at |-> "sent"] : m \in others}
Broadcast(n) ==
    /\ learner[n] = "broadcast" /\ ~Busy(Learner(n))
    /\ Cardinality({m \in messages : m.value.by = n}) < MaxUnderWay
    /\ messages' = messages \cup Sending(n, running \ {n}, Measured(n), IF state[n] = 0 THEN -1 ELSE round[n])
    /\ learner' = [learner EXCEPT ![n] = Evaluated(n)]
    /\ UNCHANGED <<nodes, round, state, running, experiment, processed, store, calls, setting, outages, stops>>

\* state.increase_round announces the experiment again.
IncreaseRound(n) ==
    /\ learner[n] = "train"
    /\ IF state[n] = 0
       THEN Fails(n) /\ UNCHANGED round
       ELSE /\ round' = [round EXCEPT ![n] = @ + 1]
            /\ IF nodes[n] = -1 THEN Fails(n)
               ELSE /\ nodes' = [nodes EXCEPT ![n] = state[n]]
                    /\ learner' = [learner EXCEPT ![n] = "evaluate"]
                    /\ UNCHANGED <<state, running>>
    /\ UNCHANGED <<experiment, messages, processed, store, calls, setting, outages, stops>>

Finish(n) ==
    /\ learner[n] = "finish"
    /\ state' = [state EXCEPT ![n] = 0] /\ learner' = [learner EXCEPT ![n] = "off"]
    /\ UNCHANGED <<nodes, round, running, experiment, messages, processed, store, calls, setting, outages, stops>>

\* A stop of learning clears the state and then deletes the experiment.
StopLearning(n) ==
    /\ n \in running /\ state[n] # 0 /\ outages + stops < setting.faults /\ stops' = stops + 1
    /\ state' = [state EXCEPT ![n] = 0]
    /\ nodes' = [nodes EXCEPT ![n] = IF Experiments(n) THEN 0 ELSE @]
    /\ learner' = [learner EXCEPT ![n] = IF @ = "train" THEN "off" ELSE @]
    /\ UNCHANGED <<round, running, experiment, messages, processed, store, calls, setting, outages>>

\* A node stops when learning is over, or while its learning thread goes on.
Stop(n) ==
    /\ n \in running /\ experiment > 0
    /\ IF \A m \in Node : learner[m] \in {"off", "failed"} THEN UNCHANGED stops
       ELSE outages + stops < setting.faults /\ stops' = stops + 1
    /\ running' = running \ {n} /\ state' = [state EXCEPT ![n] = 0]
    /\ nodes' = [nodes EXCEPT ![n] = -1]
    /\ UNCHANGED <<round, learner, experiment, messages, processed, store, calls, setting, outages>>

Moved(m, at) == (messages \ {m}) \cup {[m EXCEPT !.at = at]}
Logs(entry) == store' = [store EXCEPT ![Current].entries = @ \cup {entry}]

\* The server answers its own message, and one that it has had, at once: it is on record
\* as sent, and only the first one as received.  (The window of messages remembered is
\* MessageGossip's.)
Arrive(m) ==
    /\ m.at = "sent" /\ m.to \in running
    /\ IF m.value.by = m.to \/ m.value \in processed[m.to]
       THEN messages' = Moved(m, "answered") /\ UNCHANGED processed
       ELSE messages' = Moved(m, "taken") /\ processed' = [processed EXCEPT ![m.to] = @ \cup {m.value}]
    /\ UNCHANGED <<nodes, round, state, learner, running, experiment, store, calls, setting, outages, stops>>

\* It logs another before it executes the command, ...
Receive(m) ==
    /\ m.at = "taken" /\ ~Busy(Receiver(m.to))
    /\ Logs([direction |-> "received", node |-> m.to, peer |-> m.value.by, value |-> m.value, round |-> m.round])
    /\ Lookup(Receiver(m.to), m.value.by, m.round, m.value)
    /\ messages' = Moved(m, "running")
    /\ UNCHANGED <<nodes, round, state, learner, running, experiment, processed, setting, outages, stops>>

\* ... then relays it to all but its source, if it has hops left, and answers.
Answer(m) ==
    LET t == Receiver(m.to) IN
    /\ m.at = "running" /\ (Busy(t) => calls[t].value # m.value)
    /\ \E others \in {{}, running \ {m.to, m.value.by}} :
          messages' = Moved(m, "answered") \cup Sending(m.to, others, m.value, m.round)
    /\ UNCHANGED <<nodes, round, state, learner, running, experiment, processed, store, calls, setting, outages, stops>>

\* The sender logs what has been answered.
Sent(m) ==
    /\ m.at = "answered"
    /\ messages' = messages \ {m}
    /\ Logs([direction |-> "sent", node |-> m.from, peer |-> m.to, value |-> m.value, round |-> m.round])
    /\ UNCHANGED <<nodes, round, state, learner, running, experiment, processed, calls, setting, outages, stops>>

\* A node that has stopped is not reached, or its answer does not arrive.
Lost(m) ==
    /\ m.to \notin running /\ m.at \in {"sent", "answered"} /\ messages' = messages \ {m}
    /\ UNCHANGED <<nodes, round, state, learner, running, experiment, processed, store, calls, setting, outages, stops>>

\* run_variations resets the logger before the next experiment.
Reset ==
    /\ running = {} /\ 0 < experiment /\ experiment < setting.experiments /\ Current <= experiment
    /\ store' = Append(store, Empty) /\ nodes' = [n \in Node |-> -1]
    /\ UNCHANGED <<round, state, learner, running, experiment, messages, processed, calls, setting, outages, stops>>

Next ==
    \/ \E t \in Thread : Acquire(t) \/ Write(t) \/ Forward(t)
    \/ \E n \in Node : SetExperiment(n) \/ Evaluate(n) \/ Broadcast(n)
                       \/ IncreaseRound(n) \/ Finish(n) \/ StopLearning(n) \/ Stop(n)
    \/ \E m \in messages : Arrive(m) \/ Receive(m) \/ Answer(m) \/ Sent(m) \/ Lost(m)
    \/ Start \/ StartLearning \/ Reset

Spec == Init /\ [][Next]_vars

-----------------------------------------------------------------------------
(* Properties. *)

\* Type invariant of the logger.
TypeOK ==
    /\ setting \in Settings /\ experiment \in 0..setting.experiments
    /\ nodes \in [Node -> {-1} \cup Experiment] /\ state \in [Node -> Experiment]
    /\ round \in [Node -> Nat] /\ running \subseteq Node
    /\ learner \in [Node -> Steps]
    /\ messages \subseteq Message /\ processed \in [Node -> SUBSET Measurement]
    /\ store # <<>>
    /\ \A s \in DOMAIN store : \E M \in SUBSET (Experiment \X Node) :
          /\ store[s].lock \in Thread \cup {Free} /\ store[s].entries \subseteq LogEntry
          /\ store[s].metrics \in [M -> Seq(Point)]
    /\ DOMAIN calls \subseteq Thread /\ calls \in [DOMAIN calls -> Call]
    /\ \A t \in DOMAIN calls : calls[t].store <= Current
    /\ outages \in Nat /\ stops \in Nat

\* However many threads tell of it, the storage has one value of a metric for each
\* round, and has the one of each call that added its own (metric_storage.py:200).
OncePerRound ==
    /\ \A s \in DOMAIN store : \A k \in DOMAIN store[s].metrics :
        LET series == store[s].metrics[k] IN
        \A i, j \in DOMAIN series : i # j => series[i].round # series[j].round
    /\ \A t \in DOMAIN calls : LET c == calls[t] IN c.next = "forward" => Seen(c)

\* A message on record as sent was received: whoever brought it, and however many relays
\* of it were answered without a look at it, its receiver has it on record, in a storage
\* before or after a reset, or is about to (memory/client.py:141, server.py:143).
OnRecord(n, v) ==
    \/ \E s \in DOMAIN store : \E e \in store[s].entries :
          e.direction = "received" /\ e.node = n /\ e.value = v
    \/ \E m \in messages : m.at = "taken" /\ m.to = n /\ m.value = v
SentWasReceived ==
    \A s \in DOMAIN store : \A e \in store[s].entries :
        e.direction = "sent" => OnRecord(e.peer, e.value)

\* Not met (README, section 4): a value is filed under the experiment and the round in
\* which it was measured.
FiledAsMeasured ==
    \A s \in DOMAIN store : \A k \in DOMAIN store[s].metrics : \A i \in DOMAIN store[s].metrics[k] :
        LET e == store[s].metrics[k][i] IN e.value.exp = k[1] /\ e.value.round = e.round

\* Not met (README, section 4): so does the web service.
WebAsMeasured ==
    \A t \in DOMAIN calls : LET c == calls[t] IN
        c.next = "forward" => WebEntry(c) \in {<<>>, <<[exp |-> c.value.exp, round |-> c.value.round]>>}

\* Not met (README, section 4): an answer the web services do not give ends no learning.
LearningOutlivesTelemetry == outages > 0 => \A n \in Node : learner[n] # "failed"
=============================================================================
