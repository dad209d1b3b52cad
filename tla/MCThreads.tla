------------------------------ MODULE MCThreads ------------------------------
(***************************************************************************)
(* ActorPool and Telemetry for TLC: threads of one process that share a    *)
(* structure behind locks.  A behaviour is one of virtual nodes that       *)
(* submit jobs to two actors, or one of nodes that evaluate and tell each  *)
(* other: two of them in one or two experiments, or three of which one     *)
(* tells the others, who relay it.  The variables of the other part rest.  *)
(***************************************************************************)
EXTENDS Threads, TLC

CONSTANTS n1, n2, n3, p, q, x, y, z

VARIABLE part    \* which of the two a behaviour is one of

telemetryVars == <<nodes, round, state, learner, running, experiment, messages, processed, store, calls,
                   setting, outages, stops>>
threadVars == <<part, vars, telemetryVars>>

\* More nodes than actors with two jobs each, or with a job and a fault; and two nodes
\* whose second job may follow a fault.
Crowded == [jobs |-> [n \in Node |-> 2], faults |-> 0]
Failing == [jobs |-> [n \in Node |-> 1], faults |-> 1]
Pair(m) == [jobs |-> [n \in Node |-> IF n = m THEN 0 ELSE 2], faults |-> 1]
MCLoads == {Crowded, Failing} \cup {Pair(m) : m \in Node}

\* Two nodes that tell each other, or one that tells the other in two experiments, with
\* a fault; and one that tells two others, who relay it.
Telling(ns, ls, k, f) == [nodes |-> ns, learners |-> ls, experiments |-> k, faults |-> f]
Pairs == {{x, y}, {x, z}, {y, z}}
MCSettings ==
    UNION {{Telling(ns, ns, 1, 1)} \cup {Telling(ns, {n}, 2, 1) : n \in ns} : ns \in Pairs}
        \cup {Telling(LogNode, {n}, 1, 0) : n \in LogNode}

ThreadsInit ==
    /\ part \in {"pool", "logger"}
    /\ Init
    /\ Logger!Init
    /\ part = "pool" => setting.nodes = LogNode
    /\ part = "logger" => load = Failing

PoolStep == part = "pool" /\ Next /\ UNCHANGED <<part, telemetryVars>>
LoggerStep == part = "logger" /\ Logger!Next /\ UNCHANGED <<part, vars>>

ThreadsNext == PoolStep \/ LoggerStep

ThreadsSpec == ThreadsInit /\ [][ThreadsNext]_threadVars

\* The virtual nodes are interchangeable, and so are the actors or, in the other
\* part, the nodes that log.
Interchangeable ==
    Permutations({n1, n2, n3}) \cup Permutations({p, q}) \cup Permutations({x, y, z})
=============================================================================
