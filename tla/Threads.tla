------------------------------- MODULE Threads -------------------------------
(***************************************************************************)
(* What the threads of one process share behind locks: the pool of actors  *)
(* of the virtual nodes (ActorPool) and the logger of all nodes            *)
(* (Telemetry).                                                            *)
(***************************************************************************)
EXTENDS ActorPool

CONSTANTS
    LogNode,     \* the nodes that log
    Rounds, Connected, MaxUnderWay, Settings

VARIABLES
    nodes, round, state, learner, running, experiment, messages, processed, store, calls, setting,
    outages, stops

Logger == INSTANCE Telemetry WITH Node <- LogNode

ASSUME LoggerAssumption == Logger!TelemetryAssumption

\* The storage has one value of a metric for each round and loses none, and no message
\* is on record as sent that its receiver has not on record as received, whichever of
\* its neighbours brought it first.
LogIsExact == Logger!OncePerRound /\ Logger!SentWasReceived
=============================================================================
