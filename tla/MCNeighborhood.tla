--------------------------- MODULE MCNeighborhood ---------------------------
(* Two nodes that their users connect, disconnect and stop while a third one *)
(* is off, connected at the start in memory and not over gRPC; and a line of *)
(* three, whose ends know each other by the beats the middle passes on.      *)
EXTENDS Neighborhood, TLC
CONSTANTS a, b, c
MCPair(transport, edges) ==
    [transport |-> transport, edges |-> edges, off |-> {c}, slow |-> {}, hops |-> 0, calls |-> 2]
MCLine ==
    [transport |-> "memory", edges |-> {<<a, b>>, <<b, c>>}, off |-> {}, slow |-> {c}, hops |-> 1, calls |-> 0]
MCNetworks == {MCPair("memory", {<<a, b>>}), MCPair("grpc", {}), MCLine}

\* Unless nodes wait for each other in a ring, the operations on neighbour tables end,
\* and every running node forgets those that have stopped or whose heartbeat has died.
TablesSettle == OperationsEnd /\ StoppedIsForgotten
=============================================================================
