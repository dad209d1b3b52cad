--------------------------- MODULE MCCATransition ---------------------------
(* Two neighbouring participants, a low and a high trust score. *)
EXTENDS CATransition, TLC
MCPair == {"a", "b"}
MCFacing == [p \in MCPair |-> MCPair \ {p}]
MCRounds == 0..5
MCScores == {[alpha |-> 1, beta |-> 1], [alpha |-> 4, beta |-> 1]}
=============================================================================
