--------------------------- MODULE MCDissemination ---------------------------
(***************************************************************************)
(* TrainSetElection and MessageGossip for TLC.  A behaviour is one of      *)
(* three nodes that elect trainers twice, of which the third may go down,  *)
(* or one of four nodes that flood two messages; the other part rests in   *)
(* its initial state.                                                      *)
(***************************************************************************)
EXTENDS Dissemination, TLC

VARIABLE part    \* which of the two a behaviour is one of

gossipVars == <<transport, connected, begun, calling, hops, window, processed, pending,
                sending, alive>>
disseminationVars == <<part, vars, gossipVars>>

\* A triangle whose third node links to a fourth one: two ways to node 3 and a
\* single one to node 4.
Kite == (1 :> {2, 3}) @@ (2 :> {1, 3}) @@ (3 :> {1, 2, 4}) @@ (4 :> {3})
Broadcasters == ("vote" :> 1) @@ ("ready" :> 2)

InElection == part = "election"
InGossip == part = "gossip"

DisseminationInit ==
    /\ part \in {"election", "gossip"}
    /\ Init
    /\ Gossip!Init
    /\ InElection => transport = "memory"

ElectionStep(A) == InElection /\ A /\ UNCHANGED <<part, gossipVars>>
GossipStep(A) == InGossip /\ A /\ UNCHANGED <<part, vars>>

DisseminationNext == ElectionStep(Next) \/ GossipStep(Gossip!Next)

\* The fairness of the two modules.  Of the steps under one WF at most one part,
\* and of a broadcast its beginning or its calls, can be enabled at a time.
Fairness ==
    /\ \A n \in Node :
          WF_disseminationVars(ElectionStep(NodeStep(n)) \/ GossipStep(Gossip!GossiperStep(n)))
    /\ \A n \in Peer \ Node : WF_disseminationVars(GossipStep(Gossip!GossiperStep(n)))
    /\ \A m \in Message :
          WF_disseminationVars(
              GossipStep(Gossip!Broadcast(m) \/ \E n \in Peer : Gossip!BroadcastTo(m, n)))

DisseminationSpec == DisseminationInit /\ [][DisseminationNext]_disseminationVars /\ Fairness

-----------------------------------------------------------------------------

\* ElectionsEnd of TrainSetElection and EveryoneReached of MessageGossip, whose
\* goal is stable: no live node is left waiting for votes, and unless connections
\* are lost a broadcast reaches every node.
EverythingArrives ==
    <>[](IF InElection THEN \A n \in Node : phase[n] # "wait" ELSE Gossip!Reached)

=============================================================================
