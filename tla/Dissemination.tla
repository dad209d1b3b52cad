---------------------------- MODULE Dissemination ----------------------------
(***************************************************************************)
(* What travels between the nodes: the votes of the train set election     *)
(* (TrainSetElection) and the messages of the gossip that carries them     *)
(* (MessageGossip).                                                        *)
(***************************************************************************)
EXTENDS TrainSetElection

CONSTANTS
    Peer, Message, Source, Link, TTL, Saved, Transports, Breaking, Many

VARIABLES
    transport, connected, begun, calling, hops, window, processed, pending, sending, alive

Gossip == INSTANCE MessageGossip WITH Node <- Peer

ASSUME GossipAssumption == Gossip!GossipAssumption

\* A vote counts in the election it was cast in (vote_train_set_command.py:71), and
\* whatever paths bring a message, a node executes it once, its own never
\* (settings.py:77).
CountedOnce == VotesOfTheRound /\ Gossip!ProcessedOnce
=============================================================================
