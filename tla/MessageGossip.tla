---------------------------- MODULE MessageGossip ----------------------------
(***************************************************************************)
(* How a broadcast message floods the network: broadcast of                *)
(* protobuff_communication_protocol.py hands it to the direct neighbours,  *)
(* send of server.py processes it once and queues it, and the thread of    *)
(* gossiper.py passes the queue on every period.  Sending runs the         *)
(* receiver's handler before the sender goes on.  What a handler does with *)
(* its message is not part of this module.                                 *)
(***************************************************************************)
EXTENDS Naturals, Sequences, FiniteSets, FiniteSetsExt, SequencesExt

CONSTANTS
    Node, Message,
    Source,       \* message -> the node that broadcasts it
    Link,         \* node -> its direct neighbours at the start
    TTL,          \* Settings.gossip.TTL
    Saved,        \* Settings.gossip.AMOUNT_LAST_MESSAGES_SAVED
    Transports,   \* transports to consider
    Breaking,     \* BOUND: the nodes whose connections may be lost
    Many          \* BOUND: a message is counted as processed at most so often

GossipAssumption ==
    /\ Source \in [Message -> Node]
    /\ Link \in [Node -> SUBSET Node]
    /\ \A n \in Node : n \notin Link[n] /\ \A m \in Link[n] : n \in Link[m]
    /\ TTL \in Nat /\ Saved \in Nat /\ Many \in Nat \ {0, 1}
    /\ Transports \subseteq {"memory", "grpc"} /\ Breaking \subseteq Node

VARIABLES
    transport, \* that of the network: memory passes on the object, gRPC a copy
    connected, \* direct neighbours of a node, with a live client
    begun,     \* messages whose broadcast has begun
    calling,   \* message -> whom its broadcast has still to call
    hops,      \* ttl of the object of a message, where it is shared
    window,    \* __processed_messages
    processed, \* how often a node has executed a message's command
    pending,   \* __pending_msgs: messages with the neighbours to send them to
    sending,   \* messages_to_send of the running period
    alive      \* the gossip thread runs

vars == <<transport, connected, begun, calling, hops, window, processed, pending, sending, alive>>

Item == [msg : Message, ttl : 0..TTL, to : SUBSET Node]

\* The ttl of the object a node holds.
SharedObject == transport = "memory"
Hops(item) == IF SharedObject THEN hops[item.msg] ELSE item.ttl

Init ==
    /\ transport \in Transports
    /\ connected = Link
    /\ begun = {}
    /\ calling = [m \in Message |-> {}]
    /\ hops = [m \in Message |-> TTL]
    /\ window = [n \in Node |-> <<>>]
    /\ processed = [n \in Node |-> [m \in Message |-> 0]]
    /\ pending = [n \in Node |-> <<>>]
    /\ sending = [n \in Node |-> <<>>]
    /\ alive = [n \in Node |-> TRUE]

-----------------------------------------------------------------------------
(* The receiver. *)

\* check_and_set_processed.  (Mutated form: the window keeps one less.)
NewTo(n, m) == n # Source[m] /\ m \notin ToSet(window[n])
RememberLess(n, m) ==
    Append(IF Len(window[n]) >= Saved THEN Tail(window[n]) ELSE window[n], m)
Remember(n, m) ==
    Append(IF Len(window[n]) > Saved THEN Tail(window[n]) ELSE window[n], m)

\* The object is passed on while it has hops left, one less than it came with.
\* (Mutated forms: the last hop is not used, or used twice.)
PassedOnEarly(ttl) == ttl > 1
PassedOnLate(ttl) == ttl >= 0
PassedOn(ttl) == ttl > 0

Left(ttl) == ttl - 1

\* ProtobuffServer.send at node n, of message m with ttl hops left.
Handle(n, m, ttl) ==
    IF NewTo(n, m)
    THEN /\ window' = [window EXCEPT ![n] = Remember(n, m)]
         /\ processed' = [processed EXCEPT ![n][m] = Min({@ + 1, Many})]
         /\ IF PassedOn(ttl)
            THEN /\ hops' = IF SharedObject THEN [hops EXCEPT ![m] = Left(ttl)] ELSE hops
                 /\ pending' = [pending EXCEPT ![n] =
                        Append(@, [msg |-> m, ttl |-> IF SharedObject THEN 0 ELSE Left(ttl),
                                   to |-> connected[n] \ {Source[m]}])]
            ELSE UNCHANGED <<hops, pending>>
    ELSE UNCHANGED <<window, processed, hops, pending>>

-----------------------------------------------------------------------------
(* The senders. *)

\* broadcast of the source: the direct neighbours are called one by one.
Broadcast(m) ==
    /\ m \notin begun
    /\ begun' = begun \cup {m}
    /\ calling' = [calling EXCEPT ![m] = connected[Source[m]]]
    /\ UNCHANGED <<transport, connected, hops, window, processed, pending, sending, alive>>

\* A neighbour that is no longer connected ends the broadcast with an exception.
BroadcastTo(m, n) ==
    /\ n \in calling[m]
    /\ IF n \in connected[Source[m]]
       THEN /\ calling' = [calling EXCEPT ![m] = @ \ {n}]
            /\ Handle(n, m, IF SharedObject THEN hops[m] ELSE TTL)
       ELSE /\ calling' = [calling EXCEPT ![m] = {}]
            /\ UNCHANGED <<hops, window, processed, pending>>
    /\ UNCHANGED <<transport, connected, begun, sending, alive>>

\* A period of the gossip thread takes all that is pending: messages_left, the
\* budget of the period, is compared with and never decremented.
Period(n) ==
    /\ alive[n] /\ sending[n] = <<>> /\ pending[n] # <<>>
    /\ sending' = [sending EXCEPT ![n] = pending[n]]
    /\ pending' = [pending EXCEPT ![n] = <<>>]
    /\ UNCHANGED <<transport, connected, begun, calling, hops, window, processed, alive>>

\* The thread goes through its items; a neighbour that disconnected since the
\* message was queued raises in the thread, which has no handler for it.
SendNext(n, m) ==
    /\ alive[n] /\ sending[n] # <<>>
    /\ LET item == Head(sending[n])
           rest == item.to \ {m} IN
       /\ m \in item.to
       /\ IF m \in connected[n]
          THEN /\ sending' = [sending EXCEPT ![n] =
                      IF rest = {} THEN Tail(@) ELSE <<[item EXCEPT !.to = rest]>> \o Tail(@)]
               /\ Handle(m, item.msg, Hops(item))
               /\ UNCHANGED alive
          ELSE /\ alive' = [alive EXCEPT ![n] = FALSE]
               /\ UNCHANGED <<sending, hops, window, processed, pending>>
    /\ UNCHANGED <<transport, connected, begun, calling>>

\* An item without receivers.
SendNobody(n) ==
    /\ alive[n] /\ sending[n] # <<>>
    /\ Head(sending[n]).to = {}
    /\ sending' = [sending EXCEPT ![n] = Tail(@)]
    /\ UNCHANGED <<transport, connected, begun, calling, hops, window, processed, pending, alive>>

\* Neighbors.remove at one side and, by its message, at the other.
Disconnect(n, m) ==
    /\ n \in Breaking
    /\ m \in connected[n]
    /\ connected' = [connected EXCEPT ![n] = @ \ {m}, ![m] = @ \ {n}]
    /\ UNCHANGED <<transport, begun, calling, hops, window, processed, pending, sending, alive>>

\* The gossip thread of a node.
GossiperStep(n) == Period(n) \/ SendNobody(n) \/ \E m \in Node : SendNext(n, m)

Next ==
    \/ \E m \in Message : Broadcast(m) \/ \E n \in Node : BroadcastTo(m, n)
    \/ \E n \in Node : GossiperStep(n)
    \/ \E n, m \in Node : Disconnect(n, m)

Spec == Init /\ [][Next]_vars

\* A broadcast that has begun goes on, and the gossip threads run.
FairSpec ==
    /\ Spec
    /\ \A m \in Message : WF_vars(Broadcast(m)) /\ WF_vars(\E n \in Node : BroadcastTo(m, n))
    /\ \A n \in Node : WF_vars(GossiperStep(n))

-----------------------------------------------------------------------------
\* Type invariant of the queues and windows.
TypeOK ==
    /\ transport \in Transports
    /\ connected \in [Node -> SUBSET Node]
    /\ begun \subseteq Message
    /\ calling \in [Message -> SUBSET Node]
    /\ hops \in [Message -> 0..TTL]
    /\ window \in [Node -> Seq(Message)]
    /\ \A n \in Node : Len(window[n]) <= Saved + 1
    /\ processed \in [Node -> [Message -> 0..Many]]
    /\ pending \in [Node -> Seq(Item)] /\ sending \in [Node -> Seq(Item)]
    /\ alive \in [Node -> BOOLEAN]

\* A node executes a message once, however many paths bring it, and its own
\* never (settings.py:77, "avoid multiple message processing"), as long as the
\* window holds the messages that are on their way.
ProcessedOnce ==
    \A n \in Node, m \in Message : processed[n][m] <= IF n = Source[m] THEN 0 ELSE 1

\* With as many hops as the network is wide a broadcast reaches every node
\* (casa.py:314, "ensure all messages arrive") unless connections are lost, also
\* where its counter is shared.
Reached ==
    \/ connected # Link
    \/ \A n \in Node, m \in Message : n = Source[m] \/ processed[n][m] > 0
EveryoneReached == <>Reached

\* A neighbour that disconnects does not end the gossip of its peers: sending
\* raises only when asked to (client.py:119, "Raise error if an error occurs."):
\* not met by the in-memory client (README, section 4).
GossiperSurvives == \A n \in Node : alive[n]
=============================================================================
