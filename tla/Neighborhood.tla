---------------------------- MODULE Neighborhood ----------------------------
(***************************************************************************)
(* The neighbour tables of the nodes (neighbors.py), the heartbeat threads *)
(* that refresh and expire them (heartbeater.py), and the calls of a node  *)
(* on its protocol: connect, disconnect, stop, and a message that its      *)
(* receiver answers with an error.  add and remove hold the lock of their  *)
(* own table while they call the other node, whose handler takes its own.  *)
(***************************************************************************)
EXTENDS Naturals, FiniteSets

CONSTANTS
    Node,
    Networks  \* BOUND: the networks to consider

\* A network: its transport, the pairs of nodes connected at the start, the nodes
\* that never run, those whose beats may come too late while they run, the ttl of
\* a beat, and how many calls the users of the nodes make.
Network ==
    [transport : {"memory", "grpc"}, edges : SUBSET (Node \X Node), off : SUBSET Node,
     slow : SUBSET Node, hops : Nat, calls : Nat]

ASSUME NeighborhoodAssumption ==
    Networks \subseteq Network /\ \A w \in Networks : \A e \in w.edges : e[1] # e[2]

VARIABLES
    network,   \* the network, fixed at the start
    phase,     \* "up", "stopping", "down", or "broken" by an exception in stop
    link,      \* neis: no entry, one without a connection, or a direct one
    stale,     \* entries whose last beat is older than the timeout
    lock,      \* who holds neis_lock: one of the two threads of the node, if any
    pc, peer,  \* what a thread does, and with which node
    todo,      \* what is left of the snapshot the heartbeat thread goes through
    gone,      \* clients a thread may still hold that were disconnected since
    beats,     \* beats on their way
    late,      \* senders of beats found absent, not yet added
    shakes,    \* handshakes their caller has given up
    crossed,   \* history: a disconnect has removed a connection made after its own
    calls      \* calls so far

vars == <<network, phase, link, stale, lock, pc, peer, todo, gone, beats, late, shakes, crossed, calls>>

Role == {"main", "heart"}
Thread == Node \X Role
Main(n) == <<n, "main">>
Heart(n) == <<n, "heart">>

Direct(n) == {m \in Node : link[n][m] = "direct"}
Entries(n) == {m \in Node : link[n][m] # "none"}
Free(n) == lock[n] = "free"

\* The server answers: it is in the process-wide dictionary, or its port is open.
Registered(n) == phase[n] # "down"

\* A call reaches the other node: the in-memory stub is the server object.
Reaches(n) == network.transport = "memory" \/ Registered(n)

Init ==
    /\ network \in Networks
    /\ phase = [n \in Node |-> IF n \in network.off THEN "down" ELSE "up"]
    /\ link = [n \in Node |-> [m \in Node |->
                  IF <<n, m>> \in network.edges \/ <<m, n>> \in network.edges THEN "direct" ELSE "none"]]
    /\ stale = [n \in Node |-> {}]
    /\ lock = [n \in Node |-> "free"]
    /\ pc = [t \in Thread |-> IF t[2] = "main" THEN "idle"
                            ELSE IF t[1] \in network.off THEN "ended" ELSE "expire"]
    /\ peer = [t \in Thread |-> t[1]]
    /\ todo = [n \in Node |-> {}]
    /\ gone = [t \in Thread |-> {}]
    /\ beats = {} /\ late = [n \in Node |-> {}] /\ shakes = {}
    /\ crossed = FALSE /\ calls = 0

-----------------------------------------------------------------------------
(* The table of one node, and the handlers other nodes call. *)

\* An entry is set or renewed with the time of now.
Put(n, m, kind) ==
    /\ link' = [link EXCEPT ![n][m] = kind]
    /\ stale' = [stale EXCEPT ![n] = @ \ {m}]

\* remove of an entry: its client is disconnected, also for who holds it still.
Holding == {"beat", "fault", "faulted"}
Delete(n, m) ==
    /\ link' = [link EXCEPT ![n][m] = "none"]
    /\ stale' = [stale EXCEPT ![n] = @ \ {m}]
    /\ gone' = [t \in Thread |-> IF t[1] = n /\ pc[t] \in Holding THEN gone[t] \cup {m} ELSE gone[t]]

\* ProtobuffServer.disconnect at m, called by n.  (Mutated forms: nothing is
\* removed, or the handler calls back, which waits for the caller's table.)
DisconnectedIgnored(m, n) == UNCHANGED <<link, stale, gone>>
DisconnectedBack(m, n) == n \notin Direct(m) /\ Delete(m, n)
Disconnected(m, n) == Delete(m, n)

\* ProtobuffServer.handshake at m, called by n.
Handshake(m, n) == Put(m, n, "direct")

-----------------------------------------------------------------------------
(* Calls on the protocol. *)

Call(n, m, step) ==
    /\ pc[Main(n)] = "idle" /\ phase[n] = "up" /\ m \notin network.off
    /\ calls < network.calls /\ calls' = calls + 1
    /\ pc' = [pc EXCEPT ![Main(n)] = step]
    /\ peer' = [peer EXCEPT ![Main(n)] = m]

Connect(n, m) ==
    /\ n # m
    /\ Call(n, m, "add")
    /\ UNCHANGED <<network, phase, link, stale, lock, todo, gone, beats, late, shakes, crossed>>

Disconnect(n, m) ==
    /\ n # m
    /\ Call(n, m, "drop")
    /\ UNCHANGED <<network, phase, link, stale, lock, todo, gone, beats, late, shakes, crossed>>

\* A message to a direct neighbour that is answered with an error: the in-memory
\* client disconnects, without the lock of its table and without leaving it.  Over
\* gRPC send changes nothing.
Fault(n, m) ==
    /\ network.transport = "memory" /\ m \in Direct(n)
    /\ Call(n, m, "fault")
    /\ UNCHANGED <<network, phase, link, stale, lock, todo, gone, beats, late, shakes, crossed>>

Stop(n) ==
    /\ Call(n, n, "clear")
    /\ phase' = [phase EXCEPT ![n] = "stopping"]
    /\ UNCHANGED <<network, link, stale, lock, todo, gone, beats, late, shakes, crossed>>

-----------------------------------------------------------------------------
(* add, after the caller's own lock: handshake, then the entry. *)

Goto(t, step) == pc' = [pc EXCEPT ![t] = step]
Take(t) == lock' = [lock EXCEPT ![t[1]] = t[2]]
Release(t) == lock' = [lock EXCEPT ![t[1]] = "free"]

AddLocked(n) ==
    LET m == peer[Main(n)] IN
    /\ pc[Main(n)] = "add" /\ Free(n)
    /\ IF m \in Direct(n) \/ ~Registered(m)
       THEN Goto(Main(n), "idle") /\ UNCHANGED lock
       ELSE Goto(Main(n), "handshake") /\ Take(Main(n))
    /\ UNCHANGED <<network, phase, link, stale, peer, todo, gone, beats, late, shakes, crossed, calls>>

\* The other node refuses who it has already.
ShakeHands(n) ==
    LET m == peer[Main(n)] IN
    /\ pc[Main(n)] = "handshake"
    /\ Reaches(m) => Free(m)
    /\ IF Reaches(m) /\ n \notin Direct(m)
       THEN Handshake(m, n) /\ Goto(Main(n), "joined") /\ UNCHANGED lock
       ELSE Goto(Main(n), "idle") /\ Release(Main(n)) /\ UNCHANGED <<link, stale>>
    /\ UNCHANGED <<network, phase, peer, todo, gone, beats, late, shakes, crossed, calls>>

AddDone(n) ==
    /\ pc[Main(n)] = "joined"
    /\ Put(n, peer[Main(n)], "direct")
    /\ Goto(Main(n), "idle") /\ Release(Main(n))
    /\ UNCHANGED <<network, phase, peer, todo, gone, beats, late, shakes, crossed, calls>>

\* Over gRPC the handshake is given up after GRPC_TIMEOUT; its handler may still
\* be waiting for the lock, and runs later.
HandshakeTimeout(n) ==
    /\ network.transport = "grpc" /\ pc[Main(n)] = "handshake"
    /\ shakes' = shakes \cup {<<n, peer[Main(n)]>>}
    /\ Goto(Main(n), "idle") /\ Release(Main(n))
    /\ UNCHANGED <<network, phase, link, stale, peer, todo, gone, beats, late, crossed, calls>>

LateHandshake(n, m) ==
    /\ <<n, m>> \in shakes
    /\ Registered(m) => Free(m)
    /\ shakes' = shakes \ {<<n, m>>}
    /\ IF Registered(m) /\ n \notin Direct(m) THEN Handshake(m, n) ELSE UNCHANGED <<link, stale>>
    /\ UNCHANGED <<network, phase, lock, pc, peer, todo, gone, beats, late, crossed, calls>>

-----------------------------------------------------------------------------
(* remove, by the user, by stop or by the heartbeat thread. *)

\* Where a thread goes on after remove.
After(t) == IF t[2] = "heart" THEN "expire"
            ELSE IF phase[t[1]] = "stopping" THEN "clear" ELSE "idle"

DropLocked(t) ==
    LET n == t[1]  m == peer[t] IN
    /\ pc[t] = "drop" /\ Free(n)
    /\ IF m \in Direct(n)
       THEN Goto(t, "bye") /\ Take(t) /\ UNCHANGED <<link, stale, gone>>
       ELSE Goto(t, After(t)) /\ Delete(n, m) /\ UNCHANGED lock
    /\ UNCHANGED <<network, phase, peer, todo, beats, late, shakes, crossed, calls>>

SayBye(t) ==
    LET m == peer[t] IN
    /\ pc[t] \in {"bye", "fault"}
    /\ IF Reaches(m) THEN Free(m) /\ Disconnected(m, t[1]) ELSE UNCHANGED <<link, stale, gone>>
    /\ Goto(t, IF pc[t] = "bye" THEN "parted" ELSE "faulted")
    /\ crossed' = (crossed \/ (m \in gone[t] /\ t[1] \in Direct(m)))
    /\ UNCHANGED <<network, phase, lock, peer, todo, beats, late, shakes, calls>>

DropDone(t) ==
    /\ pc[t] = "parted"
    /\ Delete(t[1], peer[t])
    /\ Goto(t, After(t)) /\ Release(t)
    /\ UNCHANGED <<network, phase, peer, todo, beats, late, shakes, crossed, calls>>

\* The client of the failed message is cleared; its entry stays, if it still has one.
FaultDone(n) ==
    LET m == peer[Main(n)] IN
    /\ pc[Main(n)] = "faulted"
    /\ IF m \in gone[Main(n)] THEN link' = link /\ gone' = [gone EXCEPT ![Main(n)] = {}]
       ELSE /\ link' = [link EXCEPT ![n][m] = "known"]
            /\ gone' = [gone EXCEPT ![Heart(n)] = IF pc[Heart(n)] = "beat" THEN @ \cup {m} ELSE @,
                                    ![Main(n)] = {}]
    /\ Goto(Main(n), "idle")
    /\ UNCHANGED <<network, phase, stale, lock, peer, todo, beats, late, shakes, crossed, calls>>

\* clear_neighbors: the table is tested, and its first entry taken, without the
\* lock; an entry removed in between ends stop with an IndexError.
ClearTest(n) ==
    /\ pc[Main(n)] = "clear"
    /\ Goto(Main(n), IF Entries(n) = {} THEN "unserve" ELSE "pick")
    /\ UNCHANGED <<network, phase, link, stale, lock, peer, todo, gone, beats, late, shakes, crossed, calls>>

ClearPick(n) ==
    /\ pc[Main(n)] = "pick"
    /\ IF Entries(n) = {}
       THEN phase' = [phase EXCEPT ![n] = "broken"] /\ Goto(Main(n), "idle") /\ UNCHANGED peer
       ELSE /\ \E m \in Entries(n) : peer' = [peer EXCEPT ![Main(n)] = m]
            /\ Goto(Main(n), "drop") /\ UNCHANGED phase
    /\ UNCHANGED <<network, link, stale, lock, todo, gone, beats, late, shakes, crossed, calls>>

ServerStop(n) ==
    /\ pc[Main(n)] = "unserve"
    /\ phase' = [phase EXCEPT ![n] = "down"]
    /\ Goto(Main(n), "idle")
    /\ UNCHANGED <<network, link, stale, lock, peer, todo, gone, beats, late, shakes, crossed, calls>>

-----------------------------------------------------------------------------
(* The heartbeat thread. *)

Silent(n) == phase[n] # "up" \/ pc[Heart(n)] = "dead"

\* The timeout passes without a beat.
Ageing(n, m) ==
    /\ m \in Entries(n) \ stale[n]
    /\ m \in network.slow \/ Silent(m)
    /\ stale' = [stale EXCEPT ![n] = @ \cup {m}]
    /\ UNCHANGED <<network, phase, link, lock, pc, peer, todo, gone, beats, late, shakes, crossed, calls>>

\* What has expired, as the table was at the start of the period.  (Mutated form:
\* only direct neighbours are looked at.)
ExpiredDirect(n) == stale[n] \cap Direct(n)
Expired(n) == stale[n]

NextPeriod(n) ==
    /\ pc[Heart(n)] = "beat" /\ todo[n] = {}
    /\ IF phase[n] # "up"
       THEN Goto(Heart(n), "ended") /\ UNCHANGED todo
       ELSE Goto(Heart(n), "expire") /\ todo' = [todo EXCEPT ![n] = Expired(n)]
    /\ gone' = [gone EXCEPT ![Heart(n)] = {}]
    /\ UNCHANGED <<network, phase, link, stale, lock, peer, beats, late, shakes, crossed, calls>>

ExpireNext(n, m) ==
    /\ pc[Heart(n)] = "expire" /\ m \in todo[n]
    /\ todo' = [todo EXCEPT ![n] = @ \ {m}]
    /\ peer' = [peer EXCEPT ![Heart(n)] = m]
    /\ Goto(Heart(n), "drop")
    /\ UNCHANGED <<network, phase, link, stale, lock, gone, beats, late, shakes, crossed, calls>>

SendBeats(n) ==
    /\ pc[Heart(n)] = "expire" /\ todo[n] = {}
    /\ todo' = [todo EXCEPT ![n] = Direct(n)]
    /\ Goto(Heart(n), "beat")
    /\ UNCHANGED <<network, phase, link, stale, lock, peer, gone, beats, late, shakes, crossed, calls>>

\* refresh_or_add at m renews the entry it finds under the lock.  A gossiped beat
\* is passed on while it has hops left.
Beat(n, m, ttl) == [of |-> n, to |-> m, ttl |-> ttl]
PassedOn(b) == IF b.ttl > 0 THEN {Beat(b.of, k, b.ttl - 1) : k \in Direct(b.to) \ {b.of}} ELSE {}
Receive(b, others) ==
    LET n == b.of  m == b.to IN
    /\ Registered(m) => Free(m)
    /\ IF ~Registered(m) \/ n = m THEN beats' = others /\ UNCHANGED <<stale, late>>
       ELSE /\ beats' = others \cup PassedOn(b)
            /\ IF n \in Entries(m) THEN stale' = [stale EXCEPT ![m] = @ \ {n}] /\ UNCHANGED late
               ELSE late' = [late EXCEPT ![m] = @ \cup {n}] /\ UNCHANGED stale

\* The thread runs the handler of its neighbour.  A client disconnected since the
\* snapshot raises, and the thread ends.
SendBeat(n, m) ==
    /\ pc[Heart(n)] = "beat" /\ m \in todo[n]
    /\ IF m \in gone[Heart(n)]
       THEN /\ Goto(Heart(n), "dead") /\ todo' = [todo EXCEPT ![n] = {}]
            /\ gone' = [gone EXCEPT ![Heart(n)] = {}]
            /\ UNCHANGED <<stale, beats, late>>
       ELSE /\ Receive(Beat(n, m, network.hops), beats)
            /\ todo' = [todo EXCEPT ![n] = @ \ {m}]
            /\ UNCHANGED <<pc, gone>>
    /\ UNCHANGED <<network, phase, link, lock, peer, shakes, crossed, calls>>

ReceiveBeat(b) ==
    /\ b \in beats
    /\ Receive(b, beats \ {b})
    /\ UNCHANGED <<network, phase, link, lock, pc, peer, todo, gone, shakes, crossed, calls>>

\* The entry it did not find it adds later, without a connection, unless there
\* is a direct one by then.  (Mutated form: the direct one is replaced.)
KeptNone(m, n) == FALSE
Kept(m, n) == n \in Direct(m)
AddLate(m, n) ==
    /\ n \in late[m] /\ Free(m)
    /\ late' = [late EXCEPT ![m] = @ \ {n}]
    /\ IF Kept(m, n) THEN UNCHANGED <<link, stale>> ELSE Put(m, n, "known")
    /\ UNCHANGED <<network, phase, lock, pc, peer, todo, gone, beats, shakes, crossed, calls>>

-----------------------------------------------------------------------------
MainStep(n) ==
    \/ AddLocked(n) \/ ShakeHands(n) \/ AddDone(n) \/ HandshakeTimeout(n)
    \/ FaultDone(n) \/ ClearTest(n) \/ ClearPick(n) \/ ServerStop(n)
HeartStep(n) == NextPeriod(n) \/ SendBeats(n) \/ \E m \in Node : ExpireNext(n, m) \/ SendBeat(n, m)
RemoveStep(t) == DropLocked(t) \/ SayBye(t) \/ DropDone(t)

Next ==
    \/ \E n, m \in Node : Connect(n, m) \/ Disconnect(n, m) \/ Fault(n, m)
                          \/ LateHandshake(n, m) \/ Ageing(n, m) \/ AddLate(n, m)
    \/ \E n \in Node : Stop(n) \/ MainStep(n) \/ HeartStep(n)
    \/ \E t \in Thread : RemoveStep(t)
    \/ \E b \in beats : ReceiveBeat(b)

Spec == Init /\ [][Next]_vars

\* Threads go on, messages arrive and time passes.  Weak fairness is enough for the
\* locks: they are held over several steps only where a direct connection is made
\* or ended, and there are finitely many.
FairSpec ==
    /\ Spec
    /\ \A n \in Node :
        /\ WF_vars(MainStep(n) \/ RemoveStep(Main(n)))
        /\ WF_vars(HeartStep(n) \/ RemoveStep(Heart(n)))
        /\ WF_vars(\E m \in Node : Ageing(m, n)) /\ WF_vars(\E m \in Node : AddLate(n, m))
    /\ WF_vars(\E b \in beats : ReceiveBeat(b))
    /\ WF_vars(\E n, m \in Node : LateHandshake(n, m))

-----------------------------------------------------------------------------
MainSteps == {"idle", "add", "handshake", "joined", "drop", "bye", "parted", "fault", "faulted",
              "clear", "pick", "unserve"}
HeartSteps == {"expire", "drop", "bye", "parted", "beat", "ended", "dead"}

TypeOK ==
    /\ network \in Networks
    /\ phase \in [Node -> {"up", "stopping", "down", "broken"}]
    /\ link \in [Node -> [Node -> {"none", "known", "direct"}]]
    /\ stale \in [Node -> SUBSET Node] /\ todo \in [Node -> SUBSET Node]
    /\ lock \in [Node -> {"free"} \cup Role]
    /\ pc \in [Thread -> MainSteps \cup HeartSteps]
    /\ \A n \in Node : pc[Main(n)] \in MainSteps /\ pc[Heart(n)] \in HeartSteps
    /\ peer \in [Thread -> Node] /\ gone \in [Thread -> SUBSET Node]
    /\ beats \subseteq [of : Node, to : Node, ttl : Nat] /\ late \in [Node -> SUBSET Node]
    /\ shakes \subseteq Node \X Node /\ crossed \in BOOLEAN /\ calls \in Nat

\* No operation between the two nodes is under way.
Settled(n, m) ==
    \A t \in Thread :
        {t[1], peer[t]} = {n, m} => pc[t] \notin {"joined", "parted", "faulted"}

\* Direct connections have two ends (neighbors.py, handshake and disconnect): also
\* when both nodes connect, remove or expire each other, or one of them stops,
\* what both tables say is the same once no call between them is under way.  It
\* says this in memory, and of runs in which no disconnect has removed a connection
\* made after the one it was meant for ("crossed": it leaves one end).  Over gRPC
\* an abandoned handshake leaves one end too (README, section 4).
ConnectionsHaveTwoEnds ==
    network.transport = "memory" /\ ~crossed =>
        \A n, m \in Node : Settled(n, m) => (m \in Direct(n) <=> n \in Direct(m))

\* Nodes that hold their own tables and wait for each other's.  A handshake over
\* gRPC is not waited for beyond its timeout.
Waits(t) == pc[t] = "bye" \/ (pc[t] = "handshake" /\ network.transport = "memory")
Ring ==
    \E nodes \in (SUBSET Node) \ {{}} : \A n \in nodes : \E r \in Role :
        lock[n] = r /\ Waits(<<n, r>>) /\ peer[<<n, r>>] \in nodes

\* A ring of nodes that connect to or remove each other is the only way in which
\* the operations on neighbour tables do not all end (their calls are finitely
\* many).
OperationsEnd ==
    <>[](Ring \/ \A n \in Node : pc[Main(n)] = "idle" /\ pc[Heart(n)] \notin {"bye", "parted"})

\* A node that has stopped, or whose heartbeat thread has died while it runs, is
\* forgotten by every other node whose own heartbeat goes on, late beats and
\* connections made in the meantime included (heartbeater.py:94, 114).
Gone(n) == phase[n] = "down" \/ pc[Heart(n)] = "dead"
Forgets(m, n) == link[m][n] = "none" \/ Silent(m)
StoppedIsForgotten ==
    <>[](Ring \/ \A n, m \in Node : Gone(n) /\ n # m => Forgets(m, n))

\* A node that is told to stop stops ("must not leave either one keeping the
\* interpreter alive indefinitely", protobuff_communication_protocol.py:122).
StopEnds == \A n \in Node : phase[n] = "stopping" ~> phase[n] # "stopping"

\* A heartbeat thread ends only with its node (heartbeater.py:84).
HeartBeats == \A n \in Node : pc[Heart(n)] # "dead"
=============================================================================
