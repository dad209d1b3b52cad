------------------------- MODULE NeighborhoodProofs -------------------------
(***************************************************************************)
(* Theorems about Neighborhood, for any nodes, networks and calls of users *)
(* and of heartbeat threads: tables keep their types, and the two tables   *)
(* of a direct connection agree unless a call between the nodes is under   *)
(* way.                                                                    *)
(***************************************************************************)
EXTENDS Neighborhood, TLAPS

Locking == {"handshake", "joined", "bye", "parted"}    \* with the lock of the own table
WithPeer == Locking \cup {"add", "drop", "fault", "faulted"}

\* A table is locked by the thread that adds or removes a direct connection.
Locked == \A t \in Thread : pc[t] \in Locking <=> lock[t[1]] = t[2]

\* No node deals with itself.
NoSelf ==
    /\ \A n \in Node : link[n][n] = "none" /\ n \notin stale[n] /\ n \notin todo[n]
                       /\ n \notin late[n] /\ <<n, n>> \notin shakes
    /\ \A t \in Thread : pc[t] \in WithPeer => peer[t] # t[1]

\* A client whose message failed is that of a direct neighbour unless its entry has
\* been removed since.
HasClient ==
    \A n \in Node : pc[Main(n)] \in {"fault", "faulted"} =>
        peer[Main(n)] \in Direct(n) \cup gone[Main(n)]

\* What n is doing when only one of the tables of n and m has the other one.
Joining(n, m) == pc[Main(n)] = "joined" /\ peer[Main(n)] = m
Parting(n, m) == \E r \in Role : pc[<<n, r>>] = "parted" /\ peer[<<n, r>>] = m
Faulting(n, m) == pc[Main(n)] = "faulted" /\ peer[Main(n)] = m /\ m \notin gone[Main(n)]

Agree(n, m) ==
    /\ m \in Direct(n) /\ n \notin Direct(m) =>
           Joining(m, n) \/ Parting(n, m) \/ Faulting(n, m)
    /\ Joining(m, n) => m \in Direct(n) /\ ~Parting(n, m) /\ ~Faulting(n, m)
    /\ Parting(n, m) \/ Faulting(n, m) => n \notin Direct(m)

InMemory ==
    network.transport = "memory" => shakes = {}
Ends ==
    network.transport = "memory" /\ ~crossed => \A n, m \in Node : Agree(n, m)

IInv == TypeOK /\ Locked /\ NoSelf /\ HasClient /\ InMemory /\ Ends

-----------------------------------------------------------------------------
\* Tables and threads.

LEMMA Threads ==
    /\ \A t \in Thread : t[1] \in Node /\ t[2] \in Role /\ t = <<t[1], t[2]>>
    /\ \A n \in Node : Main(n) \in Thread /\ Heart(n) \in Thread /\ Main(n) # Heart(n)
                       /\ Main(n)[1] = n /\ Main(n)[2] = "main"
                       /\ Heart(n)[1] = n /\ Heart(n)[2] = "heart"
    /\ \A n, m \in Node : Main(n) # Heart(m) /\ (Main(n) = Main(m) => n = m)
                          /\ (Heart(n) = Heart(m) => n = m)
    /\ \A t \in Thread : t = Main(t[1]) \/ t = Heart(t[1])
  BY DEF Thread, Role, Main, Heart

LEMMA DirectPeers == \A n : Direct(n) \subseteq Node
  BY DEF Direct

LEMMA PutEffect ==
    ASSUME TypeOK, NEW n \in Node, NEW m \in Node, NEW kind \in {"known", "direct"},
           Put(n, m, kind)
    PROVE  /\ link' \in [Node -> [Node -> {"none", "known", "direct"}]]
           /\ stale' \in [Node -> SUBSET Node]
           /\ link'[n][m] = kind
           /\ \A x, y \in Node : x # n \/ y # m => link'[x][y] = link[x][y]
           /\ \A x \in Node : stale'[x] \subseteq stale[x]
<1>1. /\ link \in [Node -> [Node -> {"none", "known", "direct"}]]
      /\ stale \in [Node -> SUBSET Node]
  BY DEF TypeOK
<1> QED
  BY <1>1 DEF Put

LEMMA DeleteEffect ==
    ASSUME TypeOK, NEW n \in Node, NEW m \in Node, Delete(n, m)
    PROVE  /\ link' \in [Node -> [Node -> {"none", "known", "direct"}]]
           /\ stale' \in [Node -> SUBSET Node] /\ gone' \in [Thread -> SUBSET Node]
           /\ link'[n][m] = "none"
           /\ \A x, y \in Node : x # n \/ y # m => link'[x][y] = link[x][y]
           /\ \A x \in Node : stale'[x] \subseteq stale[x]
           /\ \A t \in Thread : /\ gone'[t] = gone[t] \/ gone'[t] = gone[t] \cup {m}
                                /\ t[1] # n => gone'[t] = gone[t]
                                /\ t[1] = n /\ pc[t] \in Holding => m \in gone'[t]
<1>1. /\ link \in [Node -> [Node -> {"none", "known", "direct"}]]
      /\ stale \in [Node -> SUBSET Node] /\ gone \in [Thread -> SUBSET Node]
  BY DEF TypeOK
<1> QED
  BY <1>1 DEF Delete

LEMMA DirectIs == \A x, y : y \in Direct(x) <=> y \in Node /\ link[x][y] = "direct"
  BY DEF Direct

-----------------------------------------------------------------------------
\* Types.

LEMMA InitType == Init => TypeOK
<1> SUFFICES ASSUME Init PROVE TypeOK
  OBVIOUS
<1>1. /\ network \in Networks /\ beats = {} /\ shakes = {} /\ crossed = FALSE /\ calls = 0
      /\ phase \in [Node -> {"up", "stopping", "down", "broken"}]
      /\ link \in [Node -> [Node -> {"none", "known", "direct"}]]
      /\ stale \in [Node -> SUBSET Node] /\ todo \in [Node -> SUBSET Node]
      /\ lock \in [Node -> {"free"} \cup Role] /\ late \in [Node -> SUBSET Node]
  BY DEF Init
<1>2. pc \in [Thread -> MainSteps \cup HeartSteps] /\ gone \in [Thread -> SUBSET Node]
  BY DEF Init, MainSteps, HeartSteps
<1>3. peer \in [Thread -> Node]
  BY Threads DEF Init
<1>4. \A n \in Node : pc[Main(n)] \in MainSteps /\ pc[Heart(n)] \in HeartSteps
  BY Threads DEF Init, MainSteps, HeartSteps
<1> QED
  BY <1>1, <1>2, <1>3, <1>4 DEF TypeOK

\* A thread that goes to a step of its role.
LEMMA GotoType ==
    ASSUME TypeOK, NEW t \in Thread, NEW step, Goto(t, step),
           t[2] = "main" => step \in MainSteps, t[2] = "heart" => step \in HeartSteps
    PROVE  /\ pc' \in [Thread -> MainSteps \cup HeartSteps]
           /\ \A n \in Node : pc'[Main(n)] \in MainSteps /\ pc'[Heart(n)] \in HeartSteps
           /\ pc'[t] = step /\ \A u \in Thread \ {t} : pc'[u] = pc[u]
<1>1. /\ pc \in [Thread -> MainSteps \cup HeartSteps]
      /\ \A n \in Node : pc[Main(n)] \in MainSteps /\ pc[Heart(n)] \in HeartSteps
      /\ pc' = [pc EXCEPT ![t] = step] /\ t[2] \in {"main", "heart"}
  BY Threads DEF TypeOK, Goto, Role
<1>2. pc'[t] = step /\ \A u \in Thread \ {t} : pc'[u] = pc[u]
  BY <1>1
<1>3. pc' \in [Thread -> MainSteps \cup HeartSteps]
  BY <1>1
<1>4. ASSUME NEW n \in Node PROVE pc'[Main(n)] \in MainSteps /\ pc'[Heart(n)] \in HeartSteps
  BY <1>1, <1>2, Threads
<1> QED
  BY <1>2, <1>3, <1>4

-----------------------------------------------------------------------------
\* Steps that leave the direct connections alone.

Mid == {"joined", "parted", "faulted"}
SameDirect == \A n \in Node : Direct(n)' = Direct(n)

\* The record of disconnected clients matters while a message fails.
SameFaults ==
    \A n \in Node : pc[Main(n)] \in {"fault", "faulted"} =>
        /\ gone[Main(n)] \subseteq gone'[Main(n)]
        /\ peer[Main(n)] \in gone'[Main(n)] => peer[Main(n)] \in gone[Main(n)]

SameNetwork ==
    /\ network' = network /\ crossed' = crossed
    /\ shakes' = shakes \/ network.transport # "memory"

LEMMA ThreadFrame ==
    ASSUME IInv, NEW t \in Thread, TypeOK', NoSelf', SameDirect, SameFaults, SameNetwork,
           \A u \in Thread \ {t} : pc'[u] = pc[u] /\ peer'[u] = peer[u],
           pc[t] \notin Mid, pc'[t] \notin Mid,
           pc'[t] = "fault" => peer'[t] \in Direct(t[1]),
           pc'[t] \in Locking <=> lock'[t[1]] = t[2],
           \A u \in Thread \ {t} : lock'[u[1]] = u[2] <=> lock[u[1]] = u[2]
    PROVE  IInv'
<1>1. Locked'
  <2>1. \A u \in Thread : pc[u] \in Locking <=> lock[u[1]] = u[2]
    BY DEF IInv, Locked
  <2> QED
    BY <2>1 DEF Locked
<1>2. HasClient'
  <2> SUFFICES ASSUME NEW n \in Node, pc'[Main(n)] \in {"fault", "faulted"}
               PROVE  peer'[Main(n)] \in Direct(n)' \cup gone'[Main(n)]
    BY DEF HasClient
  <2>1. CASE Main(n) = t
    BY <2>1, Threads DEF Mid, SameDirect
  <2>2. CASE Main(n) # t
    <3>1. /\ peer'[Main(n)] = peer[Main(n)] /\ gone[Main(n)] \subseteq gone'[Main(n)]
          /\ pc[Main(n)] \in {"fault", "faulted"}
      BY <2>2, Threads DEF SameFaults
    <3> QED
      BY <3>1 DEF IInv, HasClient, SameDirect
  <2> QED
    BY <2>1, <2>2
<1>3. InMemory'
  BY DEF IInv, InMemory, SameNetwork
<1>4. Ends'
  <2>1. ASSUME NEW n \in Node, NEW m \in Node PROVE Joining(n, m)' <=> Joining(n, m)
    BY Threads DEF Joining, Mid
  <2>2. ASSUME NEW n \in Node, NEW m \in Node PROVE Parting(n, m)' <=> Parting(n, m)
    <3>1. \A r \in Role : <<n, r>> \in Thread
      BY DEF Thread
    <3> QED
      BY <3>1 DEF Parting, Mid
  <2>3. ASSUME NEW n \in Node, NEW m \in Node PROVE Faulting(n, m)' <=> Faulting(n, m)
    BY Threads DEF Faulting, Mid, SameFaults
  <2>4. ASSUME network.transport = "memory", ~crossed, NEW n \in Node, NEW m \in Node
        PROVE  Agree(n, m)'
    <3>1. Agree(n, m)
      BY <2>4 DEF IInv, Ends
    <3> QED
      BY <2>1, <2>2, <2>3, <3>1 DEF Agree, SameDirect
  <2> QED
    BY <2>4 DEF Ends, SameNetwork
<1> QED
  BY <1>1, <1>2, <1>3, <1>4 DEF IInv

LEMMA RestFrame ==
    ASSUME IInv, TypeOK', NoSelf', SameDirect, SameNetwork, UNCHANGED <<pc, peer, gone, lock>>
    PROVE  IInv'
<1>1. Locked'
  BY DEF IInv, Locked
<1>2. HasClient'
  BY DEF IInv, HasClient, SameDirect
<1>3. InMemory'
  BY DEF IInv, InMemory, SameNetwork
<1>4. Ends'
  <2>1. \A n, m \in Node : /\ Joining(n, m)' <=> Joining(n, m)
                           /\ Parting(n, m)' <=> Parting(n, m)
                           /\ Faulting(n, m)' <=> Faulting(n, m)
    BY DEF Joining, Parting, Faulting
  <2> QED
    BY <2>1 DEF IInv, Ends, Agree, SameDirect, SameNetwork
<1> QED
  BY <1>1, <1>2, <1>3, <1>4 DEF IInv

\* A table of which only the entries for others change.
LEMMA StillNoSelf ==
    ASSUME IInv, NEW n \in Node, NEW m \in Node, n # m,
           \A x, y \in Node : x # n \/ y # m => link'[x][y] = link[x][y],
           \A x \in Node : stale'[x] \subseteq stale[x] /\ late'[x] \subseteq late[x]
                           /\ todo'[x] \subseteq todo[x],
           shakes' \subseteq shakes,
           \A t \in Thread : pc'[t] \in WithPeer => peer'[t] # t[1]
    PROVE  NoSelf'
  BY DEF IInv, NoSelf

LEMMA SameTables ==
    ASSUME IInv, UNCHANGED link
    PROVE  SameDirect
  BY DEF SameDirect, Direct

\* No thread but t moves, and it goes with the peer it has or to a step without one.
LEMMA StillWithOthers ==
    ASSUME IInv, NEW t \in Thread, \A u \in Thread \ {t} : pc'[u] = pc[u] /\ peer'[u] = peer[u],
           pc'[t] \in WithPeer => peer'[t] # t[1]
    PROVE  \A u \in Thread : pc'[u] \in WithPeer => peer'[u] # u[1]
  BY DEF IInv, NoSelf

-----------------------------------------------------------------------------
\* Calls.

LEMMA CallStep ==
    ASSUME IInv, NEW n \in Node, NEW m \in Node, NEW step \in {"add", "drop", "fault", "clear"},
           Call(n, m, step), step # "clear" => n # m, step = "fault" => m \in Direct(n),
           phase' \in [Node -> {"up", "stopping", "down", "broken"}],
           UNCHANGED <<network, link, stale, lock, todo, gone, beats, late, shakes, crossed>>
    PROVE  IInv'
<1>1. /\ pc[Main(n)] = "idle" /\ Goto(Main(n), step)
      /\ peer' = [peer EXCEPT ![Main(n)] = m] /\ calls' = calls + 1
  BY DEF Call, Goto
<1>2. /\ pc' \in [Thread -> MainSteps \cup HeartSteps]
      /\ \A k \in Node : pc'[Main(k)] \in MainSteps /\ pc'[Heart(k)] \in HeartSteps
      /\ pc'[Main(n)] = step /\ \A u \in Thread \ {Main(n)} : pc'[u] = pc[u]
  BY <1>1, GotoType, Threads DEF IInv, MainSteps
<1>3. /\ peer' \in [Thread -> Node] /\ peer'[Main(n)] = m
      /\ \A u \in Thread \ {Main(n)} : peer'[u] = peer[u]
  BY <1>1, Threads DEF IInv, TypeOK
<1>4. TypeOK'
  BY <1>1, <1>2, <1>3 DEF IInv, TypeOK
<1>5. NoSelf'
  <2>1. Main(n) \in Thread /\ Main(n)[1] = n
    BY Threads
  <2>2. pc'[Main(n)] \in WithPeer => peer'[Main(n)] # Main(n)[1]
    BY <1>2, <1>3, <2>1 DEF WithPeer, Locking
  <2>3. \A u \in Thread : pc'[u] \in WithPeer => peer'[u] # u[1]
    BY <1>2, <1>3, <2>1, <2>2, StillWithOthers
  <2> QED
    BY <2>3 DEF IInv, NoSelf
<1>6. SameDirect /\ SameNetwork /\ SameFaults
  BY SameTables DEF SameNetwork, SameFaults
<1>7. pc'[Main(n)] \in Locking <=> lock'[n] = "main"
  <2>1. pc[Main(n)] \in Locking <=> lock[n] = "main"
    BY Threads DEF IInv, Locked
  <2> QED
    BY <1>1, <1>2, <2>1 DEF Locking
<1>8. /\ Main(n) \in Thread /\ Main(n)[1] = n /\ Main(n)[2] = "main"
      /\ pc[Main(n)] \notin Mid /\ pc'[Main(n)] \notin Mid
      /\ pc'[Main(n)] = "fault" => peer'[Main(n)] \in Direct(Main(n)[1])
  BY <1>1, <1>2, <1>3, Threads DEF Mid
<1>9. \A u \in Thread \ {Main(n)} : /\ pc'[u] = pc[u] /\ peer'[u] = peer[u]
                                    /\ lock'[u[1]] = u[2] <=> lock[u[1]] = u[2]
  BY <1>2, <1>3
<1>10. pc'[Main(n)] \in Locking <=> lock'[Main(n)[1]] = Main(n)[2]
  BY <1>7, <1>8
<1> QED
  BY <1>4, <1>5, <1>6, <1>8, <1>9, <1>10, ThreadFrame

LEMMA CallsStep ==
    ASSUME IInv, NEW n \in Node, NEW m \in Node,
           Connect(n, m) \/ Disconnect(n, m) \/ Fault(n, m) \/ Stop(n)
    PROVE  IInv'
<1>1. phase \in [Node -> {"up", "stopping", "down", "broken"}]
  BY DEF IInv, TypeOK
<1>2. CASE Connect(n, m)
  BY <1>1, <1>2, CallStep DEF Connect
<1>3. CASE Disconnect(n, m)
  BY <1>1, <1>3, CallStep DEF Disconnect
<1>4. CASE Fault(n, m)
  <2>1. n # m
    BY <1>4 DEF Fault, IInv, NoSelf, Direct
  <2> QED
    BY <1>1, <1>4, <2>1, CallStep DEF Fault
<1>5. CASE Stop(n)
  BY <1>1, <1>5, CallStep DEF Stop
<1> QED
  BY <1>2, <1>3, <1>4, <1>5

\* A step of a thread that changes neither tables nor what the threads record.
LEMMA GoesOn ==
    ASSUME IInv, NEW t \in Thread, NEW step, Goto(t, step),
           t[2] = "main" => step \in MainSteps, t[2] = "heart" => step \in HeartSteps,
           pc[t] \notin Mid, step \notin Mid \cup {"fault"},
           step \in WithPeer => pc[t] \in WithPeer,
           \/ step \in Locking /\ lock' = [lock EXCEPT ![t[1]] = t[2]] /\ Free(t[1])
           \/ step \notin Locking /\ pc[t] \in Locking /\ lock' = [lock EXCEPT ![t[1]] = "free"]
           \/ step \notin Locking /\ pc[t] \notin Locking /\ UNCHANGED lock,
           UNCHANGED <<network, phase, link, stale, peer, todo, gone, beats, late, crossed, calls>>,
           \/ UNCHANGED shakes
           \/ /\ shakes' \subseteq Node \X Node /\ \A k \in Node : <<k, k>> \notin shakes'
              /\ network.transport # "memory"
    PROVE  IInv'
<1>1. /\ pc' \in [Thread -> MainSteps \cup HeartSteps]
      /\ \A k \in Node : pc'[Main(k)] \in MainSteps /\ pc'[Heart(k)] \in HeartSteps
      /\ pc'[t] = step /\ \A u \in Thread \ {t} : pc'[u] = pc[u]
  BY GotoType DEF IInv
<1>2. /\ lock \in [Node -> {"free"} \cup Role] /\ t[1] \in Node /\ t[2] \in Role
      /\ t[2] # "free" /\ shakes \subseteq Node \X Node
  BY Threads DEF IInv, TypeOK, Role
<1>3. lock' \in [Node -> {"free"} \cup Role] /\ shakes' \subseteq Node \X Node
  BY <1>2
<1>4. TypeOK'
  BY <1>1, <1>3 DEF IInv, TypeOK
<1>5. NoSelf'
  <2>1. pc'[t] \in WithPeer => peer'[t] # t[1]
    BY <1>1 DEF IInv, NoSelf
  <2>2. \A u \in Thread : pc'[u] \in WithPeer => peer'[u] # u[1]
    BY <1>1, <2>1, StillWithOthers
  <2> QED
    BY <2>2 DEF IInv, NoSelf
<1>6. SameDirect /\ SameNetwork /\ SameFaults
  BY SameTables DEF SameNetwork, SameFaults
<1>7. \A u \in Thread : pc[u] \in Locking <=> lock[u[1]] = u[2]
  BY DEF IInv, Locked
<1>8. pc'[t] \in Locking <=> lock'[t[1]] = t[2]
  BY <1>1, <1>2, <1>7
<1>9. ASSUME NEW u \in Thread \ {t} PROVE lock'[u[1]] = u[2] <=> lock[u[1]] = u[2]
  <2>1. u[1] \in Node /\ u[2] # "free" /\ (u[1] = t[1] => u[2] # t[2])
    BY Threads DEF Role
  <2>2. CASE u[1] # t[1]
    BY <1>2, <2>1, <2>2
  <2>3. CASE u[1] = t[1]
    BY <1>2, <1>7, <2>1, <2>3 DEF Free
  <2> QED
    BY <2>2, <2>3
<1> QED
  BY <1>1, <1>4, <1>5, <1>6, <1>8, <1>9, ThreadFrame

LEMMA AddLockedStep ==
    ASSUME IInv, NEW n \in Node, AddLocked(n)
    PROVE  IInv'
<1>1. /\ Main(n) \in Thread /\ Main(n)[1] = n /\ Main(n)[2] = "main" /\ pc[Main(n)] = "add"
      /\ Free(n)
  BY Threads DEF AddLocked
<1>2. UNCHANGED <<network, phase, link, stale, peer, todo, gone, beats, late, shakes, crossed, calls>>
  BY DEF AddLocked
<1>3. \/ Goto(Main(n), "idle") /\ UNCHANGED lock
      \/ Goto(Main(n), "handshake") /\ lock' = [lock EXCEPT ![n] = "main"]
  BY <1>1 DEF AddLocked, Take
<1>4. CASE Goto(Main(n), "idle") /\ UNCHANGED lock
  BY <1>1, <1>2, <1>4, GoesOn DEF Mid, WithPeer, Locking, MainSteps
<1>5. CASE Goto(Main(n), "handshake") /\ lock' = [lock EXCEPT ![n] = "main"]
  BY <1>1, <1>2, <1>5, GoesOn DEF Mid, WithPeer, Locking, MainSteps
<1> QED
  BY <1>3, <1>4, <1>5

LEMMA RefusedStep ==
    ASSUME IInv, NEW n \in Node, pc[Main(n)] = "handshake", Goto(Main(n), "idle"),
           Release(Main(n)),
           UNCHANGED <<network, phase, link, stale, peer, todo, gone, beats, late, crossed, calls>>,
           \/ UNCHANGED shakes
           \/ /\ shakes' \subseteq Node \X Node /\ \A k \in Node : <<k, k>> \notin shakes'
              /\ network.transport # "memory"
    PROVE  IInv'
<1>1. /\ Main(n) \in Thread /\ Main(n)[1] = n /\ Main(n)[2] = "main"
      /\ lock' = [lock EXCEPT ![Main(n)[1]] = "free"]
  BY Threads DEF Release
<1> QED
  BY <1>1, GoesOn DEF Mid, WithPeer, Locking, MainSteps

LEMMA TimeoutStep ==
    ASSUME IInv, NEW n \in Node, HandshakeTimeout(n)
    PROVE  IInv'
<1>1. /\ shakes' \subseteq Node \X Node /\ \A k \in Node : <<k, k>> \notin shakes'
      /\ network.transport # "memory"
  <2>1. /\ peer[Main(n)] \in Node /\ shakes \subseteq Node \X Node /\ peer[Main(n)] # n
        /\ \A k \in Node : <<k, k>> \notin shakes
    BY Threads DEF IInv, TypeOK, NoSelf, HandshakeTimeout, WithPeer, Locking
  <2> QED
    BY <2>1 DEF HandshakeTimeout
<1> QED
  BY <1>1, RefusedStep DEF HandshakeTimeout

LEMMA ByeStep ==
    ASSUME IInv, NEW t \in Thread, DropLocked(t), peer[t] \in Direct(t[1])
    PROVE  IInv'
<1>1. /\ pc[t] = "drop" /\ Free(t[1]) /\ Goto(t, "bye") /\ lock' = [lock EXCEPT ![t[1]] = t[2]]
      /\ UNCHANGED <<network, phase, link, stale, peer, todo, gone, beats, late, shakes, crossed, calls>>
  BY DEF DropLocked, Take
<1> QED
  BY <1>1, GoesOn DEF Mid, WithPeer, Locking, MainSteps, HeartSteps

LEMMA ClearTestStep ==
    ASSUME IInv, NEW n \in Node, ClearTest(n)
    PROVE  IInv'
<1>1. /\ Main(n) \in Thread /\ Main(n)[1] = n /\ Main(n)[2] = "main" /\ pc[Main(n)] = "clear"
      /\ Goto(Main(n), "unserve") \/ Goto(Main(n), "pick")
      /\ UNCHANGED <<network, phase, link, stale, lock, peer, todo, gone, beats, late, shakes, crossed, calls>>
  BY Threads DEF ClearTest
<1> QED
  BY <1>1, GoesOn DEF Mid, WithPeer, Locking, MainSteps

\* A step of a thread outside of all locks, which may take up another peer.
LEMMA Wanders ==
    ASSUME IInv, NEW t \in Thread, NEW step, Goto(t, step),
           t[2] = "main" => step \in MainSteps, t[2] = "heart" => step \in HeartSteps,
           pc[t] \notin Mid \cup Locking, step \notin Mid \cup Locking \cup {"fault"},
           \A u \in Thread \ {t} : peer'[u] = peer[u], peer' \in [Thread -> Node],
           step \in WithPeer => peer'[t] # t[1],
           UNCHANGED <<network, link, stale, lock, beats, late, shakes, crossed, calls>>,
           phase' \in [Node -> {"up", "stopping", "down", "broken"}],
           todo' \in [Node -> SUBSET Node], \A n \in Node : n \notin todo'[n],
           gone' \in [Thread -> SUBSET Node], \A n \in Node : gone'[Main(n)] = gone[Main(n)]
    PROVE  IInv'
<1>1. /\ pc' \in [Thread -> MainSteps \cup HeartSteps]
      /\ \A k \in Node : pc'[Main(k)] \in MainSteps /\ pc'[Heart(k)] \in HeartSteps
      /\ pc'[t] = step /\ \A u \in Thread \ {t} : pc'[u] = pc[u]
  BY GotoType DEF IInv
<1>2. TypeOK'
  BY <1>1 DEF IInv, TypeOK
<1>3. NoSelf'
  <2>1. \A u \in Thread : pc'[u] \in WithPeer => peer'[u] # u[1]
    BY <1>1, StillWithOthers
  <2> QED
    BY <2>1 DEF IInv, NoSelf
<1>4. SameDirect /\ SameNetwork /\ SameFaults
  BY SameTables DEF SameNetwork, SameFaults
<1>5. \A u \in Thread : pc[u] \in Locking <=> lock[u[1]] = u[2]
  BY DEF IInv, Locked
<1> QED
  BY <1>1, <1>2, <1>3, <1>4, <1>5, ThreadFrame

LEMMA ClearPickStep ==
    ASSUME IInv, NEW n \in Node, ClearPick(n)
    PROVE  IInv'
<1>1. /\ Main(n) \in Thread /\ Main(n)[1] = n /\ Main(n)[2] = "main" /\ pc[Main(n)] = "pick"
      /\ UNCHANGED <<network, link, stale, lock, todo, gone, beats, late, shakes, crossed, calls>>
  BY Threads DEF ClearPick
<1>2. /\ phase \in [Node -> {"up", "stopping", "down", "broken"}] /\ peer \in [Thread -> Node]
      /\ todo \in [Node -> SUBSET Node] /\ gone \in [Thread -> SUBSET Node]
      /\ \A k \in Node : k \notin todo[k]
  BY DEF IInv, TypeOK, NoSelf
<1>3. CASE Entries(n) = {}
  <2>1. Goto(Main(n), "idle") /\ UNCHANGED peer /\ phase' = [phase EXCEPT ![n] = "broken"]
    BY <1>3 DEF ClearPick
  <2> QED
    BY <1>1, <1>2, <2>1, Wanders DEF Mid, Locking, WithPeer, MainSteps
<1>4. CASE Entries(n) # {}
  <2>1. PICK m \in Entries(n) : peer' = [peer EXCEPT ![Main(n)] = m]
    BY <1>4 DEF ClearPick
  <2>2. Goto(Main(n), "drop") /\ UNCHANGED phase
    BY <1>4 DEF ClearPick
  <2>3. m \in Node /\ m # n
    BY <2>1 DEF Entries, IInv, NoSelf
  <2>4. peer' \in [Thread -> Node] /\ peer'[Main(n)] = m /\ \A u \in Thread \ {Main(n)} : peer'[u] = peer[u]
    BY <1>1, <1>2, <2>1, <2>3
  <2> QED
    BY <1>1, <1>2, <2>2, <2>3, <2>4, Wanders DEF Mid, Locking, WithPeer, MainSteps
<1> QED
  BY <1>3, <1>4

LEMMA ServerStopStep ==
    ASSUME IInv, NEW n \in Node, ServerStop(n)
    PROVE  IInv'
<1>1. /\ Main(n) \in Thread /\ Main(n)[1] = n /\ Main(n)[2] = "main" /\ pc[Main(n)] = "unserve"
      /\ Goto(Main(n), "idle")
      /\ UNCHANGED <<network, link, stale, lock, peer, todo, gone, beats, late, shakes, crossed, calls>>
  BY Threads DEF ServerStop
<1>2. /\ phase' \in [Node -> {"up", "stopping", "down", "broken"}] /\ peer \in [Thread -> Node]
      /\ todo \in [Node -> SUBSET Node] /\ gone \in [Thread -> SUBSET Node]
      /\ \A k \in Node : k \notin todo[k]
  BY DEF IInv, TypeOK, NoSelf, ServerStop
<1> QED
  BY <1>1, <1>2, Wanders DEF Mid, Locking, WithPeer, MainSteps

-----------------------------------------------------------------------------
\* The heartbeat thread, beats and time.

LEMMA PeriodsStep ==
    ASSUME IInv, NEW n \in Node, NextPeriod(n) \/ SendBeats(n)
    PROVE  IInv'
<1>1. /\ Heart(n) \in Thread /\ Heart(n)[1] = n /\ Heart(n)[2] = "heart"
      /\ \A k \in Node : Main(k) # Heart(n) /\ Main(k) \in Thread
  BY Threads
<1>2. /\ phase \in [Node -> {"up", "stopping", "down", "broken"}] /\ peer \in [Thread -> Node]
      /\ todo \in [Node -> SUBSET Node] /\ gone \in [Thread -> SUBSET Node]
      /\ stale \in [Node -> SUBSET Node]
      /\ \A k \in Node : k \notin todo[k] /\ k \notin stale[k] /\ k \notin Direct(k)
  BY DEF IInv, TypeOK, NoSelf, Direct
<1>3. CASE NextPeriod(n)
  <2>1. /\ pc[Heart(n)] = "beat"
        /\ (Goto(Heart(n), "ended") \/ Goto(Heart(n), "expire"))
        /\ todo' = todo \/ todo' = [todo EXCEPT ![n] = stale[n]]
        /\ gone' = [gone EXCEPT ![Heart(n)] = {}]
        /\ UNCHANGED <<network, phase, link, stale, lock, peer, beats, late, shakes, crossed, calls>>
    BY <1>3 DEF NextPeriod, Expired
  <2>2. /\ todo' \in [Node -> SUBSET Node] /\ \A k \in Node : k \notin todo'[k]
    BY <1>2, <2>1
  <2>3. gone' \in [Thread -> SUBSET Node] /\ \A k \in Node : gone'[Main(k)] = gone[Main(k)]
    BY <1>1, <1>2, <2>1
  <2> QED
    BY <1>1, <1>2, <2>1, <2>2, <2>3, Wanders DEF Mid, Locking, WithPeer, HeartSteps
<1>4. CASE SendBeats(n)
  <2>1. /\ pc[Heart(n)] = "expire" /\ Goto(Heart(n), "beat")
        /\ todo' = [todo EXCEPT ![n] = Direct(n)]
        /\ UNCHANGED <<network, phase, link, stale, lock, peer, gone, beats, late, shakes, crossed, calls>>
    BY <1>4 DEF SendBeats
  <2>2. /\ todo' \in [Node -> SUBSET Node] /\ \A k \in Node : k \notin todo'[k]
    BY <1>2, <2>1, DirectPeers
  <2> QED
    BY <1>1, <1>2, <2>1, <2>2, Wanders DEF Mid, Locking, WithPeer, HeartSteps
<1> QED
  BY <1>3, <1>4

LEMMA ExpireStep ==
    ASSUME IInv, NEW n \in Node, NEW m \in Node, ExpireNext(n, m)
    PROVE  IInv'
<1>1. /\ Heart(n) \in Thread /\ Heart(n)[1] = n /\ Heart(n)[2] = "heart"
      /\ \A k \in Node : Main(k) # Heart(n)
  BY Threads
<1>2. /\ phase \in [Node -> {"up", "stopping", "down", "broken"}] /\ peer \in [Thread -> Node]
      /\ todo \in [Node -> SUBSET Node] /\ gone \in [Thread -> SUBSET Node]
      /\ \A k \in Node : k \notin todo[k]
  BY DEF IInv, TypeOK, NoSelf
<1>3. /\ pc[Heart(n)] = "expire" /\ m \in todo[n] /\ m # n
      /\ todo' = [todo EXCEPT ![n] = @ \ {m}] /\ peer' = [peer EXCEPT ![Heart(n)] = m]
      /\ Goto(Heart(n), "drop")
      /\ UNCHANGED <<network, phase, link, stale, lock, gone, beats, late, shakes, crossed, calls>>
  BY <1>2 DEF ExpireNext
<1>4. /\ todo' \in [Node -> SUBSET Node] /\ \A k \in Node : k \notin todo'[k]
  BY <1>2, <1>3
<1>5. /\ peer' \in [Thread -> Node] /\ peer'[Heart(n)] = m
      /\ \A u \in Thread \ {Heart(n)} : peer'[u] = peer[u]
  BY <1>1, <1>2, <1>3
<1> QED
  BY <1>1, <1>2, <1>3, <1>4, <1>5, Wanders DEF Mid, Locking, WithPeer, HeartSteps

\* What the receipt of a beat may do to the receiver's table.
LEMMA ReceiveEffect ==
    ASSUME IInv, NEW b \in [of : Node, to : Node, ttl : Nat], NEW others,
           others \subseteq [of : Node, to : Node, ttl : Nat], Receive(b, others)
    PROVE  /\ beats' \subseteq [of : Node, to : Node, ttl : Nat]
           /\ stale' \in [Node -> SUBSET Node] /\ late' \in [Node -> SUBSET Node]
           /\ \A k \in Node : k \notin stale'[k] /\ k \notin late'[k]
<1>1. /\ stale \in [Node -> SUBSET Node] /\ late \in [Node -> SUBSET Node]
      /\ \A k \in Node : k \notin stale[k] /\ k \notin late[k]
  BY DEF IInv, TypeOK, NoSelf
<1>2. b.of \in Node /\ b.to \in Node /\ b.ttl \in Nat
  OBVIOUS
<1>3. PassedOn(b) \subseteq [of : Node, to : Node, ttl : Nat]
  <2>1. CASE b.ttl > 0
    <3>1. b.ttl - 1 \in Nat
      BY <1>2, <2>1
    <3> QED
      BY <1>2, <2>1, <3>1, DirectPeers DEF PassedOn, Beat
  <2>2. CASE ~(b.ttl > 0)
    BY <2>2 DEF PassedOn
  <2> QED
    BY <2>1, <2>2
<1>4. beats' \subseteq [of : Node, to : Node, ttl : Nat]
  BY <1>3 DEF Receive
<1>5. \/ UNCHANGED <<stale, late>>
      \/ stale' = [stale EXCEPT ![b.to] = @ \ {b.of}] /\ UNCHANGED late
      \/ late' = [late EXCEPT ![b.to] = @ \cup {b.of}] /\ b.of # b.to /\ UNCHANGED stale
  BY DEF Receive
<1> QED
  BY <1>1, <1>2, <1>4, <1>5

LEMMA ArrivesStep ==
    ASSUME IInv, NEW b \in beats, ReceiveBeat(b)
    PROVE  IInv'
<1>1. beats \subseteq [of : Node, to : Node, ttl : Nat]
  BY DEF IInv, TypeOK
<1>2. UNCHANGED <<network, phase, link, lock, pc, peer, todo, gone, shakes, crossed, calls>>
  BY DEF ReceiveBeat
<1>3. /\ beats' \subseteq [of : Node, to : Node, ttl : Nat]
      /\ stale' \in [Node -> SUBSET Node] /\ late' \in [Node -> SUBSET Node]
      /\ \A k \in Node : k \notin stale'[k] /\ k \notin late'[k]
  <2>1. b \in [of : Node, to : Node, ttl : Nat]
        /\ beats \ {b} \subseteq [of : Node, to : Node, ttl : Nat]
    BY <1>1
  <2>2. Receive(b, beats \ {b})
    BY DEF ReceiveBeat
  <2> QED
    BY <2>1, <2>2, ReceiveEffect
<1>4. TypeOK'
  BY <1>2, <1>3 DEF IInv, TypeOK
<1>5. NoSelf'
  BY <1>2, <1>3 DEF IInv, NoSelf
<1>6. SameDirect /\ SameNetwork
  BY <1>2, SameTables DEF SameNetwork
<1> QED
  BY <1>2, <1>4, <1>5, <1>6, RestFrame

LEMMA SendBeatStep ==
    ASSUME IInv, NEW n \in Node, NEW m \in Node, SendBeat(n, m)
    PROVE  IInv'
<1>1. /\ Heart(n) \in Thread /\ Heart(n)[1] = n /\ Heart(n)[2] = "heart"
      /\ \A k \in Node : Main(k) # Heart(n) /\ Main(k) \in Thread
  BY Threads
<1>2. /\ phase \in [Node -> {"up", "stopping", "down", "broken"}] /\ peer \in [Thread -> Node]
      /\ todo \in [Node -> SUBSET Node] /\ gone \in [Thread -> SUBSET Node]
      /\ beats \subseteq [of : Node, to : Node, ttl : Nat]
      /\ \A k \in Node : k \notin todo[k]
  BY DEF IInv, TypeOK, NoSelf
<1>3. pc[Heart(n)] = "beat" /\ UNCHANGED <<network, phase, link, lock, peer, shakes, crossed, calls>>
  BY DEF SendBeat
<1>4. CASE m \in gone[Heart(n)]
  <2>1. /\ Goto(Heart(n), "dead") /\ todo' = [todo EXCEPT ![n] = {}]
        /\ gone' = [gone EXCEPT ![Heart(n)] = {}] /\ UNCHANGED <<stale, beats, late>>
    BY <1>4 DEF SendBeat
  <2>2. todo' \in [Node -> SUBSET Node] /\ \A k \in Node : k \notin todo'[k]
    BY <1>2, <2>1
  <2>3. gone' \in [Thread -> SUBSET Node] /\ \A k \in Node : gone'[Main(k)] = gone[Main(k)]
    BY <1>1, <1>2, <2>1
  <2> QED
    BY <1>1, <1>2, <1>3, <2>1, <2>2, <2>3, Wanders DEF Mid, Locking, WithPeer, HeartSteps
<1>5. CASE m \notin gone[Heart(n)]
  <2>1. /\ Receive(Beat(n, m, network.hops), beats) /\ todo' = [todo EXCEPT ![n] = @ \ {m}]
        /\ UNCHANGED <<pc, gone>>
    BY <1>5 DEF SendBeat
  <2>2. network.hops \in Nat
    BY NeighborhoodAssumption DEF IInv, TypeOK, Network
  <2>3. Beat(n, m, network.hops) \in [of : Node, to : Node, ttl : Nat]
    BY <2>2 DEF Beat
  <2>4. /\ beats' \subseteq [of : Node, to : Node, ttl : Nat]
        /\ stale' \in [Node -> SUBSET Node] /\ late' \in [Node -> SUBSET Node]
        /\ \A k \in Node : k \notin stale'[k] /\ k \notin late'[k]
    BY <1>2, <2>1, <2>3, ReceiveEffect
  <2>5. todo' \in [Node -> SUBSET Node] /\ \A k \in Node : k \notin todo'[k]
    BY <1>2, <2>1
  <2>6. TypeOK'
    BY <1>3, <2>1, <2>4, <2>5 DEF IInv, TypeOK
  <2>7. NoSelf'
    BY <1>3, <2>1, <2>4, <2>5 DEF IInv, NoSelf
  <2>8. SameDirect /\ SameNetwork
    BY <1>3, SameTables DEF SameNetwork
  <2> QED
    BY <1>3, <2>1, <2>6, <2>7, <2>8, RestFrame
<1> QED
  BY <1>4, <1>5

LEMMA AgeingStep ==
    ASSUME IInv, NEW n \in Node, NEW m \in Node, Ageing(n, m)
    PROVE  IInv'
<1>1. /\ stale' = [stale EXCEPT ![n] = @ \cup {m}] /\ m # n
      /\ UNCHANGED <<network, phase, link, lock, pc, peer, todo, gone, beats, late, shakes, crossed, calls>>
  BY DEF Ageing, Entries, IInv, NoSelf
<1>2. stale' \in [Node -> SUBSET Node] /\ \A k \in Node : k \notin stale'[k]
  BY <1>1 DEF IInv, TypeOK, NoSelf
<1>3. TypeOK'
  BY <1>1, <1>2 DEF IInv, TypeOK
<1>4. NoSelf'
  BY <1>1, <1>2 DEF IInv, NoSelf
<1>5. SameDirect /\ SameNetwork
  BY <1>1, SameTables DEF SameNetwork
<1> QED
  BY <1>1, <1>3, <1>4, <1>5, RestFrame

LEMMA AddLateStep ==
    ASSUME IInv, NEW m \in Node, NEW n \in Node, AddLate(m, n)
    PROVE  IInv'
<1>1. /\ n \in late[m] /\ n # m /\ late' = [late EXCEPT ![m] = @ \ {n}]
      /\ UNCHANGED <<network, phase, lock, pc, peer, todo, gone, beats, shakes, crossed, calls>>
      /\ UNCHANGED <<link, stale>> \/ (n \notin Direct(m) /\ Put(m, n, "known"))
  BY DEF AddLate, Kept, IInv, NoSelf
<1>2. /\ link \in [Node -> [Node -> {"none", "known", "direct"}]] /\ stale \in [Node -> SUBSET Node]
      /\ late \in [Node -> SUBSET Node]
  BY DEF IInv, TypeOK
<1>3. /\ link' \in [Node -> [Node -> {"none", "known", "direct"}]] /\ stale' \in [Node -> SUBSET Node]
      /\ \A x, y \in Node : x # m \/ y # n => link'[x][y] = link[x][y]
      /\ link'[m][n] = link[m][n] \/ (n \notin Direct(m) /\ link'[m][n] = "known")
      /\ \A x \in Node : stale'[x] \subseteq stale[x]
  <2>1. CASE UNCHANGED <<link, stale>>
    BY <1>2, <2>1
  <2>2. CASE n \notin Direct(m) /\ Put(m, n, "known")
    BY <2>2, PutEffect DEF IInv
  <2> QED
    BY <1>1, <2>1, <2>2
<1>4. late' \in [Node -> SUBSET Node] /\ \A x \in Node : late'[x] \subseteq late[x]
  BY <1>1, <1>2
<1>5. TypeOK'
  BY <1>1, <1>3, <1>4 DEF IInv, TypeOK
<1>6. NoSelf'
  <2>1. \A t \in Thread : pc'[t] \in WithPeer => peer'[t] # t[1]
    BY <1>1 DEF IInv, NoSelf
  <2> QED
    BY <1>1, <1>3, <1>4, <2>1, StillNoSelf
<1>7. SameDirect
  <2>1. ASSUME NEW x \in Node, NEW y \in Node PROVE (link'[x][y] = "direct") <=> (link[x][y] = "direct")
    BY <1>3 DEF Direct
  <2> QED
    BY <2>1 DEF SameDirect, Direct
<1> QED
  BY <1>1, <1>5, <1>6, <1>7, RestFrame DEF SameNetwork

-----------------------------------------------------------------------------
\* Steps of a thread that makes or ends a direct connection.

Apart(x, y, n, m) == ~(x = n /\ y = m) /\ ~(x = m /\ y = n)

\* A thread of n deals with m: other pairs of tables stay as they are.
LEMMA LinkFrame ==
    ASSUME IInv, NEW t \in Thread, NEW n \in Node, NEW m \in Node, n = t[1], m = peer[t],
           TypeOK', NoSelf', HasClient', UNCHANGED <<network, peer, shakes>>, crossed => crossed',
           \A u \in Thread \ {t} : pc'[u] = pc[u],
           pc'[t] \in Locking <=> lock'[n] = t[2],
           \A u \in Thread \ {t} : lock'[u[1]] = u[2] <=> lock[u[1]] = u[2],
           \A x, y \in Node : Apart(x, y, n, m) => link'[x][y] = link[x][y],
           \A x, y \in Node : Main(x) # t /\ Apart(x, y, n, m) =>
               (y \in gone'[Main(x)] <=> y \in gone[Main(x)]),
           network.transport = "memory" /\ ~crossed' => Agree(n, m)' /\ Agree(m, n)'
    PROVE  IInv'
<1>1. Locked'
  <2>1. \A u \in Thread : pc[u] \in Locking <=> lock[u[1]] = u[2]
    BY DEF IInv, Locked
  <2> QED
    BY <2>1 DEF Locked
<1>2. InMemory'
  BY DEF IInv, InMemory
<1>3. ASSUME network.transport = "memory", ~crossed', NEW x \in Node, NEW y \in Node,
             Apart(x, y, n, m)
      PROVE  Agree(x, y)'
  <2>1. Agree(x, y)
    BY <1>3 DEF IInv, Ends
  <2>2. link'[x][y] = link[x][y] /\ link'[y][x] = link[y][x]
    BY <1>3 DEF Apart
  <2>3. Joining(y, x)' <=> Joining(y, x)
    <3>1. Main(y) = t => y = n
      BY Threads
    <3> QED
      BY <1>3, <3>1, Threads DEF Joining, Apart
  <2>4. Parting(x, y)' <=> Parting(x, y)
    <3>1. ASSUME NEW r \in Role
          PROVE  <<x, r>> \in Thread /\ (<<x, r>> = t => x = n)
      BY Threads DEF Thread
    <3>2. ASSUME NEW r \in Role
          PROVE  (pc'[<<x, r>>] = "parted" /\ peer'[<<x, r>>] = y) <=>
                 (pc[<<x, r>>] = "parted" /\ peer[<<x, r>>] = y)
      <4>1. CASE <<x, r>> = t
        BY <1>3, <3>1, <4>1 DEF Apart
      <4>2. CASE <<x, r>> # t
        BY <3>1, <4>2
      <4> QED
        BY <4>1, <4>2
    <3> QED
      BY <3>2 DEF Parting
  <2>5. Faulting(x, y)' <=> Faulting(x, y)
    <3>1. CASE Main(x) = t
      BY <1>3, <3>1, Threads DEF Faulting, Apart
    <3>2. CASE Main(x) # t
      BY <1>3, <3>2, Threads DEF Faulting
    <3> QED
      BY <3>1, <3>2
  <2> QED
    BY <2>1, <2>2, <2>3, <2>4, <2>5 DEF Agree, Direct
<1>4. Ends'
  <2>1. ASSUME network.transport = "memory", ~crossed', NEW x \in Node, NEW y \in Node
        PROVE  Agree(x, y)'
    BY <1>3, <2>1 DEF Apart
  <2> QED
    BY <2>1 DEF Ends
<1> QED
  BY <1>1, <1>2, <1>4 DEF IInv

\* One thread of a node at most holds the lock of its table.
LEMMA Alone ==
    ASSUME IInv, NEW t \in Thread, NEW u \in Thread, t # u, t[1] = u[1], pc[t] \in Locking
    PROVE  pc[u] \notin Locking
<1>1. (pc[t] \in Locking <=> lock[t[1]] = t[2]) /\ (pc[u] \in Locking <=> lock[u[1]] = u[2])
  BY DEF IInv, Locked
<1>2. t[2] # u[2]
  BY Threads
<1> QED
  BY <1>1, <1>2

LEMMA NobodyHolds ==
    ASSUME IInv, NEW n \in Node, Free(n), NEW t \in Thread, t[1] = n
    PROVE  pc[t] \notin Locking
  BY Threads DEF IInv, Locked, Free, Role

\* With its table free, a node is making or ending no connection but by a message
\* that failed.
LEMMA FreePair ==
    ASSUME IInv, NEW n \in Node, NEW m \in Node, Free(m)
    PROVE  ~Joining(m, n) /\ ~Parting(m, n)
<1>1. pc[Main(m)] # "joined"
  BY NobodyHolds, Threads DEF Locking
<1>2. ASSUME NEW r \in Role PROVE pc[<<m, r>>] # "parted"
  <2>1. <<m, r>> \in Thread /\ <<m, r>>[1] = m
    BY DEF Thread
  <2> QED
    BY <2>1, NobodyHolds DEF Locking
<1> QED
  BY <1>1, <1>2 DEF Joining, Parting

\* The thread that holds the lock is the only one of its node that makes or ends a
\* connection.
LEMMA OwnPair ==
    ASSUME IInv, NEW t \in Thread, NEW n \in Node, n = t[1], NEW m \in Node, pc[t] \in Locking
    PROVE  /\ t # Main(n) => pc[Main(n)] # "joined"
           /\ \A r \in Role : <<n, r>> # t => pc[<<n, r>>] # "parted"
<1>1. t # Main(n) => pc[Main(n)] # "joined"
  BY Threads, Alone DEF Locking
<1>2. ASSUME NEW r \in Role, <<n, r>> # t PROVE pc[<<n, r>>] # "parted"
  <2>1. <<n, r>> \in Thread /\ <<n, r>>[1] = n
    BY DEF Thread
  <2> QED
    BY <1>2, <2>1, Alone DEF Locking
<1> QED
  BY <1>1, <1>2

\* The lock of a thread that enters or leaves the steps under it.
LEMMA OthersLocks ==
    ASSUME IInv, NEW t \in Thread, pc[t] \in Locking, Release(t)
    PROVE  /\ lock' \in [Node -> {"free"} \cup Role] /\ lock'[t[1]] # t[2]
           /\ \A u \in Thread \ {t} : lock'[u[1]] = u[2] <=> lock[u[1]] = u[2]
<1>1. /\ lock \in [Node -> {"free"} \cup Role] /\ lock' = [lock EXCEPT ![t[1]] = "free"]
      /\ t[1] \in Node /\ t[2] \in Role /\ lock[t[1]] = t[2]
  BY Threads DEF IInv, TypeOK, Release, Locked
<1>2. ASSUME NEW u \in Thread \ {t} PROVE lock'[u[1]] = u[2] <=> lock[u[1]] = u[2]
  <2>1. u[1] \in Node /\ u[2] \in Role /\ (u[1] = t[1] => u[2] # t[2])
    BY Threads
  <2> QED
    BY <1>1, <2>1 DEF Role
<1> QED
  BY <1>1, <1>2 DEF Role

LEMMA AcceptedStep ==
    ASSUME IInv, NEW n \in Node, NEW m \in Node, m = peer[Main(n)], pc[Main(n)] = "handshake",
           Free(m), n \notin Direct(m), Put(m, n, "direct"), Goto(Main(n), "joined"),
           UNCHANGED <<lock, network, phase, peer, todo, gone, beats, late, shakes, crossed, calls>>
    PROVE  IInv'
<1>1. /\ Main(n) \in Thread /\ Main(n)[1] = n /\ Main(n)[2] = "main" /\ n # m
  BY Threads DEF IInv, NoSelf, WithPeer, Locking
<1>2. /\ pc' \in [Thread -> MainSteps \cup HeartSteps]
      /\ \A k \in Node : pc'[Main(k)] \in MainSteps /\ pc'[Heart(k)] \in HeartSteps
      /\ pc'[Main(n)] = "joined" /\ \A u \in Thread \ {Main(n)} : pc'[u] = pc[u]
  BY <1>1, GotoType DEF IInv, MainSteps
<1>3. /\ link' \in [Node -> [Node -> {"none", "known", "direct"}]]
      /\ stale' \in [Node -> SUBSET Node] /\ link'[m][n] = "direct"
      /\ \A x, y \in Node : x # m \/ y # n => link'[x][y] = link[x][y]
      /\ \A x \in Node : stale'[x] \subseteq stale[x]
  BY PutEffect DEF IInv
<1>4. TypeOK'
  BY <1>2, <1>3 DEF IInv, TypeOK
<1>5. NoSelf'
  <2>1. pc'[Main(n)] \in WithPeer => peer'[Main(n)] # Main(n)[1]
    BY <1>1
  <2>2. \A u \in Thread : pc'[u] \in WithPeer => peer'[u] # u[1]
    BY <1>1, <1>2, <2>1, StillWithOthers
  <2> QED
    BY <1>1, <1>3, <2>2, StillNoSelf
<1>6. HasClient'
  <2>1. \A x \in Node : Direct(x) \subseteq Direct(x)'
    BY <1>3 DEF Direct
  <2>2. \A x \in Node : pc'[Main(x)] \in {"fault", "faulted"} => pc[Main(x)] = pc'[Main(x)]
    BY <1>1, <1>2, Threads
  <2> QED
    BY <2>1, <2>2 DEF IInv, HasClient
<1>7. n \in Direct(m)' /\ (m \in Direct(n)' <=> m \in Direct(n))
  BY <1>1, <1>3 DEF Direct
<1>8. Joining(n, m)' /\ pc'[Main(n)] # "faulted"
  BY <1>2 DEF Joining
<1>9. ~Parting(n, m)'
  <2>1. ASSUME NEW r \in Role PROVE pc'[<<n, r>>] # "parted"
    <3>1. <<n, r>> \in Thread
      BY DEF Thread
    <3> QED
      BY <1>1, <1>2, <3>1, OwnPair DEF Locking
  <2> QED
    BY <2>1 DEF Parting
<1>10. ~Joining(m, n)' /\ ~Parting(m, n)' /\ ~Faulting(m, n)'
  <2>1. \A t \in Thread : t[1] = m => pc'[t] = pc[t]
    BY <1>1, <1>2
  <2>2. \A r \in Role : <<m, r>> \in Thread /\ <<m, r>>[1] = m
    BY DEF Thread
  <2>3. ~Joining(m, n) /\ ~Parting(m, n)
    BY FreePair
  <2>4. ~Faulting(m, n)
    BY DEF IInv, HasClient, Faulting
  <2> QED
    BY <2>1, <2>2, <2>3, <2>4, Threads DEF Joining, Parting, Faulting
<1>11. Agree(n, m)' /\ Agree(m, n)'
  BY <1>7, <1>8, <1>9, <1>10 DEF Agree, Faulting
<1>12. pc'[Main(n)] \in Locking <=> lock'[n] = "main"
  BY <1>1, <1>2 DEF IInv, Locked, Locking
<1> QED
  BY <1>1, <1>2, <1>3, <1>4, <1>5, <1>6, <1>11, <1>12, LinkFrame DEF Apart

LEMMA ShakeHandsStep ==
    ASSUME IInv, NEW n \in Node, ShakeHands(n)
    PROVE  IInv'
<1> DEFINE m == peer[Main(n)]
<1>1. /\ pc[Main(n)] = "handshake" /\ (Reaches(m) => Free(m))
      /\ UNCHANGED <<network, phase, peer, todo, gone, beats, late, shakes, crossed, calls>>
  BY DEF ShakeHands
<1>2. m \in Node
  BY Threads DEF IInv, TypeOK
<1>3. CASE Reaches(m) /\ n \notin Direct(m)
  <2>1. Put(m, n, "direct") /\ Goto(Main(n), "joined") /\ UNCHANGED lock
    BY <1>3 DEF ShakeHands, Handshake
  <2> QED
    BY <1>1, <1>2, <1>3, <2>1, AcceptedStep
<1>4. CASE ~(Reaches(m) /\ n \notin Direct(m))
  <2>1. Goto(Main(n), "idle") /\ Release(Main(n)) /\ UNCHANGED <<link, stale>>
    BY <1>4 DEF ShakeHands
  <2> QED
    BY <1>1, <2>1, RefusedStep
<1> QED
  BY <1>3, <1>4

LEMMA AddDoneStep ==
    ASSUME IInv, NEW n \in Node, NEW m \in Node, m = peer[Main(n)], AddDone(n)
    PROVE  IInv'
<1>1. /\ Main(n) \in Thread /\ Main(n)[1] = n /\ Main(n)[2] = "main" /\ n # m
      /\ pc[Main(n)] = "joined"
  BY Threads DEF IInv, TypeOK, NoSelf, WithPeer, Locking, AddDone
<1>2. /\ Put(n, m, "direct") /\ Goto(Main(n), "idle") /\ Release(Main(n))
      /\ UNCHANGED <<network, phase, peer, todo, gone, beats, late, shakes, crossed, calls>>
  BY DEF AddDone
<1>3. /\ pc' \in [Thread -> MainSteps \cup HeartSteps]
      /\ \A k \in Node : pc'[Main(k)] \in MainSteps /\ pc'[Heart(k)] \in HeartSteps
      /\ pc'[Main(n)] = "idle" /\ \A u \in Thread \ {Main(n)} : pc'[u] = pc[u]
  BY <1>1, <1>2, GotoType DEF IInv, MainSteps
<1>4. /\ link' \in [Node -> [Node -> {"none", "known", "direct"}]]
      /\ stale' \in [Node -> SUBSET Node] /\ link'[n][m] = "direct"
      /\ \A x, y \in Node : x # n \/ y # m => link'[x][y] = link[x][y]
      /\ \A x \in Node : stale'[x] \subseteq stale[x]
  BY <1>1, <1>2, PutEffect DEF IInv
<1>5. /\ lock' \in [Node -> {"free"} \cup Role] /\ lock'[n] # "main"
      /\ \A u \in Thread \ {Main(n)} : lock'[u[1]] = u[2] <=> lock[u[1]] = u[2]
  BY <1>1, <1>2, OthersLocks DEF Locking
<1>6. TypeOK'
  BY <1>2, <1>3, <1>4, <1>5 DEF IInv, TypeOK
<1>7. NoSelf'
  <2>1. pc'[Main(n)] \notin WithPeer
    BY <1>3 DEF WithPeer, Locking
  <2>2. \A u \in Thread : pc'[u] \in WithPeer => peer'[u] # u[1]
    BY <1>1, <1>2, <1>3, <2>1, StillWithOthers
  <2> QED
    BY <1>1, <1>2, <1>4, <2>2, StillNoSelf
<1>8. HasClient'
  <2>1. \A x \in Node : Direct(x) \subseteq Direct(x)'
    BY <1>1, <1>4 DEF Direct
  <2>2. \A x \in Node : pc'[Main(x)] \in {"fault", "faulted"} => pc[Main(x)] = pc'[Main(x)]
    BY <1>1, <1>3, Threads
  <2> QED
    BY <1>2, <2>1, <2>2 DEF IInv, HasClient
<1>9. ASSUME network.transport = "memory", ~crossed' PROVE Agree(n, m)' /\ Agree(m, n)'
  <2>1. Joining(n, m) /\ Agree(m, n) /\ Agree(n, m)
    BY <1>1, <1>2, <1>9 DEF IInv, Ends, Joining
  <2>2. n \in Direct(m) /\ ~Parting(m, n) /\ ~Faulting(m, n)
    BY <2>1 DEF Agree
  <2>3. m \in Direct(n)' /\ n \in Direct(m)'
    BY <1>1, <1>4, <2>2 DEF Direct
  <2>4. ~Joining(n, m)' /\ ~Faulting(n, m)'
    BY <1>3 DEF Joining, Faulting
  <2>5. ~Parting(n, m)'
    <3>1. ASSUME NEW r \in Role PROVE pc'[<<n, r>>] # "parted"
      <4>1. <<n, r>> \in Thread
        BY DEF Thread
      <4> QED
        BY <1>1, <1>3, <4>1, OwnPair DEF Locking
    <3> QED
      BY <3>1 DEF Parting
  <2>6. ~Parting(m, n)' /\ ~Faulting(m, n)'
    <3>1. \A r \in Role : <<m, r>> \in Thread \ {Main(n)} /\ Main(m) \in Thread \ {Main(n)}
      BY <1>1, Threads DEF Thread, Main
    <3>2. /\ \A r \in Role : pc'[<<m, r>>] = pc[<<m, r>>] /\ peer'[<<m, r>>] = peer[<<m, r>>]
          /\ pc'[Main(m)] = pc[Main(m)] /\ peer'[Main(m)] = peer[Main(m)]
          /\ gone'[Main(m)] = gone[Main(m)]
      BY <1>2, <1>3, <3>1, Threads
    <3>3. ~Parting(m, n)'
      BY <2>2, <3>2 DEF Parting
    <3>4. ~Faulting(m, n)'
      BY <2>2, <3>2 DEF Faulting
    <3> QED
      BY <3>3, <3>4
  <2> QED
    BY <2>3, <2>4, <2>5, <2>6 DEF Agree
<1>10. pc'[Main(n)] \in Locking <=> lock'[n] = "main"
  BY <1>3, <1>5 DEF Locking
<1> QED
  BY <1>1, <1>2, <1>3, <1>4, <1>5, <1>6, <1>7, <1>8, <1>9, <1>10, LinkFrame DEF Apart

LEMMA LateStep ==
    ASSUME IInv, NEW n \in Node, NEW m \in Node, LateHandshake(n, m)
    PROVE  IInv'
<1>1. /\ <<n, m>> \in shakes /\ shakes' = shakes \ {<<n, m>>}
      /\ UNCHANGED <<network, phase, lock, pc, peer, todo, gone, beats, late, crossed, calls>>
      /\ (Put(m, n, "direct") \/ UNCHANGED <<link, stale>>)
  BY DEF LateHandshake, Handshake
<1>2. network.transport # "memory" /\ n # m
  BY <1>1 DEF IInv, InMemory, NoSelf
<1>3. /\ link' \in [Node -> [Node -> {"none", "known", "direct"}]]
      /\ stale' \in [Node -> SUBSET Node]
      /\ \A x, y \in Node : x # m \/ y # n => link'[x][y] = link[x][y]
      /\ \A x \in Node : stale'[x] \subseteq stale[x]
      /\ link'[m][n] = "direct" \/ link' = link
  <2>1. CASE Put(m, n, "direct")
    BY <2>1, PutEffect DEF IInv
  <2>2. CASE UNCHANGED <<link, stale>>
    BY <2>2 DEF IInv, TypeOK
  <2> QED
    BY <1>1, <2>1, <2>2
<1>4. TypeOK'
  BY <1>1, <1>3 DEF IInv, TypeOK
<1>5. NoSelf'
  <2>1. \A u \in Thread : pc'[u] \in WithPeer => peer'[u] # u[1]
    BY <1>1 DEF IInv, NoSelf
  <2> QED
    BY <1>1, <1>2, <1>3, <2>1, StillNoSelf
<1>6. HasClient'
  <2>1. \A x \in Node : Direct(x) \subseteq Direct(x)'
    BY <1>3 DEF Direct
  <2> QED
    BY <1>1, <2>1 DEF IInv, HasClient
<1> QED
  BY <1>1, <1>2, <1>4, <1>5, <1>6 DEF IInv, Locked, InMemory, Ends

-----------------------------------------------------------------------------
\* Steps that remove a connection.

LEMMA AfterStep ==
    \A t \in Thread : /\ t[2] = "main" => After(t) \in {"clear", "idle"}
                      /\ t[2] = "heart" => After(t) = "expire"
  BY DEF After

LEMMA DropAbsentStep ==
    ASSUME IInv, NEW t \in Thread, DropLocked(t), peer[t] \notin Direct(t[1])
    PROVE  IInv'
<1> DEFINE n == t[1]
<1> DEFINE m == peer[t]
<1>1. /\ pc[t] = "drop" /\ Goto(t, After(t)) /\ Delete(n, m) /\ UNCHANGED lock
      /\ UNCHANGED <<network, phase, peer, todo, beats, late, shakes, crossed, calls>>
  BY DEF DropLocked
<1>2. n \in Node /\ m \in Node /\ n # m /\ t[2] \in {"main", "heart"} /\ m \notin Direct(n)
  BY <1>1, Threads DEF IInv, TypeOK, NoSelf, WithPeer, Role
<1>3. /\ pc' \in [Thread -> MainSteps \cup HeartSteps]
      /\ \A k \in Node : pc'[Main(k)] \in MainSteps /\ pc'[Heart(k)] \in HeartSteps
      /\ pc'[t] = After(t) /\ \A u \in Thread \ {t} : pc'[u] = pc[u]
  BY <1>1, GotoType, AfterStep DEF IInv, MainSteps, HeartSteps
<1>4. pc'[t] \in {"clear", "idle", "expire"}
  BY <1>2, <1>3, AfterStep
<1>5. /\ link' \in [Node -> [Node -> {"none", "known", "direct"}]]
      /\ stale' \in [Node -> SUBSET Node] /\ gone' \in [Thread -> SUBSET Node]
      /\ link'[n][m] = "none"
      /\ \A x, y \in Node : x # n \/ y # m => link'[x][y] = link[x][y]
      /\ \A x \in Node : stale'[x] \subseteq stale[x]
      /\ \A u \in Thread : /\ gone'[u] = gone[u] \/ gone'[u] = gone[u] \cup {m}
                           /\ u[1] # n => gone'[u] = gone[u]
  BY <1>1, <1>2, DeleteEffect DEF IInv
<1> HIDE DEF n, m
<1>6. TypeOK'
  BY <1>1, <1>3, <1>5 DEF IInv, TypeOK
<1>7. NoSelf'
  <2>1. \A u \in Thread : pc'[u] \in WithPeer => peer'[u] # u[1]
    BY <1>1, <1>3, <1>4, StillWithOthers DEF WithPeer, Locking
  <2> QED
    BY <1>1, <1>2, <1>5, <2>1, StillNoSelf
<1>8. SameDirect
  BY <1>2, <1>5 DEF SameDirect, Direct
<1>9. SameFaults
  <2> SUFFICES ASSUME NEW k \in Node, pc[Main(k)] \in {"fault", "faulted"},
                      peer[Main(k)] \in gone'[Main(k)]
               PROVE  peer[Main(k)] \in gone[Main(k)]
    <3>1. \A k \in Node : gone[Main(k)] \subseteq gone'[Main(k)]
      <4> SUFFICES ASSUME NEW k \in Node PROVE gone[Main(k)] \subseteq gone'[Main(k)]
        OBVIOUS
      <4>1. Main(k) \in Thread
        BY Threads
      <4> QED
        BY <1>5, <4>1
    <3> QED
      BY <3>1 DEF SameFaults
  <2>1. peer[Main(k)] \in Direct(k) \cup gone[Main(k)]
    BY DEF IInv, HasClient
  <2>2. Main(k) \in Thread /\ Main(k)[1] = k
    BY Threads
  <2>3. CASE k = n /\ peer[Main(k)] = m
    BY <1>2, <2>1, <2>3
  <2>4. CASE ~(k = n /\ peer[Main(k)] = m)
    BY <1>5, <2>2, <2>4
  <2> QED
    BY <2>3, <2>4
<1>10. pc'[t] \in Locking <=> lock'[t[1]] = t[2]
  BY <1>1, <1>4 DEF IInv, Locked, Locking
<1> QED
  BY <1>1, <1>3, <1>4, <1>6, <1>7, <1>8, <1>9, <1>10, ThreadFrame DEF Mid, SameNetwork

LEMMA SayByeStep ==
    ASSUME IInv, NEW t \in Thread, NEW n \in Node, n = t[1], NEW m \in Node, m = peer[t],
           SayBye(t)
    PROVE  IInv'
<1> DEFINE step == IF pc[t] = "bye" THEN "parted" ELSE "faulted"
<1>1. /\ pc[t] \in {"bye", "fault"} /\ Goto(t, step)
      /\ crossed' = (crossed \/ (m \in gone[t] /\ n \in Direct(m)))
      /\ UNCHANGED <<network, phase, lock, peer, todo, beats, late, shakes, calls>>
      /\ \/ ~Reaches(m) /\ UNCHANGED <<link, stale, gone>>
         \/ Free(m) /\ Delete(m, n)
  BY DEF SayBye, Disconnected
<1>2. /\ t[2] \in {"main", "heart"} /\ n # m /\ (t = Main(n) \/ t = Heart(n))
      /\ t[2] = "heart" => pc[t] = "bye"
  <2>1. t[2] \in {"main", "heart"} /\ (t = Main(n) \/ t = Heart(n)) /\ Main(n)[2] = "main"
    BY Threads DEF Role
  <2>2. n # m
    BY <1>1 DEF IInv, NoSelf, WithPeer, Locking
  <2>3. pc[Heart(n)] \in HeartSteps
    BY DEF IInv, TypeOK
  <2>4. pc[Heart(n)] # "fault"
    BY <2>3 DEF HeartSteps
  <2> QED
    BY <1>1, <2>1, <2>2, <2>4
<1>3. /\ pc' \in [Thread -> MainSteps \cup HeartSteps]
      /\ \A k \in Node : pc'[Main(k)] \in MainSteps /\ pc'[Heart(k)] \in HeartSteps
      /\ pc'[t] = step /\ \A u \in Thread \ {t} : pc'[u] = pc[u]
  <2>1. (t[2] = "main" => step \in MainSteps) /\ (t[2] = "heart" => step \in HeartSteps)
    BY <1>2 DEF MainSteps, HeartSteps
  <2> QED
    BY <1>1, <2>1, GotoType DEF IInv
<1>4. /\ link' \in [Node -> [Node -> {"none", "known", "direct"}]]
      /\ stale' \in [Node -> SUBSET Node] /\ gone' \in [Thread -> SUBSET Node]
      /\ \A x, y \in Node : x # m \/ y # n => link'[x][y] = link[x][y]
      /\ \A x \in Node : stale'[x] \subseteq stale[x]
      /\ \A u \in Thread : /\ gone'[u] = gone[u] \/ gone'[u] = gone[u] \cup {n}
                           /\ u[1] # m => gone'[u] = gone[u]
      /\ link'[m][n] = link[m][n] \/ link'[m][n] = "none"
  <2>1. CASE UNCHANGED <<link, stale, gone>>
    BY <2>1 DEF IInv, TypeOK
  <2>2. CASE Delete(m, n)
    BY <2>2, DeleteEffect DEF IInv
  <2> QED
    BY <1>1, <2>1, <2>2
<1>5. TypeOK'
  <2>1. crossed' \in BOOLEAN
    BY <1>1 DEF IInv, TypeOK
  <2> QED
    BY <1>1, <1>3, <1>4, <2>1 DEF IInv, TypeOK
<1>6. NoSelf'
  <2>1. \A u \in Thread : pc'[u] \in WithPeer => peer'[u] # u[1]
    BY <1>1, <1>2, <1>3, StillWithOthers
  <2> QED
    BY <1>1, <1>2, <1>4, <2>1, StillNoSelf
<1>7. HasClient'
  <2> SUFFICES ASSUME NEW x \in Node, pc'[Main(x)] \in {"fault", "faulted"}
               PROVE  peer[Main(x)] \in Direct(x)' \cup gone'[Main(x)]
    BY <1>1 DEF HasClient
  <2>1. Main(x) \in Thread /\ Main(x)[1] = x /\ gone[Main(x)] \subseteq gone'[Main(x)]
    BY <1>4, Threads
  <2>2. pc[Main(x)] \in {"fault", "faulted"}
    BY <1>1, <1>3, <2>1
  <2>3. peer[Main(x)] \in Direct(x) \cup gone[Main(x)]
    BY <2>2 DEF IInv, HasClient
  <2>4. CASE x = m /\ peer[Main(x)] = n
    <3>1. CASE UNCHANGED <<link, stale, gone>>
      BY <2>3, <3>1 DEF Direct
    <3>2. CASE Delete(m, n)
      BY <2>1, <2>2, <2>4, <3>2, DeleteEffect DEF IInv, Holding
    <3> QED
      BY <1>1, <3>1, <3>2
  <2>5. CASE ~(x = m /\ peer[Main(x)] = n)
    BY <1>4, <2>1, <2>3, <2>5 DEF Direct
  <2> QED
    BY <2>4, <2>5
<1>8. ASSUME network.transport = "memory", ~crossed' PROVE Agree(n, m)' /\ Agree(m, n)'
  <2>1. Free(m) /\ Delete(m, n)
    BY <1>1, <1>8 DEF Reaches
  <2>2. Agree(n, m) /\ ~crossed /\ (m \notin gone[t] \/ n \notin Direct(m))
    BY <1>1, <1>8 DEF IInv, Ends
  <2>3. link'[m][n] = "none" /\ \A u \in Thread : u[1] = m /\ pc[u] \in Holding => n \in gone'[u]
    BY <2>1, DeleteEffect DEF IInv
  <2>4. n \notin Direct(m)' /\ (m \in Direct(n)' <=> m \in Direct(n))
    BY <1>2, <1>4, <2>3 DEF Direct
  <2>5. /\ \A r \in Role : /\ <<m, r>> \in Thread /\ pc'[<<m, r>>] = pc[<<m, r>>]
                           /\ peer'[<<m, r>>] = peer[<<m, r>>]
        /\ Main(m) \in Thread /\ Main(m)[1] = m /\ pc'[Main(m)] = pc[Main(m)]
        /\ peer'[Main(m)] = peer[Main(m)]
    <3>1. ASSUME NEW r \in Role PROVE <<m, r>> \in Thread /\ <<m, r>> # t
      BY <1>2 DEF Thread
    <3> QED
      BY <1>1, <1>2, <1>3, <3>1, Threads
  <2>6. ~Joining(m, n)' /\ ~Parting(m, n)' /\ ~Joining(m, n)
    <3>1. ~Joining(m, n) /\ ~Parting(m, n)
      BY <2>1, FreePair
    <3> QED
      BY <2>5, <3>1 DEF Joining, Parting
  <2>7. ~Faulting(m, n)'
    BY <2>3, <2>5 DEF Faulting, Holding
  <2>8. ~Joining(n, m)'
    <3>1. pc'[Main(n)] # "joined"
      <4>1. CASE t = Main(n)
        BY <1>3, <4>1
      <4>2. CASE t # Main(n)
        <5>1. pc[t] = "bye"
          BY <1>1, <1>2, <4>2, Threads
        <5> QED
          BY <1>3, <4>2, <5>1, OwnPair, Threads DEF Locking
      <4> QED
        BY <4>1, <4>2
    <3> QED
      BY <3>1 DEF Joining
  <2>9. Agree(m, n)'
    BY <2>4, <2>6, <2>7, <2>8 DEF Agree
  <2>10. CASE pc[t] = "bye"
    <3>1. Parting(n, m)'
      BY <1>1, <1>2, <1>3, <2>10 DEF Parting, Role, Main, Heart
    <3> QED
      BY <2>4, <2>6, <2>9, <3>1 DEF Agree
  <2>11. CASE pc[t] = "fault" /\ m \notin gone[t]
    <3>1. t = Main(n) /\ gone'[t] = gone[t]
      BY <1>2, <1>4, <2>11, Threads
    <3>2. Faulting(n, m)'
      BY <1>1, <1>3, <2>11, <3>1 DEF Faulting
    <3> QED
      BY <2>4, <2>6, <2>9, <3>2 DEF Agree
  <2>12. CASE pc[t] = "fault" /\ m \in gone[t]
    <3>1. t = Main(n)
      BY <1>2, <2>12, Threads
    <3>2. ~Faulting(n, m) /\ (m \in Direct(n) => Parting(n, m))
      BY <2>2, <2>6, <2>12, <3>1 DEF Faulting, Agree
    <3>3. Parting(n, m) => Parting(n, m)'
      <4>1. ASSUME NEW r \in Role, pc[<<n, r>>] = "parted"
            PROVE  pc'[<<n, r>>] = "parted" /\ peer'[<<n, r>>] = peer[<<n, r>>]
        <5>1. <<n, r>> \in Thread /\ <<n, r>> # t
          BY <2>12, <4>1 DEF Thread
        <5> QED
          BY <1>1, <1>3, <4>1, <5>1
      <4> QED
        BY <4>1 DEF Parting
    <3> QED
      BY <2>4, <2>6, <2>9, <3>2, <3>3 DEF Agree
  <2> QED
    BY <1>1, <2>9, <2>10, <2>11, <2>12
<1>9. pc'[t] \in Locking <=> lock'[n] = t[2]
  BY <1>1, <1>3 DEF IInv, Locked, Locking
<1>10. ASSUME NEW x \in Node, NEW y \in Node, Main(x) # t, Apart(x, y, n, m)
      PROVE  y \in gone'[Main(x)] <=> y \in gone[Main(x)]
  <2>1. Main(x) \in Thread /\ Main(x)[1] = x
    BY Threads
  <2> QED
    BY <1>4, <1>10, <2>1 DEF Apart
<1>11. \A x, y \in Node : Apart(x, y, n, m) => link'[x][y] = link[x][y]
  BY <1>4 DEF Apart
<1>12. /\ crossed => crossed'
       /\ \A u \in Thread \ {t} : pc'[u] = pc[u] /\ (lock'[u[1]] = u[2] <=> lock[u[1]] = u[2])
       /\ UNCHANGED <<network, peer, shakes>>
  BY <1>1, <1>3
<1> QED
  BY <1>5, <1>6, <1>7, <1>8, <1>9, <1>10, <1>11, <1>12, LinkFrame

LEMMA DropDoneStep ==
    ASSUME IInv, NEW t \in Thread, NEW n \in Node, n = t[1], NEW m \in Node, m = peer[t],
           DropDone(t)
    PROVE  IInv'
<1>1. /\ pc[t] = "parted" /\ Delete(n, m) /\ Goto(t, After(t)) /\ Release(t)
      /\ UNCHANGED <<network, phase, peer, todo, beats, late, shakes, crossed, calls>>
  BY DEF DropDone
<1>2. /\ t[2] \in {"main", "heart"} /\ n # m /\ (t = Main(n) \/ t = Heart(n))
  BY <1>1, Threads DEF IInv, NoSelf, WithPeer, Locking, Role
<1>3. /\ pc' \in [Thread -> MainSteps \cup HeartSteps]
      /\ \A k \in Node : pc'[Main(k)] \in MainSteps /\ pc'[Heart(k)] \in HeartSteps
      /\ pc'[t] = After(t) /\ \A u \in Thread \ {t} : pc'[u] = pc[u]
  BY <1>1, GotoType, AfterStep DEF IInv, MainSteps, HeartSteps
<1>4. pc'[t] \in {"clear", "idle", "expire"}
  BY <1>2, <1>3, AfterStep
<1>5. /\ link' \in [Node -> [Node -> {"none", "known", "direct"}]]
      /\ stale' \in [Node -> SUBSET Node] /\ gone' \in [Thread -> SUBSET Node]
      /\ link'[n][m] = "none"
      /\ \A x, y \in Node : x # n \/ y # m => link'[x][y] = link[x][y]
      /\ \A x \in Node : stale'[x] \subseteq stale[x]
      /\ \A u \in Thread : /\ gone'[u] = gone[u] \/ gone'[u] = gone[u] \cup {m}
                           /\ u[1] # n => gone'[u] = gone[u]
                           /\ u[1] = n /\ pc[u] \in Holding => m \in gone'[u]
  BY <1>1, DeleteEffect DEF IInv
<1>6. /\ lock' \in [Node -> {"free"} \cup Role] /\ lock'[n] # t[2]
      /\ \A u \in Thread \ {t} : lock'[u[1]] = u[2] <=> lock[u[1]] = u[2]
  BY <1>1, OthersLocks DEF Locking
<1>7. TypeOK'
  BY <1>1, <1>3, <1>5, <1>6 DEF IInv, TypeOK
<1>8. NoSelf'
  <2>1. \A u \in Thread : pc'[u] \in WithPeer => peer'[u] # u[1]
    BY <1>1, <1>3, <1>4, StillWithOthers DEF WithPeer, Locking
  <2> QED
    BY <1>1, <1>2, <1>5, <2>1, StillNoSelf
<1>9. HasClient'
  <2> SUFFICES ASSUME NEW x \in Node, pc'[Main(x)] \in {"fault", "faulted"}
               PROVE  peer[Main(x)] \in Direct(x)' \cup gone'[Main(x)]
    BY <1>1 DEF HasClient
  <2>1. Main(x) \in Thread /\ Main(x)[1] = x /\ gone[Main(x)] \subseteq gone'[Main(x)]
    BY <1>5, Threads
  <2>2. pc[Main(x)] \in {"fault", "faulted"}
    BY <1>3, <1>4, <2>1
  <2>3. peer[Main(x)] \in Direct(x) \cup gone[Main(x)]
    BY <2>2 DEF IInv, HasClient
  <2>4. CASE x = n /\ peer[Main(x)] = m
    BY <1>5, <2>1, <2>2, <2>4 DEF Holding
  <2>5. CASE ~(x = n /\ peer[Main(x)] = m)
    BY <1>5, <2>1, <2>3, <2>5 DEF Direct
  <2> QED
    BY <2>4, <2>5
<1>10. ASSUME network.transport = "memory", ~crossed' PROVE Agree(n, m)' /\ Agree(m, n)'
  <2>1. Agree(n, m) /\ Agree(m, n) /\ Parting(n, m)
    BY <1>1, <1>2, <1>10 DEF IInv, Ends, Parting, Role, Main, Heart
  <2>2. n \notin Direct(m) /\ ~Joining(m, n) /\ ~Joining(n, m)
    BY <2>1 DEF Agree
  <2>3. m \notin Direct(n)' /\ n \notin Direct(m)'
    BY <1>2, <1>5, <2>2 DEF Direct
  <2>4. ~Joining(m, n)' /\ ~Joining(n, m)'
    <3>1. \A x \in Node : Main(x) \in Thread
      BY Threads
    <3> QED
      BY <1>1, <1>3, <1>4, <2>2, <3>1 DEF Joining
  <2> QED
    BY <2>3, <2>4 DEF Agree
<1>11. pc'[t] \in Locking <=> lock'[n] = t[2]
  BY <1>4, <1>6 DEF Locking
<1>12. ASSUME NEW x \in Node, NEW y \in Node, Main(x) # t, Apart(x, y, n, m)
      PROVE  y \in gone'[Main(x)] <=> y \in gone[Main(x)]
  <2>1. Main(x) \in Thread /\ Main(x)[1] = x
    BY Threads
  <2> QED
    BY <1>5, <1>12, <2>1 DEF Apart
<1> QED
  BY <1>1, <1>3, <1>5, <1>6, <1>7, <1>8, <1>9, <1>10, <1>11, <1>12, LinkFrame DEF Apart

LEMMA FaultDoneStep ==
    ASSUME IInv, NEW n \in Node, NEW m \in Node, m = peer[Main(n)], FaultDone(n)
    PROVE  IInv'
<1>1. /\ pc[Main(n)] = "faulted" /\ Goto(Main(n), "idle")
      /\ UNCHANGED <<network, phase, stale, lock, peer, todo, beats, late, shakes, crossed, calls>>
  BY DEF FaultDone
<1>2. /\ Main(n) \in Thread /\ Heart(n) \in Thread /\ Main(n) # Heart(n)
      /\ Main(n)[1] = n /\ Main(n)[2] = "main" /\ n # m
  BY <1>1, Threads DEF IInv, NoSelf, WithPeer
<1>3. /\ pc' \in [Thread -> MainSteps \cup HeartSteps]
      /\ \A k \in Node : pc'[Main(k)] \in MainSteps /\ pc'[Heart(k)] \in HeartSteps
      /\ pc'[Main(n)] = "idle" /\ \A u \in Thread \ {Main(n)} : pc'[u] = pc[u]
  BY <1>1, <1>2, GotoType DEF IInv, MainSteps
<1>4. /\ link \in [Node -> [Node -> {"none", "known", "direct"}]] /\ gone \in [Thread -> SUBSET Node]
      /\ lock \in [Node -> {"free"} \cup Role]
  BY DEF IInv, TypeOK
<1>5. /\ link' \in [Node -> [Node -> {"none", "known", "direct"}]]
      /\ gone' \in [Thread -> SUBSET Node]
      /\ \A x, y \in Node : x # n \/ y # m => link'[x][y] = link[x][y]
      /\ \A x \in Node : x # n => gone'[Main(x)] = gone[Main(x)]
      /\ m \in gone[Main(n)] => link' = link
      /\ m \notin gone[Main(n)] => link'[n][m] = "known"
  <2>1. \A x \in Node : Main(x) \in Thread /\ Main(x) # Heart(n) /\ (x # n => Main(x) # Main(n))
    BY Threads
  <2>2. CASE m \in gone[Main(n)]
    <3>1. link' = link /\ gone' = [gone EXCEPT ![Main(n)] = {}]
      BY <2>2 DEF FaultDone
    <3> QED
      BY <1>2, <1>4, <2>1, <2>2, <3>1
  <2>3. CASE m \notin gone[Main(n)]
    <3>1. /\ link' = [link EXCEPT ![n][m] = "known"]
          /\ \/ gone' = [gone EXCEPT ![Heart(n)] = gone[Heart(n)] \cup {m}, ![Main(n)] = {}]
             \/ gone' = [gone EXCEPT ![Heart(n)] = gone[Heart(n)], ![Main(n)] = {}]
      BY <1>2, <1>4, <2>3 DEF FaultDone
    <3>2. /\ gone' \in [Thread -> SUBSET Node]
          /\ \A x \in Node : x # n => gone'[Main(x)] = gone[Main(x)]
      BY <1>2, <1>4, <2>1, <3>1
    <3>3. /\ link' \in [Node -> [Node -> {"none", "known", "direct"}]] /\ link'[n][m] = "known"
          /\ \A x, y \in Node : x # n \/ y # m => link'[x][y] = link[x][y]
      BY <1>4, <3>1
    <3> QED
      BY <2>3, <3>2, <3>3
  <2> QED
    BY <2>2, <2>3
<1>6. TypeOK'
  BY <1>1, <1>3, <1>5 DEF IInv, TypeOK
<1>7. NoSelf'
  <2>1. pc'[Main(n)] \notin WithPeer
    BY <1>3 DEF WithPeer, Locking
  <2>2. \A u \in Thread : pc'[u] \in WithPeer => peer'[u] # u[1]
    BY <1>1, <1>2, <1>3, <2>1, StillWithOthers
  <2>3. \A x, y \in Node : x # n \/ y # m => link'[x][y] = link[x][y]
    BY <1>5
  <2>4. /\ \A x \in Node : stale'[x] \subseteq stale[x] /\ late'[x] \subseteq late[x]
                           /\ todo'[x] \subseteq todo[x]
        /\ shakes' \subseteq shakes
    BY <1>1
  <2> QED
    BY <1>2, <2>2, <2>3, <2>4, StillNoSelf
<1>8. HasClient'
  <2> SUFFICES ASSUME NEW x \in Node, pc'[Main(x)] \in {"fault", "faulted"}
               PROVE  peer[Main(x)] \in Direct(x)' \cup gone'[Main(x)]
    BY <1>1 DEF HasClient
  <2>1. x # n /\ pc[Main(x)] \in {"fault", "faulted"}
    BY <1>2, <1>3, Threads
  <2>2. peer[Main(x)] \in Direct(x) \cup gone[Main(x)]
    BY <2>1 DEF IInv, HasClient
  <2> QED
    BY <1>5, <2>1, <2>2 DEF Direct
<1>9. ASSUME network.transport = "memory", ~crossed' PROVE Agree(n, m)' /\ Agree(m, n)'
  <2>1. Agree(n, m) /\ Agree(m, n)
    BY <1>1, <1>9 DEF IInv, Ends
  <2>2. n \in Direct(m)' <=> n \in Direct(m)
    BY <1>2, <1>5 DEF Direct
  <2>3. ~Joining(n, m) /\ ~Joining(n, m)' /\ ~Faulting(n, m)'
    BY <1>1, <1>3 DEF Joining, Faulting
  <2>4. /\ Joining(m, n)' <=> Joining(m, n)
        /\ Faulting(m, n)' <=> Faulting(m, n)
    <3>1. Main(m) \in Thread \ {Main(n)} /\ gone'[Main(m)] = gone[Main(m)]
      BY <1>2, <1>5, Threads
    <3> QED
      BY <1>1, <1>3, <3>1 DEF Joining, Faulting
  <2>5. ASSUME NEW x \in Node, NEW y \in Node PROVE Parting(x, y)' <=> Parting(x, y)
    <3>1. \A r \in Role : <<x, r>> \in Thread
      BY DEF Thread
    <3> QED
      BY <1>1, <1>3, <3>1 DEF Parting
  <2>6. CASE m \in gone[Main(n)]
    <3>1. m \in Direct(n)' <=> m \in Direct(n)
      BY <1>5, <2>6 DEF Direct
    <3>2. ~Faulting(n, m)
      BY <2>6 DEF Faulting
    <3> QED
      BY <2>1, <2>2, <2>3, <2>4, <2>5, <3>1, <3>2 DEF Agree
  <2>7. CASE m \notin gone[Main(n)]
    <3>1. m \notin Direct(n)'
      BY <1>5, <2>7 DEF Direct
    <3>2. Faulting(n, m)
      BY <1>1, <2>7 DEF Faulting
    <3> QED
      BY <2>1, <2>2, <2>3, <2>4, <2>5, <3>1, <3>2 DEF Agree
  <2> QED
    BY <2>6, <2>7
<1>10. ASSUME NEW x \in Node, NEW y \in Node, Main(x) # Main(n), Apart(x, y, n, m)
       PROVE  y \in gone'[Main(x)] <=> y \in gone[Main(x)]
  BY <1>5, <1>10
<1>11. \A x, y \in Node : Apart(x, y, n, m) => link'[x][y] = link[x][y]
  BY <1>5 DEF Apart
<1>12. /\ crossed => crossed'
       /\ \A u \in Thread \ {Main(n)} :
              pc'[u] = pc[u] /\ (lock'[u[1]] = u[2] <=> lock[u[1]] = u[2])
       /\ UNCHANGED <<network, peer, shakes>>
       /\ pc'[Main(n)] \in Locking <=> lock'[n] = Main(n)[2]
  BY <1>1, <1>2, <1>3 DEF IInv, Locked, Locking
<1> QED
  BY <1>2, <1>6, <1>7, <1>8, <1>9, <1>10, <1>11, <1>12, LinkFrame

-----------------------------------------------------------------------------
LEMMA InitInv == Init => IInv
<1> SUFFICES ASSUME Init PROVE IInv
  OBVIOUS
<1>1. TypeOK
  BY InitType
<1>2. /\ \A t \in Thread : pc[t] \in {"idle", "ended", "expire"} /\ lock[t[1]] = "free"
                           /\ t[2] # "free"
      /\ \A n \in Node : pc[Main(n)] = "idle"
      /\ shakes = {} /\ network \in Networks
      /\ \A n \in Node : stale[n] = {} /\ todo[n] = {} /\ late[n] = {}
  BY Threads DEF Init, Role
<1>3. /\ \A n \in Node : link[n][n] = "none"
      /\ \A n, m \in Node : link[n][m] = link[m][n]
  <2>1. \A e \in network.edges : e[1] # e[2]
    BY <1>2, NeighborhoodAssumption
  <2>2. \A n \in Node : <<n, n>> \notin network.edges
    BY <2>1
  <2> QED
    BY <2>2 DEF Init
<1>4. Locked
  BY <1>2 DEF Locked, Locking
<1>5. NoSelf
  BY <1>2, <1>3 DEF NoSelf, WithPeer, Locking
<1>6. HasClient /\ InMemory
  BY <1>2 DEF HasClient, InMemory
<1>7. ASSUME NEW n \in Node, NEW m \in Node PROVE Agree(n, m)
  <2>1. m \in Direct(n) <=> n \in Direct(m)
    BY <1>3 DEF Direct
  <2>2. ~Joining(m, n) /\ ~Faulting(n, m)
    BY <1>2 DEF Joining, Faulting
  <2>3. ~Parting(n, m)
    <3>1. \A r \in Role : <<n, r>> \in Thread
      BY DEF Thread
    <3> QED
      BY <1>2, <3>1 DEF Parting
  <2> QED
    BY <2>1, <2>2, <2>3 DEF Agree
<1> QED
  BY <1>1, <1>4, <1>5, <1>6, <1>7 DEF IInv, Ends

LEMMA StepInv == IInv /\ [Next]_vars => IInv'
<1> SUFFICES ASSUME IInv, [Next]_vars PROVE IInv'
  OBVIOUS
<1>1. \A n \in Node : Main(n) \in Thread /\ peer[Main(n)] \in Node
  BY Threads DEF IInv, TypeOK
<1>2. \A t \in Thread : t[1] \in Node /\ peer[t] \in Node
  BY Threads DEF IInv, TypeOK
<1>3. CASE \E n, m \in Node : Connect(n, m) \/ Disconnect(n, m) \/ Fault(n, m)
  BY <1>3, CallsStep
<1>4. CASE \E n, m \in Node : LateHandshake(n, m)
  BY <1>4, LateStep
<1>5. CASE \E n, m \in Node : Ageing(n, m)
  BY <1>5, AgeingStep
<1>6. CASE \E n, m \in Node : AddLate(n, m)
  BY <1>6, AddLateStep
<1>7. CASE \E n \in Node : Stop(n)
  BY <1>7, CallsStep
<1>8. CASE \E n \in Node : MainStep(n)
  <2>1. PICK n \in Node : MainStep(n)
    BY <1>8
  <2> QED
    BY <1>1, <2>1, AddLockedStep, ShakeHandsStep, AddDoneStep, TimeoutStep, FaultDoneStep,
       ClearTestStep, ClearPickStep, ServerStopStep DEF MainStep
<1>9. CASE \E n \in Node : HeartStep(n)
  BY <1>9, PeriodsStep, ExpireStep, SendBeatStep DEF HeartStep
<1>10. CASE \E t \in Thread : RemoveStep(t)
  <2>1. PICK t \in Thread : RemoveStep(t)
    BY <1>10
  <2>2. CASE DropLocked(t)
    BY <2>2, ByeStep, DropAbsentStep
  <2>3. CASE SayBye(t)
    BY <1>2, <2>3, SayByeStep
  <2>4. CASE DropDone(t)
    BY <1>2, <2>4, DropDoneStep
  <2> QED
    BY <2>1, <2>2, <2>3, <2>4 DEF RemoveStep
<1>11. CASE \E b \in beats : ReceiveBeat(b)
  BY <1>11, ArrivesStep
<1>12. CASE UNCHANGED vars
  <2>1. TypeOK' /\ NoSelf' /\ SameDirect /\ SameNetwork /\ UNCHANGED <<pc, peer, gone, lock>>
    BY <1>12 DEF IInv, TypeOK, NoSelf, SameDirect, Direct, SameNetwork, vars
  <2> QED
    BY <2>1, RestFrame
<1> QED
  BY <1>3, <1>4, <1>5, <1>6, <1>7, <1>8, <1>9, <1>10, <1>11, <1>12 DEF Next

\* With no call between two nodes under way, nothing explains a connection with one
\* end.
LEMMA InvTwoEnds == IInv => ConnectionsHaveTwoEnds
<1> SUFFICES ASSUME IInv, network.transport = "memory", ~crossed, NEW n \in Node, NEW m \in Node,
                    Settled(n, m)
             PROVE  m \in Direct(n) <=> n \in Direct(m)
  BY DEF ConnectionsHaveTwoEnds
<1>1. Agree(n, m) /\ Agree(m, n)
  BY DEF IInv, Ends
<1>2. ASSUME NEW x \in Node, NEW y \in Node, {x, y} = {n, m}
      PROVE  ~Joining(x, y) /\ ~Parting(x, y) /\ ~Faulting(x, y)
  <2>1. \A t \in Thread : t[1] = x /\ peer[t] = y => pc[t] \notin {"joined", "parted", "faulted"}
    BY <1>2 DEF Settled
  <2>2. \A r \in Role : <<x, r>> \in Thread /\ <<x, r>>[1] = x
    BY DEF Thread
  <2>3. Main(x) \in Thread /\ Main(x)[1] = x
    BY Threads
  <2> QED
    BY <2>1, <2>2, <2>3 DEF Joining, Parting, Faulting
<1> QED
  BY <1>1, <1>2 DEF Agree

\* Whatever the users and the heartbeat threads do, the invariant holds.
THEOREM NeighborhoodInvariance == Spec => []IInv
  BY InitInv, StepInv, PTL DEF Spec

\* Tables, locks and messages keep their types: also that neither a user's thread nor
\* a heartbeat thread is ever at a step of the other.
THEOREM NeighborhoodTypeCorrect == Spec => []TypeOK
<1>1. IInv => TypeOK
  BY DEF IInv
<1> QED
  BY <1>1, NeighborhoodInvariance, PTL

\* Direct connections have two ends (add and remove, neighbors.py:62-118, which call the
\* other node, server.py:107-131), for any number of nodes, of concurrent connects,
\* removals, expiries, stops and failed messages.
THEOREM ConnectionsAgree == Spec => []ConnectionsHaveTwoEnds
  BY InvTwoEnds, NeighborhoodInvariance, PTL

=============================================================================
