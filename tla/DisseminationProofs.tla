------------------------ MODULE DisseminationProofs ------------------------
(***************************************************************************)
(* Proofs about what travels between the nodes.  The gossip, for every     *)
(* network, hop limit and number of messages remembered: its types, and,   *)
(* for as many messages as a window holds, that no node executes one twice *)
(* nor its own.  The election, for every set of nodes, train set size,     *)
(* number of rounds and set of nodes that go down: without the vote        *)
(* timeout, nodes that tally a round in the same view of the network elect *)
(* the same trainers, and every vote counts in the election it was cast    *)
(* in.                                                                     *)
(***************************************************************************)
EXTENDS Dissemination, SequenceTheorems, FiniteSetTheorems, TLAPS

-----------------------------------------------------------------------------
\* The gossip.  What its constants are.
LEMMA GossipConstants ==
    /\ Source \in [Message -> Peer] /\ Link \in [Peer -> SUBSET Peer]
    /\ TTL \in Nat /\ Saved \in Nat /\ Many \in Nat \ {0, 1}
  BY GossipAssumption DEF Gossip!GossipAssumption

\* The smaller of two numbers.
LEMMA MinOfTwo ==
    ASSUME NEW a \in Nat, NEW b \in Nat
    PROVE  Gossip!Min({a, b}) = IF a <= b THEN a ELSE b
  <1>1. \E x \in {a, b} : \A y \in {a, b} : x =< y
    <2>1. CASE a <= b
      BY <2>1
    <2>2. CASE ~(a <= b)
      BY <2>2
    <2>. QED  BY <2>1, <2>2
  <1>. QED  BY <1>1, SMT DEF Gossip!Min

\* The members of a sequence are its entries.
LEMMA MembersOf ==
    ASSUME NEW s \in Seq(Message)
    PROVE  /\ Len(s) \in Nat
           /\ \A i \in 1..Len(s) : s[i] \in Message
           /\ Gossip!ToSet(s) = {s[i] : i \in 1..Len(s)}
  BY LenProperties DEF Gossip!ToSet

\* The window of a node holds a message at most once.
EachOnce(s) == \A i, j \in 1..Len(s) : s[i] = s[j] => i = j

\* An entry more.
LEMMA OneMore ==
    ASSUME NEW s \in Seq(Message), NEW m \in Message
    PROVE  /\ Append(s, m) \in Seq(Message)
           /\ Len(Append(s, m)) = Len(s) + 1
           /\ Gossip!ToSet(Append(s, m)) = Gossip!ToSet(s) \cup {m}
           /\ EachOnce(s) /\ m \notin Gossip!ToSet(s) => EachOnce(Append(s, m))
  <1>. DEFINE t == Append(s, m)
  <1>1. /\ t \in Seq(Message) /\ Len(t) = Len(s) + 1
        /\ \A i \in 1..Len(s) : t[i] = s[i]
        /\ t[Len(s) + 1] = m
    BY AppendProperties
  <1>2. /\ Len(s) \in Nat /\ Gossip!ToSet(s) = {s[i] : i \in 1..Len(s)}
        /\ Gossip!ToSet(t) = {t[i] : i \in 1..Len(t)}
    BY <1>1, MembersOf
  <1>. HIDE DEF t
  <1>3. \A i \in 1..Len(t) : i \in 1..Len(s) \/ i = Len(s) + 1
    BY <1>1, <1>2
  <1>4. Gossip!ToSet(t) = Gossip!ToSet(s) \cup {m}
    BY <1>1, <1>2, <1>3
  <1>5. ASSUME EachOnce(s), m \notin Gossip!ToSet(s)
        PROVE  EachOnce(t)
    <2>1. \A i \in 1..Len(s) : s[i] # m
      BY <1>2, <1>5
    <2>. SUFFICES ASSUME NEW i \in 1..Len(t), NEW j \in 1..Len(t), t[i] = t[j]
                  PROVE  i = j
      BY DEF EachOnce
    <2>2. CASE i \in 1..Len(s) /\ j \in 1..Len(s)
      BY <2>2, <1>1, <1>5 DEF EachOnce
    <2>3. CASE i \in 1..Len(s) /\ j = Len(s) + 1
      BY <2>3, <2>1, <1>1
    <2>4. CASE i = Len(s) + 1 /\ j \in 1..Len(s)
      BY <2>4, <2>1, <1>1
    <2>. QED  BY <2>2, <2>3, <2>4, <1>3
  <1>. QED  BY <1>1, <1>4, <1>5 DEF t

\* As many messages as a window holds, and it never drops one.
FewMessages == IsFiniteSet(Message) /\ Cardinality(Message) <= Saved + 1

\* A window without one of the messages has room for it.
LEMMA WindowHasRoom ==
    ASSUME FewMessages, NEW s \in Seq(Message), EachOnce(s),
           NEW m \in Message, m \notin Gossip!ToSet(s)
    PROVE  ~(Len(s) > Saved)
  <1>. SUFFICES ASSUME Len(s) > Saved
                PROVE  FALSE
    OBVIOUS
  <1>. DEFINE t == Append(s, m)
              k == Len(s) + 1
  <1>1. t \in Seq(Message) /\ Len(t) = k /\ EachOnce(t)
    BY OneMore
  <1>2. Len(s) \in Nat /\ k \in Nat
    BY MembersOf
  <1>3. t \in [1..k -> Message]
    BY <1>1, LenProperties
  <1>4. IsFiniteSet(1..k) /\ Cardinality(1..k) = k
    BY <1>2, FS_Interval
  <1>5. Cardinality(Message) < Cardinality(1..k) /\ IsFiniteSet(Message)
    <2>1. Cardinality(Message) \in Nat
      BY FS_CardinalityType DEF FewMessages
    <2>. QED  BY <1>4, <1>2, <2>1, GossipConstants DEF FewMessages
  <1>6. \E x, y \in 1..k : x # y /\ t[x] = t[y]
    <2>. HIDE DEF t, k
    <2>. QED  BY <1>3, <1>4, <1>5, FS_PigeonHole
  <1>. QED  BY <1>1, <1>6 DEF EachOnce

-----------------------------------------------------------------------------
\* The gossip's types.

\* An item of a queue.
LEMMA ItemFields ==
    ASSUME NEW item \in Gossip!Item
    PROVE  item.msg \in Message /\ item.ttl \in 0..TTL /\ item.to \in SUBSET Peer
  BY DEF Gossip!Item

\* What handling a message does to the windows, the counts and the queues.
LEMMA HandleTypes ==
    ASSUME Gossip!TypeOK, NEW n \in Peer, NEW m \in Message, NEW ttl \in 0..TTL,
           Gossip!Handle(n, m, ttl)
    PROVE  /\ window' \in [Peer -> Seq(Message)]
           /\ \A p \in Peer : Len(window'[p]) <= Saved + 1
           /\ processed' \in [Peer -> [Message -> 0..Many]]
           /\ hops' \in [Message -> 0..TTL]
           /\ pending' \in [Peer -> Seq(Gossip!Item)]
  <1>1. /\ window \in [Peer -> Seq(Message)] /\ \A p \in Peer : Len(window[p]) <= Saved + 1
        /\ processed \in [Peer -> [Message -> 0..Many]] /\ hops \in [Message -> 0..TTL]
        /\ pending \in [Peer -> Seq(Gossip!Item)] /\ connected \in [Peer -> SUBSET Peer]
    BY DEF Gossip!TypeOK
  <1>2. CASE ~Gossip!NewTo(n, m)
    BY <1>1, <1>2 DEF Gossip!Handle
  <1>3. CASE Gossip!NewTo(n, m)
    <2>1. /\ window' = [window EXCEPT ![n] = Gossip!Remember(n, m)]
          /\ processed' = [processed EXCEPT ![n][m] = Gossip!Min({@ + 1, Many})]
      BY <1>3 DEF Gossip!Handle
    <2>2. Gossip!Remember(n, m) \in Seq(Message) /\ Len(Gossip!Remember(n, m)) <= Saved + 1
      <3>1. window[n] \in Seq(Message) /\ Len(window[n]) \in Nat /\ Len(window[n]) <= Saved + 1
        BY <1>1, LenProperties
      <3>2. CASE Len(window[n]) > Saved
        <4>1. window[n] # <<>>
          BY <3>1, <3>2, GossipConstants
        <4>2. Tail(window[n]) \in Seq(Message) /\ Len(Tail(window[n])) = Len(window[n]) - 1
          BY <3>1, <4>1, HeadTailProperties
        <4>3. /\ Append(Tail(window[n]), m) \in Seq(Message)
              /\ Len(Append(Tail(window[n]), m)) = Len(Tail(window[n])) + 1
          BY <4>2, OneMore
        <4>4. Gossip!Remember(n, m) = Append(Tail(window[n]), m)
          BY <3>2 DEF Gossip!Remember
        <4>. QED  BY <3>1, <4>2, <4>3, <4>4
      <3>3. CASE ~(Len(window[n]) > Saved)
        <4>1. /\ Append(window[n], m) \in Seq(Message)
              /\ Len(Append(window[n], m)) = Len(window[n]) + 1
          BY <3>1, OneMore
        <4>2. Gossip!Remember(n, m) = Append(window[n], m)
          BY <3>3 DEF Gossip!Remember
        <4>. QED  BY <3>1, <3>3, <4>1, <4>2, GossipConstants
      <3>. QED  BY <3>2, <3>3
    <2>3. Gossip!Min({processed[n][m] + 1, Many}) \in 0..Many
      <3>1. processed[n][m] \in 0..Many /\ Many \in Nat
        BY <1>1, GossipConstants
      <3>2. Gossip!Min({processed[n][m] + 1, Many}) =
                IF processed[n][m] + 1 <= Many THEN processed[n][m] + 1 ELSE Many
        BY <3>1, MinOfTwo
      <3>. QED  BY <3>1, <3>2
    <2>4. window' \in [Peer -> Seq(Message)] /\ \A p \in Peer : Len(window'[p]) <= Saved + 1
      BY <1>1, <2>1, <2>2
    <2>5. processed' \in [Peer -> [Message -> 0..Many]]
      BY <1>1, <2>1, <2>3
    <2>6. CASE ~Gossip!PassedOn(ttl)
      BY <1>1, <1>3, <2>4, <2>5, <2>6 DEF Gossip!Handle
    <2>7. CASE Gossip!PassedOn(ttl)
      <3>. DEFINE item == [msg |-> m, ttl |-> IF Gossip!SharedObject THEN 0 ELSE Gossip!Left(ttl),
                           to |-> connected[n] \ {Source[m]}]
      <3>1. /\ hops' = IF Gossip!SharedObject THEN [hops EXCEPT ![m] = Gossip!Left(ttl)] ELSE hops
            /\ pending' = [pending EXCEPT ![n] = Append(@, item)]
        BY <1>3, <2>7 DEF Gossip!Handle
      <3>2. Gossip!Left(ttl) \in 0..TTL
        BY <2>7, GossipConstants DEF Gossip!PassedOn, Gossip!Left
      <3>3. item \in Gossip!Item
        BY <1>1, <3>2, GossipConstants DEF Gossip!Item
      <3>4. hops' \in [Message -> 0..TTL]
        BY <1>1, <3>1, <3>2
      <3>. HIDE DEF item
      <3>5. Append(pending[n], item) \in Seq(Gossip!Item)
        BY <1>1, <3>3, AppendProperties
      <3>6. pending' \in [Peer -> Seq(Gossip!Item)]
        BY <1>1, <3>1, <3>5
      <3>. QED  BY <2>4, <2>5, <3>4, <3>6
    <2>. QED  BY <2>6, <2>7
  <1>. QED  BY <1>2, <1>3

\* The first item of a queue, and what is left of it.
LEMMA QueueParts ==
    ASSUME NEW s \in Seq(Gossip!Item), s # <<>>
    PROVE  /\ Head(s) \in Gossip!Item /\ Tail(s) \in Seq(Gossip!Item)
           /\ \A item \in Gossip!Item : <<item>> \o Tail(s) \in Seq(Gossip!Item)
  <1>1. Head(s) \in Gossip!Item /\ Tail(s) \in Seq(Gossip!Item)
    BY HeadTailProperties
  <1>2. ASSUME NEW item \in Gossip!Item
        PROVE  <<item>> \o Tail(s) \in Seq(Gossip!Item)
    <2>1. <<item>> \in Seq(Gossip!Item)
      OBVIOUS
    <2>. QED  BY <1>1, <2>1, ConcatProperties
  <1>. QED  BY <1>1, <1>2

\* The item that a node sends next, and what is left of its queue.
LEMMA SendTypes ==
    ASSUME Gossip!TypeOK, NEW n \in Peer, NEW m \in Peer, sending[n] # <<>>
    PROVE  /\ Head(sending[n]).msg \in Message
           /\ Gossip!Hops(Head(sending[n])) \in 0..TTL
           /\ Tail(sending[n]) \in Seq(Gossip!Item)
           /\ <<[Head(sending[n]) EXCEPT !.to = Head(sending[n]).to \ {m}]>> \o Tail(sending[n])
                  \in Seq(Gossip!Item)
  <1>1. sending[n] \in Seq(Gossip!Item) /\ hops \in [Message -> 0..TTL]
    BY DEF Gossip!TypeOK
  <1>2. Head(sending[n]) \in Gossip!Item /\ Tail(sending[n]) \in Seq(Gossip!Item)
    BY <1>1, QueueParts
  <1>3. [Head(sending[n]) EXCEPT !.to = Head(sending[n]).to \ {m}] \in Gossip!Item
    BY <1>2 DEF Gossip!Item
  <1>4. /\ Head(sending[n]).msg \in Message /\ Head(sending[n]).ttl \in 0..TTL
    BY <1>2, ItemFields
  <1>. QED  BY <1>1, <1>2, <1>3, <1>4, QueueParts DEF Gossip!Hops

LEMMA GossipTypeStep ==
    ASSUME Gossip!TypeOK, [Gossip!Next]_(Gossip!vars)
    PROVE  Gossip!TypeOK'
  <1>1. /\ transport \in Transports /\ connected \in [Peer -> SUBSET Peer]
        /\ begun \subseteq Message /\ calling \in [Message -> SUBSET Peer]
        /\ hops \in [Message -> 0..TTL]
        /\ window \in [Peer -> Seq(Message)] /\ \A n \in Peer : Len(window[n]) <= Saved + 1
        /\ processed \in [Peer -> [Message -> 0..Many]]
        /\ pending \in [Peer -> Seq(Gossip!Item)] /\ sending \in [Peer -> Seq(Gossip!Item)]
        /\ alive \in [Peer -> BOOLEAN]
    BY DEF Gossip!TypeOK
  <1>2. ASSUME NEW m \in Message, Gossip!Broadcast(m)
        PROVE  Gossip!TypeOK'
    <2>1. connected[Source[m]] \in SUBSET Peer
      BY <1>1, GossipConstants
    <2>. QED  BY <1>1, <1>2, <2>1 DEF Gossip!Broadcast, Gossip!TypeOK
  <1>3. ASSUME NEW m \in Message, NEW n \in Peer, Gossip!BroadcastTo(m, n)
        PROVE  Gossip!TypeOK'
    <2>1. CASE n \in connected[Source[m]]
      <3>. DEFINE ttl == IF Gossip!SharedObject THEN hops[m] ELSE TTL
      <3>1. ttl \in 0..TTL
        BY <1>1, GossipConstants
      <3>2. /\ calling' = [calling EXCEPT ![m] = @ \ {n}] /\ Gossip!Handle(n, m, ttl)
            /\ UNCHANGED <<transport, connected, begun, sending, alive>>
        BY <1>3, <2>1 DEF Gossip!BroadcastTo
      <3>. HIDE DEF ttl
      <3>3. calling' \in [Message -> SUBSET Peer]
        BY <1>1, <3>2
      <3>. QED  BY <1>1, <3>1, <3>2, <3>3, HandleTypes DEF Gossip!TypeOK
    <2>2. CASE n \notin connected[Source[m]]
      BY <1>1, <1>3, <2>2 DEF Gossip!BroadcastTo, Gossip!TypeOK
    <2>. QED  BY <2>1, <2>2
  <1>4. ASSUME NEW n \in Peer, Gossip!Period(n)
        PROVE  Gossip!TypeOK'
    <2>1. <<>> \in Seq(Gossip!Item)
      BY EmptySeq
    <2>. QED  BY <1>1, <1>4, <2>1 DEF Gossip!Period, Gossip!TypeOK
  <1>5. ASSUME NEW n \in Peer, Gossip!SendNobody(n)
        PROVE  Gossip!TypeOK'
    <2>1. Tail(sending[n]) \in Seq(Gossip!Item)
      BY <1>1, <1>5, QueueParts DEF Gossip!SendNobody
    <2>. QED  BY <1>1, <1>5, <2>1 DEF Gossip!SendNobody, Gossip!TypeOK
  <1>6. ASSUME NEW n \in Peer, NEW m \in Peer, Gossip!SendNext(n, m)
        PROVE  Gossip!TypeOK'
    <2>. DEFINE item == Head(sending[n])
                rest == item.to \ {m}
                queue == IF rest = {} THEN Tail(sending[n])
                                      ELSE <<[item EXCEPT !.to = rest]>> \o Tail(sending[n])
    <2>0. sending[n] # <<>> /\ UNCHANGED <<transport, connected, begun, calling>>
      BY <1>6 DEF Gossip!SendNext
    <2>1. /\ item.msg \in Message /\ Gossip!Hops(item) \in 0..TTL
          /\ queue \in Seq(Gossip!Item)
      BY <2>0, SendTypes
    <2>2. CASE m \in connected[n]
      <3>1. /\ sending' = [sending EXCEPT ![n] = queue]
            /\ Gossip!Handle(m, item.msg, Gossip!Hops(item)) /\ alive' = alive
        BY <1>6, <2>2 DEF Gossip!SendNext
      <3>. HIDE DEF item, rest, queue
      <3>2. sending' \in [Peer -> Seq(Gossip!Item)]
        BY <1>1, <2>1, <3>1
      <3>. QED  BY <1>1, <2>0, <2>1, <3>1, <3>2, HandleTypes DEF Gossip!TypeOK
    <2>3. CASE m \notin connected[n]
      <3>1. /\ alive' = [alive EXCEPT ![n] = FALSE]
            /\ UNCHANGED <<sending, hops, window, processed, pending>>
        BY <1>6, <2>3 DEF Gossip!SendNext
      <3>. QED  BY <1>1, <2>0, <3>1 DEF Gossip!TypeOK
    <2>. QED  BY <2>2, <2>3
  <1>7. ASSUME NEW n \in Peer, NEW m \in Peer, Gossip!Disconnect(n, m)
        PROVE  Gossip!TypeOK'
    <2>1. connected' \in [Peer -> SUBSET Peer]
      BY <1>1, <1>7 DEF Gossip!Disconnect
    <2>. QED  BY <1>1, <1>7, <2>1 DEF Gossip!Disconnect, Gossip!TypeOK
  <1>8. CASE UNCHANGED Gossip!vars
    BY <1>1, <1>8 DEF Gossip!vars, Gossip!TypeOK
  <1>. QED  BY <1>2, <1>3, <1>4, <1>5, <1>6, <1>7, <1>8
            DEF Gossip!Next, Gossip!GossiperStep, Gossip!vars

-----------------------------------------------------------------------------
\* The inductive invariant of the gossip, for messages that the windows can hold:
\* a node has executed exactly the messages of its window, once, and none of its own.
GossipInv ==
    /\ Gossip!TypeOK
    /\ \A n \in Peer : EachOnce(window[n])
    /\ \A n \in Peer, m \in Message :
          /\ processed[n][m] = IF m \in Gossip!ToSet(window[n]) THEN 1 ELSE 0
          /\ (n = Source[m] => m \notin Gossip!ToSet(window[n]))

LEMMA GossipInit == ASSUME Gossip!Init PROVE GossipInv
  <1>1. <<>> \in Seq(Message) /\ Len(<<>>) = 0 /\ <<>> \in Seq(Gossip!Item)
    BY EmptySeq
  <1>2. Gossip!ToSet(<<>>) = {}
    <2>1. Gossip!ToSet(<<>>) = {(<<>>)[i] : i \in 1..Len(<<>>)}
      BY <1>1, MembersOf
    <2>. QED  BY <1>1, <2>1
  <1>3. /\ hops \in [Message -> 0..TTL] /\ processed \in [Peer -> [Message -> 0..Many]]
        /\ connected \in [Peer -> SUBSET Peer] /\ calling \in [Message -> SUBSET Peer]
    BY GossipConstants DEF Gossip!Init
  <1>4. \A n \in Peer : Len(window[n]) <= Saved + 1
    BY <1>1, GossipConstants DEF Gossip!Init
  <1>5. Gossip!TypeOK
    BY <1>1, <1>3, <1>4 DEF Gossip!Init, Gossip!TypeOK
  <1>6. \A n \in Peer : EachOnce(window[n])
    BY <1>1 DEF Gossip!Init, EachOnce
  <1>7. \A n \in Peer, m \in Message :
            processed[n][m] = 0 /\ m \notin Gossip!ToSet(window[n])
    BY <1>2 DEF Gossip!Init
  <1>. QED  BY <1>5, <1>6, <1>7 DEF GossipInv

\* Handling a message keeps what the windows say of the counts.
LEMMA HandleOnce ==
    ASSUME FewMessages, GossipInv, NEW n \in Peer, NEW m \in Message, NEW ttl \in 0..TTL,
           Gossip!Handle(n, m, ttl), Gossip!TypeOK'
    PROVE  GossipInv'
  <1>1. /\ window \in [Peer -> Seq(Message)] /\ processed \in [Peer -> [Message -> 0..Many]]
        /\ \A p \in Peer : EachOnce(window[p])
        /\ \A p \in Peer, k \in Message :
              /\ processed[p][k] = IF k \in Gossip!ToSet(window[p]) THEN 1 ELSE 0
              /\ (p = Source[k] => k \notin Gossip!ToSet(window[p]))
    BY DEF GossipInv, Gossip!TypeOK
  <1>2. CASE ~Gossip!NewTo(n, m)
    <2>1. window' = window /\ processed' = processed
      BY <1>2 DEF Gossip!Handle
    <2>. QED  BY <1>1, <2>1 DEF GossipInv
  <1>3. CASE Gossip!NewTo(n, m)
    <2>1. n # Source[m] /\ m \notin Gossip!ToSet(window[n]) /\ window[n] \in Seq(Message)
      BY <1>1, <1>3 DEF Gossip!NewTo
    <2>2. Gossip!Remember(n, m) = Append(window[n], m)
      BY <1>1, <2>1, WindowHasRoom DEF Gossip!Remember
    <2>3. /\ EachOnce(Gossip!Remember(n, m))
          /\ Gossip!ToSet(Gossip!Remember(n, m)) = Gossip!ToSet(window[n]) \cup {m}
      BY <1>1, <2>1, <2>2, OneMore
    <2>4. Gossip!Min({processed[n][m] + 1, Many}) = 1
      <3>1. processed[n][m] = 0
        BY <1>1, <2>1
      <3>2. Gossip!Min({0 + 1, Many}) = IF 0 + 1 <= Many THEN 0 + 1 ELSE Many
        BY MinOfTwo, GossipConstants
      <3>. QED  BY <3>1, <3>2, GossipConstants
    <2>5. /\ window' = [window EXCEPT ![n] = Gossip!Remember(n, m)]
          /\ processed' = [processed EXCEPT ![n][m] = Gossip!Min({@ + 1, Many})]
      BY <1>3 DEF Gossip!Handle
    <2>6. /\ window'[n] = Gossip!Remember(n, m) /\ processed'[n][m] = 1
          /\ \A p \in Peer : p # n => window'[p] = window[p] /\ processed'[p] = processed[p]
          /\ \A k \in Message : k # m => processed'[n][k] = processed[n][k]
      BY <1>1, <2>4, <2>5
    <2>7. \A p \in Peer : EachOnce(window'[p])
      BY <1>1, <2>3, <2>6
    <2>8. ASSUME NEW p \in Peer, NEW k \in Message
          PROVE  /\ processed'[p][k] = IF k \in Gossip!ToSet(window'[p]) THEN 1 ELSE 0
                 /\ (p = Source[k] => k \notin Gossip!ToSet(window'[p]))
      <3>1. CASE p # n
        BY <1>1, <2>6, <3>1
      <3>2. CASE p = n /\ k # m
        BY <1>1, <2>3, <2>6, <3>2
      <3>3. CASE p = n /\ k = m
        BY <2>1, <2>3, <2>6, <3>3
      <3>. QED  BY <3>1, <3>2, <3>3
    <2>. QED  BY <2>7, <2>8 DEF GossipInv
  <1>. QED  BY <1>2, <1>3

LEMMA GossipStep ==
    ASSUME FewMessages, GossipInv, [Gossip!Next]_(Gossip!vars)
    PROVE  GossipInv'
  <1>0. Gossip!TypeOK /\ Gossip!TypeOK'
    BY GossipTypeStep DEF GossipInv
  <1>1. CASE UNCHANGED <<window, processed>>
    BY <1>0, <1>1 DEF GossipInv
  <1>2. ASSUME NEW m \in Message, NEW n \in Peer, Gossip!BroadcastTo(m, n),
               n \in connected[Source[m]]
        PROVE  GossipInv'
    <2>. DEFINE ttl == IF Gossip!SharedObject THEN hops[m] ELSE TTL
    <2>1. ttl \in 0..TTL
      BY <1>0, GossipConstants DEF Gossip!TypeOK
    <2>2. Gossip!Handle(n, m, ttl)
      BY <1>2 DEF Gossip!BroadcastTo
    <2>. HIDE DEF ttl
    <2>. QED  BY <1>0, <2>1, <2>2, HandleOnce
  <1>3. ASSUME NEW n \in Peer, NEW m \in Peer, Gossip!SendNext(n, m), m \in connected[n]
        PROVE  GossipInv'
    <2>1. /\ sending[n] # <<>>
          /\ Gossip!Handle(m, Head(sending[n]).msg, Gossip!Hops(Head(sending[n])))
      BY <1>3 DEF Gossip!SendNext
    <2>2. Head(sending[n]).msg \in Message /\ Gossip!Hops(Head(sending[n])) \in 0..TTL
      BY <1>0, <2>1, SendTypes
    <2>. QED  BY <1>0, <2>1, <2>2, HandleOnce
  <1>4. \/ UNCHANGED <<window, processed>>
        \/ \E m \in Message, n \in Peer : Gossip!BroadcastTo(m, n) /\ n \in connected[Source[m]]
        \/ \E n, m \in Peer : Gossip!SendNext(n, m) /\ m \in connected[n]
    <2>1. ASSUME NEW m \in Message, Gossip!Broadcast(m)
          PROVE  UNCHANGED <<window, processed>>
      BY <2>1 DEF Gossip!Broadcast
    <2>2. ASSUME NEW m \in Message, NEW n \in Peer, Gossip!BroadcastTo(m, n),
                 n \notin connected[Source[m]]
          PROVE  UNCHANGED <<window, processed>>
      BY <2>2 DEF Gossip!BroadcastTo
    <2>3. ASSUME NEW n \in Peer, Gossip!Period(n) \/ Gossip!SendNobody(n)
          PROVE  UNCHANGED <<window, processed>>
      BY <2>3 DEF Gossip!Period, Gossip!SendNobody
    <2>4. ASSUME NEW n \in Peer, NEW m \in Peer, Gossip!SendNext(n, m), m \notin connected[n]
          PROVE  UNCHANGED <<window, processed>>
      BY <2>4 DEF Gossip!SendNext
    <2>5. ASSUME NEW n \in Peer, NEW m \in Peer, Gossip!Disconnect(n, m)
          PROVE  UNCHANGED <<window, processed>>
      BY <2>5 DEF Gossip!Disconnect
    <2>6. CASE UNCHANGED Gossip!vars
      BY <2>6 DEF Gossip!vars
    <2>. QED  BY <2>1, <2>2, <2>3, <2>4, <2>5, <2>6 DEF Gossip!Next, Gossip!GossiperStep
  <1>. QED  BY <1>1, <1>2, <1>3, <1>4

\* Every variable of the gossip keeps its type: no window outgrows what is saved, and
\* no hop count leaves 0..TTL, in memory or over gRPC.
THEOREM GossipTypes == Gossip!Spec => []Gossip!TypeOK
  <1>1. Gossip!Init => Gossip!TypeOK
    BY GossipInit DEF GossipInv
  <1>2. Gossip!TypeOK /\ [Gossip!Next]_(Gossip!vars) => Gossip!TypeOK'
    BY GossipTypeStep
  <1>. QED  BY <1>1, <1>2, PTL DEF Gossip!Spec, Gossip!vars

\* The inductive invariant of the gossip, where the windows hold every message: what a
\* window holds is what its node has executed, each once, and none of its own.
THEOREM GossipInvariance == ASSUME FewMessages PROVE Gossip!Spec => []GossipInv
  <1>1. Gossip!Init => GossipInv
    BY GossipInit
  <1>2. GossipInv /\ [Gossip!Next]_(Gossip!vars) => GossipInv'
    BY GossipStep
  <1>. QED  BY <1>1, <1>2, PTL DEF Gossip!Spec, Gossip!vars

\* A node executes a message once.
LEMMA ProcessedOnce == ASSUME GossipInv PROVE Gossip!ProcessedOnce
  <1>1. \A n \in Peer, m \in Message :
          /\ processed[n][m] = IF m \in Gossip!ToSet(window[n]) THEN 1 ELSE 0
          /\ (n = Source[m] => m \notin Gossip!ToSet(window[n]))
    BY DEF GossipInv
  <1>. QED  BY <1>1 DEF Gossip!ProcessedOnce

-----------------------------------------------------------------------------
\* The election.  Its inductive invariant.

\* v is a vote of m that somebody holds, that is under way, or that was counted.
IsVote(m, v) ==
    \/ \E n \in Node : votes[n][m] = v
    \/ \E message \in network : message.from = m /\ message.vote = v
    \/ \E r \in Round, n \in Node : counted[r][n][m] = v

\* The vote that n holds of m or will receive of it.
IsHeard(n, m, v) == votes[n][m] = v \/ [from |-> m, to |-> n, vote |-> v] \in network

\* m will cast no vote in round r any more.
HasVoted(m, r) == r < round[m] \/ (r = round[m] /\ phase[m] # "vote")

\* A node is not its own neighbour and sends no message to itself.
Views ==
    /\ \A n \in Node : n \notin view[n]
    /\ \A message \in network : message.from # message.to

\* Votes are cast when their source is in the round, once in a round.
Cast == \A m \in Node, v \in Vote : IsVote(m, v) => HasVoted(m, v.cast)
Unique ==
    \A m \in Node, v, w \in Vote : IsVote(m, v) /\ IsVote(m, w) /\ v.cast = w.cast => v = w

\* No vote arrives twice.
Once ==
    \A n, m \in Node, v, w \in Vote :
        [from |-> m, to |-> n, vote |-> v] \in network /\ votes[n][m] = w => v.cast # w.cast

\* The barrier: who is past a round leaves nobody in it without a train set.
Together == \A n, m \in Node, r \in Round : r < round[n] => trainSet[r][m] # None
Ended ==
    \A n \in Node, r \in Round :
        trainSet[r][n] # None => r < round[n] \/ (r = round[n] /\ phase[n] \in {"elected", "down"})
Elections == \A n \in Node : phase[n] = "elected" => trainSet[round[n]][n] # None

\* A train set is that of the poll that was counted, to which every node of the
\* view contributed.
Outcomes ==
    \A r \in Round, n \in Node :
        trainSet[r][n] # None =>
            /\ trainSet[r][n] = Elected(counted[r][n], tallied[r][n])
            /\ \A m \in Node : counted[r][n][m] # None <=> m \in tallied[r][n]
            /\ view[n] \cup {n} \subseteq tallied[r][n]

\* What a node holds of its neighbours, or will receive of them, is of the election
\* it is in or of a later one, and of a later one when it has ended its own.
Fresh ==
    \A n, m \in Node, v \in Vote :
        phase[n] # "down" /\ m \in view[n] \cup {n} /\ IsHeard(n, m, v) =>
            v.cast >= round[n] /\ (phase[n] = "elected" => v.cast > round[n])

IInv ==
    /\ TypeOK
    /\ Views
    /\ Cast
    /\ Unique
    /\ Once
    /\ Together
    /\ Ended
    /\ Elections
    /\ Outcomes
    /\ Fresh
    /\ VotesOfTheRound

-----------------------------------------------------------------------------
\* Types.

USE ElectionAssumption

\* The fields of a vote and of a message.
LEMMA VoteFields ==
    \A v \in Vote : v.cast \in Round /\ v.cast \in Nat
  BY DEF Vote, Round

LEMMA RoundsAreNumbers ==
    ASSUME TypeOK
    PROVE  \A n \in Node : round[n] \in Round /\ round[n] \in Nat
<1>1. round \in [Node -> Round]
  BY DEF TypeOK
<1> QED
  BY <1>1 DEF Round

LEMMA MessageFields ==
    ASSUME TypeOK, NEW message \in network
    PROVE  /\ message.from \in Node /\ message.to \in Node /\ message.vote \in Vote
           /\ message = [from |-> message.from, to |-> message.to, vote |-> message.vote]
<1>1. network \subseteq [from : Node, to : Node, vote : Vote]
  BY DEF TypeOK
<1> QED
  BY <1>1

\* What a step of casting a vote does, with the vote named.
LEMMA CastEffect ==
    ASSUME TypeOK, NEW n \in Node, CastVote(n)
    PROVE  \E vote \in Vote :
               /\ vote.cast = round[n]
               /\ votes' = [votes EXCEPT ![n] = [@ EXCEPT ![n] = vote]]
               /\ network' = network \cup {[from |-> n, to |-> m, vote |-> vote] : m \in view[n]}
<1>1. PICK ballot \in BallotOn((view[n] \cup {n}) \cap Eligible) :
        LET vote == [cast |-> round[n], ballot |-> ballot] IN
        /\ votes' = [votes EXCEPT ![n][n] = vote]
        /\ network' = network \cup {[from |-> n, to |-> m, vote |-> vote] : m \in view[n]}
  BY DEF CastVote
<1>2. round[n] \in Round
  BY DEF TypeOK
<1>3. ballot \in UNION {BallotOn(S) : S \in SUBSET Eligible}
  BY (view[n] \cup {n}) \cap Eligible \in SUBSET Eligible
<1>4. [cast |-> round[n], ballot |-> ballot] \in Vote
  BY <1>2, <1>3 DEF Vote
<1>5. [cast |-> round[n], ballot |-> ballot].cast = round[n]
  OBVIOUS
<1> QED
  BY <1>1, <1>4, <1>5

LEMMA TypeStep ==
    ASSUME TypeOK, [Next]_vars
    PROVE  TypeOK'
<1> USE DEF NoVotes
<1>1. /\ phase \in [Node -> {"vote", "wait", "elected", "down"}]
      /\ round \in [Node -> Round]
      /\ view \in [Node -> SUBSET Node]
      /\ votes \in [Node -> [Node -> Vote \cup {None}]]
      /\ network \subseteq [from : Node, to : Node, vote : Vote]
      /\ trainSet \in [Round -> [Node -> (SUBSET Eligible) \cup {None}]]
      /\ counted \in [Round -> [Node -> [Node -> Vote \cup {None}]]]
      /\ tallied \in [Round -> [Node -> SUBSET Node]]
  BY DEF TypeOK
<1>2. ASSUME NEW n \in Node, CastVote(n) PROVE TypeOK'
  <2>1. PICK vote \in Vote :
          /\ votes' = [votes EXCEPT ![n] = [@ EXCEPT ![n] = vote]]
          /\ network' = network \cup {[from |-> n, to |-> m, vote |-> vote] : m \in view[n]}
    BY <1>2, CastEffect
  <2>2. votes' \in [Node -> [Node -> Vote \cup {None}]]
    BY <1>1, <2>1
  <2>3. network' \subseteq [from : Node, to : Node, vote : Vote]
    BY <1>1, <2>1
  <2>4. phase' \in [Node -> {"vote", "wait", "elected", "down"}]
    BY <1>1, <1>2 DEF CastVote
  <2> QED
    BY <1>1, <1>2, <2>2, <2>3, <2>4 DEF CastVote, TypeOK
<1>3. ASSUME NEW n \in Node, Tally(n) PROVE TypeOK'
  <2>1. round[n] \in Round
    BY <1>1
  <2>2. Elected(Poll(n), view[n] \cup {n}) \in SUBSET Eligible
    BY DEF Elected
  <2>3. Poll(n) \in [Node -> Vote \cup {None}]
    BY <1>1 DEF Poll, Counted
  <2>4. trainSet' \in [Round -> [Node -> (SUBSET Eligible) \cup {None}]]
    <3>1. trainSet' = [trainSet EXCEPT ![round[n]][n] = Elected(Poll(n), view[n] \cup {n})]
      BY <1>3 DEF Tally
    <3> QED
      BY <1>1, <2>1, <2>2, <3>1
  <2>5. counted' \in [Round -> [Node -> [Node -> Vote \cup {None}]]]
    <3>1. counted' = [counted EXCEPT ![round[n]][n] = Poll(n)]
      BY <1>3 DEF Tally
    <3> QED
      BY <1>1, <2>1, <2>3, <3>1
  <2>6. tallied' \in [Round -> [Node -> SUBSET Node]]
    <3>1. tallied' = [tallied EXCEPT ![round[n]][n] = view[n] \cup {n}]
      BY <1>3 DEF Tally
    <3> QED
      BY <1>1, <2>1, <3>1
  <2>7. votes' \in [Node -> [Node -> Vote \cup {None}]]
    BY <1>1, <1>3 DEF Tally, VotesAfter
  <2>8. phase' \in [Node -> {"vote", "wait", "elected", "down"}]
    BY <1>1, <1>3 DEF Tally
  <2> QED
    BY <1>1, <1>3, <2>4, <2>5, <2>6, <2>7, <2>8 DEF Tally, TypeOK
<1>4. ASSUME NEW n \in Node, NextRound(n) PROVE TypeOK'
  <2>1. round' \in [Node -> Round]
    BY <1>1, <1>4 DEF NextRound, Round
  <2>2. phase' \in [Node -> {"vote", "wait", "elected", "down"}]
    BY <1>1, <1>4 DEF NextRound
  <2> QED
    BY <1>1, <1>4, <2>1, <2>2 DEF NextRound, TypeOK
<1>5. ASSUME NEW message \in network, ReceiveVote(message) PROVE TypeOK'
  <2>1. message.from \in Node /\ message.to \in Node /\ message.vote \in Vote
    BY MessageFields
  <2>2. votes' \in [Node -> [Node -> Vote \cup {None}]]
    BY <1>1, <1>5, <2>1 DEF ReceiveVote
  <2>3. network' \subseteq [from : Node, to : Node, vote : Vote]
    BY <1>1, <1>5 DEF ReceiveVote
  <2> QED
    BY <1>1, <1>5, <2>2, <2>3 DEF ReceiveVote, TypeOK
<1>6. ASSUME NEW n \in Node, NEW m \in Node, LoseNeighbor(n, m) PROVE TypeOK'
  <2>1. view' \in [Node -> SUBSET Node]
    BY <1>1, <1>6 DEF LoseNeighbor
  <2> QED
    BY <1>1, <1>6, <2>1 DEF LoseNeighbor, TypeOK
<1>7. ASSUME NEW n \in Node, Crash(n) PROVE TypeOK'
  <2>1. network' \subseteq [from : Node, to : Node, vote : Vote]
    BY <1>1, <1>7 DEF Crash
  <2>2. phase' \in [Node -> {"vote", "wait", "elected", "down"}]
    BY <1>1, <1>7 DEF Crash
  <2> QED
    BY <1>1, <1>7, <2>1, <2>2 DEF Crash, TypeOK
<1>8. CASE UNCHANGED vars
  BY <1>1, <1>8 DEF vars, TypeOK
<1> QED
  BY <1>2, <1>3, <1>4, <1>5, <1>6, <1>7, <1>8 DEF Next, NodeStep

-----------------------------------------------------------------------------
\* What only grows, and what only shrinks.

\* Who has voted in a round stays so.
LEMMA VotedStays ==
    ASSUME TypeOK, [Next]_vars, NEW m \in Node, NEW r \in Round, HasVoted(m, r)
    PROVE  HasVoted(m, r)'
<1>1. /\ phase \in [Node -> {"vote", "wait", "elected", "down"}]
      /\ round \in [Node -> Round]
      /\ round[m] \in Nat /\ r \in Nat
  <2>1. r \in Nat
    BY DEF Round
  <2> QED
    BY <2>1, RoundsAreNumbers DEF TypeOK
<1>2. ASSUME NEW n \in Node, CastVote(n) \/ Tally(n) \/ Crash(n) PROVE HasVoted(m, r)'
  BY <1>1, <1>2 DEF CastVote, Tally, Crash, HasVoted
<1>3. ASSUME NEW n \in Node, NextRound(n) PROVE HasVoted(m, r)'
  BY <1>1, <1>3 DEF NextRound, HasVoted
<1>4. ASSUME UNCHANGED <<phase, round>> PROVE HasVoted(m, r)'
  BY <1>4 DEF HasVoted
<1> QED
  BY <1>2, <1>3, <1>4 DEF Next, NodeStep, ReceiveVote, LoseNeighbor, vars

\* An election that has ended stays so.
LEMMA TrainSetStays ==
    ASSUME TypeOK, [Next]_vars, NEW n \in Node, NEW r \in Round, trainSet[r][n] # None
    PROVE  trainSet'[r][n] # None
<1>1. ASSUME NEW m \in Node, Tally(m) PROVE trainSet'[r][n] # None
  <2>1. /\ trainSet \in [Round -> [Node -> (SUBSET Eligible) \cup {None}]]
        /\ round[m] \in Round
    BY DEF TypeOK
  <2>2. Elected(Poll(m), view[m] \cup {m}) \in SUBSET Node
    BY DEF Elected
  <2>3. Elected(Poll(m), view[m] \cup {m}) # None
    BY <2>2
  <2>4. trainSet' = [trainSet EXCEPT ![round[m]][m] = Elected(Poll(m), view[m] \cup {m})]
    BY <1>1 DEF Tally
  <2> QED
    BY <2>1, <2>3, <2>4
<1>2. ASSUME UNCHANGED trainSet PROVE trainSet'[r][n] # None
  BY <1>2
<1> QED
  BY <1>1, <1>2 DEF Next, NodeStep, CastVote, NextRound, Crash, ReceiveVote, LoseNeighbor, vars

\* A vote that is not cast was there before, with everything but a cast.
LEMMA NoNewVotes ==
    ASSUME TypeOK, [Next]_vars, \A n \in Node : ~ CastVote(n),
           NEW m \in Node, NEW v \in Vote, IsVote(m, v)'
    PROVE  IsVote(m, v)
<1>1. /\ votes \in [Node -> [Node -> Vote \cup {None}]]
      /\ round \in [Node -> Round]
      /\ counted \in [Round -> [Node -> [Node -> Vote \cup {None}]]]
  BY DEF TypeOK
<1>2. ASSUME NEW n \in Node, Tally(n) PROVE IsVote(m, v)
  <2>1. ASSUME NEW x \in Node, votes'[x][m] = v PROVE votes[x][m] = v
    BY <1>1, <1>2, <2>1 DEF Tally, VotesAfter, NoVotes
  <2>2. ASSUME NEW r \in Round, NEW x \in Node, counted'[r][x][m] = v
        PROVE  counted[r][x][m] = v \/ votes[x][m] = v
    <3>1. counted' = [counted EXCEPT ![round[n]] = [@ EXCEPT ![n] = Poll(n)]]
      BY <1>2 DEF Tally
    <3>2. Poll(n)[m] = v => votes[n][m] = v
      BY DEF Poll
    <3> QED
      BY <1>1, <2>2, <3>1, <3>2
  <2>3. network' = network
    BY <1>2 DEF Tally
  <2> QED
    BY <2>1, <2>2, <2>3 DEF IsVote
<1>3. ASSUME NEW message \in network, ReceiveVote(message) PROVE IsVote(m, v)
  <2>1. message.from \in Node /\ message.to \in Node
    BY MessageFields
  <2>2. ASSUME NEW x \in Node, votes'[x][m] = v
        PROVE  votes[x][m] = v \/ (message.from = m /\ message.vote = v)
    BY <1>1, <1>3, <2>1, <2>2 DEF ReceiveVote
  <2>3. network' \subseteq network /\ counted' = counted
    BY <1>3 DEF ReceiveVote
  <2> QED
    BY <2>2, <2>3 DEF IsVote
<1>4. ASSUME UNCHANGED <<votes, counted>>, network' \subseteq network PROVE IsVote(m, v)
  BY <1>4 DEF IsVote
<1> QED
  BY <1>2, <1>3, <1>4 DEF Next, NodeStep, NextRound, Crash, LoseNeighbor, vars

LEMMA NothingNewIsHeard ==
    ASSUME TypeOK, [Next]_vars, \A n \in Node : ~ CastVote(n),
           NEW n \in Node, NEW m \in Node, NEW v \in Vote, IsHeard(n, m, v)'
    PROVE  IsHeard(n, m, v)
<1>1. votes \in [Node -> [Node -> Vote \cup {None}]]
  BY DEF TypeOK
<1>2. ASSUME NEW x \in Node, Tally(x) PROVE IsHeard(n, m, v)
  BY <1>1, <1>2 DEF Tally, VotesAfter, NoVotes, IsHeard
<1>3. ASSUME NEW message \in network, ReceiveVote(message) PROVE IsHeard(n, m, v)
  <2>1. /\ message.from \in Node /\ message.to \in Node
        /\ message = [from |-> message.from, to |-> message.to, vote |-> message.vote]
    BY MessageFields
  <2>2. CASE message.from = m /\ message.to = n /\ message.vote = v
    BY <2>1, <2>2 DEF IsHeard
  <2>3. CASE ~(message.from = m /\ message.to = n /\ message.vote = v)
    BY <1>1, <1>3, <2>1, <2>3 DEF IsHeard, ReceiveVote
  <2> QED
    BY <2>2, <2>3
<1>4. ASSUME UNCHANGED votes, network' \subseteq network PROVE IsHeard(n, m, v)
  BY <1>4 DEF IsHeard
<1> QED
  BY <1>2, <1>3, <1>4 DEF Next, NodeStep, NextRound, Crash, LoseNeighbor, vars

-----------------------------------------------------------------------------
\* Every part of the invariant is kept.

\* What casting a vote adds: the vote for n itself, for those n sends it to, and
\* nothing else.
Adds(n, vote) ==
    /\ vote.cast = round[n]
    /\ \A m \in Node, v \in Vote : IsVote(m, v)' => IsVote(m, v) \/ (m = n /\ v = vote)
    /\ \A k, m \in Node, v \in Vote :
          IsHeard(k, m, v)' => IsHeard(k, m, v) \/ (m = n /\ v = vote /\ k \in view[n] \cup {n})
    /\ \A k, m \in Node : votes'[k][m] = IF k = n /\ m = n THEN vote ELSE votes[k][m]
    /\ \A k, m \in Node, v \in Vote :
          [from |-> m, to |-> k, vote |-> v] \in network' =>
              \/ [from |-> m, to |-> k, vote |-> v] \in network
              \/ m = n /\ v = vote /\ k \in view[n]

LEMMA CastAdds ==
    ASSUME TypeOK, NEW n \in Node, CastVote(n)
    PROVE  \E vote \in Vote : Adds(n, vote)
<1>1. PICK vote \in Vote :
        /\ vote.cast = round[n]
        /\ votes' = [votes EXCEPT ![n] = [@ EXCEPT ![n] = vote]]
        /\ network' = network \cup {[from |-> n, to |-> m, vote |-> vote] : m \in view[n]}
  BY CastEffect
<1>2. /\ votes \in [Node -> [Node -> Vote \cup {None}]]
      /\ counted' = counted
  BY DEF TypeOK, CastVote
<1>3. \A k, m \in Node : votes'[k][m] = IF k = n /\ m = n THEN vote ELSE votes[k][m]
  BY <1>1, <1>2
<1>4. ASSUME NEW m \in Node, NEW v \in Vote, NEW k \in Node,
             [from |-> m, to |-> k, vote |-> v] \in network'
      PROVE  \/ [from |-> m, to |-> k, vote |-> v] \in network
             \/ m = n /\ v = vote /\ k \in view[n]
  BY <1>1, <1>4
<1>5. ASSUME NEW m \in Node, NEW v \in Vote, IsVote(m, v)', ~ IsVote(m, v)
      PROVE  m = n /\ v = vote
  <2>1. CASE \E k \in Node : votes'[k][m] = v
    BY <1>3, <1>5, <2>1 DEF IsVote
  <2>2. CASE \E message \in network' : message.from = m /\ message.vote = v
    BY <1>1, <1>5, <2>2 DEF IsVote
  <2>3. CASE \E r \in Round, k \in Node : counted'[r][k][m] = v
    BY <1>2, <1>5, <2>3 DEF IsVote
  <2> QED
    BY <1>5, <2>1, <2>2, <2>3 DEF IsVote
<1>6. ASSUME NEW m \in Node, NEW v \in Vote, NEW k \in Node, IsHeard(k, m, v)', ~ IsHeard(k, m, v)
      PROVE  m = n /\ v = vote /\ k \in view[n] \cup {n}
  BY <1>3, <1>4, <1>6 DEF IsHeard
<1> QED
  BY <1>1, <1>3, <1>4, <1>5, <1>6 DEF Adds

\* While a node has not ended an election, no vote of a later one was cast.
LEMMA NoneIsAhead ==
    ASSUME TypeOK, Cast, Together, Ended, NEW n \in Node, phase[n] \in {"vote", "wait"},
           NEW m \in Node, NEW v \in Vote, IsVote(m, v)
    PROVE  v.cast <= round[n]
<1>1. /\ v.cast \in Nat
      /\ round[n] \in Round /\ round[m] \in Round
      /\ round[n] \in Nat /\ round[m] \in Nat
  BY VoteFields, RoundsAreNumbers
<1>2. v.cast <= round[m]
  <2>1. HasVoted(m, v.cast)
    BY DEF Cast
  <2> QED
    BY <1>1, <2>1 DEF HasVoted
<1>3. trainSet[round[n]][n] = None
  <2>1. ~(round[n] < round[n]) /\ phase[n] \notin {"elected", "down"}
    BY <1>1
  <2> QED
    BY <1>1, <2>1 DEF Ended
<1>4. ~(round[n] < round[m])
  BY <1>1, <1>3 DEF Together
<1> QED
  BY <1>1, <1>2, <1>4

LEMMA ViewsStep ==
    ASSUME TypeOK, Views, [Next]_vars
    PROVE  Views'
<1>1. view \in [Node -> SUBSET Node]
  BY DEF TypeOK
<1>2. ASSUME NEW n \in Node, CastVote(n) PROVE Views'
  <2>1. PICK vote \in Vote :
          network' = network \cup {[from |-> n, to |-> m, vote |-> vote] : m \in view[n]}
    BY <1>2, CastEffect
  <2> QED
    BY <1>2, <2>1 DEF Views, CastVote
<1>3. ASSUME NEW n \in Node, NEW m \in Node, LoseNeighbor(n, m) PROVE Views'
  BY <1>1, <1>3 DEF Views, LoseNeighbor
<1>4. ASSUME UNCHANGED view, network' \subseteq network PROVE Views'
  BY <1>4 DEF Views
<1> QED
  BY <1>2, <1>3, <1>4 DEF Next, NodeStep, Tally, NextRound, Crash, ReceiveVote, vars

LEMMA VotesStep ==
    ASSUME TypeOK, Cast, Unique, [Next]_vars
    PROVE  Cast' /\ Unique'
<1>1. CASE \A n \in Node : ~ CastVote(n)
  <2>1. \A m \in Node, v \in Vote : IsVote(m, v)' => IsVote(m, v)
    BY <1>1, NoNewVotes
  <2>2. ASSUME NEW m \in Node, NEW v \in Vote, IsVote(m, v)' PROVE HasVoted(m, v.cast)'
    BY <2>1, <2>2, VoteFields, VotedStays DEF Cast
  <2> QED
    BY <2>1, <2>2 DEF Cast, Unique
<1>2. ASSUME NEW n \in Node, CastVote(n) PROVE Cast' /\ Unique'
  <2>0. PICK vote \in Vote : Adds(n, vote)
    BY <1>2, CastAdds
  <2>1. /\ vote.cast = round[n]
        /\ \A m \in Node, v \in Vote : IsVote(m, v)' => IsVote(m, v) \/ (m = n /\ v = vote)
    BY <2>0 DEF Adds
  <2>2. HasVoted(n, vote.cast)'
    <3>1. phase \in [Node -> {"vote", "wait", "elected", "down"}]
      BY DEF TypeOK
    <3> QED
      BY <1>2, <2>1, <3>1 DEF CastVote, HasVoted
  <2>3. ASSUME NEW m \in Node, NEW v \in Vote, IsVote(m, v)' PROVE HasVoted(m, v.cast)'
    <3>1. CASE m = n /\ v = vote
      BY <2>2, <3>1
    <3>2. CASE IsVote(m, v)
      BY <3>2, VoteFields, VotedStays DEF Cast
    <3> QED
      BY <2>1, <2>3, <3>1, <3>2
  <2>4. ASSUME NEW v \in Vote, IsVote(n, v) PROVE v.cast # round[n]
    <3>1. HasVoted(n, v.cast) /\ v.cast \in Nat /\ round[n] \in Nat
      BY <2>4, VoteFields DEF Cast, TypeOK, Round
    <3> QED
      BY <1>2, <3>1 DEF HasVoted, CastVote
  <2>5. ASSUME NEW m \in Node, NEW v \in Vote, NEW w \in Vote,
               IsVote(m, v)', IsVote(m, w)', v.cast = w.cast
        PROVE  v = w
    <3>1. CASE IsVote(m, v) /\ IsVote(m, w)
      BY <2>5, <3>1 DEF Unique
    <3>2. CASE ~ (IsVote(m, v) /\ IsVote(m, w))
      BY <2>1, <2>4, <2>5, <3>2
    <3> QED
      BY <3>1, <3>2
  <2> QED
    BY <2>3, <2>5 DEF Cast, Unique
<1> QED
  BY <1>1, <1>2

LEMMA OnceStep ==
    ASSUME TypeOK, Views, Cast, Unique, Once, [Next]_vars
    PROVE  Once'
<1>1. /\ votes \in [Node -> [Node -> Vote \cup {None}]]
      /\ round \in [Node -> Round]
      /\ \A r \in Round : r \in Nat
      /\ \A v \in Vote : v.cast \in Round
  BY VoteFields DEF TypeOK, Round
<1>2. ASSUME NEW n \in Node, NEW m \in Node, NEW v \in Vote,
             [from |-> m, to |-> n, vote |-> v] \in network
      PROVE  IsVote(m, v)
  BY <1>2 DEF IsVote
<1>3. ASSUME NEW x \in Node, CastVote(x) PROVE Once'
  <2>0. PICK vote \in Vote : Adds(x, vote)
    BY <1>3, CastAdds
  <2>1. /\ vote.cast = round[x]
        /\ \A k, m \in Node : votes'[k][m] = IF k = x /\ m = x THEN vote ELSE votes[k][m]
        /\ \A k, m \in Node, v \in Vote :
              [from |-> m, to |-> k, vote |-> v] \in network' =>
                  \/ [from |-> m, to |-> k, vote |-> v] \in network
                  \/ m = x /\ v = vote /\ k \in view[x]
    BY <2>0 DEF Adds
  <2>2. ASSUME NEW v \in Vote, IsVote(x, v) PROVE v.cast # round[x]
    <3>1. HasVoted(x, v.cast) /\ v.cast \in Nat /\ round[x] \in Nat
      BY <1>1, <2>2 DEF Cast
    <3> QED
      BY <1>3, <3>1 DEF HasVoted, CastVote
  <2>3. ASSUME NEW n \in Node, NEW m \in Node, NEW v \in Vote, NEW w \in Vote,
               [from |-> m, to |-> n, vote |-> v] \in network', votes'[n][m] = w
        PROVE  v.cast # w.cast
    <3>1. n # m
      <4>1. Views'
        BY ViewsStep
      <4> QED
        BY <2>3, <4>1 DEF Views
    <3>2. votes[n][m] = w /\ IsVote(m, w)
      BY <2>1, <2>3, <3>1 DEF IsVote
    <3>3. CASE [from |-> m, to |-> n, vote |-> v] \in network
      BY <3>2, <3>3 DEF Once
    <3>4. CASE m = x /\ v = vote
      BY <2>1, <2>2, <3>2, <3>4
    <3> QED
      BY <2>1, <2>3, <3>3, <3>4
  <2> QED
    BY <2>3 DEF Once
<1>4. ASSUME NEW x \in Node, Tally(x) PROVE Once'
  BY <1>1, <1>4 DEF Once, Tally, VotesAfter, NoVotes
<1>5. ASSUME NEW message \in network, ReceiveVote(message) PROVE Once'
  <2>1. /\ message.from \in Node /\ message.to \in Node /\ message.vote \in Vote
        /\ message = [from |-> message.from, to |-> message.to, vote |-> message.vote]
    BY MessageFields
  <2>2. ASSUME NEW n \in Node, NEW m \in Node, NEW v \in Vote, NEW w \in Vote,
               [from |-> m, to |-> n, vote |-> v] \in network', votes'[n][m] = w
        PROVE  v.cast # w.cast
    <3>1. /\ [from |-> m, to |-> n, vote |-> v] \in network
          /\ [from |-> m, to |-> n, vote |-> v] # message
      BY <1>5, <2>2 DEF ReceiveVote
    <3>2. CASE votes[n][m] = w
      BY <3>1, <3>2 DEF Once
    <3>3. CASE votes[n][m] # w
      <4>1. n = message.to /\ m = message.from /\ w = message.vote
        BY <1>1, <1>5, <2>1, <2>2, <3>3 DEF ReceiveVote
      <4>2. v # w
        BY <2>1, <3>1, <4>1
      <4>3. IsVote(m, v) /\ IsVote(m, w)
        BY <2>1, <3>1, <4>1 DEF IsVote
      <4> QED
        BY <4>2, <4>3 DEF Unique
    <3> QED
      BY <3>2, <3>3
  <2> QED
    BY <2>2 DEF Once
<1>6. ASSUME UNCHANGED votes, network' \subseteq network PROVE Once'
  BY <1>6 DEF Once
<1> QED
  BY <1>3, <1>4, <1>5, <1>6 DEF Next, NodeStep, NextRound, Crash, LoseNeighbor, vars

LEMMA RoundsStep ==
    ASSUME TypeOK, Together, Ended, Elections, [Next]_vars
    PROVE  Together' /\ Ended' /\ Elections'
<1>1. /\ phase \in [Node -> {"vote", "wait", "elected", "down"}]
      /\ round \in [Node -> Round]
      /\ trainSet \in [Round -> [Node -> (SUBSET Eligible) \cup {None}]]
      /\ \A r \in Round : r \in Nat
      /\ \A n \in Node : round[n] \in Round
  BY DEF TypeOK, Round
<1>2. \A n \in Node, r \in Round : trainSet[r][n] # None => trainSet'[r][n] # None
  BY TrainSetStays
<1>3. ASSUME NEW n \in Node, Tally(n) PROVE Together' /\ Ended' /\ Elections'
  <2>1. trainSet' = [trainSet EXCEPT ![round[n]] =
                        [@ EXCEPT ![n] = Elected(Poll(n), view[n] \cup {n})]]
    BY <1>3 DEF Tally
  <2>2. Elected(Poll(n), view[n] \cup {n}) # None
    <3>1. Elected(Poll(n), view[n] \cup {n}) \in SUBSET Node
      BY DEF Elected
    <3> QED
      BY <3>1
  <2>3. round' = round /\ phase' = [phase EXCEPT ![n] = "elected"]
    BY <1>3 DEF Tally
  <2>4. Together'
    BY <1>2, <2>3 DEF Together
  <2>5. Ended'
    BY <1>1, <2>1, <2>3 DEF Ended
  <2>6. Elections'
    BY <1>1, <1>2, <2>1, <2>2, <2>3 DEF Elections
  <2> QED
    BY <2>4, <2>5, <2>6
<1>4. ASSUME NEW n \in Node, NextRound(n) PROVE Together' /\ Ended' /\ Elections'
  <2>1. /\ round' = [round EXCEPT ![n] = @ + 1] /\ phase' = [phase EXCEPT ![n] = "vote"]
        /\ trainSet' = trainSet
        /\ \A m \in Node : trainSet[round[n]][m] # None
    BY <1>4 DEF NextRound
  <2>2. Together'
    BY <1>1, <2>1 DEF Together
  <2>3. Ended'
    BY <1>1, <2>1 DEF Ended
  <2>4. Elections'
    BY <1>1, <2>1 DEF Elections
  <2> QED
    BY <2>2, <2>3, <2>4
<1>5. ASSUME NEW n \in Node, CastVote(n) \/ Crash(n) PROVE Together' /\ Ended' /\ Elections'
  <2>1. /\ UNCHANGED <<round, trainSet>>
        /\ \/ phase[n] = "vote" /\ phase' = [phase EXCEPT ![n] = "wait"]
           \/ phase' = [phase EXCEPT ![n] = "down"]
    BY <1>5 DEF CastVote, Crash
  <2> QED
    BY <1>1, <2>1 DEF Together, Ended, Elections
<1>6. ASSUME UNCHANGED <<phase, round, trainSet>> PROVE Together' /\ Ended' /\ Elections'
  BY <1>6 DEF Together, Ended, Elections
<1> QED
  BY <1>3, <1>4, <1>5, <1>6 DEF Next, NodeStep, ReceiveVote, LoseNeighbor, vars

LEMMA OutcomesStep ==
    ASSUME ~ Timeouts, TypeOK, Outcomes, [Next]_vars
    PROVE  Outcomes'
<1>1. /\ round \in [Node -> Round]
      /\ view \in [Node -> SUBSET Node]
      /\ trainSet \in [Round -> [Node -> (SUBSET Eligible) \cup {None}]]
      /\ counted \in [Round -> [Node -> [Node -> Vote \cup {None}]]]
      /\ tallied \in [Round -> [Node -> SUBSET Node]]
  BY DEF TypeOK
<1>2. ASSUME NEW x \in Node, Tally(x) PROVE Outcomes'
  <2>1. /\ trainSet' = [trainSet EXCEPT ![round[x]] =
                           [@ EXCEPT ![x] = Elected(Poll(x), view[x] \cup {x})]]
        /\ counted' = [counted EXCEPT ![round[x]] = [@ EXCEPT ![x] = Poll(x)]]
        /\ tallied' = [tallied EXCEPT ![round[x]] = [@ EXCEPT ![x] = view[x] \cup {x}]]
        /\ view' = view
        /\ Needed(x) \subseteq Counted(x)
    BY <1>2 DEF Tally
  <2>2. \A m \in Node : Poll(x)[m] # None <=> m \in view[x] \cup {x}
    BY <2>1 DEF Poll, Counted, Needed
  <2>3. ASSUME NEW r \in Round, NEW n \in Node, trainSet'[r][n] # None
        PROVE  /\ trainSet'[r][n] = Elected(counted'[r][n], tallied'[r][n])
               /\ \A m \in Node : counted'[r][n][m] # None <=> m \in tallied'[r][n]
               /\ view'[n] \cup {n} \subseteq tallied'[r][n]
    <3>1. CASE r = round[x] /\ n = x
      <4>1. /\ trainSet'[r][n] = Elected(Poll(x), view[x] \cup {x})
            /\ counted'[r][n] = Poll(x)
            /\ tallied'[r][n] = view[x] \cup {x}
        BY <1>1, <2>1, <3>1
      <4> QED
        BY <2>1, <2>2, <3>1, <4>1
    <3>2. CASE ~(r = round[x] /\ n = x)
      <4>1. /\ trainSet'[r][n] = trainSet[r][n]
            /\ counted'[r][n] = counted[r][n]
            /\ tallied'[r][n] = tallied[r][n]
        BY <1>1, <2>1, <3>2
      <4> QED
        BY <2>1, <2>3, <4>1 DEF Outcomes
    <3> QED
      BY <3>1, <3>2
  <2> QED
    BY <2>3 DEF Outcomes
<1>3. ASSUME NEW x \in Node, NEW y \in Node, LoseNeighbor(x, y) PROVE Outcomes'
  <2>1. /\ UNCHANGED <<trainSet, counted, tallied>>
        /\ \A n \in Node : view'[n] \subseteq view[n]
    BY <1>1, <1>3 DEF LoseNeighbor
  <2> QED
    BY <2>1 DEF Outcomes
<1>4. ASSUME UNCHANGED <<trainSet, counted, tallied, view>> PROVE Outcomes'
  BY <1>4 DEF Outcomes
<1> QED
  BY <1>2, <1>3, <1>4 DEF Next, NodeStep, CastVote, NextRound, Crash, ReceiveVote, vars

LEMMA FreshStep ==
    ASSUME ~ Timeouts, TypeOK, Views, Cast, Once, Together, Ended, Elections, Outcomes, Fresh,
           VotesOfTheRound, [Next]_vars
    PROVE  Fresh'
<1>1. /\ phase \in [Node -> {"vote", "wait", "elected", "down"}]
      /\ round \in [Node -> Round]
      /\ view \in [Node -> SUBSET Node]
      /\ votes \in [Node -> [Node -> Vote \cup {None}]]
      /\ counted \in [Round -> [Node -> [Node -> Vote \cup {None}]]]
      /\ \A r \in Round : r \in Nat
      /\ \A n \in Node : round[n] \in Round
      /\ \A v \in Vote : v.cast \in Round
  BY VoteFields DEF TypeOK, Round
<1>2. ASSUME NEW n \in Node, NEW m \in Node, NEW v \in Vote,
             phase'[n] # "down", m \in view'[n] \cup {n}, IsHeard(n, m, v)'
      PROVE  v.cast >= round'[n] /\ (phase'[n] = "elected" => v.cast > round'[n])
  <2>1. ASSUME NEW x \in Node, CastVote(x)
        PROVE  v.cast >= round'[n] /\ (phase'[n] = "elected" => v.cast > round'[n])
    <3>0. PICK vote \in Vote : Adds(x, vote)
      BY <2>1, CastAdds
    <3>1. /\ vote.cast = round[x]
          /\ \A k, l \in Node, w \in Vote :
                IsHeard(k, l, w)' =>
                    IsHeard(k, l, w) \/ (l = x /\ w = vote /\ k \in view[x] \cup {x})
      BY <3>0 DEF Adds
    <3>2. /\ phase[x] = "vote" /\ phase' = [phase EXCEPT ![x] = "wait"]
          /\ UNCHANGED <<round, view>>
      BY <2>1 DEF CastVote
    <3>3. CASE IsHeard(n, m, v)
      BY <1>1, <1>2, <3>2, <3>3 DEF Fresh
    <3>4. CASE m = x /\ v = vote
      <4>1. round[n] <= round[x]
        <5>1. trainSet[round[x]][x] = None
          <6>1. round[x] \in Round /\ phase[x] = "vote"
            BY <1>1, <3>2
          <6>2. trainSet[round[x]][x] # None =>
                    \/ round[x] < round[x]
                    \/ round[x] = round[x] /\ phase[x] \in {"elected", "down"}
            BY <6>1, Zenon DEF Ended
          <6>3. ~(round[x] < round[x])
            BY <1>1
          <6>4. phase[x] \notin {"elected", "down"}
            BY <6>1
          <6> QED
            BY <6>2, <6>3, <6>4
        <5> QED
          <6>1. /\ round[x] \in Round /\ n \in Node /\ x \in Node
                /\ round[x] \in Nat /\ round[n] \in Nat
            BY <1>1
          <6>2. ~(round[x] < round[n])
            BY <5>1, <6>1 DEF Together
          <6> QED
            BY <6>1, <6>2
      <4>2. ASSUME phase'[n] = "elected", round[n] = round[x] PROVE FALSE
        <5>1. phase[n] = "elected" /\ n # x
          BY <1>1, <3>2, <4>2
        <5>2. trainSet[round[n]][n] # None
          BY <5>1 DEF Elections
        <5>3. counted[round[n]][n][x] # None
          <6>1. x \in view[n]
            BY <1>2, <3>2, <3>4, <5>1
          <6>2. round[n] \in Round
            BY <1>1
          <6>3. /\ \A k \in Node : counted[round[n]][n][k] # None <=> k \in tallied[round[n]][n]
                /\ view[n] \cup {n} \subseteq tallied[round[n]][n]
            BY <5>2, <6>2 DEF Outcomes
          <6> QED
            BY <6>1, <6>3
        <5>4. /\ counted[round[n]][n][x] \in Vote
              /\ counted[round[n]][n][x].cast = round[n]
          BY <1>1, <5>3 DEF VotesOfTheRound
        <5>5. HasVoted(x, round[x])
          BY <1>1, <4>2, <5>4 DEF Cast, IsVote
        <5> QED
          BY <1>1, <3>2, <5>5 DEF HasVoted
      <4>3. /\ round'[n] = round[n] /\ v.cast = round[x]
            /\ round[n] \in Nat /\ round[x] \in Nat
        BY <1>1, <3>1, <3>2, <3>4
      <4> QED
        BY <4>1, <4>2, <4>3
    <3> QED
      BY <1>2, <3>1, <3>3, <3>4
  <2>2. CASE \A x \in Node : ~ CastVote(x)
    <3>1. IsHeard(n, m, v)
      BY <1>2, <2>2, NothingNewIsHeard
    <3>2. ASSUME Tally(n)
          PROVE  v.cast >= round'[n] /\ (phase'[n] = "elected" => v.cast > round'[n])
      <4>1. phase[n] = "wait" /\ round' = round /\ view' = view /\ network' = network
        BY <3>2 DEF Tally
      <4>2. [from |-> m, to |-> n, vote |-> v] \in network
        BY <1>1, <1>2, <3>2 DEF IsHeard, Tally, VotesAfter, NoVotes
      <4>3. PICK w \in Vote : votes[n][m] = w
        BY <1>1, <1>2, <3>2, <4>1 DEF Tally, Needed, Counted
      <4>4. v.cast # w.cast
        BY <4>2, <4>3 DEF Once
      <4>5. w.cast <= round[n] /\ v.cast <= round[n]
        <5>1. IsVote(m, w) /\ IsVote(m, v)
          BY <4>2, <4>3 DEF IsVote
        <5> QED
          BY <4>1, <5>1, NoneIsAhead
      <4>6. w.cast >= round[n] /\ v.cast >= round[n]
        BY <1>2, <3>1, <4>1, <4>3 DEF Fresh, IsHeard
      <4>7. v.cast \in Nat /\ w.cast \in Nat /\ round[n] \in Nat
        BY <1>1, VoteFields
      <4> QED
        BY <4>4, <4>5, <4>6, <4>7
    <3>3. ASSUME NextRound(n)
          PROVE  v.cast >= round'[n] /\ (phase'[n] = "elected" => v.cast > round'[n])
      <4>1. /\ phase[n] = "elected" /\ view' = view /\ phase'[n] = "vote"
            /\ round'[n] = round[n] + 1
        BY <1>1, <3>3 DEF NextRound
      <4>2. v.cast > round[n]
        BY <1>2, <3>1, <4>1 DEF Fresh
      <4> QED
        BY <1>1, <4>1, <4>2
    <3>4. CASE ~ Tally(n) /\ ~ NextRound(n)
      <4>1. /\ phase[n] # "down" /\ round'[n] = round[n]
            /\ (phase'[n] = "elected" => phase[n] = "elected")
        <5>1. ASSUME NEW x \in Node, Tally(x) \/ NextRound(x) \/ Crash(x)
              PROVE  /\ phase[n] # "down" /\ round'[n] = round[n]
                     /\ (phase'[n] = "elected" => phase[n] = "elected")
          BY <1>1, <1>2, <3>4, <5>1 DEF Tally, NextRound, Crash
        <5>2. ASSUME UNCHANGED <<phase, round>>
              PROVE  /\ phase[n] # "down" /\ round'[n] = round[n]
                     /\ (phase'[n] = "elected" => phase[n] = "elected")
          BY <1>2, <5>2
        <5> QED
          BY <2>2, <5>1, <5>2 DEF Next, NodeStep, ReceiveVote, LoseNeighbor, vars
      <4>2. view'[n] \subseteq view[n]
        <5>1. ASSUME NEW x \in Node, NEW y \in Node, LoseNeighbor(x, y)
              PROVE  view'[n] \subseteq view[n]
          BY <1>1, <5>1 DEF LoseNeighbor
        <5> QED
          BY <2>2, <5>1 DEF Next, NodeStep, Tally, NextRound, Crash, ReceiveVote, vars
      <4> QED
        BY <1>2, <3>1, <4>1, <4>2 DEF Fresh
    <3> QED
      BY <3>2, <3>3, <3>4
  <2> QED
    BY <2>1, <2>2
<1> QED
  BY <1>2 DEF Fresh

LEMMA VotesOfTheRoundStep ==
    ASSUME TypeOK, Cast, Together, Ended, Fresh, VotesOfTheRound, [Next]_vars
    PROVE  VotesOfTheRound'
<1>1. /\ round \in [Node -> Round]
      /\ view \in [Node -> SUBSET Node]
      /\ votes \in [Node -> [Node -> Vote \cup {None}]]
      /\ counted \in [Round -> [Node -> [Node -> Vote \cup {None}]]]
      /\ \A r \in Round : r \in Nat
      /\ \A v \in Vote : v.cast \in Round
  BY VoteFields DEF TypeOK, Round
<1>2. ASSUME NEW x \in Node, Tally(x) PROVE VotesOfTheRound'
  <2>1. /\ phase[x] = "wait"
        /\ counted' = [counted EXCEPT ![round[x]] = [@ EXCEPT ![x] = Poll(x)]]
    BY <1>2 DEF Tally
  <2>2. ASSUME NEW m \in Node, Poll(x)[m] # None PROVE Poll(x)[m].cast = round[x]
    <3>1. Poll(x)[m] = votes[x][m] /\ m \in view[x] \cup {x} /\ votes[x][m] \in Vote
      BY <1>1, <2>2 DEF Poll, Counted
    <3>2. IsVote(m, votes[x][m]) /\ IsHeard(x, m, votes[x][m])
      BY DEF IsVote, IsHeard
    <3>3. votes[x][m].cast <= round[x]
      BY <2>1, <3>1, <3>2, NoneIsAhead
    <3>4. votes[x][m].cast >= round[x]
      BY <2>1, <3>1, <3>2 DEF Fresh
    <3>5. votes[x][m].cast \in Nat /\ round[x] \in Nat
      BY <1>1, <3>1
    <3> QED
      BY <3>1, <3>3, <3>4, <3>5
  <2>3. ASSUME NEW r \in Round, NEW n \in Node, NEW m \in Node, counted'[r][n][m] # None
        PROVE  counted'[r][n][m].cast = r
    <3>1. CASE r = round[x] /\ n = x
      BY <1>1, <2>1, <2>2, <2>3, <3>1
    <3>2. CASE ~(r = round[x] /\ n = x)
      BY <1>1, <2>1, <2>3, <3>2 DEF VotesOfTheRound
    <3> QED
      BY <3>1, <3>2
  <2> QED
    BY <2>3 DEF VotesOfTheRound
<1>3. ASSUME UNCHANGED counted PROVE VotesOfTheRound'
  BY <1>3 DEF VotesOfTheRound
<1> QED
  BY <1>2, <1>3 DEF Next, NodeStep, CastVote, NextRound, Crash, ReceiveVote, LoseNeighbor, vars

-----------------------------------------------------------------------------
\* The theorems.

LEMMA InitIsGood == Init => IInv
<1> SUFFICES ASSUME Init PROVE IInv
  OBVIOUS
<1> USE DEF Init, NoVotes
<1>1. TypeOK
  <2>1. 0 \in Round
    BY DEF Round
  <2>2. NoVotes \in [Node -> Vote \cup {None}]
    OBVIOUS
  <2>3. /\ votes \in [Node -> [Node -> Vote \cup {None}]]
        /\ [n \in Node |-> NoVotes] \in [Node -> [Node -> Vote \cup {None}]]
    BY <2>2
  <2>4. counted \in [Round -> [Node -> [Node -> Vote \cup {None}]]]
    BY <2>3
  <2>5. trainSet \in [Round -> [Node -> (SUBSET Eligible) \cup {None}]]
    OBVIOUS
  <2>6. tallied \in [Round -> [Node -> SUBSET Node]]
    OBVIOUS
  <2> HIDE DEF NoVotes
  <2> QED
    BY <2>1, <2>3, <2>4, <2>5, <2>6 DEF TypeOK
<1>2. \A m \in Node, v \in Vote : ~ IsVote(m, v)
  BY DEF IsVote
<1>3. Cast /\ Unique
  BY <1>2 DEF Cast, Unique
<1>4. Views /\ Once
  BY DEF Views, Once
<1>5. Together
  BY DEF Together, Round
<1>6. Ended /\ Elections /\ Outcomes /\ VotesOfTheRound
  BY DEF Ended, Elections, Outcomes, VotesOfTheRound
<1>7. Fresh
  BY DEF Fresh, IsHeard
<1> QED
  BY <1>1, <1>3, <1>4, <1>5, <1>6, <1>7 DEF IInv

\* The inductive invariant: without the vote timeout, votes are cast once in a round
\* by a node that is in it, what a node holds or will receive of its neighbours is of
\* the election it is in or of a later one, and a train set is that of the poll that
\* was counted, to which the whole view contributed.
THEOREM ElectionInvariance ==
    ASSUME ~ Timeouts
    PROVE  Spec => []IInv
<1>1. IInv /\ [Next]_vars => IInv'
  BY TypeStep, ViewsStep, VotesStep, OnceStep, RoundsStep, OutcomesStep, FreshStep,
     VotesOfTheRoundStep DEF IInv
<1> QED
  BY InitIsGood, <1>1, PTL DEF Spec

\* Every variable of the election keeps its type, with timeouts or without.
THEOREM ElectionTypeCorrect == Spec => []TypeOK
<1>1. Init => TypeOK
  BY InitIsGood DEF IInv
<1>2. TypeOK /\ [Next]_vars => TypeOK'
  BY TypeStep
<1> QED
  BY <1>1, <1>2, PTL DEF Spec

\* Without the vote timeout, nodes that tally a round in the same view of the network
\* elect the same trainers, however votes of this round and of the next overtake each
\* other and whoever goes down: __aggregate_votes and validate_train_set.
THEOREM TrainSetsAgree ==
    ASSUME ~ Timeouts
    PROVE  Spec => []SameTrainSet
<1>1. IInv => SameTrainSet
  <2> SUFFICES ASSUME IInv, NEW r \in Round, NEW n \in Node, NEW m \in Node,
                      trainSet[r][n] # None, trainSet[r][m] # None,
                      tallied[r][n] = tallied[r][m]
               PROVE  trainSet[r][n] = trainSet[r][m]
    BY DEF SameTrainSet
  <2>1. /\ counted[r][n] \in [Node -> Vote \cup {None}]
        /\ counted[r][m] \in [Node -> Vote \cup {None}]
    BY DEF IInv, TypeOK
  <2>2. ASSUME NEW k \in Node PROVE counted[r][n][k] = counted[r][m][k]
    <3>1. counted[r][n][k] # None <=> counted[r][m][k] # None
      BY DEF IInv, Outcomes
    <3>2. CASE counted[r][n][k] # None
      <4>1. /\ counted[r][n][k] \in Vote /\ counted[r][m][k] \in Vote
            /\ counted[r][n][k].cast = counted[r][m][k].cast
        BY <2>1, <3>1, <3>2 DEF IInv, VotesOfTheRound
      <4>2. IsVote(k, counted[r][n][k]) /\ IsVote(k, counted[r][m][k])
        BY DEF IsVote
      <4> QED
        BY <4>1, <4>2 DEF IInv, Unique
    <3> QED
      BY <3>1, <3>2
  <2>3. counted[r][n] = counted[r][m]
    <3>1. /\ counted[r][n] = [k \in Node |-> counted[r][n][k]]
          /\ counted[r][m] = [k \in Node |-> counted[r][m][k]]
      BY <2>1
    <3> QED
      BY <2>2, <3>1
  <2>4. /\ trainSet[r][n] = Elected(counted[r][n], tallied[r][n])
        /\ trainSet[r][m] = Elected(counted[r][m], tallied[r][m])
    BY DEF IInv, Outcomes
  <2> QED
    BY <2>3, <2>4
<1> QED
  BY ElectionInvariance, <1>1, PTL

\* Without the vote timeout, every vote counts in the election it was cast in, though
\* votes carry no round once they are stored (vote_train_set_command.py).
THEOREM VotesCountInTheirRound ==
    ASSUME ~ Timeouts
    PROVE  Spec => []VotesOfTheRound
<1>1. IInv => VotesOfTheRound
  BY DEF IInv
<1> QED
  BY ElectionInvariance, <1>1, PTL

-----------------------------------------------------------------------------
\* Both: the election and the gossip that carries its messages, without the vote
\* timeout and with windows that hold the messages of the run.  Every vote counts in
\* the election it was cast in, and no node executes a message twice nor its own,
\* however many paths bring it (check_and_set_processed of gossiper.py).
THEOREM EverythingCountsOnce ==
    ASSUME ~ Timeouts, FewMessages
    PROVE  Spec /\ Gossip!Spec => []CountedOnce
<1>1. GossipInv => Gossip!ProcessedOnce
  BY ProcessedOnce
<1>2. VotesOfTheRound /\ Gossip!ProcessedOnce => CountedOnce
  BY DEF CountedOnce
<1> QED
  BY VotesCountInTheirRound, GossipInvariance, <1>1, <1>2, PTL
=============================================================================
