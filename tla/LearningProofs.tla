---------------------------- MODULE LearningProofs ----------------------------
(***************************************************************************)
(* Theorems about LearningSession, for every network, any number of nodes, *)
(* rounds, threads and starts, and whatever users stop; that trained       *)
(* models are kept, for an experiment that is started once.  And about the *)
(* rounds of LearningRounds, for any federation: that a minority of liars  *)
(* does not lead the median and Krum far away.                             *)
(***************************************************************************)
EXTENDS LearningSession, LearningRounds, FiniteSetTheorems, SequenceTheorems,
        WellFoundedInduction, TLAPS

Steps == {"none", "begin", "start", "wait", "gossip", "offer", "send", "rounds", "finish",
          "failing", "failed", "lost", "ended"}

\* The types the proof needs.
Shape ==
    /\ held \in [Node -> BOOLEAN]
    /\ model \in [Node -> Node \cup {Trained}]
    /\ stage \in [Node -> {"start", "rounds", "finish"}]
    /\ pc \in [Thread -> Steps]
    /\ user \in [Node -> {"idle", "starting"}]

\* Models that come from where learning was started.
Shared == Starters \cup {Trained}

\* A model is the node's own or shared, and it is shared as soon as the lock of
\* the node is released, its workflow has passed the first stage or one of its
\* threads has acquired the lock.  Only a starter releases its lock by itself.
SharedInv ==
    /\ \A n \in Node : model[n] \in {n} \cup Shared
    /\ \A n \in Node : ~held[n] => model[n] \in Shared
    /\ \A n \in Node : stage[n] # "start" => model[n] \in Shared
    /\ \A n \in Node : user[n] = "starting" => n \in Starters
    /\ \A t \in Thread : pc[t] \in Past => model[t[1]] \in Shared

IInv == Shape /\ SharedInv

USE DEF Steps

LEMMA InitIInv == Init => IInv
  BY DEF Init, IInv, Shape, SharedInv, Past

\* Threads that begin or whose lock is replaced are past nothing.
LEMMA BegunShape ==
    ASSUME Shape, NEW nodes
    PROVE  /\ Begun(nodes, pc) \in [Thread -> Steps]
           /\ \A t \in Thread : Begun(nodes, pc)[t] \in {"begin", pc[t]}
  BY DEF Shape, Begun

LEMMA UnlockedShape ==
    ASSUME Shape, NEW nodes
    PROVE  /\ Unlocked(nodes, pc) \in [Thread -> Steps]
           /\ \A t \in Thread : Unlocked(nodes, pc)[t] \in {"lost", pc[t]}
  BY DEF Shape, Unlocked

LEMMA ThreadNode == \A t \in Thread : t[1] \in Node
  BY DEF Thread

\* What a clear of the state leaves: locks are locked, models and stages kept.
LEMMA ClearStep ==
    ASSUME IInv, NEW nodes, Cleared(nodes), UNCHANGED <<model, stage, user>>,
           pc' \in [Thread -> Steps],
           \A t \in Thread : pc'[t] \in {"ended", "failed", "lost", pc[t]}
    PROVE  IInv'
<1>1. held' \in [Node -> BOOLEAN] /\ \A n \in Node : ~held'[n] => ~held[n]
  BY DEF IInv, Shape, Cleared
<1>2. Shape'
  BY <1>1 DEF IInv, Shape
<1>3. SharedInv'
  BY <1>1 DEF IInv, SharedInv, Past
<1> QED
  BY <1>2, <1>3 DEF IInv

LEMMA UserStep ==
    ASSUME IInv, NEW n \in Node, SetStartLearning(n) \/ StartItself(n) \/ SetStopLearning(n)
    PROVE  IInv'
<1> USE BegunShape, UnlockedShape DEF IInv
<1>1. CASE SetStartLearning(n)
  BY <1>1 DEF SetStartLearning, Shape, SharedInv, Past
<1>2. CASE StartItself(n)
  <2>1. n \in Starters /\ model[n] \in Shared
    BY <1>2 DEF StartItself, SharedInv, Shared
  <2>2. pc' \in [Thread -> Steps]
        /\ \A t \in Thread : pc'[t] \in {"begin", pc[t]}
    BY <1>2 DEF StartItself, Shape
  <2>3. held' \in [Node -> BOOLEAN] /\ \A m \in Node \ {n} : held'[m] = held[m]
    BY <1>2 DEF StartItself, Shape
  <2>4. user' \in [Node -> {"idle", "starting"}] /\ \A m \in Node : user'[m] \in {"idle", user[m]}
    BY <1>2 DEF StartItself, Shape
  <2>5. UNCHANGED <<model, stage>>
    BY <1>2 DEF StartItself
  <2> QED
    BY <2>1, <2>2, <2>3, <2>4, <2>5 DEF Shape, SharedInv, Past
<1>3. CASE SetStopLearning(n)
  BY <1>3, ClearStep DEF SetStopLearning
<1> QED
  BY <1>1, <1>2, <1>3

LEMMA ReceiveStep ==
    ASSUME IInv, NEW msg \in network, Receive(msg)
    PROVE  IInv'
<1> USE BegunShape, UnlockedShape DEF IInv
<1>1. CASE ReceiveStart(msg)
  BY <1>1 DEF ReceiveStart, Shape, SharedInv, Past
<1>2. CASE ReceiveInitialized(msg)
  BY <1>2 DEF ReceiveInitialized, Shape, SharedInv, Past
<1>3. CASE ReceiveStop(msg)
  BY <1>3, ClearStep DEF ReceiveStop
<1> QED
  BY <1>1, <1>2, <1>3 DEF Receive

LEMMA LearningStepStep ==
    ASSUME IInv, NEW t \in Thread, LearningStep(t)
    PROVE  IInv'
<1> USE ThreadNode DEF IInv, Shape, SharedInv, Past, Goto
<1>1. CASE BeginLearning(t)
  BY <1>1 DEF BeginLearning, Entered
<1>2. CASE StartLearningStage(t)
  BY <1>2 DEF StartLearningStage, Entered
<1>3. CASE Acquire(t)
  BY <1>3 DEF Acquire, Released
<1>4. CASE GossipEnds(t)
  BY <1>4 DEF GossipEnds, Returned
<1>5. CASE GossipPeriod(t)
  BY <1>5 DEF GossipPeriod
<1>6. CASE RunRound(t)
  BY <1>6 DEF RunRound, Returned, Shared
<1>7. CASE RoundFinishedStage(t)
  <2>1. CASE Cleared({t[1]}) /\ pc' = [Unlocked({t[1]}, pc) EXCEPT ![t] = "ended"] /\ UNCHANGED stage
    <3>1. UNCHANGED <<model, stage, user>>
      BY <1>7, <2>1 DEF RoundFinishedStage
    <3> HIDE DEF SharedInv
    <3> QED
      BY <2>1, <3>1, UnlockedShape, ClearStep
  <2>2. CASE pc' \in {[pc EXCEPT ![t] = "failing"], [pc EXCEPT ![t] = "rounds"]}
             /\ UNCHANGED held /\ stage' \in {stage, [stage EXCEPT ![t[1]] = "rounds"]}
             /\ pc[t] = "finish"
    BY <1>7, <2>2 DEF RoundFinishedStage
  <2> QED
    BY <1>7, <2>1, <2>2 DEF RoundFinishedStage
<1>8. CASE Fail(t)
  <2>1. /\ Cleared({t[1]}) /\ UNCHANGED <<model, stage, user>>
        /\ pc' = [Unlocked({t[1]}, pc) EXCEPT ![t] = "failed"]
    BY <1>8 DEF Fail
  <2> HIDE DEF SharedInv
  <2> QED
    BY <2>1, UnlockedShape, ClearStep
<1>9. ASSUME NEW m \in Node, Offer(t, m) PROVE IInv'
  BY <1>9 DEF Offer, Recorded
<1>10. ASSUME NEW m \in Node, SendModel(t, m) PROVE IInv'
  <2>1. /\ pc' = [pc EXCEPT ![t] = "gossip"] /\ UNCHANGED <<stage, user>>
        /\ pc[t] = "send"
        /\ \/ model' = [model EXCEPT ![m] = model[t[1]]] /\ held' = [held EXCEPT ![m] = FALSE]
           \/ UNCHANGED <<model, held>>
    BY <1>10 DEF SendModel
  <2>2. model[t[1]] \in Shared /\ model[t[1]] \in Node \cup {Trained}
    BY <2>1
  <2>3. /\ pc' \in [Thread -> Steps]
        /\ \A u \in Thread : pc'[u] \in Past => pc[u] \in Past
    BY <2>1
  <2>4. CASE UNCHANGED <<model, held>>
    BY <2>1, <2>3, <2>4
  <2>5. CASE model' = [model EXCEPT ![m] = model[t[1]]] /\ held' = [held EXCEPT ![m] = FALSE]
    <3>1. /\ model' \in [Node -> Node \cup {Trained}] /\ held' \in [Node -> BOOLEAN]
          /\ \A n \in Node : model'[n] = model[n] \/ model'[n] \in Shared
          /\ model'[m] \in Shared /\ \A n \in Node \ {m} : held'[n] = held[n]
      BY <2>2, <2>5
    <3>2. Shape'
      BY <2>1, <2>3, <3>1
    <3>3. SharedInv'
      BY <2>1, <2>3, <3>1
    <3> QED
      BY <3>2, <3>3
  <2> QED
    BY <2>1, <2>4, <2>5
<1> HIDE DEF IInv
<1> QED
  BY <1>1, <1>2, <1>3, <1>4, <1>5, <1>6, <1>7, <1>8, <1>9, <1>10 DEF LearningStep

LEMMA NextIInv == IInv /\ [Next]_vars => IInv'
<1> SUFFICES ASSUME IInv, [Next]_vars PROVE IInv'
  OBVIOUS
<1>1. CASE UNCHANGED vars
  BY <1>1 DEF vars, IInv, Shape, SharedInv
<1> QED
  BY <1>1, UserStep, ReceiveStep, LearningStepStep DEF Next

\* Whoever enters a round has the model of a node where learning was started.
THEOREM InitialModelIsShared == Spec => []InitialModelShared
<1>1. IInv => InitialModelShared
  BY DEF IInv, SharedInv, Shared, InitialModelShared
<1> QED
  BY <1>1, InitIInv, NextIInv, PTL DEF Spec

-----------------------------------------------------------------------------
\* Learning that is started once and not stopped.
Early == {"none", "begin", "start", "wait"}    \* before the lock is acquired
Gossiping == {"gossip", "offer", "send"}
Later == {"rounds", "finish", "ended"}

IsLate(n) == \E t \in Thread : t[1] = n /\ pc[t] \in Later
HasEnded(n) == \E t \in Thread : t[1] = n /\ pc[t] = "ended"

\* Before the user's call nothing happens.
Quiet ==
    starts = 0 =>
        /\ network = {}
        /\ \A t \in Thread : pc[t] = "none"
        /\ \A n \in Node : user[n] = "idle" /\ held[n]

\* Every node runs, no thread fails and nobody is told to stop.
Calm ==
    /\ \A n \in Node : running[n]
    /\ \A a \in network : a.kind # "stop"
    /\ \A t \in Thread : pc[t] \notin {"failing", "failed", "lost"}

\* A node has one learning thread: who is still to start one has none.
Alone ==
    /\ \A t, u \in Thread : t[1] = u[1] /\ pc[t] # "none" /\ pc[u] # "none" => t = u
    /\ \A t \in Thread : user[t[1]] = "starting" => pc[t] = "none"
    /\ \A t \in Thread, a \in network : a.kind = "start" /\ a.to = t[1] => pc[t] = "none"
    /\ \A a, b \in network : a.kind = "start" /\ b.kind = "start" /\ a.to = b.to => a = b
    /\ \A a \in network : a.kind = "start" => user[a.to] = "idle"

\* The experiment of a thread lasts until the thread ends, and neither the workflow
\* nor the model is ahead of the thread.
InStep ==
    /\ \A t \in Thread :
          /\ pc[t] \in Gossiping \cup {"start", "wait", "rounds", "finish"} => started[t[1]] > 0
          /\ pc[t] = "ended" => started[t[1]] = 0
    /\ \A n \in Node : stage[n] # "start" \/ model[n] = Trained => IsLate(n)

\* Until the user s of a starting node goes on, every lock is locked.  From then on its
\* neighbours know that it is initialised.
Sourced(s) ==
    /\ \A n \in Node : user[n] = "starting" =>
          /\ n = s
          /\ \A m \in Node : held[m]
          /\ \A t \in Thread : pc[t] \in Early
    /\ starts > 0 /\ (\A n \in Node : user[n] = "idle") =>
          \A n \in Node : s \in Link[n] => s \in known[n] \/ HasEnded(n)

\* A lock other than that of s is released only by a model that was announced.
Announced(s) ==
    /\ \A n \in Node \ {s} : ~held[n] => announced[n]
    /\ \A t \in Thread :
          t[1] # s /\ pc[t] \in Gossiping \cup {"rounds", "finish"} => announced[t[1]]

\* Nobody sends to s, and to any other node only one thread does, before the node has
\* its model or after it has ended.
Sent(s) ==
    \A t \in Thread :
        /\ pc[t] \in {"offer", "send"} =>
              \A m, k \in targets[t] : m # s /\ m = k
        /\ pc[t] = "send" =>
              \A m \in targets[t] :
                  \/ HasEnded(m)
                  \/ /\ announced[m] /\ held[m]
                     /\ \A u \in Thread : u[1] = m => pc[u] \in Early
                     /\ \A u \in Thread \ {t} : pc[u] = "send" => m \notin targets[u]

Session(s) ==
    /\ Quiet
    /\ Calm
    /\ Alone
    /\ InStep
    /\ Sourced(s)
    /\ Announced(s)
    /\ Sent(s)


\* The types this proof needs.
Kinds ==
    /\ scene \in Scenes /\ starts \in Nat
    /\ running \in [Node -> BOOLEAN] /\ held \in [Node -> BOOLEAN]
    /\ announced \in [Node -> BOOLEAN] /\ started \in [Node -> Nat]
    /\ known \in [Node -> SUBSET Node] /\ model \in [Node -> Node \cup {Trained}]
    /\ stage \in [Node -> {"start", "rounds", "finish"}]
    /\ pc \in [Thread -> Steps] /\ targets \in [Thread -> SUBSET Node]
    /\ user \in [Node -> {"idle", "starting"}]
    /\ network \subseteq [kind : {"start", "initialized", "stop"}, of : Node, to : Node]

LEMMA InitKinds == Init => Kinds
  BY DEF Init, Kinds

LEMMA ClearKinds ==
    ASSUME Kinds, NEW nodes, Cleared(nodes)
    PROVE  /\ started' \in [Node -> Nat] /\ held' \in [Node -> BOOLEAN]
           /\ known' \in [Node -> SUBSET Node] /\ announced' \in [Node -> BOOLEAN]
  BY DEF Kinds, Cleared

LEMMA MessageKinds ==
    ASSUME NEW n \in Node, NEW kind \in {"start", "initialized", "stop"}
    PROVE  Message(kind, n) \subseteq [kind : {"start", "initialized", "stop"}, of : Node, to : Node]
  BY DEF Message

LEMMA PcKinds ==
    ASSUME Kinds, NEW nodes
    PROVE  Begun(nodes, pc) \in [Thread -> Steps] /\ Unlocked(nodes, pc) \in [Thread -> Steps]
  BY DEF Kinds, Begun, Unlocked

LEMMA LinkKinds ==
    ASSUME Kinds
    PROVE  \A n \in Node : /\ Link[n] \subseteq Node /\ n \notin Link[n]
                           /\ \A m \in Link[n] : n \in Link[m]
<1>1. /\ scene.link \in [Node -> SUBSET Node]
      /\ \A n \in Node : \A m \in scene.link[n] : m # n /\ n \in scene.link[m]
  BY SessionAssumption DEF Kinds
<1> QED
  BY <1>1 DEF Link

LEMMA NextKinds == Kinds /\ [Next]_vars => Kinds'
<1> SUFFICES ASSUME Kinds, [Next]_vars PROVE Kinds'
  OBVIOUS
<1> USE ThreadNode
<1>1. ASSUME NEW n \in Node, SetStartLearning(n) PROVE Kinds'
  BY <1>1, PcKinds, MessageKinds DEF SetStartLearning, Kinds
<1>2. ASSUME NEW n \in Node, StartItself(n) PROVE Kinds'
  <2>1. pc' \in [Thread -> Steps] /\ network' \subseteq [kind : {"start", "initialized", "stop"}, of : Node, to : Node]
    BY <1>2, PcKinds, MessageKinds DEF StartItself, Kinds
  <2>2. held' \in [Node -> BOOLEAN] /\ known' \in [Node -> SUBSET Node] /\ user' \in [Node -> {"idle", "starting"}]
    <3>1. /\ held \in [Node -> BOOLEAN] /\ known \in [Node -> SUBSET Node]
          /\ user \in [Node -> {"idle", "starting"}]
      BY DEF Kinds
    <3>2. held' \in [Node -> BOOLEAN] /\ user' \in [Node -> {"idle", "starting"}]
      BY <1>2, <3>1 DEF StartItself
    <3>3. known' = known \/ known' = [m \in Node |-> IF m \in Up(Link[n]) THEN known[m] \cup {n} ELSE known[m]]
      BY <1>2 DEF StartItself
    <3>4. known' \in [Node -> SUBSET Node]
      BY <3>1, <3>3
    <3> QED
      BY <3>2, <3>4
  <2>3. UNCHANGED <<scene, starts, running, announced, started, model, stage, targets>>
    BY <1>2 DEF StartItself
  <2> QED
    BY <2>1, <2>2, <2>3 DEF Kinds, Thread
<1>3. ASSUME NEW n \in Node, SetStopLearning(n) PROVE Kinds'
  BY <1>3, PcKinds, ClearKinds, MessageKinds DEF SetStopLearning, Kinds
<1>4. ASSUME NEW msg \in network, Receive(msg) PROVE Kinds'
  <2>1. CASE ReceiveStart(msg)
    BY <2>1, PcKinds DEF ReceiveStart, Drop, Kinds
  <2>2. CASE ReceiveInitialized(msg)
    BY <2>2 DEF ReceiveInitialized, Drop, Kinds
  <2>3. CASE ReceiveStop(msg)
    BY <2>3, PcKinds, ClearKinds DEF ReceiveStop, Drop, Kinds
  <2> QED
    BY <1>4, <2>1, <2>2, <2>3 DEF Receive
<1>5. ASSUME NEW t \in Thread, LearningStep(t) PROVE Kinds'
  <2>1. CASE BeginLearning(t)
    BY <2>1 DEF BeginLearning, Entered, Goto, Kinds
  <2>2. CASE StartLearningStage(t)
    BY <2>2 DEF StartLearningStage, Entered, Goto, Kinds
  <2>3. CASE Acquire(t)
    BY <2>3, MessageKinds DEF Acquire, Goto, Kinds
  <2>4. CASE GossipEnds(t)
    BY <2>4 DEF GossipEnds, Returned, Goto, Kinds
  <2>5. CASE GossipPeriod(t)
    <3>1. PICK m \in Candidates(t[1]) : targets' = [targets EXCEPT ![t] = {m}]
      BY <2>5 DEF GossipPeriod
    <3>2. m \in Node
      BY <3>1, LinkKinds DEF Candidates
    <3> QED
      BY <2>5, <3>1, <3>2 DEF GossipPeriod, Goto, Kinds
  <2>6. CASE RunRound(t)
    BY <2>6 DEF RunRound, Returned, Goto, Kinds
  <2>7. CASE RoundFinishedStage(t)
    <3>1. /\ pc \in [Thread -> Steps] /\ started \in [Node -> Nat]
          /\ stage \in [Node -> {"start", "rounds", "finish"}]
          /\ Unlocked({t[1]}, pc) \in [Thread -> Steps]
      BY PcKinds DEF Kinds
    <3>2. pc' \in [Thread -> Steps]
      <4>1. \/ pc' = [pc EXCEPT ![t] = "failing"]
            \/ pc' = [pc EXCEPT ![t] = "rounds"]
            \/ pc' = [Unlocked({t[1]}, pc) EXCEPT ![t] = "ended"]
        BY <2>7 DEF RoundFinishedStage, Goto
      <4> HIDE DEF Unlocked
      <4> QED
        BY <3>1, <4>1
    <3>3. stage' \in [Node -> {"start", "rounds", "finish"}]
      BY <2>7, <3>1 DEF RoundFinishedStage
    <3>4. \/ Cleared({t[1]})
          \/ started' \in [Node -> Nat] /\ UNCHANGED <<held, known, announced>>
      BY <2>7, <3>1 DEF RoundFinishedStage
    <3>5. /\ started' \in [Node -> Nat] /\ held' \in [Node -> BOOLEAN]
          /\ known' \in [Node -> SUBSET Node] /\ announced' \in [Node -> BOOLEAN]
      <4>1. /\ held \in [Node -> BOOLEAN] /\ known \in [Node -> SUBSET Node]
            /\ announced \in [Node -> BOOLEAN]
        BY DEF Kinds
      <4> QED
        BY <3>4, <4>1, ClearKinds
    <3>6. UNCHANGED <<scene, starts, running, model, targets, user, network>>
      BY <2>7 DEF RoundFinishedStage
    <3> QED
      BY <3>2, <3>3, <3>5, <3>6 DEF Kinds
  <2>8. CASE Fail(t)
    BY <2>8, PcKinds, ClearKinds DEF Fail, Kinds
  <2>9. ASSUME NEW m \in Node, Offer(t, m) PROVE Kinds'
    BY <2>9 DEF Offer, Recorded, Goto, Kinds
  <2>10. ASSUME NEW m \in Node, SendModel(t, m) PROVE Kinds'
    <3>1. model' \in [Node -> Node \cup {Trained}] /\ held' \in [Node -> BOOLEAN]
      <4>1. model \in [Node -> Node \cup {Trained}] /\ held \in [Node -> BOOLEAN] /\ t[1] \in Node
        BY DEF Kinds
      <4>2. \/ model' = [model EXCEPT ![m] = model[t[1]]] /\ held' = [held EXCEPT ![m] = FALSE]
            \/ UNCHANGED <<model, held>>
        BY <2>10 DEF SendModel
      <4> QED
        BY <4>1, <4>2
    <3>2. pc' \in [Thread -> Steps] /\ targets' \in [Thread -> SUBSET Node]
      BY <2>10 DEF SendModel, Goto, Kinds
    <3>3. UNCHANGED <<scene, starts, running, announced, started, known, stage, user, network>>
      BY <2>10 DEF SendModel
    <3> QED
      BY <3>1, <3>2, <3>3 DEF Kinds
  <2> QED
    BY <1>5, <2>1, <2>2, <2>3, <2>4, <2>5, <2>6, <2>7, <2>8, <2>9, <2>10 DEF LearningStep
<1>6. CASE UNCHANGED vars
  BY <1>6 DEF vars, Kinds, Thread
<1> QED
  BY <1>1, <1>2, <1>3, <1>4, <1>5, <1>6 DEF Next

\* The steps of a learning thread.
LEMMA EntersStep ==
    ASSUME Kinds, NEW s, Session(s), NEW t \in Thread, NEW x \in {"start", "wait"},
           pc[t] \in {"begin", "start"}, pc' = [pc EXCEPT ![t] = x], Entered(t[1]),
           UNCHANGED <<scene, running, held, known, announced, model, stage, targets, user,
                       network, starts>>
    PROVE  Session(s)'
<1>1. /\ t[1] \in Node /\ pc \in [Thread -> Steps] /\ started \in [Node -> Nat]
      /\ pc'[t] = x /\ \A u \in Thread \ {t} : pc'[u] = pc[u]
      /\ started'[t[1]] > 0 /\ \A n \in Node \ {t[1]} : started'[n] = started[n]
  BY ThreadNode DEF Kinds, Entered
<1>2. (\A n : HasEnded(n)' <=> HasEnded(n)) /\ (\A n : IsLate(n)' <=> IsLate(n))
  BY <1>1 DEF HasEnded, IsLate, Later
<1>3. Quiet'
  BY <1>1 DEF Session, Quiet
<1>4. Calm'
  BY <1>1 DEF Session, Calm
<1>5. Alone'
  BY <1>1 DEF Session, Alone
<1>6. InStep'
  BY <1>1, <1>2, ThreadNode DEF Session, InStep, Alone, Gossiping
<1>7. Sourced(s)'
  BY <1>1, <1>2 DEF Session, Sourced, Early, Link
<1>8. Announced(s)'
  BY <1>1 DEF Session, Announced, Gossiping
<1>9. Sent(s)'
  BY <1>1, <1>2 DEF Session, Sent, Early
<1> QED
  BY <1>3, <1>4, <1>5, <1>6, <1>7, <1>8, <1>9 DEF Session

LEMMA BeginStep ==
    ASSUME Kinds, NEW s, Session(s), NEW t \in Thread, BeginLearning(t)
    PROVE  Session(s)'
<1>1. stage[t[1]] = "start"
  <2>1. ~IsLate(t[1])
    BY DEF BeginLearning, Session, Alone, IsLate, Later
  <2> QED
    BY <2>1, ThreadNode DEF Session, InStep
<1>2. /\ pc[t] = "begin" /\ pc' = [pc EXCEPT ![t] = "start"] /\ Entered(t[1])
      /\ UNCHANGED <<scene, running, held, known, announced, model, stage, targets, user,
                     network, starts>>
  BY <1>1 DEF BeginLearning, Goto
<1> QED
  BY <1>2, EntersStep

LEMMA StartStageStep ==
    ASSUME Kinds, NEW s, Session(s), NEW t \in Thread, StartLearningStage(t)
    PROVE  Session(s)'
<1>1. /\ pc[t] = "start" /\ pc' = [pc EXCEPT ![t] = "wait"] /\ Entered(t[1])
      /\ UNCHANGED <<scene, running, held, known, announced, model, stage, targets, user,
                     network, starts>>
  BY DEF StartLearningStage, Goto
<1> QED
  BY <1>1, EntersStep

\* Once a thread has left the early steps the user's call is over.
LEMMA NobodyStarts ==
    ASSUME Kinds, NEW s, Session(s), NEW t \in Thread, pc[t] \notin Early
    PROVE  /\ starts # 0 /\ \A n \in Node : user[n] = "idle"
           /\ \A u \in Thread : u[1] = t[1] /\ u # t => pc[u] = "none"
<1>1. starts # 0
  BY DEF Session, Quiet, Early
<1>2. \A n \in Node : user[n] = "idle"
  BY DEF Session, Sourced, Kinds
<1> QED
  BY <1>1, <1>2 DEF Session, Alone, Early

LEMMA AcquireStep ==
    ASSUME Kinds, NEW s, Session(s), NEW t \in Thread, Acquire(t)
    PROVE  Session(s)'
<1>1. /\ t[1] \in Node /\ pc[t] = "wait" /\ ~held[t[1]]
      /\ pc'[t] = "gossip" /\ \A u \in Thread \ {t} : pc'[u] = pc[u]
      /\ held'[t[1]] /\ \A n \in Node \ {t[1]} : held'[n] = held[n]
      /\ \A n \in Node : known[n] \subseteq known'[n]
      /\ UNCHANGED <<scene, running, started, announced, model, stage, targets, user, starts>>
  BY ThreadNode DEF Acquire, Released, Goto, Kinds
<1>2. \A a \in network' : a \in network \/ a.kind = "initialized"
  BY DEF Acquire, Message
<1>3. (\A n : HasEnded(n)' <=> HasEnded(n)) /\ (\A n : IsLate(n)' <=> IsLate(n))
  BY <1>1 DEF HasEnded, IsLate, Later
<1>4. starts # 0 /\ \A n \in Node : user[n] = "idle"
  BY <1>1 DEF Session, Quiet, Sourced, Kinds
<1>5. Quiet' /\ Calm'
  BY <1>1, <1>2, <1>4 DEF Session, Quiet, Calm
<1>6. Alone'
  BY <1>1, <1>2 DEF Session, Alone
<1>7. InStep'
  BY <1>1, <1>3 DEF Session, InStep, Gossiping
<1>8. Sourced(s)'
  BY <1>1, <1>3, <1>4 DEF Session, Sourced, Link
<1>9. Announced(s)'
  BY <1>1 DEF Session, Announced, Gossiping
<1>10. Sent(s)'
  BY <1>1, <1>3 DEF Session, Sent, Early, Kinds
<1> QED
  BY <1>5, <1>6, <1>7, <1>8, <1>9, <1>10 DEF Session

\* A thread that goes from the gossip to the rounds, or from a stage of a round to the
\* next.
LEMMA RoundsStep ==
    ASSUME Kinds, NEW s, Session(s), NEW t \in Thread, NEW x \in {"rounds", "finish"},
           pc[t] \in {"gossip", "rounds", "finish"}, pc' = [pc EXCEPT ![t] = x],
           \A n \in Node : started[n] > 0 => started'[n] > 0,
           \A n \in Node : started[n] = 0 => started'[n] = 0,
           \A n \in Node \ {t[1]} : stage'[n] = stage[n] /\ model'[n] = model[n],
           UNCHANGED <<scene, running, held, known, announced, targets, user, network, starts>>
    PROVE  Session(s)'
<1>1. /\ t[1] \in Node /\ pc'[t] = x /\ \A u \in Thread \ {t} : pc'[u] = pc[u]
  BY ThreadNode DEF Kinds
<1>2. /\ \A n : HasEnded(n)' <=> HasEnded(n)
      /\ \A n : IsLate(n) => IsLate(n)'
      /\ IsLate(t[1])'
  BY <1>1 DEF HasEnded, IsLate, Later
<1>3. starts # 0 /\ \A n \in Node : user[n] = "idle"
  BY NobodyStarts DEF Early
<1>4. Quiet' /\ Calm'
  BY <1>1, <1>3 DEF Session, Quiet, Calm
<1>5. Alone'
  BY <1>1 DEF Session, Alone
<1>6. InStep'
  BY <1>1, <1>2, ThreadNode DEF Session, InStep, Gossiping
<1>7. Sourced(s)'
  BY <1>1, <1>2, <1>3 DEF Session, Sourced, Link
<1>8. Announced(s)'
  BY <1>1 DEF Session, Announced, Gossiping
<1>9. Sent(s)'
  BY <1>1, <1>2 DEF Session, Sent, Early
<1> QED
  BY <1>4, <1>5, <1>6, <1>7, <1>8, <1>9 DEF Session

LEMMA GossipEndsStep ==
    ASSUME Kinds, NEW s, Session(s), NEW t \in Thread, GossipEnds(t)
    PROVE  Session(s)'
<1>1. pc[t] = "gossip" /\ t[1] \in Node /\ Learning(t[1])
  BY ThreadNode DEF GossipEnds, Session, InStep, Gossiping, Learning
<1>2. /\ pc' = [pc EXCEPT ![t] = "rounds"] /\ stage' = [stage EXCEPT ![t[1]] = "rounds"]
      /\ UNCHANGED <<scene, running, started, held, known, announced, model, targets, user,
                     network, starts>>
  BY <1>1 DEF GossipEnds, Returned, Goto
<1>3. \A n \in Node \ {t[1]} : stage'[n] = stage[n]
  BY <1>2 DEF Kinds
<1> QED
  BY <1>1, <1>2, <1>3, RoundsStep

LEMMA RunRoundStep ==
    ASSUME Kinds, NEW s, Session(s), NEW t \in Thread, RunRound(t)
    PROVE  Session(s)'
<1>1. pc[t] = "rounds" /\ t[1] \in Node /\ Learning(t[1])
  BY ThreadNode DEF RunRound, Session, InStep, Learning
<1>2. /\ pc' = [pc EXCEPT ![t] = "finish"] /\ stage' = [stage EXCEPT ![t[1]] = "finish"]
      /\ model' = [model EXCEPT ![t[1]] = Trained]
      /\ UNCHANGED <<scene, running, started, held, known, announced, targets, user, network,
                     starts>>
  BY <1>1 DEF RunRound, Returned, Goto
<1>3. \A n \in Node \ {t[1]} : stage'[n] = stage[n] /\ model'[n] = model[n]
  BY <1>2 DEF Kinds
<1> QED
  BY <1>1, <1>2, <1>3, RoundsStep

LEMMA PeriodStep ==
    ASSUME Kinds, NEW s, Session(s), NEW t \in Thread, GossipPeriod(t)
    PROVE  Session(s)'
<1>1. PICK m \in Candidates(t[1]) : targets' = [targets EXCEPT ![t] = {m}]
  BY DEF GossipPeriod
<1>2. /\ t[1] \in Node /\ pc[t] = "gossip"
      /\ pc'[t] = "offer" /\ \A u \in Thread \ {t} : pc'[u] = pc[u]
      /\ targets'[t] = {m} /\ \A u \in Thread \ {t} : targets'[u] = targets[u]
      /\ UNCHANGED <<scene, running, started, held, known, announced, model, stage, user,
                     network, starts>>
  BY <1>1, ThreadNode DEF GossipPeriod, Goto, Kinds
<1>3. (\A n : HasEnded(n)' <=> HasEnded(n)) /\ (\A n : IsLate(n)' <=> IsLate(n))
  BY <1>2 DEF HasEnded, IsLate, Later
<1>4. /\ starts # 0 /\ starts \in Nat /\ \A n \in Node : user[n] = "idle"
      /\ \A u \in Thread : u[1] = t[1] /\ u # t => pc[u] = "none"
  BY <1>2, NobodyStarts DEF Early, Kinds
<1>5. m # s
  <2>1. ~HasEnded(t[1])
    BY <1>2, <1>4 DEF HasEnded
  <2>2. s \in Link[t[1]] => s \in known[t[1]]
    BY <1>2, <1>4, <2>1 DEF Session, Sourced
  <2> QED
    BY <1>1, <2>2 DEF Candidates
<1>6. Quiet' /\ Calm'
  BY <1>2, <1>4 DEF Session, Quiet, Calm
<1>7. Alone'
  BY <1>2 DEF Session, Alone
<1>8. InStep'
  BY <1>2, <1>3 DEF Session, InStep, Gossiping
<1>9. Sourced(s)'
  BY <1>2, <1>3, <1>4 DEF Session, Sourced, Link
<1>10. Announced(s)'
  BY <1>2 DEF Session, Announced, Gossiping
<1>11. Sent(s)'
  BY <1>2, <1>3, <1>5 DEF Session, Sent, Early
<1> QED
  BY <1>6, <1>7, <1>8, <1>9, <1>10, <1>11 DEF Session

LEMMA OfferStep ==
    ASSUME Kinds, NEW s, Session(s), NEW t \in Thread, NEW m \in Node, Offer(t, m)
    PROVE  Session(s)'
<1>1. /\ t[1] \in Node /\ pc[t] = "offer" /\ m \in targets[t] /\ Learning(t[1]) /\ running[m]
      /\ m # s /\ \A k \in targets[t] : k = m
  BY ThreadNode DEF Offer, Session, InStep, Calm, Sent, Gossiping, Learning
<1>2. /\ starts # 0 /\ \A n \in Node : user[n] = "idle"
      /\ \A u \in Thread : u[1] = t[1] /\ u # t => pc[u] = "none"
  BY <1>1, NobodyStarts DEF Early
<1>3. UNCHANGED <<scene, running, started, held, known, model, stage, user, network, starts>>
  BY DEF Offer
<1>4. CASE announced[m]
  <2>1. /\ pc'[t] = "gossip" /\ \A u \in Thread \ {t} : pc'[u] = pc[u]
        /\ \A u \in Thread \ {t} : targets'[u] = targets[u]
        /\ targets'[t] = {} /\ announced' = announced
    BY <1>1, <1>4 DEF Offer, Goto, Kinds
  <2>2. (\A n : HasEnded(n)' <=> HasEnded(n)) /\ (\A n : IsLate(n)' <=> IsLate(n))
    BY <1>1, <2>1 DEF HasEnded, IsLate, Later
  <2>3. Quiet' /\ Calm'
    BY <1>2, <1>3, <2>1 DEF Session, Quiet, Calm
  <2>4. Alone'
    BY <1>1, <1>3, <2>1 DEF Session, Alone
  <2>5. InStep'
    BY <1>1, <1>3, <2>1, <2>2 DEF Session, InStep, Gossiping
  <2>6. Sourced(s)'
    BY <1>2, <1>3, <2>1, <2>2 DEF Session, Sourced, Link
  <2>7. Announced(s)'
    BY <1>1, <1>3, <2>1 DEF Session, Announced, Gossiping
  <2>8. Sent(s)'
    BY <1>1, <1>3, <2>1, <2>2 DEF Session, Sent, Early
  <2> QED
    BY <2>3, <2>4, <2>5, <2>6, <2>7, <2>8 DEF Session
<1>5. CASE ~announced[m]
  <2>1. /\ pc'[t] = "send" /\ \A u \in Thread \ {t} : pc'[u] = pc[u]
        /\ targets' = targets
        /\ announced'[m] /\ \A n \in Node \ {m} : announced'[n] = announced[n]
    BY <1>1, <1>5 DEF Offer, Recorded, Goto, Kinds
  <2>2. (\A n : HasEnded(n)' <=> HasEnded(n)) /\ (\A n : IsLate(n)' <=> IsLate(n))
    BY <1>1, <2>1 DEF HasEnded, IsLate, Later
  <2>3. Quiet' /\ Calm'
    BY <1>2, <1>3, <2>1 DEF Session, Quiet, Calm
  <2>4. Alone'
    BY <1>1, <1>3, <2>1 DEF Session, Alone
  <2>5. InStep'
    BY <1>1, <1>3, <2>1, <2>2 DEF Session, InStep, Gossiping
  <2>6. Sourced(s)'
    BY <1>2, <1>3, <2>1, <2>2 DEF Session, Sourced, Link
  <2>7. Announced(s)'
    <3>1. \A n \in Node : announced[n] => announced'[n]
      BY <2>1
    <3>2. \A u \in Thread : u[1] # s /\ pc'[u] \in Gossiping \cup {"rounds", "finish"} => announced[u[1]]
      BY <1>1, <2>1 DEF Session, Announced, Gossiping
    <3>3. \A n \in Node \ {s} : ~held[n] => announced[n]
      BY DEF Session, Announced
    <3> QED
      BY <1>3, <3>1, <3>2, <3>3, ThreadNode DEF Announced
  <2>8. held[m] /\ m # t[1]
    BY <1>1, <1>5 DEF Session, Announced, Gossiping
  <2>9. HasEnded(m) \/ \A u \in Thread : u[1] = m => pc[u] \in Early
    BY <1>1, <1>5 DEF Session, Announced, Calm, HasEnded, Gossiping, Early, Kinds
  <2>10. \A u \in Thread : pc[u] = "send" /\ m \in targets[u] => HasEnded(m)
    BY <1>5 DEF Session, Sent
  <2>11. Sent(s)'
    <3>1. ASSUME NEW u \in Thread, pc'[u] \in {"offer", "send"}
          PROVE  \A k, l \in targets'[u] : k # s /\ k = l
      BY <1>1, <2>1, <3>1 DEF Session, Sent
    <3>2. ASSUME NEW u \in Thread, pc'[u] = "send", NEW k \in targets'[u], ~HasEnded(k)
          PROVE  /\ announced'[k] /\ held'[k]
                 /\ \A v \in Thread : v[1] = k => pc'[v] \in Early
                 /\ \A v \in Thread \ {u} : pc'[v] = "send" => k \notin targets'[v]
      <4>1. CASE u = t
        <5>1. k = m
          BY <1>1, <2>1, <3>2, <4>1
        <5> QED
          BY <1>1, <1>3, <2>1, <2>8, <2>9, <2>10, <3>2, <4>1, <5>1
      <4>2. CASE u # t
        <5>1. pc[u] = "send" /\ k \in targets[u] /\ k # m
          BY <2>1, <2>10, <3>2, <4>2
        <5>2. /\ announced[k] /\ held[k]
              /\ \A v \in Thread : v[1] = k => pc[v] \in Early
              /\ \A v \in Thread \ {u} : pc[v] = "send" => k \notin targets[v]
          BY <3>2, <5>1 DEF Session, Sent
        <5>3. k \in Node
          BY <5>1 DEF Kinds
        <5>4. k # t[1] /\ k \notin targets[t]
          BY <1>1, <5>1, <5>2 DEF Early
        <5> QED
          BY <1>3, <2>1, <5>1, <5>2, <5>3, <5>4
      <4> QED
        BY <4>1, <4>2
    <3> QED
      BY <2>2, <3>1, <3>2 DEF Sent
  <2> QED
    BY <2>3, <2>4, <2>5, <2>6, <2>7, <2>11 DEF Session
<1> QED
  BY <1>4, <1>5

\* What a thread that sends a model knows: its own is not trained, and the receiver that
\* accepts it was told of it, has trained nothing either, and gets no other.
LEMMA SenderKnows ==
    ASSUME Kinds, NEW s, Session(s), NEW t \in Thread, NEW m \in targets[t], pc[t] = "send"
    PROVE  /\ m # s /\ model[t[1]] # Trained
           /\ Learning(m) => /\ model[m] # Trained /\ announced[m]
                             /\ \A u \in Thread \ {t} : pc[u] = "send" => m \notin targets[u]
<1>1. m # s /\ m \in Node /\ t[1] \in Node
  BY ThreadNode DEF Session, Sent, Kinds
<1>2. ~IsLate(t[1])
  BY NobodyStarts DEF IsLate, Later, Early
<1>3. model[t[1]] # Trained
  BY <1>1, <1>2 DEF Session, InStep
<1>4. ASSUME Learning(m) PROVE ~HasEnded(m)
  BY <1>4 DEF Learning, HasEnded, Session, InStep
<1>5. ASSUME Learning(m)
      PROVE  /\ announced[m] /\ \A u \in Thread : u[1] = m => pc[u] \in Early
             /\ \A u \in Thread \ {t} : pc[u] = "send" => m \notin targets[u]
  BY <1>4, <1>5 DEF Session, Sent
<1>6. ASSUME Learning(m) PROVE model[m] # Trained
  BY <1>1, <1>5, <1>6 DEF Session, InStep, IsLate, Early, Later
<1> QED
  BY <1>1, <1>3, <1>5, <1>6

LEMMA SendStep ==
    ASSUME Kinds, NEW s, Session(s), NEW t \in Thread, NEW m \in Node, SendModel(t, m)
    PROVE  Session(s)' /\ \A n \in Node : model[n] = Trained => model'[n] = Trained
<1>1. /\ t[1] \in Node /\ pc[t] = "send" /\ m \in targets[t]
      /\ pc'[t] = "gossip" /\ \A u \in Thread \ {t} : pc'[u] = pc[u]
      /\ targets'[t] = {} /\ \A u \in Thread \ {t} : targets'[u] = targets[u]
      /\ UNCHANGED <<scene, running, started, known, announced, stage, user, network, starts>>
  BY ThreadNode DEF SendModel, Goto, Kinds
<1>2. /\ starts # 0 /\ \A n \in Node : user[n] = "idle"
      /\ \A u \in Thread : u[1] = t[1] /\ u # t => pc[u] = "none"
  BY <1>1, NobodyStarts DEF Early
<1>3. /\ m # s /\ model[t[1]] # Trained
      /\ Learning(m) => /\ model[m] # Trained /\ announced[m]
                        /\ \A u \in Thread \ {t} : pc[u] = "send" => m \notin targets[u]
  BY <1>1, SenderKnows
<1>4. \A n \in Node : \/ model'[n] = model[n] /\ held'[n] = held[n]
                      \/ n = m /\ Learning(m) /\ model'[n] = model[t[1]]
  BY <1>1 DEF SendModel, Accepts, Kinds
<1>5. (\A n : HasEnded(n)' <=> HasEnded(n)) /\ (\A n : IsLate(n)' <=> IsLate(n))
  BY <1>1 DEF HasEnded, IsLate, Later
<1>6. \A n \in Node : (model'[n] = Trained) <=> (model[n] = Trained)
  BY <1>3, <1>4
<1>7. Quiet' /\ Calm'
  BY <1>1, <1>2 DEF Session, Quiet, Calm
<1>8. Alone'
  BY <1>1 DEF Session, Alone
<1>9. InStep'
  BY <1>1, <1>5, <1>6 DEF Session, InStep, Gossiping
<1>10. Sourced(s)'
  BY <1>1, <1>2, <1>5 DEF Session, Sourced, Link
<1>11. Announced(s)'
  BY <1>1, <1>3, <1>4 DEF Session, Announced, Gossiping
<1>12. Sent(s)'
  <2>1. ASSUME NEW u \in Thread, pc'[u] \in {"offer", "send"}
        PROVE  \A k, l \in targets'[u] : k # s /\ k = l
    BY <1>1, <2>1 DEF Session, Sent
  <2>2. ASSUME NEW u \in Thread, pc'[u] = "send", NEW k \in targets'[u], ~HasEnded(k)
        PROVE  /\ announced'[k] /\ held'[k]
               /\ \A v \in Thread : v[1] = k => pc'[v] \in Early
               /\ \A v \in Thread \ {u} : pc'[v] = "send" => k \notin targets'[v]
    <3>1. u # t /\ pc[u] = "send" /\ k \in targets[u] /\ k \in Node
      BY <1>1, <2>2 DEF Kinds
    <3>2. /\ announced[k] /\ held[k]
          /\ \A v \in Thread : v[1] = k => pc[v] \in Early
          /\ \A v \in Thread \ {u} : pc[v] = "send" => k \notin targets[v]
      BY <2>2, <3>1 DEF Session, Sent
    <3>3. held'[k] = held[k] /\ k # t[1]
      BY <1>1, <1>3, <1>4, <3>1, <3>2 DEF Early
    <3> QED
      BY <1>1, <3>1, <3>2, <3>3
  <2> QED
    BY <1>5, <2>1, <2>2 DEF Sent
<1> QED
  BY <1>6, <1>7, <1>8, <1>9, <1>10, <1>11, <1>12 DEF Session

LEMMA RoundFinishedStep ==
    ASSUME Kinds, NEW s, Session(s), NEW t \in Thread, RoundFinishedStage(t)
    PROVE  Session(s)'
<1>1. /\ t[1] \in Node /\ pc[t] = "finish" /\ Learning(t[1])
      /\ starts # 0 /\ \A n \in Node : user[n] = "idle"
      /\ \A u \in Thread : u[1] = t[1] /\ u # t => pc[u] = "none"
  BY ThreadNode, NobodyStarts DEF RoundFinishedStage, Session, InStep, Learning, Early
<1>2. UNCHANGED <<scene, running, model, targets, user, network, starts>>
  BY DEF RoundFinishedStage
<1>3. CASE Round(t[1]) + 1 < Rounds
  <2>1. /\ started' = [started EXCEPT ![t[1]] = @ + 1] /\ stage' = [stage EXCEPT ![t[1]] = "rounds"]
        /\ pc' = [pc EXCEPT ![t] = "rounds"] /\ UNCHANGED <<held, known, announced>>
    BY <1>1, <1>3 DEF RoundFinishedStage, Goto
  <2>2. /\ \A n \in Node : started[n] > 0 => started'[n] > 0
        /\ \A n \in Node : started[n] = 0 => started'[n] = 0
        /\ \A n \in Node \ {t[1]} : stage'[n] = stage[n]
    BY <1>1, <2>1 DEF Kinds, Learning
  <2> QED
    BY <1>1, <1>2, <2>1, <2>2, RoundsStep
<1>4. CASE ~(Round(t[1]) + 1 < Rounds)
  <2>1. Cleared({t[1]}) /\ pc' = [Unlocked({t[1]}, pc) EXCEPT ![t] = "ended"] /\ stage' = stage
    BY <1>1, <1>4 DEF RoundFinishedStage
  <2>2. pc'[t] = "ended" /\ \A u \in Thread \ {t} : pc'[u] = pc[u]
    BY <1>1, <2>1 DEF Unlocked, Kinds
  <2>3. /\ started'[t[1]] = 0 /\ held'[t[1]]
        /\ \A n \in Node \ {t[1]} : /\ started'[n] = started[n] /\ held'[n] = held[n]
                                    /\ known'[n] = known[n] /\ announced'[n] = announced[n]
    BY <1>1, <2>1 DEF Cleared
  <2>4. /\ HasEnded(t[1])' /\ IsLate(t[1])'
        /\ \A n : HasEnded(n) => HasEnded(n)'
        /\ \A n : IsLate(n) => IsLate(n)'
    BY <1>1, <2>2 DEF HasEnded, IsLate, Later
  <2>5. Quiet' /\ Calm'
    BY <1>1, <1>2, <2>2 DEF Session, Quiet, Calm
  <2>6. Alone'
    BY <1>1, <1>2, <2>2 DEF Session, Alone
  <2>7. InStep'
    <3>1. ASSUME NEW u \in Thread
          PROVE  /\ pc'[u] \in Gossiping \cup {"start", "wait", "rounds", "finish"} => started'[u[1]] > 0
                 /\ pc'[u] = "ended" => started'[u[1]] = 0
      <4>1. CASE u = t
        BY <2>2, <2>3, <4>1 DEF Gossiping
      <4>2. CASE u # t /\ u[1] = t[1]
        BY <1>1, <2>2, <4>2 DEF Gossiping
      <4>3. CASE u[1] # t[1]
        BY <2>2, <2>3, <4>3, ThreadNode DEF Session, InStep
      <4> QED
        BY <4>1, <4>2, <4>3
    <3>2. \A n \in Node : stage'[n] # "start" \/ model'[n] = Trained => IsLate(n)'
      BY <1>2, <2>1, <2>4 DEF Session, InStep
    <3> QED
      BY <3>1, <3>2 DEF InStep
  <2>8. Sourced(s)'
    BY <1>1, <1>2, <2>2, <2>3, <2>4 DEF Session, Sourced, Link
  <2>9. Announced(s)'
    BY <1>1, <2>2, <2>3, ThreadNode DEF Session, Announced, Gossiping
  <2>10. Sent(s)'
    <3>1. ASSUME NEW u \in Thread, pc'[u] \in {"offer", "send"}
          PROVE  \A k, l \in targets'[u] : k # s /\ k = l
      BY <1>2, <2>2, <3>1 DEF Session, Sent
    <3>2. ASSUME NEW u \in Thread, pc'[u] = "send", NEW k \in targets'[u], ~HasEnded(k)'
          PROVE  /\ announced'[k] /\ held'[k]
                 /\ \A v \in Thread : v[1] = k => pc'[v] \in Early
                 /\ \A v \in Thread \ {u} : pc'[v] = "send" => k \notin targets'[v]
      <4>1. pc[u] = "send" /\ k \in targets[u] /\ k \in Node /\ ~HasEnded(k) /\ k # t[1]
        BY <1>2, <2>2, <2>4, <3>2 DEF Kinds
      <4>2. /\ announced[k] /\ held[k]
            /\ \A v \in Thread : v[1] = k => pc[v] \in Early
            /\ \A v \in Thread \ {u} : pc[v] = "send" => k \notin targets[v]
        BY <4>1 DEF Session, Sent
      <4> QED
        BY <1>2, <2>2, <2>3, <4>1, <4>2
    <3> QED
      BY <3>1, <3>2 DEF Sent
  <2> QED
    BY <2>5, <2>6, <2>7, <2>8, <2>9, <2>10 DEF Session
<1> QED
  BY <1>3, <1>4

\* The steps of the user and of messages.
LEMMA BegunOnce ==
    ASSUME Kinds, NEW nodes, NEW t \in Thread
    PROVE  /\ t[1] \notin nodes => Begun(nodes, pc)[t] = pc[t]
           /\ Begun(nodes, pc)[t] \in {"begin", pc[t]}
           /\ \A u \in Thread : /\ u[1] = t[1]
                                /\ pc[t] = "none" /\ Begun(nodes, pc)[t] = "begin"
                                /\ pc[u] = "none" /\ Begun(nodes, pc)[u] = "begin"
                                => t = u
<1>1. \A u \in Thread : Begun(nodes, pc)[u] =
                           IF u[1] \in nodes /\ HasFree(u[1]) /\ u[2] = FirstFree(u[1])
                           THEN "begin" ELSE pc[u]
  BY DEF Begun
<1>2. \A u \in Thread : u[1] = t[1] /\ u[2] = t[2] => u = t
  BY DEF Thread
<1> QED
  BY <1>1, <1>2

LEMMA FirstStart ==
    ASSUME Kinds, MaxStarts = 1, NEW s, Session(s), NEW n \in Node, SetStartLearning(n)
    PROVE  Session(n)'
<1>1. starts = 0
  BY DEF SetStartLearning, Kinds
<1>2. /\ network = {} /\ (\A t \in Thread : pc[t] = "none")
      /\ \A m \in Node : user[m] = "idle" /\ held[m]
  BY <1>1 DEF Session, Quiet
<1>3. /\ starts' = 1 /\ user'[n] = "starting" /\ (\A m \in Node \ {n} : user'[m] = user[m])
      /\ pc' = Begun(Up(Link[n]), pc) /\ network' = Message("start", n)
      /\ UNCHANGED <<scene, running, started, held, known, announced, model, stage, targets>>
  BY <1>1, <1>2 DEF SetStartLearning, Kinds
<1>4. \A m \in Up(Link[n]) : m \in Link[n] /\ m # n
  BY LinkKinds DEF Up
<1>5. \A a \in network' : a.kind = "start" /\ a.of = n /\ a.to \in Node /\ a.to \notin Link[n] /\ a.to # n
  BY <1>3 DEF Message
<1>6. \A a, b \in network' : a.to = b.to => a = b
  BY <1>3 DEF Message
<1>7. \A t \in Thread : pc'[t] \in {"none", "begin"} /\ (t[1] \notin Up(Link[n]) => pc'[t] = "none")
  BY <1>2, <1>3, BegunOnce
<1>8. Quiet' /\ Calm'
  BY <1>3, <1>5, <1>7 DEF Session, Quiet, Calm
<1>9. Alone'
  <2>1. \A t, u \in Thread : t[1] = u[1] /\ pc'[t] # "none" /\ pc'[u] # "none" => t = u
    BY <1>2, <1>3, <1>7, BegunOnce
  <2>2. \A t \in Thread : user'[t[1]] = "starting" => pc'[t] = "none"
    BY <1>2, <1>3, <1>4, <1>7, ThreadNode
  <2>3. \A t \in Thread, a \in network' : a.to = t[1] => pc'[t] = "none"
    BY <1>4, <1>5, <1>7
  <2>4. \A a \in network' : user'[a.to] = "idle"
    BY <1>2, <1>3, <1>5
  <2> QED
    BY <1>6, <2>1, <2>2, <2>3, <2>4 DEF Alone
<1>10. InStep'
  <2>1. \A m : ~IsLate(m)
    BY <1>2 DEF IsLate, Later
  <2> QED
    BY <1>3, <1>7, <2>1 DEF Session, InStep, Gossiping
<1>11. Sourced(n)'
  BY <1>2, <1>3, <1>7 DEF Sourced, Early
<1>12. Announced(n)' /\ Sent(n)'
  BY <1>2, <1>3, <1>7 DEF Announced, Sent, Gossiping
<1> QED
  BY <1>8, <1>9, <1>10, <1>11, <1>12 DEF Session

LEMMA StartItselfStep ==
    ASSUME Kinds, NEW s, Session(s), NEW n \in Node, StartItself(n)
    PROVE  Session(s)'
<1>1. /\ user[n] = "starting" /\ n = s /\ starts # 0
      /\ (\A m \in Node : held[m]) /\ (\A t \in Thread : pc[t] \in Early)
      /\ \A m \in Node : user[m] = "starting" => m = n
  BY DEF StartItself, Session, Sourced, Quiet
<1>2. /\ pc' = Begun({n}, pc) /\ network' = network \cup Message("initialized", n)
      /\ known' = [m \in Node |-> IF m \in Up(Link[n]) THEN known[m] \cup {n} ELSE known[m]]
      /\ held' = [held EXCEPT ![n] = FALSE] /\ user' = [user EXCEPT ![n] = "idle"]
      /\ UNCHANGED <<scene, running, started, announced, model, stage, targets, starts>>
  BY <1>1 DEF StartItself
<1>3. /\ \A m \in Node : user'[m] = "idle"
      /\ \A m \in Node \ {n} : held'[m] = held[m]
  BY <1>1, <1>2 DEF Kinds
<1>4. /\ \A a \in network' : a \in network \/ a.kind = "initialized"
      /\ \A m \in Link[n] : n \in known'[m]
      /\ \A m \in Link[n] : m \in Node
  BY <1>2, LinkKinds DEF Message, Up, Session, Calm
<1>5. \A t \in Thread : t[1] = n => pc[t] = "none"
  BY <1>1 DEF Session, Alone
<1>6. \A t \in Thread : pc'[t] = pc[t] \/ (t[1] = n /\ pc[t] = "none" /\ pc'[t] = "begin")
  BY <1>2, <1>5, BegunOnce
<1>7. \A t \in Thread : pc'[t] \in Early
  BY <1>1, <1>6 DEF Early
<1>8. (\A m : HasEnded(m)' <=> HasEnded(m)) /\ (\A m : IsLate(m)' <=> IsLate(m))
  BY <1>6 DEF HasEnded, IsLate, Later
<1>9. Quiet' /\ Calm'
  BY <1>1, <1>2, <1>4, <1>6 DEF Session, Quiet, Calm
<1>10. Alone'
  <2>1. ASSUME NEW t \in Thread, NEW u \in Thread, t[1] = u[1], pc'[t] # "none", pc'[u] # "none"
        PROVE  t = u
    <3>1. CASE t[1] = n
      BY <1>2, <1>5, <1>6, <2>1, <3>1, BegunOnce
    <3>2. CASE t[1] # n
      BY <1>6, <2>1, <3>2 DEF Session, Alone
    <3> QED
      BY <3>1, <3>2
  <2>2. \A t \in Thread : user'[t[1]] = "starting" => pc'[t] = "none"
    BY <1>3, ThreadNode
  <2>3. ASSUME NEW t \in Thread, NEW a \in network', a.kind = "start", a.to = t[1]
        PROVE  pc'[t] = "none"
    <3>1. a \in network /\ user[t[1]] = "idle"
      BY <1>4, <2>3 DEF Session, Alone
    <3>2. t[1] # n
      BY <1>1, <3>1
    <3> QED
      BY <1>6, <2>3, <3>1, <3>2 DEF Session, Alone
  <2>4. \A a \in network' : a.kind = "start" => a \in network /\ user'[a.to] = "idle"
    BY <1>3, <1>4 DEF Kinds
  <2> QED
    BY <2>1, <2>2, <2>3, <2>4 DEF Session, Alone
<1>11. InStep'
  BY <1>2, <1>6, <1>8 DEF Session, InStep, Gossiping
<1>12. Sourced(s)'
  <2>1. \A m \in Node : s \in Link[m] => s \in known'[m]
    BY <1>1, <1>4, LinkKinds
  <2>2. Link' = Link
    BY <1>2 DEF Link
  <2> QED
    BY <1>3, <2>1, <2>2 DEF Sourced
<1>13. Announced(s)' /\ Sent(s)'
  <2>1. \A m \in Node \ {s} : held'[m]
    BY <1>1, <1>3
  <2>2. \A t \in Thread : pc'[t] \notin Gossiping \cup {"rounds", "finish"}
    BY <1>7 DEF Early, Gossiping
  <2> QED
    BY <2>1, <2>2 DEF Announced, Sent, Gossiping
<1> QED
  BY <1>9, <1>10, <1>11, <1>12, <1>13 DEF Session

LEMMA StartArrives ==
    ASSUME Kinds, NEW s, Session(s), NEW msg \in network, ReceiveStart(msg)
    PROVE  Session(s)'
<1>1. /\ msg.kind = "start" /\ starts # 0 /\ network' = network \ {msg}
      /\ pc' = Begun(Up({msg.to}), pc)
      /\ UNCHANGED <<scene, running, started, held, known, announced, model, stage, targets,
                     user, starts>>
  BY DEF ReceiveStart, Drop, Session, Quiet
<1>2. \A t \in Thread : t[1] = msg.to => pc[t] = "none"
  BY <1>1 DEF Session, Alone
<1>3. \A t \in Thread : \/ pc'[t] = pc[t]
                        \/ t[1] = msg.to /\ pc[t] = "none" /\ pc'[t] = "begin"
  <2>1. Up({msg.to}) \subseteq {msg.to}
    BY DEF Up
  <2> QED
    BY <1>1, <1>2, <2>1, BegunOnce
<1>4. (\A m : HasEnded(m)' <=> HasEnded(m)) /\ (\A m : IsLate(m)' <=> IsLate(m))
  BY <1>3 DEF HasEnded, IsLate, Later
<1>5. Quiet' /\ Calm'
  BY <1>1, <1>3 DEF Session, Quiet, Calm
<1>6. Alone'
  <2>1. ASSUME NEW t \in Thread, NEW u \in Thread, t[1] = u[1], pc'[t] # "none", pc'[u] # "none"
        PROVE  t = u
    <3>1. CASE t[1] = msg.to
      <4>1. pc[t] = "none" /\ pc[u] = "none" /\ t \in Thread /\ u \in Thread
        BY <1>2, <2>1, <3>1
      <4>2. Begun(Up({msg.to}), pc)[t] # "none" /\ Begun(Up({msg.to}), pc)[u] # "none"
        BY <1>1, <2>1
      <4> QED
        BY <2>1, <4>1, <4>2, BegunOnce
    <3>2. CASE t[1] # msg.to
      BY <1>3, <2>1, <3>2 DEF Session, Alone
    <3> QED
      BY <3>1, <3>2
  <2>2. ASSUME NEW t \in Thread, user'[t[1]] = "starting" PROVE pc'[t] = "none"
    <3>1. user[msg.to] = "idle"
      BY <1>1 DEF Session, Alone
    <3> QED
      BY <1>1, <1>3, <2>2, <3>1 DEF Session, Alone
  <2>3. ASSUME NEW t \in Thread, NEW a \in network', a.kind = "start", a.to = t[1]
        PROVE  pc'[t] = "none"
    <3>1. a \in network /\ a # msg
      BY <1>1
    <3>2. t[1] # msg.to
      BY <1>1, <2>3, <3>1 DEF Session, Alone
    <3> QED
      BY <1>3, <2>3, <3>1, <3>2 DEF Session, Alone
  <2> QED
    BY <1>1, <2>1, <2>2, <2>3 DEF Session, Alone
<1>7. InStep'
  BY <1>1, <1>3, <1>4 DEF Session, InStep, Gossiping
<1>8. Sourced(s)'
  BY <1>1, <1>3, <1>4 DEF Session, Sourced, Early, Link
<1>9. Announced(s)'
  BY <1>1, <1>3 DEF Session, Announced, Gossiping
<1>10. Sent(s)'
  <2>1. /\ \A t \in Thread : pc'[t] \in {"offer", "send"} => pc[t] = pc'[t]
        /\ \A t \in Thread : pc[t] \in Early => pc'[t] \in Early
    BY <1>3 DEF Early
  <2>2. UNCHANGED <<announced, held, targets>> /\ Sent(s)
    BY <1>1 DEF Session
  <2> QED
    BY <1>4, <2>1, <2>2 DEF Sent
<1> QED
  BY <1>5, <1>6, <1>7, <1>8, <1>9, <1>10 DEF Session

LEMMA InitializedArrives ==
    ASSUME Kinds, NEW s, Session(s), NEW msg \in network, ReceiveInitialized(msg)
    PROVE  Session(s)'
<1>1. /\ network' \subseteq network /\ \A n \in Node : known[n] \subseteq known'[n]
      /\ UNCHANGED <<scene, running, started, held, announced, model, stage, pc, targets, user,
                     starts>>
  BY DEF ReceiveInitialized, Drop, Kinds
<1>2. (\A m : HasEnded(m)' <=> HasEnded(m)) /\ (\A m : IsLate(m)' <=> IsLate(m))
  BY <1>1 DEF HasEnded, IsLate
<1>3. Quiet' /\ Calm' /\ Alone'
  BY <1>1 DEF Session, Quiet, Calm, Alone
<1>4. InStep' /\ Announced(s)'
  BY <1>1, <1>2 DEF Session, InStep, Announced
<1>5. Sourced(s)'
  BY <1>1, <1>2 DEF Session, Sourced, Link
<1>6. Sent(s)'
  BY <1>1, <1>2 DEF Session, Sent
<1> QED
  BY <1>3, <1>4, <1>5, <1>6 DEF Session

LEMMA RestStep ==
    ASSUME Kinds, NEW s, Session(s), UNCHANGED vars
    PROVE  Session(s)'
<1> USE DEF vars
<1>1. (\A m : HasEnded(m)' <=> HasEnded(m)) /\ (\A m : IsLate(m)' <=> IsLate(m))
  BY DEF HasEnded, IsLate
<1>2. Quiet' /\ Calm' /\ Alone'
  BY DEF Session, Quiet, Calm, Alone
<1>3. InStep' /\ Announced(s)'
  BY <1>1 DEF Session, InStep, Announced
<1>4. Sourced(s)'
  BY <1>1 DEF Session, Sourced, Link
<1>5. Sent(s)'
  BY <1>1 DEF Session, Sent
<1> QED
  BY <1>2, <1>3, <1>4, <1>5 DEF Session

\* Who trained a model keeps it in every step but the sending of a model.
LEMMA ThreadStep ==
    ASSUME Kinds, NEW s, Session(s), NEW t \in Thread, LearningStep(t)
    PROVE  Session(s)' /\ \A n \in Node : model[n] = Trained => model'[n] = Trained
<1>1. CASE BeginLearning(t)
  BY <1>1, BeginStep DEF BeginLearning
<1>2. CASE StartLearningStage(t)
  BY <1>2, StartStageStep DEF StartLearningStage
<1>3. CASE Acquire(t)
  BY <1>3, AcquireStep DEF Acquire
<1>4. CASE GossipEnds(t)
  BY <1>4, GossipEndsStep DEF GossipEnds
<1>5. CASE GossipPeriod(t)
  BY <1>5, PeriodStep DEF GossipPeriod
<1>6. CASE RunRound(t)
  <2>1. \A n \in Node : model[n] = Trained => model'[n] = Trained
    BY <1>6 DEF RunRound, Kinds
  <2> QED
    BY <1>6, <2>1, RunRoundStep
<1>7. CASE RoundFinishedStage(t)
  BY <1>7, RoundFinishedStep DEF RoundFinishedStage
<1>8. CASE Fail(t)
  BY <1>8 DEF Fail, Session, Calm
<1>9. ASSUME NEW m \in Node, Offer(t, m)
      PROVE  Session(s)' /\ \A n \in Node : model[n] = Trained => model'[n] = Trained
  BY <1>9, OfferStep DEF Offer
<1>10. ASSUME NEW m \in Node, SendModel(t, m)
       PROVE  Session(s)' /\ \A n \in Node : model[n] = Trained => model'[n] = Trained
  BY <1>10, SendStep
<1> QED
  BY <1>1, <1>2, <1>3, <1>4, <1>5, <1>6, <1>7, <1>8, <1>9, <1>10 DEF LearningStep

\* As long as nobody has stopped learning.
Unstopped == stopped = {} => \E s : Session(s)

LEMMA InitUnstopped == Init => Unstopped
<1> SUFFICES ASSUME Init, NEW s PROVE Session(s)
  BY DEF Unstopped
<1>1. /\ (\A n \in Node : user[n] = "idle" /\ held[n] /\ running[n] /\ stage[n] = "start"
                          /\ model[n] # Trained)
      /\ (\A t \in Thread : pc[t] = "none" /\ targets[t] = {})
      /\ network = {} /\ starts = 0
  BY SessionAssumption DEF Init
<1>2. Quiet /\ Calm /\ Alone
  BY <1>1 DEF Quiet, Calm, Alone
<1>3. InStep /\ Sourced(s)
  BY <1>1, ThreadNode DEF InStep, Sourced, Gossiping
<1>4. Announced(s) /\ Sent(s)
  BY <1>1 DEF Announced, Sent, Gossiping
<1> QED
  BY <1>2, <1>3, <1>4 DEF Session

LEMMA NextUnstopped ==
    ASSUME MaxStarts = 1, Kinds, Unstopped, [Next]_vars
    PROVE  /\ Unstopped'
           /\ stopped = {} => \A n \in Node : model[n] = Trained => model'[n] = Trained
<1>1. \/ stopped' # {}
      \/ stopped' = stopped
  <2>1. ASSUME NEW t \in Thread, LearningStep(t) PROVE stopped' = stopped
    BY <2>1 DEF LearningStep, BeginLearning, StartLearningStage, Acquire, GossipEnds,
                GossipPeriod, Offer, SendModel, RunRound, RoundFinishedStage, Fail
  <2>2. ASSUME NEW msg \in network, Receive(msg) PROVE stopped' = stopped
    BY <2>2 DEF Receive, ReceiveStart, ReceiveInitialized, ReceiveStop
  <2>3. ASSUME NEW n \in Node, SetStartLearning(n) \/ StartItself(n) PROVE stopped' = stopped
    BY <2>3 DEF SetStartLearning, StartItself
  <2>4. ASSUME NEW n \in Node, SetStopLearning(n) PROVE stopped' # {}
    BY <2>4 DEF SetStopLearning
  <2> QED
    BY <2>1, <2>2, <2>3, <2>4 DEF Next, vars
<1>2. CASE stopped # {}
  BY <1>1, <1>2 DEF Unstopped, Next, SetStartLearning, StartItself, SetStopLearning, LearningStep,
         BeginLearning, StartLearningStage, Acquire, GossipEnds, GossipPeriod, Offer, SendModel,
         RunRound, RoundFinishedStage, Fail, Receive, ReceiveStart, ReceiveInitialized,
         ReceiveStop, vars
<1>3. CASE stopped = {}
  <2>1. PICK s : Session(s)
    BY <1>3 DEF Unstopped
  <2>2. ASSUME NEW n \in Node, SetStartLearning(n)
        PROVE  (\E r : Session(r)') /\ UNCHANGED model
    BY <2>1, <2>2, FirstStart DEF SetStartLearning
  <2>3. ASSUME NEW n \in Node, StartItself(n)
        PROVE  Session(s)' /\ UNCHANGED model
    BY <2>1, <2>3, StartItselfStep DEF StartItself
  <2>4. ASSUME NEW n \in Node, SetStopLearning(n)
        PROVE  stopped' # {} /\ UNCHANGED model
    BY <2>4 DEF SetStopLearning
  <2>5. ASSUME NEW t \in Thread, LearningStep(t)
        PROVE  Session(s)' /\ \A n \in Node : model[n] = Trained => model'[n] = Trained
    BY <2>1, <2>5, ThreadStep
  <2>6. ASSUME NEW msg \in network, Receive(msg)
        PROVE  Session(s)' /\ UNCHANGED model
    <3>1. CASE ReceiveStart(msg)
      BY <2>1, <3>1, StartArrives DEF ReceiveStart
    <3>2. CASE ReceiveInitialized(msg)
      BY <2>1, <3>2, InitializedArrives DEF ReceiveInitialized
    <3>3. CASE ReceiveStop(msg)
      BY <2>1, <3>3 DEF ReceiveStop, Session, Calm
    <3> QED
      BY <2>6, <3>1, <3>2, <3>3 DEF Receive
  <2>7. CASE UNCHANGED vars
    <3>1. Session(s)' /\ UNCHANGED model
      BY <2>1, <2>7, RestStep DEF vars
    <3> QED
      BY <3>1 DEF Unstopped
  <2>8. CASE Next
    BY <2>2, <2>3, <2>4, <2>5, <2>6, <2>8 DEF Next, Unstopped
  <2> QED
    BY <2>7, <2>8
<1> QED
  BY <1>2, <1>3

\* Of an experiment that is started once, no node loses a model it trained to an initial
\* one, in any network and with any number of threads, as long as nobody stops learning:
\* the record of announced models keeps every second sender away (gossiper.py:221-229,
\* init_model_command.py:69).
THEOREM TrainedModelIsKept ==
    ASSUME MaxStarts = 1
    PROVE  Spec => TrainedModelKept
<1>1. /\ Kinds /\ Unstopped /\ [Next]_vars
      => [stopped = {} => \A n \in Node : model[n] = Trained => model'[n] = Trained]_vars
  BY NextUnstopped
<1>2. Kinds /\ Unstopped /\ [Next]_vars => Unstopped'
  BY NextUnstopped
<1> QED
  BY <1>1, <1>2, InitKinds, NextKinds, InitUnstopped, PTL DEF Spec, TrainedModelKept

-----------------------------------------------------------------------------
\* Type correctness.

SavedStatus == UNION {[1..k -> Status] : k \in 0..EqualRounds}

\* What a thread remembers of its periods, and the bounds of an experiment.
Bounds ==
    /\ started \in [Node -> 0..Rounds] /\ finished \in [Node -> BOOLEAN]
    /\ seen \in [Thread -> SavedStatus] /\ turn \in [Thread -> 1..EqualRounds]
    /\ starts \in 0..MaxStarts /\ stopped \subseteq scene.stoppers

LEMMA EmptyStatus == << >> \in SavedStatus
<1>1. << >> \in [1..0 -> Status] /\ 0 \in 0..EqualRounds
  BY SessionAssumption
<1> QED
  BY <1>1 DEF SavedStatus

LEMMA SavedType ==
    ASSUME NEW t \in Thread, seen[t] \in SavedStatus, turn[t] \in 1..EqualRounds,
           NEW status \in SUBSET Node
    PROVE  Saved(t, status) \in SavedStatus
<1>1. PICK k \in 0..EqualRounds : seen[t] \in [1..k -> Status]
  BY DEF SavedStatus
<1>2. EqualRounds \in Nat /\ k \in Nat
  BY SessionAssumption
<1>3. \A b \in BOOLEAN : [text |-> b, of |-> status] \in Status
  BY DEF Status
<1>4. Len(seen[t]) = k
  BY <1>1, <1>2
<1>5. CASE k # EqualRounds
  <2>1. k + 1 \in 0..EqualRounds
    BY <1>2, <1>5
  <2>2. seen[t] \in Seq(Status)
    BY <1>1, <1>2
  <2>3. Append(seen[t], [text |-> FALSE, of |-> status]) \in [1..k + 1 -> Status]
    <3> DEFINE e == [text |-> FALSE, of |-> status]
    <3>1. e \in Status
      BY <1>3
    <3> HIDE DEF e
    <3>2. Append(seen[t], e) \in Seq(Status) /\ Len(Append(seen[t], e)) = k + 1
      BY <1>2, <1>4, <2>2, <3>1
    <3>3. Append(seen[t], e) \in [1..k + 1 -> Status]
      BY <3>2, LenProperties
    <3> QED
      BY <3>3 DEF e
  <2> QED
    BY <1>4, <1>5, <2>1, <2>3 DEF Saved, SavedStatus
<1>6. CASE k = EqualRounds
  <2>1. [seen[t] EXCEPT ![turn[t]] = [text |-> TRUE, of |-> status]] \in [1..k -> Status]
    BY <1>1, <1>3
  <2> QED
    BY <1>4, <1>6, <2>1 DEF Saved, SavedStatus
<1> QED
  BY <1>5, <1>6

LEMMA NextBounds == Kinds /\ Bounds /\ [Next]_vars => Bounds'
<1> SUFFICES ASSUME Kinds, Bounds, [Next]_vars PROVE Bounds'
  OBVIOUS
<1>1. /\ Rounds \in Nat \ {0} /\ EqualRounds \in Nat \ {0, 1} /\ MaxStarts \in Nat
      /\ started \in [Node -> 0..Rounds] /\ finished \in [Node -> BOOLEAN]
      /\ seen \in [Thread -> SavedStatus] /\ turn \in [Thread -> 1..EqualRounds]
      /\ starts \in 0..MaxStarts /\ stopped \subseteq scene.stoppers
  BY SessionAssumption DEF Kinds, Bounds, Rounds
<1>2. scene' = scene /\ Rounds' = Rounds
  BY DEF Next, SetStartLearning, StartItself, SetStopLearning, LearningStep, BeginLearning,
         StartLearningStage, Acquire, GossipEnds, GossipPeriod, Offer, SendModel, RunRound,
         RoundFinishedStage, Fail, Receive, ReceiveStart, ReceiveInitialized, ReceiveStop, vars,
         Rounds
<1>3. /\ \A nodes : Cleared(nodes) => started' \in [Node -> 0..Rounds]
      /\ \A n \in Node : Entered(n) => started' \in [Node -> 0..Rounds]
      /\ started' = started => started' \in [Node -> 0..Rounds]
  <2>1. ASSUME NEW nodes, Cleared(nodes) PROVE started' \in [Node -> 0..Rounds]
    <3>1. started' = [n \in Node |-> IF n \in nodes THEN 0 ELSE started[n]]
      BY <2>1 DEF Cleared
    <3>2. \A n \in Node : started[n] \in 0..Rounds /\ 0 \in 0..Rounds
      BY <1>1
    <3> QED
      BY <3>1, <3>2
  <2>2. ASSUME NEW n \in Node, Entered(n) PROVE started' \in [Node -> 0..Rounds]
    <3>1. started' = [started EXCEPT ![n] = IF @ = 0 THEN 1 ELSE @]
      BY <2>2 DEF Entered
    <3>2. 1 \in 0..Rounds
      BY <1>1
    <3> QED
      BY <1>1, <3>1, <3>2
  <2> QED
    BY <1>1, <2>1, <2>2
<1>4. ASSUME started' \in [Node -> 0..Rounds], finished' = finished, seen' = seen, turn' = turn,
             starts' = starts, stopped' = stopped
      PROVE  Bounds'
  BY <1>1, <1>2, <1>4 DEF Bounds
<1>5. ASSUME NEW n \in Node, SetStartLearning(n) \/ StartItself(n) \/ SetStopLearning(n)
      PROVE  Bounds'
  <2>1. CASE SetStartLearning(n)
    <3>1. starts' \in 0..MaxStarts /\ UNCHANGED <<started, finished, seen, turn, stopped>>
      BY <1>1, <2>1 DEF SetStartLearning
    <3> QED
      BY <1>1, <1>2, <3>1 DEF Bounds
  <2>2. CASE StartItself(n)
    BY <1>3, <1>4, <2>2 DEF StartItself
  <2>3. CASE SetStopLearning(n)
    <3>1. Cleared(Up(Link[n] \cup {n})) /\ stopped' \subseteq scene.stoppers
      BY <1>1, <2>3 DEF SetStopLearning
    <3>2. UNCHANGED <<finished, seen, turn, starts>>
      BY <2>3 DEF SetStopLearning
    <3> QED
      BY <1>1, <1>2, <1>3, <3>1, <3>2 DEF Bounds
  <2> QED
    BY <1>5, <2>1, <2>2, <2>3
<1>6. ASSUME NEW msg \in network, Receive(msg) PROVE Bounds'
  <2>1. CASE ReceiveStart(msg)
    BY <1>3, <1>4, <2>1 DEF ReceiveStart
  <2>2. CASE ReceiveInitialized(msg)
    BY <1>3, <1>4, <2>2 DEF ReceiveInitialized
  <2>3. CASE ReceiveStop(msg)
    BY <1>3, <1>4, <2>3 DEF ReceiveStop
  <2> QED
    BY <1>6, <2>1, <2>2, <2>3 DEF Receive
<1>7. ASSUME NEW t \in Thread, LearningStep(t) PROVE Bounds'
  <2>1. CASE BeginLearning(t)
    <3>1. finished' \in [Node -> BOOLEAN] /\ started' \in [Node -> 0..Rounds]
          /\ UNCHANGED <<seen, turn, starts, stopped>>
      BY <1>1, <1>3, <2>1, ThreadNode DEF BeginLearning
    <3> QED
      BY <1>1, <1>2, <3>1 DEF Bounds
  <2>2. CASE StartLearningStage(t)
    BY <1>3, <1>4, <2>2, ThreadNode DEF StartLearningStage
  <2>3. CASE Acquire(t)
    <3>1. seen' \in [Thread -> SavedStatus] /\ turn' \in [Thread -> 1..EqualRounds]
      BY <1>1, <2>3, EmptyStatus DEF Acquire
    <3>2. UNCHANGED <<started, finished, starts, stopped>>
      BY <2>3 DEF Acquire
    <3> QED
      BY <1>1, <1>2, <3>1, <3>2 DEF Bounds
  <2>4. CASE GossipEnds(t)
    <3>1. finished' \in [Node -> BOOLEAN] /\ UNCHANGED <<started, seen, turn, starts, stopped>>
      BY <1>1, <2>4, ThreadNode DEF GossipEnds, Returned
    <3> QED
      BY <1>1, <1>2, <3>1 DEF Bounds
  <2>5. CASE GossipPeriod(t)
    <3>1. Candidates(t[1]) \subseteq Node
      BY LinkKinds, ThreadNode DEF Candidates
    <3>2. Saved(t, Candidates(t[1])) \in SavedStatus
      BY <1>1, <3>1, SavedType
    <3>3. seen' \in [Thread -> SavedStatus]
      BY <1>1, <2>5, <3>2 DEF GossipPeriod
    <3>4. turn[t] \in Nat /\ (turn[t] % EqualRounds) + 1 \in 1..EqualRounds
      BY <1>1
    <3>5. turn' \in [Thread -> 1..EqualRounds]
      BY <1>1, <2>5, <3>4 DEF GossipPeriod
    <3>6. UNCHANGED <<started, finished, starts, stopped>>
      BY <2>5 DEF GossipPeriod
    <3> QED
      BY <1>1, <1>2, <3>3, <3>5, <3>6 DEF Bounds
  <2>6. CASE RunRound(t)
    <3>1. finished' \in [Node -> BOOLEAN] /\ UNCHANGED <<started, seen, turn, starts, stopped>>
      BY <1>1, <2>6, ThreadNode DEF RunRound, Returned
    <3> QED
      BY <1>1, <1>2, <3>1 DEF Bounds
  <2>7. CASE RoundFinishedStage(t)
    <3>1. \/ started' = started
          \/ Round(t[1]) + 1 < Rounds /\ started' = [started EXCEPT ![t[1]] = @ + 1]
          \/ Cleared({t[1]})
      BY <2>7 DEF RoundFinishedStage
    <3>2. started' \in [Node -> 0..Rounds]
      BY <1>1, <1>3, <3>1, ThreadNode DEF Round
    <3>3. finished' \in [Node -> BOOLEAN] /\ UNCHANGED <<seen, turn, starts, stopped>>
      BY <1>1, <2>7 DEF RoundFinishedStage
    <3> QED
      BY <1>1, <1>2, <3>2, <3>3 DEF Bounds
  <2>8. CASE Fail(t)
    BY <1>3, <1>4, <2>8 DEF Fail
  <2>9. ASSUME NEW m \in Node, Offer(t, m) \/ SendModel(t, m) PROVE Bounds'
    BY <1>3, <1>4, <2>9 DEF Offer, SendModel
  <2> QED
    BY <1>7, <2>1, <2>2, <2>3, <2>4, <2>5, <2>6, <2>7, <2>8, <2>9 DEF LearningStep
<1>8. CASE UNCHANGED vars
  BY <1>3, <1>4, <1>8 DEF vars
<1> QED
  BY <1>5, <1>6, <1>7, <1>8 DEF Next

\* Rounds, threads, locks and messages keep their types: no node is ever past the rounds
\* of its experiment, and the loop of the gossip indexes its list within bounds.
THEOREM SessionTypeCorrect == Spec => []TypeOK
<1>1. Init => Bounds
  <2> SUFFICES ASSUME Init PROVE Bounds
    OBVIOUS
  <2>1. Rounds \in Nat /\ EqualRounds \in Nat \ {0, 1} /\ MaxStarts \in Nat
    BY SessionAssumption DEF Init, Rounds
  <2>2. seen \in [Thread -> SavedStatus]
    BY EmptyStatus DEF Init
  <2>3. turn \in [Thread -> 1..EqualRounds] /\ started \in [Node -> 0..Rounds]
        /\ starts \in 0..MaxStarts /\ stopped \subseteq scene.stoppers
        /\ finished \in [Node -> BOOLEAN]
    BY <2>1 DEF Init
  <2> QED
    BY <2>2, <2>3 DEF Bounds
<1>2. Kinds /\ Bounds => TypeOK
  BY DEF Kinds, Bounds, TypeOK, SavedStatus
<1> QED
  BY <1>1, <1>2, InitKinds, NextKinds, NextBounds, PTL DEF Spec


-----------------------------------------------------------------------------
(* Numbers, finite sets of them, and folds. *)

\* Induction over numbers: otherwise there were a least counterexample.
LEMMA LeastNumber ==
    ASSUME NEW S \in SUBSET Nat, S # {}
    PROVE  \E m \in S : \A n \in S : m <= n
<1> DEFINE R == OpToRel(<, Nat)
<1>1. PICK m \in S : \A n \in S : <<n, m>> \notin R
  <2>1. IsWellFoundedOn(R, Nat)
    BY NatLessThanWellFounded
  <2> HIDE DEF R
  <2> QED
    BY <2>1, WFMin
<1>2. ASSUME NEW n \in S PROVE m <= n
  <2>1. ~(n < m)
    BY <1>1 DEF OpToRel
  <2> QED
    BY <2>1
<1> QED
  BY <1>2

LEMMA AllNumbers ==
    ASSUME NEW T \in SUBSET Nat, 0 \in T, \A n \in T : n + 1 \in T
    PROVE  T = Nat
<1>1. SUFFICES ASSUME Nat \ T # {} PROVE FALSE
  OBVIOUS
<1>2. PICK m \in Nat \ T : \A n \in Nat \ T : m <= n
  BY <1>1, LeastNumber
<1>3. m - 1 \in Nat /\ m - 1 \notin T
  OBVIOUS
<1> QED
  BY <1>2, <1>3

\* Finitely many integers have a least and a greatest one.
LEMMA Extremes ==
    ASSUME NEW S \in SUBSET Int, IsFiniteSet(S), S # {}
    PROVE  /\ Ungated!Min(S) \in S /\ \A y \in S : Ungated!Min(S) <= y
           /\ Ungated!Max(S) \in S /\ \A y \in S : y <= Ungated!Max(S)
<1> DEFINE Bounded(s) == \E lo, hi \in s : \A y \in s : lo <= y /\ y <= hi
           Solved == {n \in Nat : \A s \in SUBSET S : s # {} /\ Cardinality(s) = n => Bounded(s)}
<1>1. \A s \in SUBSET S : IsFiniteSet(s) /\ Cardinality(s) \in Nat
  BY FS_Subset, FS_CardinalityType
<1>2. 0 \in Solved
  BY <1>1, FS_EmptySet
<1>3. ASSUME NEW n \in Solved PROVE n + 1 \in Solved
  <2> SUFFICES ASSUME NEW s \in SUBSET S, s # {}, Cardinality(s) = n + 1 PROVE Bounded(s)
    OBVIOUS
  <2>1. PICK x \in s : TRUE
    OBVIOUS
  <2>2. Cardinality(s \ {x}) = n /\ s \ {x} \in SUBSET S /\ x \in Int
    BY <1>1, FS_RemoveElement
  <2>3. CASE s \ {x} = {}
    BY <2>2, <2>3
  <2>4. CASE s \ {x} # {}
    <3>1. PICK lo \in s \ {x}, hi \in s \ {x} : \A y \in s \ {x} : lo <= y /\ y <= hi
      BY <2>2, <2>4
    <3>2. PICK a \in s : a <= lo /\ a <= x
      BY <3>1, <2>2
    <3>3. PICK b \in s : hi <= b /\ x <= b
      BY <3>1, <2>2
    <3>4. \A y \in s : a <= y /\ y <= b
      BY <3>1, <3>2, <3>3, <2>2
    <3> QED
      BY <3>4
  <2> QED
    BY <2>3, <2>4
<1>4. Solved = Nat
  <2> HIDE DEF Bounded
  <2>1. Solved \in SUBSET Nat
    OBVIOUS
  <2> HIDE DEF Solved
  <2> QED
    BY <1>2, <1>3, <2>1, AllNumbers
<1>5. Bounded(S)
  <2>1. Cardinality(S) \in Solved
    BY <1>1, <1>4
  <2> HIDE DEF Bounded
  <2> QED
    BY <2>1
<1> QED
  BY <1>5 DEF Ungated!Min, Ungated!Max

-----------------------------------------------------------------------------
\* The greatest number of a set of places.
LEMMA Greatest ==
    ASSUME NEW n \in Nat, NEW s \in SUBSET (1..n), s # {}
    PROVE  /\ Ungated!Max(s) \in s /\ \A k \in s : k <= Ungated!Max(s)
           /\ \A k \in s : (\A l \in s : l <= k) => Ungated!Max(s) = k
<1>1. IsFiniteSet(s) /\ s \in SUBSET Int
  <2>1. IsFiniteSet(1..n)
    BY FS_Interval, 1 \in Int, n \in Int
  <2>2. IsFiniteSet(s)
    BY <2>1, FS_Subset
  <2>3. s \in SUBSET Int
    OBVIOUS
  <2> QED
    BY <2>2, <2>3
<1>2. Ungated!Max(s) \in s /\ \A k \in s : k <= Ungated!Max(s)
  BY <1>1, Extremes
<1>3. ASSUME NEW k \in s, \A l \in s : l <= k PROVE Ungated!Max(s) = k
  <2>1. Ungated!Max(s) <= k /\ k <= Ungated!Max(s)
    BY <1>2, <1>3
  <2>2. Ungated!Max(s) \in Int /\ k \in Int
    BY <1>1, <1>2
  <2> QED
    BY <2>1, <2>2
<1> QED
  BY <1>2, <1>3

\* A fold from the left exists: for the places up to n, by induction on n.
Folds(g, first, F, n) ==
    g = [s \in SUBSET (1..n) |->
            IF s = {} THEN first ELSE F[<<g[s \ {Ungated!Max(s)}], Ungated!Max(s)>>]]
LEMMA FoldExists ==
    ASSUME NEW A, NEW first \in A, NEW N \in Nat, NEW F \in [A \X (1..N) -> A]
    PROVE  \E g \in [SUBSET (1..N) -> A] : Folds(g, first, F, N)
<1> DEFINE Exists(n) == \E g \in [SUBSET (1..n) -> A] : Folds(g, first, F, n)
           Solved == {n \in Nat : n <= N => Exists(n)}
<1>1. 0 \in Solved
  <2> DEFINE g == [s \in SUBSET (1..0) |-> first]
  <2>1. \A s \in SUBSET (1..0) : s = {}
    OBVIOUS
  <2>2. g \in [SUBSET (1..0) -> A] /\ Folds(g, first, F, 0)
    BY <2>1 DEF Folds
  <2> HIDE DEF g
  <2> QED
    BY <2>2
<1>2. ASSUME NEW n \in Solved PROVE n + 1 \in Solved
  <2>1. SUFFICES ASSUME n + 1 <= N PROVE Exists(n + 1)
    <3> HIDE DEF Exists
    <3> QED  OBVIOUS
  <2>2. PICK g \in [SUBSET (1..n) -> A] : Folds(g, first, F, n)
    <3>1. Exists(n)
      <4> HIDE DEF Exists
      <4> QED  BY <2>1
    <3> QED
      BY <3>1
  <2> DEFINE h == [s \in SUBSET (1..n + 1) |->
                      IF n + 1 \in s THEN F[<<g[s \ {n + 1}], n + 1>>] ELSE g[s]]
  <2>3. \A s \in SUBSET (1..n + 1) : /\ s \ {n + 1} \in SUBSET (1..n)
                                     /\ n + 1 \notin s => s \in SUBSET (1..n)
    OBVIOUS
  <2>4. h \in [SUBSET (1..n + 1) -> A]
    BY <2>1, <2>3
  <2>5. \A s \in SUBSET (1..n) : h[s] = g[s]
    <3>1. \A s \in SUBSET (1..n) : s \in SUBSET (1..n + 1) /\ n + 1 \notin s
      OBVIOUS
    <3> QED
      BY <3>1
  <2>6. ASSUME NEW s \in SUBSET (1..n + 1)
        PROVE  h[s] = IF s = {} THEN first
                      ELSE F[<<h[s \ {Ungated!Max(s)}], Ungated!Max(s)>>]
    <3>1. CASE n + 1 \in s
      <4>1. \A k \in s : k <= n + 1
        OBVIOUS
      <4>2. Ungated!Max(s) = n + 1
        BY <3>1, <4>1, Greatest, n + 1 \in Nat
      <4>3. h[s \ {n + 1}] = g[s \ {n + 1}]
        BY <2>3, <2>5
      <4> QED
        BY <3>1, <4>2, <4>3
    <3>2. CASE n + 1 \notin s
      <4>1. s \in SUBSET (1..n)
        BY <2>3, <3>2
      <4>2. g[s] = IF s = {} THEN first ELSE F[<<g[s \ {Ungated!Max(s)}], Ungated!Max(s)>>]
        BY <2>2, <4>1 DEF Folds
      <4>3. s \ {Ungated!Max(s)} \in SUBSET (1..n)
        BY <4>1
      <4> HIDE DEF h
      <4> QED
        BY <2>5, <4>1, <4>2, <4>3
    <3> QED
      BY <3>1, <3>2
  <2>7. Folds(h, first, F, n + 1)
    <3>1. h = [s \in SUBSET (1..n + 1) |-> h[s]]
      BY <2>4
    <3> HIDE DEF h
    <3> QED
      BY <2>6, <3>1 DEF Folds
  <2> HIDE DEF h
  <2> QED
    BY <2>4, <2>7
<1>3. Solved = Nat
  <2>1. Solved \in SUBSET Nat
    OBVIOUS
  <2> HIDE DEF Solved
  <2> QED
    BY <1>1, <1>2, <2>1, AllNumbers
<1> QED
  <2>1. Exists(N)
    <3> HIDE DEF Exists
    <3> QED  BY <1>3
  <2> QED
    BY <2>1

NormHolds == Ungated!IsNormOn(Ungated!Weights)

\* The distance of a norm is symmetric and has the triangle inequality.
LEMMA DistanceFacts ==
    ASSUME NormHolds, NEW x \in Ungated!Weights, NEW y \in Ungated!Weights, NEW z \in Ungated!Weights
    PROVE  /\ Ungated!Distance(x, y) \in Nat /\ Ungated!Distance(x, x) = 0
           /\ Ungated!Distance(x, y) = Ungated!Distance(y, x)
           /\ Ungated!Distance(x, z) <= Ungated!Distance(x, y) + Ungated!Distance(y, z)
<1> DEFINE W == Ungated!Weights
           minus(a, b) == Ungated!Minus(a, b)
<1>1. \A a, b \in W : minus(a, b) \in W
  BY DEF Ungated!Weights, Ungated!Minus
<1>2. Ungated!Zeros \in W
  BY DEF Ungated!Weights, Ungated!Zeros
<1>3. minus(x, x) = Ungated!Zeros
  BY DEF Ungated!Weights, Ungated!Minus, Ungated!Zeros
<1>4. \A a, b \in W : minus(Ungated!Zeros, minus(a, b)) = minus(b, a)
  BY DEF Ungated!Weights, Ungated!Minus, Ungated!Zeros
<1>5. minus(minus(x, y), minus(z, y)) = minus(x, z)
  BY DEF Ungated!Weights, Ungated!Minus
<1>6. /\ Norm(Ungated!Zeros) = 0
      /\ \A a, b \in W : /\ Norm(a) \in Nat /\ Norm(minus(Ungated!Zeros, a)) = Norm(a)
                         /\ Norm(minus(a, b)) <= Norm(a) + Norm(b)
  BY DEF NormHolds, Ungated!IsNormOn
<1>7. \A a, b \in W : Ungated!Distance(a, b) = Norm(minus(a, b))
  BY DEF Ungated!Distance
<1> HIDE DEF minus, W
<1>8. x \in W /\ y \in W /\ z \in W
  BY DEF W
<1>9. Ungated!Distance(x, x) = 0
  BY <1>3, <1>6, <1>7, <1>8
<1>10. \A a, b \in W : Ungated!Distance(a, b) = Ungated!Distance(b, a)
  BY <1>1, <1>4, <1>6, <1>7
<1>11. Ungated!Distance(x, z) <= Ungated!Distance(x, y) + Ungated!Distance(z, y)
  BY <1>1, <1>5, <1>6, <1>7, <1>8
<1> QED
  BY <1>1, <1>6, <1>7, <1>8, <1>9, <1>10, <1>11

\* The sums of the distances of one model are numbers that grow place by place.
Measured(models, N) ==
    N \in Nat /\ DOMAIN models = 1..N /\ \A k \in 1..N : models[k].param \in Ungated!Weights
Away(models, i, k) == Ungated!Distance(models[i].param, models[k].param)
LEMMA DistanceFold ==
    ASSUME NormHolds, NEW models, NEW N, Measured(models, N), NEW i \in 1..N
    PROVE  \E d \in [0..N -> Nat] :
              /\ d[0] = 0 /\ d[N] = Ungated!DistanceSum(models, i)
              /\ \A k \in 1..N : d[k] = d[k - 1] + Away(models, i, k)
<1> N \in Nat
  BY DEF Measured
<1> DEFINE F == [x \in Nat \X (1..N) |-> x[1] + Away(models, i, x[2])]
           Solves(z) == z = [s \in SUBSET (DOMAIN models) |->
                IF s = {} THEN 0
                ELSE z[s \ {Ungated!Max(s)}] + Away(models, i, Ungated!Max(s))]
           iter[s \in SUBSET (DOMAIN models)] ==
                IF s = {} THEN 0
                ELSE iter[s \ {Ungated!Max(s)}] + Away(models, i, Ungated!Max(s))
<1>1. \A k \in 1..N : Away(models, i, k) \in Nat
  BY DistanceFacts DEF Away, Measured
<1>2. F \in [Nat \X (1..N) -> Nat]
  BY <1>1
<1>3. PICK g \in [SUBSET (1..N) -> Nat] : Folds(g, 0, F, N)
  BY <1>2, FoldExists
<1>4. Solves(g)
  <2>1. ASSUME NEW s \in SUBSET (1..N), s # {}
        PROVE  F[<<g[s \ {Ungated!Max(s)}], Ungated!Max(s)>>]
                 = g[s \ {Ungated!Max(s)}] + Away(models, i, Ungated!Max(s))
    <3>1. Ungated!Max(s) \in 1..N
      BY <2>1, Greatest
    <3>2. g[s \ {Ungated!Max(s)}] \in Nat
      OBVIOUS
    <3> QED
      BY <3>1, <3>2
  <2>2. DOMAIN models = 1..N
    BY DEF Measured
  <2> HIDE DEF F
  <2> QED
    BY <1>3, <2>1, <2>2 DEF Folds
<1>5. Solves(iter)
  <2>1. iter = CHOOSE z : Solves(z)
    OBVIOUS
  <2> HIDE DEF Solves, iter
  <2> QED
    BY <1>4, <2>1
<1>6. Ungated!DistanceSum(models, i) = iter[DOMAIN models]
  BY DEF Ungated!DistanceSum, Ungated!Sum, Ungated!FoldLeft, Ungated!MapThenFoldSet, Away
<1> HIDE DEF iter
<1>7. ASSUME NEW s \in SUBSET (1..N)
      PROVE  iter[s] = IF s = {} THEN 0
                       ELSE iter[s \ {Ungated!Max(s)}] + Away(models, i, Ungated!Max(s))
  BY <1>5 DEF Measured
<1>8. /\ iter[1..0] = 0
      /\ \A k \in 1..N : iter[1..k] = iter[1..k - 1] + Away(models, i, k)
  <2>1. 1..0 = {} /\ {} \in SUBSET (1..N)
    OBVIOUS
  <2>2. ASSUME NEW k \in 1..N PROVE iter[1..k] = iter[1..k - 1] + Away(models, i, k)
    <3>1. 1..k \in SUBSET (1..N) /\ k \in 1..k /\ (1..k) \ {k} = 1..k - 1 /\ \A l \in 1..k : l <= k
      OBVIOUS
    <3>2. Ungated!Max(1..k) = k
      BY <3>1, Greatest
    <3>3. iter[1..k] = IF 1..k = {} THEN 0
                       ELSE iter[(1..k) \ {Ungated!Max(1..k)}] + Away(models, i, Ungated!Max(1..k))
      BY <1>7, <3>1
    <3> QED
      BY <3>1, <3>2, <3>3
  <2>3. iter[{}] = 0
    BY <1>7, <2>1
  <2> QED
    BY <2>1, <2>2, <2>3
<1> DEFINE d == [k \in 0..N |-> iter[1..k]]
           Whole == {n \in Nat : n <= N => iter[1..n] \in Nat}
<1>9. Whole = Nat
  <2>1. 0 \in Whole
    BY <1>8
  <2>2. ASSUME NEW n \in Whole PROVE n + 1 \in Whole
    <3>1. n + 1 \in Nat
      OBVIOUS
    <3>2. ASSUME n + 1 <= N PROVE iter[1..n + 1] \in Nat
      <4>1. n + 1 \in 1..N /\ (n + 1) - 1 = n /\ n <= N
        BY <3>2
      <4>2. iter[1..n + 1] = iter[1..n] + Away(models, i, n + 1)
        BY <1>8, <4>1
      <4>3. iter[1..n] \in Nat
        BY <4>1
      <4> QED
        BY <1>1, <4>1, <4>2, <4>3
    <3> QED
      BY <3>1, <3>2
  <2>3. Whole \in SUBSET Nat
    OBVIOUS
  <2> HIDE DEF Whole
  <2> QED
    BY <2>1, <2>2, <2>3, AllNumbers
<1>10. d \in [0..N -> Nat]
  <2>1. \A k \in 0..N : k \in Whole
    BY <1>9
  <2> QED
    BY <2>1
<1>11. /\ d[0] = 0 /\ d[N] = Ungated!DistanceSum(models, i)
       /\ \A k \in 1..N : d[k] = d[k - 1] + Away(models, i, k)
  <2>1. 0 \in 0..N /\ N \in 0..N /\ \A k \in 1..N : k \in 0..N /\ k - 1 \in 0..N
    OBVIOUS
  <2>2. DOMAIN models = 1..N
    BY DEF Measured
  <2> QED
    BY <1>6, <1>8, <2>1, <2>2
<1> HIDE DEF d
<1> QED
  BY <1>10, <1>11

-----------------------------------------------------------------------------
\* The instance has the cardinalities of FiniteSets.
LEMMA SameCardinality == \A S : Ungated!Cardinality(S) = Cardinality(S)
BY DEF Cardinality, Ungated!Cardinality

\* How many of the places up to k are in a set of places.
Upwards(A, k) == Cardinality(A \cap (1..k))
LEMMA Counted ==
    ASSUME NEW N \in Nat, NEW A \in SUBSET (1..N)
    PROVE  /\ \A k \in 0..N : Upwards(A, k) \in Nat
           /\ \A k \in 1..N : Upwards(A, k) = IF k \in A THEN Upwards(A, k - 1) + 1
                                              ELSE Upwards(A, k - 1)
           /\ Upwards(A, 0) = 0 /\ Upwards(A, N) = Cardinality(A)
<1> USE DEF Upwards
<1>1. \A k \in 0..N : IsFiniteSet(A \cap (1..k))
  <2> TAKE k \in 0..N
  <2>1. IsFiniteSet(1..k)
    BY FS_Interval, 1 \in Int, k \in Int
  <2> QED
    BY <2>1, FS_Subset
<1>2. \A k \in 0..N : Upwards(A, k) \in Nat
  BY <1>1, FS_CardinalityType
<1>3. ASSUME NEW k \in 1..N
      PROVE  Upwards(A, k) = IF k \in A THEN Upwards(A, k - 1) + 1 ELSE Upwards(A, k - 1)
  <2>1. k - 1 \in 0..N /\ k \notin A \cap (1..k - 1)
    OBVIOUS
  <2>2. A \cap (1..k) = IF k \in A THEN (A \cap (1..k - 1)) \cup {k} ELSE A \cap (1..k - 1)
    <3>1. \A l \in Int : l \in 1..k <=> l \in 1..k - 1 \/ l = k
      OBVIOUS
    <3>2. A \subseteq Int
      OBVIOUS
    <3>3. \A l : l \in A \cap (1..k) <=> l \in A /\ (l \in 1..k - 1 \/ l = k)
      BY <3>1, <3>2
    <3> QED
      BY <3>3
  <2> QED
    BY <1>1, <2>1, <2>2, FS_AddElement
<1>4. A \cap (1..0) = {} /\ A \cap (1..N) = A
  <2>1. 1..0 = {} /\ A \subseteq 1..N
    OBVIOUS
  <2> QED
    BY <2>1
<1> QED
  BY <1>2, <1>3, <1>4, FS_EmptySet

\* The sum of a model's distances, against that of another model: the distance d of the two is
\* gained at every place but those of L, where it is lost, and but for twice D at those of A.
LEMMA SumsDiffer ==
    ASSUME NormHolds, NEW models, NEW N, Measured(models, N), NEW i \in 1..N, NEW j \in 1..N,
           NEW L \in SUBSET (1..N), NEW A \in SUBSET (1..N), NEW D \in Nat,
           \A k \in (1..N) \ L :
                /\ k \in A => Away(models, j, k) + Away(models, i, j) <= Away(models, i, k) + 2 * D
                /\ k \notin A => Away(models, j, k) + Away(models, i, j) <= Away(models, i, k)
    PROVE  Ungated!DistanceSum(models, j) + Away(models, i, j) * (N - 2 * Cardinality(L))
             <= Ungated!DistanceSum(models, i) + 2 * (D * Cardinality(A))
<1> N \in Nat /\ \A k \in 1..N : models[k].param \in Ungated!Weights
  BY DEF Measured
<1> DEFINE d == Away(models, i, j)
           lost(n) == Upwards(L, n)
           allowed(n) == Upwards(A, n)
<1>1. d \in Nat /\ \A k \in 1..N : Away(models, i, k) \in Nat /\ Away(models, j, k) \in Nat
  BY DistanceFacts DEF Away
<1>2. ASSUME NEW k \in 1..N PROVE Away(models, j, k) <= Away(models, i, k) + d
  <2>1. /\ Ungated!Distance(models[j].param, models[k].param)
             <= Ungated!Distance(models[j].param, models[i].param)
                  + Ungated!Distance(models[i].param, models[k].param)
        /\ Ungated!Distance(models[j].param, models[i].param)
             = Ungated!Distance(models[i].param, models[j].param)
    BY DistanceFacts
  <2> QED
    BY <1>1, <2>1 DEF Away
<1>3. PICK di \in [0..N -> Nat] :
        /\ di[0] = 0 /\ di[N] = Ungated!DistanceSum(models, i)
        /\ \A k \in 1..N : di[k] = di[k - 1] + Away(models, i, k)
  BY DistanceFold
<1>4. PICK dj \in [0..N -> Nat] :
        /\ dj[0] = 0 /\ dj[N] = Ungated!DistanceSum(models, j)
        /\ \A k \in 1..N : dj[k] = dj[k - 1] + Away(models, j, k)
  BY DistanceFold
<1>5. /\ \A k \in 0..N : lost(k) \in Nat /\ allowed(k) \in Nat
      /\ \A k \in 1..N : /\ lost(k) = IF k \in L THEN lost(k - 1) + 1 ELSE lost(k - 1)
                         /\ allowed(k) = IF k \in A THEN allowed(k - 1) + 1 ELSE allowed(k - 1)
      /\ lost(0) = 0 /\ lost(N) = Cardinality(L) /\ allowed(0) = 0 /\ allowed(N) = Cardinality(A)
  <2>1. /\ \A k \in 0..N : lost(k) \in Nat
        /\ \A k \in 1..N : lost(k) = IF k \in L THEN lost(k - 1) + 1 ELSE lost(k - 1)
        /\ lost(0) = 0 /\ lost(N) = Cardinality(L)
    BY Counted
  <2>2. /\ \A k \in 0..N : allowed(k) \in Nat
        /\ \A k \in 1..N : allowed(k) = IF k \in A THEN allowed(k - 1) + 1 ELSE allowed(k - 1)
        /\ allowed(0) = 0 /\ allowed(N) = Cardinality(A)
    BY Counted
  <2> HIDE DEF lost, allowed
  <2> QED
    BY <2>1, <2>2
<1> HIDE DEF d, lost, allowed
<1> DEFINE p(n) == d * (n - 2 * lost(n))
           q(n) == D * allowed(n)
           Less == {n \in Nat : n <= N => dj[n] + p(n) <= di[n] + 2 * q(n)}
<1>6. ASSUME NEW n \in 0..N PROVE p(n) \in Int /\ q(n) \in Nat
  <2>1. \A x \in Int : d * x \in Int
    BY <1>1
  <2>2. \A x \in Nat : D * x \in Nat
    OBVIOUS
  <2>3. n - 2 * lost(n) \in Int /\ allowed(n) \in Nat
    <3>1. lost(n) \in Nat /\ allowed(n) \in Nat
      BY <1>5
    <3> QED
      BY <3>1
  <2> QED
    BY <2>1, <2>2, <2>3
<1>7. ASSUME NEW k \in 1..N
      PROVE  /\ p(k) = IF k \in L THEN p(k - 1) - d ELSE p(k - 1) + d
             /\ q(k) = IF k \in A THEN q(k - 1) + D ELSE q(k - 1)
  <2>1. k - 1 \in 0..N /\ lost(k - 1) \in Nat /\ allowed(k - 1) \in Nat
    BY <1>5
  <2> DEFINE m == (k - 1) - 2 * lost(k - 1)
  <2>2. k - 2 * lost(k) = IF k \in L THEN m - 1 ELSE m + 1
    <3>1. \A a \in Nat, b \in Nat :
            /\ b = a + 1 => k - 2 * b = ((k - 1) - 2 * a) - 1
            /\ b = a => k - 2 * b = ((k - 1) - 2 * a) + 1
      OBVIOUS
    <3>2. lost(k) \in Nat /\ lost(k) = IF k \in L THEN lost(k - 1) + 1 ELSE lost(k - 1)
      BY <1>5
    <3> QED
      BY <2>1, <3>1, <3>2
  <2>3. m \in Int
    BY <2>1
  <2>4. \A x \in Int : d * (x + 1) = d * x + d /\ d * (x - 1) = d * x - d
    BY <1>1
  <2>5. \A x \in Nat : D * (x + 1) = D * x + D
    OBVIOUS
  <2> HIDE DEF m
  <2>6. p(k - 1) = d * m
    BY DEF m
  <2>7. p(k) = IF k \in L THEN p(k - 1) - d ELSE p(k - 1) + d
    BY <2>2, <2>3, <2>4, <2>6
  <2>8. q(k) = IF k \in A THEN q(k - 1) + D ELSE q(k - 1)
    BY <1>5, <2>1, <2>5
  <2> QED
    BY <2>7, <2>8
<1>8. p(0) = 0 /\ q(0) = 0 /\ p(N) = d * (N - 2 * Cardinality(L)) /\ q(N) = D * Cardinality(A)
  <2>1. d * 0 = 0 /\ D * 0 = 0
    BY <1>1
  <2> QED
    BY <1>5, <2>1
<1> HIDE DEF p, q
<1>9. Less = Nat
  <2>1. 0 \in Less
    BY <1>3, <1>4, <1>8
  <2>2. ASSUME NEW n \in Less PROVE n + 1 \in Less
    <3>1. SUFFICES ASSUME n + 1 <= N PROVE dj[n + 1] + p(n + 1) <= di[n + 1] + 2 * q(n + 1)
      OBVIOUS
    <3> DEFINE k == n + 1
    <3>2. k \in 1..N /\ k - 1 = n /\ n \in 0..N /\ k \in 0..N
      BY <3>1
    <3>3. dj[n] + p(n) <= di[n] + 2 * q(n)
      BY <3>2
    <3> HIDE DEF k, Less
    <3>4. /\ di[k] = di[n] + Away(models, i, k) /\ di[n] \in Nat
          /\ dj[k] = dj[n] + Away(models, j, k) /\ dj[n] \in Nat
          /\ Away(models, i, k) \in Nat /\ Away(models, j, k) \in Nat
      BY <1>1, <1>3, <1>4, <3>2
    <3>5. /\ p(n) \in Int /\ q(n) \in Nat
          /\ p(k) = IF k \in L THEN p(n) - d ELSE p(n) + d
          /\ q(k) = IF k \in A THEN q(n) + D ELSE q(n)
      BY <1>6, <1>7, <3>2
    <3>6. /\ k \in L => Away(models, j, k) <= Away(models, i, k) + d
          /\ k \notin L /\ k \in A => Away(models, j, k) + d <= Away(models, i, k) + 2 * D
          /\ k \notin L /\ k \notin A => Away(models, j, k) + d <= Away(models, i, k)
      BY <1>2, <3>2 DEF d
    <3>7. dj[k] + p(k) <= di[k] + 2 * q(k)
      <4>1. d \in Nat
        BY <1>1
      <4>2. CASE k \in L
        <5>1. \A u, v, y, z \in Nat, w \in Int, t, t2 \in Nat :
                u + w <= v + 2 * t /\ y <= z + d /\ t <= t2 => (u + y) + (w - d) <= (v + z) + 2 * t2
          BY <4>1
        <5>2. q(n) <= q(k) /\ q(k) \in Nat
          BY <3>5
        <5>3. p(k) = p(n) - d /\ Away(models, j, k) <= Away(models, i, k) + d
          BY <3>5, <3>6, <4>2
        <5> QED
          BY <3>3, <3>4, <3>5, <5>1, <5>2, <5>3
      <4>3. CASE k \notin L /\ k \in A
        <5>1. \A u, v, y, z \in Nat, w \in Int, t \in Nat :
                u + w <= v + 2 * t /\ y + d <= z + 2 * D => (u + y) + (w + d) <= (v + z) + 2 * (t + D)
          BY <4>1
        <5>2. p(k) = p(n) + d /\ q(k) = q(n) + D
              /\ Away(models, j, k) + d <= Away(models, i, k) + 2 * D
          BY <3>5, <3>6, <4>3
        <5> QED
          BY <3>3, <3>4, <3>5, <5>1, <5>2
      <4>4. CASE k \notin L /\ k \notin A
        <5>1. \A u, v, y, z \in Nat, w \in Int, t \in Nat :
                u + w <= v + 2 * t /\ y + d <= z => (u + y) + (w + d) <= (v + z) + 2 * t
          BY <4>1
        <5>2. p(k) = p(n) + d /\ q(k) = q(n) /\ Away(models, j, k) + d <= Away(models, i, k)
          BY <3>5, <3>6, <4>4
        <5> QED
          BY <3>3, <3>4, <3>5, <5>1, <5>2
      <4> QED
        BY <4>2, <4>3, <4>4
    <3> QED
      BY <3>7 DEF k
  <2>3. Less \in SUBSET Nat
    OBVIOUS
  <2> HIDE DEF Less
  <2> QED
    BY <2>1, <2>2, <2>3, AllNumbers
<1> QED
  <2>1. dj[N] + p(N) <= di[N] + 2 * q(N)
    <3>1. N \in Less
      BY <1>9
    <3> QED
      BY <3>1
  <2> HIDE DEF Less
  <2> QED
    BY <1>3, <1>4, <1>8, <2>1 DEF d

\* Krum selects a model with the least sum of distances.
LEMMA SelectedIsNearest ==
    ASSUME NormHolds, NEW models, NEW N, Measured(models, N), N > 0
    PROVE  /\ Ungated!Selected(models) \in 1..N
           /\ \A k \in 1..N : Ungated!DistanceSum(models, Ungated!Selected(models))
                                <= Ungated!DistanceSum(models, k)
<1> DEFINE sum(k) == Ungated!DistanceSum(models, k)
           Sums == {sum(k) : k \in 1..N}
<1>1. N \in Nat /\ DOMAIN models = 1..N /\ 1 \in 1..N
  BY DEF Measured
<1>2. \A k \in 1..N : sum(k) \in Nat
  <2> TAKE k \in 1..N
  <2>1. PICK d \in [0..N -> Nat] : d[N] = sum(k)
    BY DistanceFold
  <2> QED
    BY <1>1, <2>1
<1>3. PICK least \in Sums : \A x \in Sums : least <= x
  <2>1. Sums \in SUBSET Nat /\ Sums # {}
    BY <1>1, <1>2
  <2> HIDE DEF Sums
  <2> QED
    BY <2>1, LeastNumber
<1> DEFINE Nearest == {k \in 1..N : sum(k) = least}
<1>4. PICK i \in Nearest : \A k \in Nearest : i <= k
  <2>1. Nearest \in SUBSET Nat /\ Nearest # {}
    BY <1>1, <1>3
  <2> HIDE DEF Nearest
  <2> QED
    BY <2>1, LeastNumber
<1>5. \A k \in 1..N : sum(k) >= sum(i) /\ (k < i => sum(k) > sum(i))
  <2> TAKE k \in 1..N
  <2>1. sum(k) >= least /\ sum(k) \in Nat /\ sum(i) = least /\ i \in 1..N
    BY <1>2, <1>3, <1>4
  <2>2. k < i => sum(k) # least
    BY <1>1, <1>4, <2>1
  <2> HIDE DEF sum, Nearest, Sums
  <2> QED
    BY <1>2, <2>1, <2>2
<1>6. i \in DOMAIN models
  BY <1>1
<1> HIDE DEF Sums, Nearest
<1>7. /\ Ungated!Selected(models) \in DOMAIN models
      /\ \A k \in DOMAIN models : sum(k) >= sum(Ungated!Selected(models))
  BY <1>1, <1>5, <1>6 DEF Ungated!Selected
<1> QED
  BY <1>1, <1>2, <1>7

\* The model that Krum selects is near to every honest one.
LEMMA KrumIsNear ==
    ASSUME NormHolds, NEW models, NEW N, Measured(models, N), N > 0, NEW L \in SUBSET (1..N),
           NEW h \in (1..N) \ L, NEW D \in Nat, \A k \in (1..N) \ L : Away(models, h, k) <= D
    PROVE  Away(models, Ungated!Selected(models), h) * (N - 2 * Cardinality(L))
             <= 2 * (D * (N - Cardinality(L) - 1))
<1> DEFINE s == Ungated!Selected(models)
           A == ((1..N) \ L) \ {h}
           d == Away(models, s, h)
<1>1. s \in 1..N /\ Ungated!DistanceSum(models, s) <= Ungated!DistanceSum(models, h)
  BY SelectedIsNearest
<1> HIDE DEF s
<1>2. N \in Nat /\ \A k \in 1..N : models[k].param \in Ungated!Weights
  BY DEF Measured
<1>3. \A k \in 1..N : Ungated!DistanceSum(models, k) \in Nat
  <2> TAKE k \in 1..N
  <2>1. PICK z \in [0..N -> Nat] : z[N] = Ungated!DistanceSum(models, k)
    BY DistanceFold
  <2> QED
    BY <1>2, <2>1
<1>4. ASSUME NEW k \in (1..N) \ L
      PROVE  /\ k \in A => Away(models, h, k) + d <= Away(models, s, k) + 2 * D
             /\ k \notin A => Away(models, h, k) + d <= Away(models, s, k)
  <2>1. /\ d <= Away(models, s, k) + Away(models, k, h) /\ Away(models, k, h) = Away(models, h, k)
        /\ d \in Nat /\ Away(models, s, k) \in Nat /\ Away(models, h, k) \in Nat
        /\ Away(models, h, h) = 0
    BY <1>1, <1>2, DistanceFacts DEF Away
  <2>2. Away(models, h, k) <= D
    OBVIOUS
  <2>3. k \notin A => k = h
    OBVIOUS
  <2> HIDE DEF A, d
  <2>4. Away(models, h, k) + d <= Away(models, s, k) + 2 * D
    BY <2>1, <2>2
  <2>5. k = h => Away(models, h, k) + d <= Away(models, s, k)
    BY <2>1 DEF d
  <2> QED
    BY <2>3, <2>4, <2>5
<1>5. /\ IsFiniteSet(L) /\ Cardinality(L) \in Nat
      /\ Cardinality(A) \in Nat /\ Cardinality(A) = N - Cardinality(L) - 1
  <2>1. IsFiniteSet(1..N) /\ Cardinality(1..N) = N
    <3>1. IsFiniteSet(1..N) /\ Cardinality(1..N) = IF 1 > N THEN 0 ELSE N - 1 + 1
      BY <1>2, FS_Interval, 1 \in Int, N \in Int
    <3> QED
      BY <1>2, <3>1
  <2>2. IsFiniteSet(L) /\ Cardinality(L) \in Nat
    BY <2>1, FS_Subset, FS_CardinalityType
  <2>3. IsFiniteSet((1..N) \ L) /\ Cardinality((1..N) \ L) = N - Cardinality(L)
    <3>1. (1..N) \cap L = L
      OBVIOUS
    <3> QED
      BY <2>1, <3>1, FS_Difference
  <2>4. Cardinality(A) = Cardinality((1..N) \ L) - 1 /\ IsFiniteSet(A)
    BY <2>3, FS_RemoveElement
  <2>5. Cardinality(A) \in Nat
    BY <2>4, FS_CardinalityType
  <2> QED
    BY <2>2, <2>3, <2>4, <2>5
<1>6. A \in SUBSET (1..N)
  OBVIOUS
<1> HIDE DEF A
<1>7. Ungated!DistanceSum(models, h) + d * (N - 2 * Cardinality(L))
        <= Ungated!DistanceSum(models, s) + 2 * (D * Cardinality(A))
  BY <1>1, <1>4, <1>6, SumsDiffer
<1>8. d \in Nat
  BY <1>1, <1>2, DistanceFacts DEF Away
<1>9. d * (N - 2 * Cardinality(L)) \in Int /\ D * Cardinality(A) \in Nat
  <2>1. \A x \in Int : d * x \in Int
    BY <1>8
  <2>2. \A x \in Nat : D * x \in Nat
    OBVIOUS
  <2> QED
    BY <1>2, <1>5, <2>1, <2>2
<1> DEFINE p == d * (N - 2 * Cardinality(L))
           q == D * Cardinality(A)
<1>10. p \in Int /\ q \in Nat
  BY <1>9
<1>11. Ungated!DistanceSum(models, h) + p <= Ungated!DistanceSum(models, s) + 2 * q
  BY <1>7
<1> HIDE DEF p, q, d
<1>12. p <= 2 * q
  BY <1>1, <1>3, <1>10, <1>11
<1> QED
  BY <1>5, <1>12 DEF p, q, d, s

\* There is a value of each rank in an entry.
Below(models, e, x) == {k \in DOMAIN models : models[k].param[e] < x}
Upto(models, e, x) == {k \in DOMAIN models : models[k].param[e] <= x}
LEMMA RankExists ==
    ASSUME NEW models, NEW N, Measured(models, N), NEW e \in Entry, NEW rank \in 1..N
    PROVE  LET v == Ungated!Ranked(models, rank, e) IN
           /\ v \in Int
           /\ Cardinality(Below(models, e, v)) < rank /\ rank <= Cardinality(Upto(models, e, v))
<1> DEFINE values == {models[k].param[e] : k \in DOMAIN models}
           below(x) == {k \in DOMAIN models : models[k].param[e] < x}
           upto(x) == {k \in DOMAIN models : models[k].param[e] <= x}
           Reached == {x \in values : Cardinality(upto(x)) >= rank}
<1>1. /\ N \in Nat /\ DOMAIN models = 1..N /\ \A k \in DOMAIN models : models[k].param[e] \in Int
      /\ IsFiniteSet(DOMAIN models) /\ Cardinality(DOMAIN models) = N
  <2>1. N \in Nat /\ DOMAIN models = 1..N
    BY DEF Measured
  <2>2. IsFiniteSet(1..N) /\ Cardinality(1..N) = N
    BY <2>1, FS_Interval, 1 \in Int, N \in Int
  <2> QED
    BY <2>1, <2>2 DEF Measured, Ungated!Weights
<1>2. \A A \in SUBSET DOMAIN models : IsFiniteSet(A) /\ Cardinality(A) \in Nat
  BY <1>1, FS_Subset, FS_CardinalityType
<1>3. values \in SUBSET Int /\ values # {} /\ IsFiniteSet(values)
  <2>1. values \in SUBSET Int /\ values # {}
    BY <1>1
  <2>2. IsFiniteSet(values)
    <3> DEFINE f == [k \in DOMAIN models |-> models[k].param[e]]
    <3>1. f \in Surjection(DOMAIN models, values)
      BY DEF Surjection
    <3> HIDE DEF values, f
    <3> QED
      BY <1>1, <3>1, FS_Surjection
  <2> QED
    BY <2>1, <2>2
<1>4. PICK x \in Reached : \A y \in Reached : x <= y
  <2>1. \A k \in DOMAIN models : models[k].param[e] <= Ungated!Max(values)
    BY <1>3, Extremes
  <2>2. upto(Ungated!Max(values)) = DOMAIN models
    BY <2>1
  <2>3. Ungated!Max(values) \in Reached
    <3>1. Cardinality(upto(Ungated!Max(values))) >= rank
      <4>1. N >= rank
        BY <1>1
      <4> HIDE DEF upto, values
      <4> QED
        BY <1>1, <2>2, <4>1
    <3>2. Ungated!Max(values) \in values
      BY <1>3, Extremes
    <3> HIDE DEF values, upto
    <3> QED
      BY <3>1, <3>2
  <2>4. Reached \in SUBSET values /\ Reached # {}
    BY <2>3
  <2>5. IsFiniteSet(Reached)
    BY <1>3, <2>4, FS_Subset
  <2> HIDE DEF Reached, values
  <2>6. Ungated!Min(Reached) \in Reached /\ \A y \in Reached : Ungated!Min(Reached) <= y
    BY <1>3, <2>4, <2>5, Extremes
  <2> QED
    BY <2>6
<1>5. x \in values /\ x \in Int /\ Cardinality(upto(x)) >= rank
  BY <1>3, <1>4
<1>6. Cardinality(below(x)) < rank
  <2>1. SUFFICES ASSUME Cardinality(below(x)) >= rank PROVE FALSE
    BY <1>2
  <2> DEFINE lower == {models[k].param[e] : k \in below(x)}
  <2>2. below(x) # {}
    <3>1. ~(0 >= rank)
      OBVIOUS
    <3> HIDE DEF below
    <3> QED
      BY <2>1, <3>1, FS_EmptySet
  <2>3. lower \in SUBSET values /\ lower # {}
    BY <2>2
  <2>4. IsFiniteSet(lower) /\ lower \in SUBSET Int
    BY <1>3, <2>3, FS_Subset
  <2>5. Ungated!Max(lower) \in lower /\ \A y \in lower : y <= Ungated!Max(lower)
    <3> HIDE DEF lower
    <3> QED
      BY <2>3, <2>4, Extremes
  <2>6. PICK u \in lower : \A y \in lower : y <= u
    BY <2>5
  <2>7. below(x) \in SUBSET upto(u)
    BY <2>6
  <2>8. Cardinality(below(x)) <= Cardinality(upto(u))
    BY <1>2, <2>7, FS_Subset
  <2>9. u \in values /\ u \in Int /\ u < x
    BY <1>3, <2>3, <2>6
  <2>10. Cardinality(upto(u)) >= rank
    <3>1. Cardinality(below(x)) \in Nat /\ Cardinality(upto(u)) \in Nat
      BY <1>2
    <3> HIDE DEF below, upto
    <3> QED
      BY <2>1, <2>8, <3>1
  <2>11. x <= u
    BY <1>4, <2>9, <2>10
  <2> QED
    BY <1>5, <2>9, <2>11
<1> DEFINE v == Ungated!Ranked(models, rank, e)
<1>7. v \in values /\ Cardinality(below(v)) < rank /\ Cardinality(upto(v)) >= rank
  <2>1. \A S : Ungated!Cardinality(S) = Cardinality(S)
    BY SameCardinality
  <2> DEFINE Fits(y) == Cardinality(below(y)) < rank /\ Cardinality(upto(y)) >= rank
  <2>2. v = CHOOSE y \in values : Fits(y)
    BY <2>1 DEF Ungated!Ranked
  <2>3. Fits(x) /\ x \in values
    BY <1>5, <1>6
  <2> HIDE DEF Reached, Fits, values, v
  <2>4. v \in values /\ Fits(v)
    BY <2>2, <2>3
  <2> QED
    BY <2>4 DEF Fits
<1> HIDE DEF v
<1>8. v \in Int
  BY <1>3, <1>7
<1> QED
  BY <1>7, <1>8 DEF Below, Upto, v

\* The value of a rank around the middle is not below all of the honest majority's in the
\* entry, nor above them.
LEMMA RankIsHonest ==
    ASSUME NEW models, NEW N, Measured(models, N), NEW e \in Entry,
           NEW L \in SUBSET (1..N), 2 * Cardinality(L) < N,
           NEW rank \in 1..N, N <= 2 * rank, 2 * (rank - 1) <= N
    PROVE  /\ \E k \in (1..N) \ L : models[k].param[e] <= Ungated!Ranked(models, rank, e)
           /\ \E k \in (1..N) \ L : Ungated!Ranked(models, rank, e) <= models[k].param[e]
<1> DEFINE v == Ungated!Ranked(models, rank, e)
           below == Below(models, e, v)
           upto == Upto(models, e, v)
<1>1. /\ N \in Nat /\ DOMAIN models = 1..N /\ \A k \in DOMAIN models : models[k].param[e] \in Int
      /\ IsFiniteSet(DOMAIN models) /\ Cardinality(DOMAIN models) = N
  <2>1. N \in Nat /\ DOMAIN models = 1..N
    BY DEF Measured
  <2>2. IsFiniteSet(1..N) /\ Cardinality(1..N) = N
    BY <2>1, FS_Interval, 1 \in Int, N \in Int
  <2> QED
    BY <2>1, <2>2 DEF Measured, Ungated!Weights
<1>2. \A A \in SUBSET DOMAIN models : IsFiniteSet(A) /\ Cardinality(A) \in Nat
  BY <1>1, FS_Subset, FS_CardinalityType
<1>3. v \in Int /\ Cardinality(below) < rank /\ rank <= Cardinality(upto)
  BY RankExists
<1> HIDE DEF v
<1>4. Cardinality(below) \in Nat /\ Cardinality(upto) \in Nat
  BY <1>2 DEF Below, Upto
<1>5. L \in SUBSET DOMAIN models /\ IsFiniteSet(L) /\ Cardinality(L) \in Nat /\ 2 * Cardinality(L) < N
  BY <1>1, <1>2
<1>6. ASSUME \A k \in (1..N) \ L : ~(models[k].param[e] <= v) PROVE FALSE
  <2>1. upto \in SUBSET L
    BY <1>1, <1>6 DEF Upto
  <2>2. Cardinality(upto) <= Cardinality(L)
    BY <1>5, <2>1, FS_Subset
  <2> HIDE DEF upto, below
  <2> QED
    BY <1>1, <1>3, <1>4, <1>5, <2>2
<1>7. ASSUME \A k \in (1..N) \ L : ~(v <= models[k].param[e]) PROVE FALSE
  <2>1. DOMAIN models \ below \in SUBSET L
    BY <1>1, <1>3, <1>7 DEF Below
  <2>2. Cardinality(DOMAIN models \ below) <= Cardinality(L)
    BY <1>5, <2>1, FS_Subset
  <2>3. below \in SUBSET DOMAIN models
    BY DEF Below
  <2> HIDE DEF below
  <2>4. Cardinality(DOMAIN models \ below) = N - Cardinality(below)
    <3>1. DOMAIN models \cap below = below
      BY <2>3
    <3> QED
      BY <1>1, <3>1, FS_Difference
  <2> QED
    BY <1>1, <1>3, <1>4, <1>5, <2>2, <2>4
<1> QED
  BY <1>6, <1>7 DEF v

-----------------------------------------------------------------------------
(* Pools of models of one contributor each. *)

Model == [param : Ungated!Weights, samples : Nat, contributors : {<<k>> : k \in Client},
          delta_y : Ungated!Weights, delta_c : Ungated!Weights]
Of(models, i) == models[i].contributors[1]
\* Each model is one that its node submitted, and no two are of the same node.
Singles(models, val) == \A i \in DOMAIN models : models[i].param \in val[Of(models, i)]
Distinct(models) == \A i, j \in DOMAIN models : Of(models, i) = Of(models, j) => i = j

\* What such a pool covers are the nodes of its models.
LEMMA CoveredSingles ==
    ASSUME NEW models \in Seq(Model)
    PROVE  Ungated!Covered(models) = {Of(models, i) : i \in DOMAIN models}
<1> DEFINE N == Len(models)
           seqs == [i \in DOMAIN models |-> models[i].contributors]
           own(k) == [i \in 1..k |-> Of(models, i)]
           Solves(z) == z = [i \in 1..Len(seqs) |-> IF i = 1 THEN seqs[i] ELSE z[i - 1] \o seqs[i]]
           flatten[i \in 1..Len(seqs)] == IF i = 1 THEN seqs[i] ELSE flatten[i - 1] \o seqs[i]
<1>1. /\ N \in Nat /\ DOMAIN models = 1..N /\ DOMAIN seqs = 1..N /\ Len(seqs) = N
      /\ \A i \in 1..N : seqs[i] = <<Of(models, i)>>
  <2>1. N \in Nat /\ DOMAIN models = 1..N /\ \A i \in 1..N : models[i] \in Model
    OBVIOUS
  <2>2. \A i \in 1..N : models[i].contributors = <<Of(models, i)>>
    BY <2>1 DEF Model, Of
  <2>3. seqs = [i \in 1..N |-> models[i].contributors]
    BY <2>1
  <2> DEFINE S == {models[i].contributors : i \in 1..N}
  <2>4. seqs \in Seq(S) /\ Len(seqs) = N
    BY <2>1, <2>3
  <2> QED
    BY <2>1, <2>2, <2>4
<1>2. CASE N = 0
  <2>1. Ungated!FlattenSeq(seqs) = seqs
    <3> HIDE DEF N
    <3> QED
      BY <1>1, <1>2 DEF Ungated!FlattenSeq
  <2> QED
    BY <1>1, <1>2, <2>1 DEF Ungated!Covered, Ungated!Contributors, Ungated!ToSet
<1>3. CASE N > 0
  <2> HIDE DEF seqs, N
  <2> DEFINE f == [i \in 1..N |-> own(i)]
  <2>1. Solves(f)
    <3>1. own(1) = seqs[1]
      BY <1>1, <1>3
    <3>2. ASSUME NEW i \in 1..N, i # 1 PROVE own(i) = own(i - 1) \o seqs[i]
      <4>1. i \in Nat /\ i - 1 \in Nat /\ i - 1 \in 1..N /\ seqs[i] = <<Of(models, i)>>
        BY <1>1, <3>2
      <4> DEFINE S == {Of(models, k) : k \in 1..N}
      <4>2. \A l \in 1..i : l \in 1..N
        BY <1>1, <4>1
      <4>3. \A l \in 1..i : l \in 1..N /\ Of(models, l) \in S
        BY <4>2
      <4>4. \A l \in 1..i - 1 : l \in 1..i
        BY <4>1
      <4> HIDE DEF S
      <4>5. own(i - 1) \in Seq(S) /\ Len(own(i - 1)) = i - 1
        BY <4>1, <4>3, <4>4
      <4>6. own(i) \in Seq(S) /\ Len(own(i)) = i
        BY <4>1, <4>3
      <4>7. <<Of(models, i)>> \in Seq(S)
        BY <4>1, <4>3
      <4>8. \A k \in 1..i : own(i)[k] = (own(i - 1) \o <<Of(models, i)>>)[k]
        BY <4>1, <4>5, <4>7
      <4>9. own(i - 1) \o <<Of(models, i)>> \in Seq(S) /\ Len(own(i - 1) \o <<Of(models, i)>>) = i
        BY <4>1, <4>5, <4>7
      <4> HIDE DEF own
      <4>10. own(i) = own(i - 1) \o <<Of(models, i)>>
        BY <4>6, <4>8, <4>9, SeqEqual
      <4> QED
        BY <4>1, <4>10
    <3>3. \A i \in 1..N : i # 1 => i - 1 \in 1..N
      BY <1>1
    <3> HIDE DEF own
    <3> QED
      BY <1>1, <3>1, <3>2, <3>3
  <2>2. Solves(flatten)
    <3>1. flatten = CHOOSE z : Solves(z)
      OBVIOUS
    <3> HIDE DEF Solves, flatten
    <3> QED
      BY <2>1, <3>1
  <2>3. Ungated!FlattenSeq(seqs) = flatten[N]
    BY <1>1, <1>3 DEF Ungated!FlattenSeq
  <2> HIDE DEF flatten, f
  <2> DEFINE Solved == {n \in Nat : n + 1 <= N => flatten[n + 1] = own(n + 1)}
  <2>4. \A i \in 1..N : flatten[i] = IF i = 1 THEN seqs[i] ELSE flatten[i - 1] \o seqs[i]
    BY <1>1, <2>2
  <2>5. \A i \in 1..N : own(i) = IF i = 1 THEN seqs[i] ELSE own(i - 1) \o seqs[i]
    <3>1. \A i \in 1..N : f[i] = IF i = 1 THEN seqs[i] ELSE f[i - 1] \o seqs[i]
      BY <1>1, <2>1
    <3>2. \A i \in 1..N : f[i] = own(i) /\ (i # 1 => f[i - 1] = own(i - 1))
      BY <1>1 DEF f
    <3> HIDE DEF own
    <3> QED
      BY <3>1, <3>2
  <2> HIDE DEF own
  <2>6. 0 \in Solved
    BY <1>1, <1>3, <2>4, <2>5
  <2>7. ASSUME NEW n \in Solved PROVE n + 1 \in Solved
    <3>1. SUFFICES ASSUME (n + 1) + 1 <= N PROVE flatten[(n + 1) + 1] = own((n + 1) + 1)
      OBVIOUS
    <3>2. (n + 1) + 1 \in 1..N /\ (n + 1) + 1 # 1 /\ ((n + 1) + 1) - 1 = n + 1 /\ n + 1 <= N
      BY <1>1, <3>1
    <3>3. flatten[n + 1] = own(n + 1)
      BY <3>2
    <3> DEFINE m == (n + 1) + 1
    <3> HIDE DEF Solved, m
    <3>4. m \in 1..N /\ m # 1 /\ m - 1 = n + 1
      BY <3>2 DEF m
    <3>5. flatten[m] = flatten[m - 1] \o seqs[m]
      BY <2>4, <3>4
    <3>6. own(m) = own(m - 1) \o seqs[m]
      BY <2>5, <3>4
    <3> QED
      BY <3>3, <3>4, <3>5, <3>6 DEF m
  <2>8. Solved = Nat
    <3>1. Solved \in SUBSET Nat
      OBVIOUS
    <3> HIDE DEF Solved
    <3> QED
      BY <2>6, <2>7, <3>1, AllNumbers
  <2>9. flatten[N] = own(N)
    <3>1. N - 1 \in Nat /\ (N - 1) + 1 = N /\ N <= N
      BY <1>1, <1>3
    <3>2. N - 1 \in Solved
      BY <2>8, <3>1
    <3> QED
      BY <3>1, <3>2
  <2>10. Ungated!Contributors(models) = own(N)
    BY <2>3, <2>9 DEF seqs, Ungated!Contributors
  <2>11. DOMAIN own(N) = DOMAIN models /\ \A i \in DOMAIN models : own(N)[i] = Of(models, i)
    BY <1>1 DEF own
  <2> QED
    BY <2>10, <2>11 DEF Ungated!Covered, Ungated!ToSet
<1> QED
  BY <1>1, <1>2, <1>3

\* What add_model makes of a pool and the unhandled models.
Store == [models : Seq(Model), unhandled : Seq(Model)]
Sound(models, val) == Singles(models, val) /\ Distinct(models)

\* add_model keeps a pool one of models that were submitted, each of another node.
LEMMA AddedKeeps ==
    ASSUME NEW store \in Store, NEW added \in Model, NEW T, NEW val,
           Sound(store.models, val), Singles(<<added>>, val)
    PROVE  LET after == Ungated!AddModel(T, store, added) IN
           /\ after \in Store
           /\ Sound(after.models, val)
           /\ Singles(store.unhandled, val) => Singles(after.unhandled, val)
<1> DEFINE after == Ungated!AddModel(T, store, added)
           own == added.contributors[1]
           models == store.models
<1>1. /\ models \in Seq(Model) /\ store.unhandled \in Seq(Model)
      /\ added.param \in val[own] /\ added.contributors = <<own>>
  <2>1. models \in Seq(Model) /\ store.unhandled \in Seq(Model)
    BY DEF Store
  <2>2. added.contributors = <<own>>
    BY DEF Model
  <2>3. added.param \in val[own]
    <3>1. 1 \in DOMAIN <<added>> /\ <<added>>[1] = added
      OBVIOUS
    <3> QED
      BY <3>1 DEF Singles, Of
  <2> QED
    BY <2>1, <2>2, <2>3
<1>2. \A s \in Seq(Model) : Append(s, added) \in Seq(Model)
  OBVIOUS
<1>3. ASSUME NEW s \in Seq(Model), Singles(s, val) PROVE Singles(Append(s, added), val)
  <2>1. ASSUME NEW i \in DOMAIN Append(s, added)
        PROVE  \/ i \in DOMAIN s /\ Append(s, added)[i] = s[i]
               \/ Append(s, added)[i] = added
    OBVIOUS
  <2> QED
    BY <1>1, <1>3, <2>1 DEF Singles, Of
<1>4. CASE after = [store EXCEPT !.unhandled = Append(@, added)]
  <2>1. after.models = store.models /\ after.unhandled = Append(store.unhandled, added)
    BY <1>4 DEF Store
  <2> HIDE DEF after
  <2>2. after \in Store
    BY <1>1, <1>4, <1>2 DEF Store
  <2> QED
    BY <1>1, <1>3, <2>1, <2>2 DEF after
<1>5. CASE /\ after = [store EXCEPT !.models = Append(@, added)]
           /\ ~Ungated!Repeats(store.models, added)
  <2>1. after.models = Append(models, added) /\ after.unhandled = store.unhandled
    BY <1>5 DEF Store
  <2>2. after \in Store
    <3> HIDE DEF after
    <3> QED
      BY <1>1, <1>5, <1>2 DEF Store
  <2>3. own \notin {Of(models, i) : i \in DOMAIN models}
    <3>1. Ungated!Covered(models) = {Of(models, i) : i \in DOMAIN models}
      BY <1>1, CoveredSingles
    <3>2. own \in Ungated!ToSet(added.contributors)
      BY <1>1 DEF Ungated!ToSet
    <3> QED
      BY <1>5, <3>1, <3>2 DEF Ungated!Repeats
  <2>4. Distinct(Append(models, added))
    <3> SUFFICES ASSUME NEW i \in DOMAIN Append(models, added), NEW j \in DOMAIN Append(models, added),
                        Of(Append(models, added), i) = Of(Append(models, added), j)
                 PROVE  i = j
      BY DEF Distinct
    <3> DEFINE longer == Append(models, added)
    <3>1. \A k \in DOMAIN longer : \/ k \in DOMAIN models /\ longer[k] = models[k]
                                   \/ k = Len(models) + 1 /\ longer[k] = added
      BY <1>1
    <3>2. \A k \in DOMAIN models : Of(models, k) # own
      BY <2>3
    <3>3. \A k \in DOMAIN longer : \/ k \in DOMAIN models /\ Of(longer, k) = Of(models, k)
                                   \/ k = Len(models) + 1 /\ Of(longer, k) = own
      BY <3>1 DEF Of
    <3>4. Distinct(models)
      BY DEF Sound
    <3> HIDE DEF longer, own, models
    <3> QED
      BY <3>2, <3>3, <3>4 DEF Distinct, longer
  <2> HIDE DEF after
  <2> QED
    BY <1>1, <1>3, <2>1, <2>2, <2>4 DEF Sound, after
<1>6. CASE after = store
  BY <1>6
<1>7. \/ after = [store EXCEPT !.unhandled = Append(@, added)]
      \/ /\ after = [store EXCEPT !.models = Append(@, added)]
         /\ ~Ungated!Repeats(store.models, added)
      \/ after = store
  BY DEF Ungated!AddModel
<1> QED
  BY <1>4, <1>5, <1>6, <1>7

\* The fold of add_model over the models that came early.
Adding(T, store, z) ==
    z = [s \in SUBSET (DOMAIN store.unhandled) |->
            IF s = {} THEN store
            ELSE Ungated!AddModel(T, z[s \ {Ungated!Max(s)}], store.unhandled[Ungated!Max(s)])]
LEMMA OpenedKeeps ==
    ASSUME NEW store \in Store, NEW T, NEW val,
           Sound(store.models, val), Singles(store.unhandled, val)
    PROVE  /\ \E z : Adding(T, store, z)
           /\ \A z : Adding(T, store, z) =>
                LET after == z[DOMAIN store.unhandled] IN
                after \in Store /\ Sound(after.models, val)
<1> DEFINE early == store.unhandled
           N == Len(early)
           Kept == {h \in Store : Sound(h.models, val)}
           F == [x \in Kept \X (1..N) |-> Ungated!AddModel(T, x[1], early[x[2]])]
<1>1. early \in Seq(Model) /\ N \in Nat /\ DOMAIN early = 1..N /\ \A k \in 1..N : early[k] \in Model
  BY DEF Store
<1>2. \A h \in Kept : \A k \in 1..N : Ungated!AddModel(T, h, early[k]) \in Kept
  <2> TAKE h \in Kept
  <2> TAKE k \in 1..N
  <2>1. Singles(<<early[k]>>, val)
    BY <1>1 DEF Singles, Of
  <2>2. early[k] \in Model /\ h \in Store /\ Sound(h.models, val)
    BY <1>1
  <2> HIDE DEF early
  <2> QED
    BY <2>1, <2>2, AddedKeeps
<1>3. store \in Kept
  OBVIOUS
<1>4. F \in [Kept \X (1..N) -> Kept]
  BY <1>2
<1> HIDE DEF Kept, early, N
<1>5. PICK g \in [SUBSET (1..N) -> Kept] : Folds(g, store, F, N)
  <2> HIDE DEF F
  <2> QED
    BY <1>1, <1>3, <1>4, FoldExists
<1>6. Adding(T, store, g)
  <2>1. ASSUME NEW s \in SUBSET (1..N), s # {}
        PROVE  F[<<g[s \ {Ungated!Max(s)}], Ungated!Max(s)>>]
                 = Ungated!AddModel(T, g[s \ {Ungated!Max(s)}], early[Ungated!Max(s)])
    <3>1. Ungated!Max(s) \in 1..N
      BY <1>1, <2>1, Greatest
    <3>2. g[s \ {Ungated!Max(s)}] \in Kept
      OBVIOUS
    <3> QED
      BY <3>1, <3>2
  <2> HIDE DEF F
  <2>2. g = [s \in SUBSET (DOMAIN early) |->
              IF s = {} THEN store
              ELSE Ungated!AddModel(T, g[s \ {Ungated!Max(s)}], early[Ungated!Max(s)])]
    BY <1>1, <1>5, <2>1 DEF Folds
  <2> QED
    BY <2>2 DEF Adding, early
<1>7. ASSUME NEW iter, Adding(T, store, iter) PROVE iter[1..N] \in Kept
  <2>1. ASSUME NEW s \in SUBSET (1..N)
        PROVE  iter[s] = IF s = {} THEN store
                         ELSE Ungated!AddModel(T, iter[s \ {Ungated!Max(s)}], early[Ungated!Max(s)])
    BY <1>1, <1>7 DEF Adding, early
  <2> DEFINE Solved == {n \in Nat : n <= N => iter[1..n] \in Kept}
  <2>2. 0 \in Solved
    <3>1. 1..0 = {} /\ {} \in SUBSET (1..N)
      OBVIOUS
    <3> QED
      BY <1>3, <2>1, <3>1
  <2>3. ASSUME NEW n \in Solved PROVE n + 1 \in Solved
    <3>1. SUFFICES ASSUME n + 1 <= N PROVE iter[1..n + 1] \in Kept
      OBVIOUS
    <3>2. /\ 1..n + 1 \in SUBSET (1..N) /\ n + 1 \in 1..n + 1 /\ (1..n + 1) \ {n + 1} = 1..n
          /\ \A l \in 1..n + 1 : l <= n + 1
      BY <1>1, <3>1
    <3>3. Ungated!Max(1..n + 1) = n + 1
      <4>1. 1..n + 1 \in SUBSET (1..N) /\ 1..n + 1 # {}
        BY <3>2
      <4> QED
        BY <1>1, <3>2, <4>1, Greatest
    <3>4. iter[1..n + 1] = Ungated!AddModel(T, iter[1..n], early[n + 1])
      BY <2>1, <3>2, <3>3
    <3>5. iter[1..n] \in Kept /\ n + 1 \in 1..N
      BY <1>1, <3>1
    <3> QED
      BY <1>2, <3>4, <3>5
  <2>4. Solved = Nat
    <3>1. Solved \in SUBSET Nat
      OBVIOUS
    <3> HIDE DEF Solved
    <3> QED
      BY <2>2, <2>3, <3>1, AllNumbers
  <2> QED
    BY <1>1, <2>4
<1> QED
  BY <1>1, <1>6, <1>7 DEF Kept, early

\* What HonestRange says of the parameters x that rule r made, of the train set T and what
\* each node submitted.
Fair(r, T, val, x) ==
    LET H == Cardinality(T \ Dishonest)
        l == Cardinality(T \cap Dishonest)
        honest == UNION {val[k] : k \in T \ Dishonest}
    IN  l < H =>
        /\ r = "fedmedian" => \A e \in Entry : \E v, w \in honest : v[e] <= x[e] /\ x[e] <= w[e]
        /\ r = "krum" => \A k \in T \ Dishonest : \E y \in val[k], v, w \in honest :
                (H - l) * Ungated!Distance(x, y) <= 2 * (H - 1) * Ungated!Distance(v, w)

\* It stays so when more has been submitted.
LEMMA FairStays ==
    ASSUME NEW r, NEW T, NEW val, NEW more, \A k \in T : val[k] \subseteq more[k], NEW x,
           Fair(r, T, val, x)
    PROVE  Fair(r, T, more, x)
<1>1. \A k \in T \ Dishonest : val[k] \subseteq more[k]
  OBVIOUS
<1>2. UNION {val[k] : k \in T \ Dishonest} \subseteq UNION {more[k] : k \in T \ Dishonest}
  BY <1>1
<1> DEFINE H == Cardinality(T \ Dishonest)
           l == Cardinality(T \cap Dishonest)
           few == UNION {val[k] : k \in T \ Dishonest}
           many == UNION {more[k] : k \in T \ Dishonest}
           Near(y, v, w) == (H - l) * Ungated!Distance(x, y) <= 2 * (H - 1) * Ungated!Distance(v, w)
           Around(e, v, w) == v[e] <= x[e] /\ x[e] <= w[e]
<1>3. l < H => /\ r = "fedmedian" => \A e \in Entry : \E v, w \in few : Around(e, v, w)
               /\ r = "krum" => \A k \in T \ Dishonest : \E y \in val[k], v, w \in few : Near(y, v, w)
  BY DEF Fair
<1> SUFFICES
      l < H => /\ r = "fedmedian" => \A e \in Entry : \E v, w \in many : Around(e, v, w)
               /\ r = "krum" => \A k \in T \ Dishonest : \E y \in more[k], v, w \in many : Near(y, v, w)
  BY DEF Fair
<1>4. few \subseteq many
  BY <1>2
<1> HIDE DEF Near, Around, few, many, H, l
<1> QED
  BY <1>1, <1>3, <1>4

\* What the median and Krum make of a complete pool is fair to the honest.
LEMMA OutcomeIsHonest ==
    ASSUME NormHolds, NEW models \in Seq(Model), models # <<>>, NEW T \in SUBSET Client,
           IsFiniteSet(T), Ungated!Covered(models) = T, NEW val, Sound(models, val),
           NEW r \in {"fedmedian", "krum"}, NEW remembered
    PROVE  LET x == Ungated!Aggregated(r, remembered, models).model.param IN
           x \in Ungated!Weights /\ Fair(r, T, val, x)
<1> DEFINE N == Len(models)
           L == {i \in 1..N : Of(models, i) \in Dishonest}
           honest == UNION {val[k] : k \in T \ Dishonest}
           H == Cardinality(T \ Dishonest)
           l == Cardinality(T \cap Dishonest)
<1>1. /\ N \in Nat /\ N > 0 /\ DOMAIN models = 1..N /\ T = {Of(models, i) : i \in 1..N}
      /\ \A i \in 1..N : /\ Of(models, i) \in T /\ models[i].param \in val[Of(models, i)]
                         /\ models[i].param \in Ungated!Weights
  <2>1. N \in Nat /\ N > 0 /\ DOMAIN models = 1..N
    OBVIOUS
  <2>2. T = {Of(models, i) : i \in 1..N}
    BY <2>1, CoveredSingles
  <2>3. \A i \in 1..N : models[i].param \in Ungated!Weights
    <3>1. \A i \in 1..N : models[i] \in Model
      BY <2>1
    <3> QED
      BY <3>1 DEF Model
  <2> QED
    BY <2>1, <2>2, <2>3 DEF Sound, Singles
<1>2. Measured(models, N)
  BY <1>1 DEF Measured
<1>3. IsFiniteSet(1..N) /\ Cardinality(1..N) = N
  <2> HIDE DEF N
  <2>1. N \in Int /\ 1 <= N
    BY <1>1
  <2>2. IsFiniteSet(1..N) /\ Cardinality(1..N) = N
    <3>1. IsFiniteSet(1..N) /\ Cardinality(1..N) = IF 1 > N THEN 0 ELSE N - 1 + 1
      BY <2>1, FS_Interval
    <3> QED
      BY <2>1, <3>1
  <2> QED
    BY <2>2
<1> HIDE DEF N
<1>4. \A i, j \in 1..N : Of(models, i) = Of(models, j) => i = j
  BY <1>1 DEF Sound, Distinct
<1>5. l \in Nat /\ H \in Nat /\ Cardinality(L) = l /\ N = H + l
  <2>1. ASSUME NEW A \in SUBSET (1..N), NEW B \in SUBSET T, B = {Of(models, i) : i \in A}
        PROVE  IsFiniteSet(A) /\ IsFiniteSet(B) /\ Cardinality(A) = Cardinality(B)
    <3> DEFINE c == [i \in A |-> Of(models, i)]
    <3>1. c \in Bijection(A, B)
      <4>1. c \in [A -> B] /\ \A k \in B : \E i \in A : c[i] = k
        BY <2>1
      <4>2. \A i, j \in A : c[i] = c[j] => i = j
        BY <1>4
      <4> HIDE DEF c
      <4> QED
        BY <4>1, <4>2 DEF Bijection, Injection, Surjection, IsInjective
    <3> HIDE DEF c
    <3>2. ExistsBijection(A, B)
      BY <3>1 DEF ExistsBijection
    <3>3. IsFiniteSet(A)
      BY <1>3, FS_Subset
    <3> QED
      BY <3>2, <3>3, FS_Bijection
  <2>2. T \cap Dishonest = {Of(models, i) : i \in L}
    BY <1>1
  <2>3. Cardinality(L) = l
    <3>1. L \in SUBSET (1..N) /\ T \cap Dishonest \in SUBSET T
      OBVIOUS
    <3> HIDE DEF L
    <3> QED
      BY <2>1, <2>2, <3>1
  <2>4. Cardinality(T) = N
    <3>1. 1..N \in SUBSET (1..N) /\ T \in SUBSET T
      OBVIOUS
    <3> QED
      BY <1>1, <1>3, <2>1, <3>1
  <2>5. IsFiniteSet(T \cap Dishonest) /\ IsFiniteSet(T \ Dishonest)
    BY FS_Subset
  <2>6. l \in Nat /\ H \in Nat
    BY <2>5, FS_CardinalityType
  <2>7. H = N - l
    <3>1. Cardinality(T \ Dishonest) = Cardinality(T) - Cardinality(T \cap Dishonest)
      BY FS_Difference
    <3> QED
      BY <2>4, <3>1
  <2> HIDE DEF H, l, L
  <2> QED
    BY <1>1, <2>3, <2>6, <2>7
<1>6. /\ L \in SUBSET (1..N)
      /\ \A i \in (1..N) \ L : Of(models, i) \in T \ Dishonest /\ models[i].param \in honest
      /\ \A k \in T \ Dishonest : \E i \in (1..N) \ L : Of(models, i) = k
  BY <1>1
<1> HIDE DEF L, honest, H, l
<1> DEFINE x == Ungated!Aggregated(r, remembered, models).model.param
<1>7. CASE r = "krum"
  <2> DEFINE s == Ungated!Selected(models)
  <2>1. s \in 1..N
    BY <1>1, <1>2, SelectedIsNearest
  <2>2. x = models[s].param
    <3>1. Ungated!Aggregated(r, remembered, models).model = Ungated!Krum(models)
      BY <1>7 DEF Ungated!Aggregated
    <3>2. CASE Len(models) = 1
      <4>1. s = 1
        BY <2>1, <3>2 DEF N
      <4> HIDE DEF s
      <4> QED
        BY <3>1, <3>2, <4>1 DEF Ungated!Krum
    <3>3. CASE Len(models) # 1
      BY <3>1, <3>3 DEF Ungated!Krum, Ungated!Copy
    <3> QED
      BY <3>2, <3>3
  <2>3. ASSUME l < H, NEW k \in T \ Dishonest
        PROVE  \E y \in val[k], v, w \in honest :
                    (H - l) * Ungated!Distance(x, y) <= 2 * (H - 1) * Ungated!Distance(v, w)
    <3>1. PICK h \in (1..N) \ L : Of(models, h) = k
      BY <1>6
    <3> DEFINE Dists == {Away(models, h, i) : i \in (1..N) \ L}
    <3>2. PICK far \in (1..N) \ L : \A i \in (1..N) \ L : Away(models, h, i) <= Away(models, h, far)
      <4>1. \A i \in (1..N) \ L : Away(models, h, i) \in Nat
        BY <1>1, DistanceFacts DEF Away
      <4>2. Dists \in SUBSET Int /\ Dists # {}
        BY <4>1
      <4>3. IsFiniteSet(Dists)
        <5>1. IsFiniteSet((1..N) \ L)
          BY <1>3, FS_Subset
        <5> DEFINE f == [i \in (1..N) \ L |-> Away(models, h, i)]
        <5>2. f \in Surjection((1..N) \ L, Dists)
          BY DEF Surjection
        <5> HIDE DEF f, Dists
        <5> QED
          BY <5>1, <5>2, FS_Surjection
      <4> HIDE DEF Dists
      <4>4. Ungated!Max(Dists) \in Dists /\ \A y \in Dists : y <= Ungated!Max(Dists)
        BY <4>2, <4>3, Extremes
      <4> QED
        BY <4>4 DEF Dists
    <3> DEFINE D == Away(models, h, far)
               d == Away(models, s, h)
    <3>3. D \in Nat /\ d \in Nat
      BY <1>1, <2>1, DistanceFacts DEF Away
    <3> HIDE DEF s
    <3>4. d * (N - 2 * Cardinality(L)) <= 2 * (D * (N - Cardinality(L) - 1))
      <4> HIDE DEF D, d
      <4>1. D \in Nat /\ \A i \in (1..N) \ L : Away(models, h, i) <= D
        BY <3>2, <3>3 DEF D
      <4>2. h \in (1..N) \ L /\ N > 0 /\ L \in SUBSET (1..N)
        BY <1>1, <1>6
      <4> QED
        BY <1>2, <4>1, <4>2, KrumIsNear DEF d, s
    <3>5. N - 2 * Cardinality(L) = H - l /\ N - Cardinality(L) - 1 = H - 1
      BY <1>5
    <3>6. d * (H - l) <= 2 * (D * (H - 1))
      BY <3>4, <3>5
    <3> HIDE DEF D, d
    <3>7. (H - l) * d <= 2 * (H - 1) * D
      <4>1. H - l \in Int /\ H - 1 \in Int
        BY <1>5
      <4>2. \A a \in Int, b \in Nat : b * a = a * b
        OBVIOUS
      <4>3. \A a \in Int, b \in Nat : 2 * (b * a) = 2 * a * b
        OBVIOUS
      <4> QED
        BY <3>3, <3>6, <4>1, <4>2, <4>3
    <3>8. /\ models[h].param \in val[k] /\ models[h].param \in honest
          /\ models[far].param \in honest
      BY <1>1, <1>6, <3>1
    <3>9. /\ d = Ungated!Distance(x, models[h].param)
          /\ D = Ungated!Distance(models[h].param, models[far].param)
      BY <2>2 DEF d, D, Away, s
    <3> HIDE DEF x
    <3> QED
      BY <3>7, <3>8, <3>9
  <2>4. x \in Ungated!Weights
    BY <1>1, <2>1, <2>2
  <2> HIDE DEF x
  <2>5. Fair(r, T, val, x)
    BY <1>7, <2>3 DEF Fair, H, l, honest
  <2> QED
    BY <2>4, <2>5 DEF x
<1>8. CASE r = "fedmedian"
  <2> DEFINE low == IF N % 2 = 1 THEN (N + 1) \div 2 ELSE N \div 2
             high == IF N % 2 = 1 THEN (N + 1) \div 2 ELSE N \div 2 + 1
             a(e) == Ungated!Ranked(models, low, e)
             b(e) == Ungated!Ranked(models, high, e)
  <2>1. /\ low \in 1..N /\ N <= 2 * low /\ 2 * (low - 1) <= N
        /\ high \in 1..N /\ N <= 2 * high /\ 2 * (high - 1) <= N
    <3>1. N \div 2 \in Nat /\ N % 2 \in {0, 1} /\ N = 2 * (N \div 2) + (N % 2)
      BY <1>1
    <3>2. CASE N % 2 = 1
      <4>1. PICK h \in Nat : N = 2 * h + 1
        BY <3>2, <3>1
      <4>2. low = h + 1 /\ high = h + 1
        BY <3>2, <4>1
      <4> HIDE DEF low, high
      <4> QED
        BY <4>1, <4>2
    <3>3. CASE N % 2 # 1
      <4>1. PICK h \in Nat : N = 2 * h
        BY <3>3, <3>1
      <4>2. low = h /\ high = h + 1
        BY <3>3, <4>1
      <4> HIDE DEF low, high
      <4> QED
        BY <1>1, <4>1, <4>2
    <3> QED
      BY <3>2, <3>3
  <2>2. x = [e \in Entry |-> IF N % 2 = 1 THEN a(e) ELSE (a(e) + b(e)) \div 2]
    <3>1. Ungated!Aggregated(r, remembered, models).model = Ungated!FedMedian(models)
      BY <1>8 DEF Ungated!Aggregated
    <3>2. Ungated!FedMedian(models).param = [e \in Entry |-> Ungated!Median(models, e)]
      BY DEF Ungated!FedMedian, Ungated!Copy
    <3>3. \A e \in Entry : Ungated!Median(models, e)
                             = IF N % 2 = 1 THEN a(e) ELSE (a(e) + b(e)) \div 2
      BY DEF Ungated!Median, N
    <3> HIDE DEF a, b, low, high
    <3> QED
      BY <3>1, <3>2, <3>3
  <2> HIDE DEF low, high
  <2>3. \A e \in Entry : a(e) \in Int /\ b(e) \in Int
    BY <1>2, <2>1, RankExists
  <2>4. ASSUME l < H, NEW e \in Entry
        PROVE  /\ \E i \in (1..N) \ L : models[i].param[e] <= a(e)
               /\ \E i \in (1..N) \ L : a(e) <= models[i].param[e]
               /\ \E i \in (1..N) \ L : models[i].param[e] <= b(e)
               /\ \E i \in (1..N) \ L : b(e) <= models[i].param[e]
    <3>1. 2 * Cardinality(L) < N
      BY <1>5, <2>4
    <3>2. L \in SUBSET (1..N)
      BY <1>6
    <3> QED
      BY <1>2, <2>1, <3>1, <3>2, RankIsHonest
  <2> HIDE DEF a, b, x
  <2>5. x \in Ungated!Weights
    BY <2>2, <2>3 DEF Ungated!Weights
  <2>6. ASSUME l < H, NEW e \in Entry PROVE \E v, w \in honest : v[e] <= x[e] /\ x[e] <= w[e]
    <3>1. \A i \in (1..N) \ L : models[i].param[e] \in Int /\ models[i].param \in honest
      BY <1>1, <1>6 DEF Ungated!Weights
    <3>2. x[e] = IF N % 2 = 1 THEN a(e) ELSE (a(e) + b(e)) \div 2
      BY <2>2
    <3>3. PICK i1 \in (1..N) \ L, i2 \in (1..N) \ L :
                models[i1].param[e] <= a(e) /\ a(e) <= models[i2].param[e]
      BY <2>4, <2>6
    <3>4. PICK i3 \in (1..N) \ L, i4 \in (1..N) \ L :
                models[i3].param[e] <= b(e) /\ b(e) <= models[i4].param[e]
      BY <2>4, <2>6
    <3>5. PICK i \in (1..N) \ L : models[i].param[e] <= a(e) /\ models[i].param[e] <= b(e)
      BY <2>3, <3>1, <3>3, <3>4
    <3>6. PICK j \in (1..N) \ L : a(e) <= models[j].param[e] /\ b(e) <= models[j].param[e]
      BY <2>3, <3>1, <3>3, <3>4
    <3>7. \A y, z \in Int : /\ \A u \in Int : u <= y /\ u <= z => u <= (y + z) \div 2
                            /\ \A u \in Int : y <= u /\ z <= u => (y + z) \div 2 <= u
      OBVIOUS
    <3>8. a(e) \in Int /\ b(e) \in Int
      BY <2>3
    <3>9. models[i].param[e] <= x[e] /\ x[e] <= models[j].param[e]
      BY <3>1, <3>2, <3>5, <3>6, <3>7, <3>8
    <3> QED
      BY <3>1, <3>9
  <2>7. Fair(r, T, val, x)
    BY <1>8, <2>6 DEF Fair, H, l, honest
  <2> QED
    BY <2>5, <2>7 DEF x
<1> QED
  BY <1>7, <1>8

\* Every round of an experiment is one of the rounds of the fitted parameters.
LEMMA RoundsBound ==
    ASSUME NEW scenario \in Federations, NEW r \in 1..Len(scenario.train)
    PROVE  r \in Ungated!Rounds
<1> DEFINE S == {Len(s.train) : s \in Federations}
<1>1. /\ IsFiniteSet(Federations)
      /\ \A s \in Federations : s.train \in Seq(SUBSET Client)
  BY LearningAssumption DEF Ungated!FederationAssumption, IsFiniteSet, Ungated!IsFiniteSet
<1>2. S \in SUBSET Int /\ S # {} /\ Len(scenario.train) \in S
  <2>1. \A s \in Federations : Len(s.train) \in Int
    BY <1>1
  <2> QED
    BY <2>1
<1>3. IsFiniteSet(S)
  <2> DEFINE f == [s \in Federations |-> Len(s.train)]
  <2>1. f \in Surjection(Federations, S)
    BY DEF Surjection
  <2> HIDE DEF f, S
  <2> QED
    BY <1>1, <2>1, FS_Surjection
<1>4. Len(scenario.train) <= Ungated!Max(S) /\ Ungated!Max(S) \in Int
  <2> HIDE DEF S
  <2> QED
    BY <1>2, <1>3, Extremes
<1>5. Ungated!Rounds = 1..Ungated!Max(S)
  BY DEF Ungated!Rounds
<1> HIDE DEF S
<1> QED
  BY <1>1, <1>4, <1>5

-----------------------------------------------------------------------------
(* The invariant. *)

RoundSteps == {"vote", "train", "gossip", "wait", "full", "cleared"}
USE DEF RoundSteps

\* k submits nothing more in round r.
Frozen(k, r) == round[k] > r \/ (round[k] = r /\ step[k] \notin {"vote", "train"})
\* What each node submitted in the round of n or, where models may come late, before it.
Submitted(n) ==
    [k \in Client |->
        {fitted[k][r] : r \in {r \in 1..round[n] : /\ k \in train[r] /\ Frozen(k, r)
                                                   /\ (late > 0 \/ r = round[n])}}]
Robust == rule \in {"fedmedian", "krum"}

Chosen ==
    \E s \in Federations :
        rule = s.rule /\ train = s.train /\ drift = s.drift /\ late = s.late
RoundShape ==
    /\ round \in [Client -> 1..Len(train)] /\ step \in [Client -> RoundSteps]
    /\ base \in [Client -> Ungated!Weights]
    /\ fitted \in [Client -> [Ungated!Rounds -> Ungated!Weights]]
    /\ pool \in [Client -> Seq(Model)] /\ unhandled \in [Client -> Seq(Model)]
    /\ DOMAIN result = Client
\* What a trainer holds was submitted in its round or, if it came late, in one before it.
Pools ==
    \A n \in Client : Sound(pool[n], Submitted(n)) /\ Singles(unhandled[n], Submitted(n))
Emptied ==
    late = 0 => \A n \in Client : step[n] = "cleared" => pool[n] = <<>> /\ unhandled[n] = <<>>
Trainers == \A n \in Client : step[n] \in {"train", "gossip"} => n \in Ungated!TrainSet(n)
Results ==
    \A n \in Client : result[n] # <<>> =>
        Fair(rule, Ungated!TrainSet(n), Submitted(n), result[n][1].param)
RangeInv == Chosen /\ (Robust => RoundShape /\ Pools /\ Emptied /\ Trainers /\ Results)

\* What the scene of an experiment and the types of its rounds say together.
LEMMA RoundTypes ==
    ASSUME Chosen, RoundShape
    PROVE  /\ drift \in [Client -> Ungated!Weights] /\ late \in Nat
           /\ train \in Seq(SUBSET Client) /\ train # <<>>
           /\ SampleCount \in [Client -> Nat] /\ IsFiniteSet(Client)
           /\ \A n \in Client : /\ round[n] \in Ungated!Rounds
                                /\ Ungated!TrainSet(n) \in SUBSET Client
                                /\ IsFiniteSet(Ungated!TrainSet(n))
<1>1. PICK s \in Federations : train = s.train /\ drift = s.drift /\ late = s.late
  BY DEF Chosen
<1>2. /\ s \in [rule : Ungated!Rules, train : Seq(SUBSET Client),
                 drift : [Client -> Ungated!Weights], late : Nat]
      /\ s.train # <<>>
      /\ SampleCount \in [Client -> Nat \ {0}] /\ IsFiniteSet(Client)
  BY LearningAssumption DEF Ungated!FederationAssumption, IsFiniteSet, Ungated!IsFiniteSet
<1>3. /\ drift \in [Client -> Ungated!Weights] /\ late \in Nat
      /\ train \in Seq(SUBSET Client) /\ train # <<>>
  BY <1>1, <1>2
<1>4. ASSUME NEW n \in Client
      PROVE  /\ round[n] \in Ungated!Rounds
             /\ Ungated!TrainSet(n) \in SUBSET Client /\ IsFiniteSet(Ungated!TrainSet(n))
  <2>1. round[n] \in 1..Len(train)
    BY DEF RoundShape
  <2>2. round[n] \in Ungated!Rounds
    BY <1>1, <2>1, RoundsBound
  <2>3. Ungated!TrainSet(n) \in SUBSET Client
    BY <1>3, <2>1 DEF Ungated!TrainSet
  <2>4. IsFiniteSet(Ungated!TrainSet(n))
    BY <1>2, <2>3, FS_Subset
  <2> QED
    BY <2>2, <2>3, <2>4
<1> QED
  BY <1>2, <1>3, <1>4

\* Nobody holds or has aggregated anything at the start.
LEMMA InitRangeInv == Ungated!Init => RangeInv
<1> SUFFICES ASSUME Ungated!Init PROVE RangeInv
  OBVIOUS
<1>1. Chosen
  BY DEF Ungated!Init, Chosen
<1>2. Len(train) >= 1 /\ Len(train) \in Nat
  <2>1. PICK s \in Federations : train = s.train
    BY <1>1 DEF Chosen
  <2>2. train \in Seq(SUBSET Client) /\ train # <<>>
    BY <2>1, LearningAssumption DEF Ungated!FederationAssumption
  <2> QED
    BY <2>2
<1>3. RoundShape
  <2>1. \A n \in Client : 1 \in 1..Len(train)
    BY <1>2
  <2>2. Ungated!Zeros \in Ungated!Weights
    BY DEF Ungated!Zeros, Ungated!Weights
  <2> QED
    BY <2>1, <2>2 DEF Ungated!Init, Ungated!Zero, RoundShape
<1>4. Pools
  <2>1. \A n \in Client : pool[n] = <<>> /\ unhandled[n] = <<>>
    BY DEF Ungated!Init
  <2> QED
    BY <2>1 DEF Pools, Sound, Singles, Distinct
<1>5. Emptied /\ Trainers /\ Results
  BY DEF Ungated!Init, Emptied, Trainers, Results
<1> QED
  BY <1>1, <1>3, <1>4, <1>5 DEF RangeInv

\* What is frozen stays so.
Advances ==
    \A k \in Client : \A r \in Ungated!Rounds :
        Frozen(k, r) => Frozen(k, r)' /\ fitted'[k][r] = fitted[k][r]
\* No step takes back what is frozen: a node fits once in a round and rounds only increase.
LEMMA StepAdvances ==
    ASSUME Chosen, RoundShape, Ungated!Next
    PROVE  Advances
<1> USE DEF Advances, Frozen
<1>1. round \in [Client -> Nat] /\ step \in [Client -> RoundSteps]
      /\ fitted \in [Client -> [Ungated!Rounds -> Ungated!Weights]]
  <2>1. Len(train) \in Nat
    BY RoundTypes
  <2> QED
    BY <2>1 DEF RoundShape
<1>2. ASSUME NEW n \in Client, Ungated!Open(n) PROVE Advances
  BY <1>1, <1>2 DEF Ungated!Open, Ungated!Goto
<1>3. ASSUME NEW n \in Client, Ungated!Fit(n) PROVE Advances
  BY <1>1, <1>3 DEF Ungated!Fit, Ungated!Goto
<1>4. ASSUME NEW n \in Client, Ungated!Aggregate(n) PROVE Advances
  BY <1>1, <1>4 DEF Ungated!Aggregate, Ungated!Goto
<1>5. ASSUME NEW n \in Client, Ungated!WaitOver(n) PROVE Advances
  BY <1>1, <1>5 DEF Ungated!WaitOver, Ungated!Goto
<1>6. ASSUME NEW n \in Client, Ungated!Clear(n) PROVE Advances
  BY <1>1, <1>6 DEF Ungated!Clear, Ungated!Goto
<1>7. ASSUME NEW n \in Client, Ungated!IncreaseRound(n) PROVE Advances
  <2>1. round' = [round EXCEPT ![n] = @ + 1] /\ fitted' = fitted /\ step[n] = "cleared"
        /\ step' = [step EXCEPT ![n] = "vote"]
    BY <1>7 DEF Ungated!IncreaseRound, Ungated!Goto
  <2>2. Ungated!Rounds \in SUBSET Int
    BY DEF Ungated!Rounds
  <2> SUFFICES ASSUME NEW k \in Client, NEW r \in Ungated!Rounds, Frozen(k, r) PROVE Frozen(k, r)'
    BY <2>1
  <2>3. r \in Int /\ round[k] \in Int /\ round[k] >= r
    BY <1>1, <2>2
  <2>4. CASE k = n
    BY <1>1, <2>1, <2>3, <2>4
  <2>5. CASE k # n
    BY <1>1, <2>1, <2>5
  <2> QED
    BY <2>4, <2>5
<1>8. ASSUME NEW i \in Client, NEW j \in Client, Ungated!SendPartial(i, j) PROVE Advances
  BY <1>1, <1>8 DEF Ungated!SendPartial
<1>9. ASSUME NEW i \in Client, NEW j \in Client, Ungated!SendFull(i, j) PROVE Advances
  BY <1>1, <1>9 DEF Ungated!SendFull
<1> QED
  BY <1>2, <1>3, <1>4, <1>5, <1>6, <1>7, <1>8, <1>9 DEF Ungated!Next

\* So is what nodes submitted in a round, and before it where models come late.
LEMMA HeldStays ==
    ASSUME Chosen, RoundShape, Advances, train' = train, late' = late, NEW n \in Client,
           round'[n] = round[n] \/ (late > 0 /\ round'[n] = round[n] + 1)
    PROVE  /\ \A k \in Client : Submitted(n)[k] \subseteq Submitted(n)'[k]
           /\ \A models \in Seq(Model) : /\ Singles(models, Submitted(n)) => Singles(models, Submitted(n)')
                                         /\ Sound(models, Submitted(n)) => Sound(models, Submitted(n)')
           /\ \A r : \A T \in SUBSET Client : \A x :
                Fair(r, T, Submitted(n), x) => Fair(r, T, Submitted(n)', x)
<1>1. round[n] \in Nat /\ \A r \in 1..round[n] : r \in Ungated!Rounds
  <2>1. PICK s \in Federations : train = s.train
    BY DEF Chosen
  <2>2. round[n] \in 1..Len(s.train) /\ Len(s.train) \in Nat
    BY <2>1, RoundTypes DEF RoundShape
  <2>3. \A r \in 1..round[n] : r \in 1..Len(s.train)
    BY <2>2
  <2> QED
    BY <2>2, <2>3, RoundsBound
<1>2. ASSUME NEW k \in Client PROVE Submitted(n)[k] \subseteq Submitted(n)'[k]
  <2> SUFFICES ASSUME NEW r \in 1..round[n], k \in train[r], Frozen(k, r), late > 0 \/ r = round[n]
               PROVE  fitted[k][r] \in Submitted(n)'[k]
    BY DEF Submitted
  <2>1. Frozen(k, r)' /\ fitted'[k][r] = fitted[k][r]
    BY <1>1 DEF Advances
  <2>2. r \in 1..round'[n] /\ k \in train'[r] /\ (late' > 0 \/ r = round'[n])
    BY <1>1
  <2> QED
    BY <2>1, <2>2 DEF Submitted, Frozen
<1>3. ASSUME NEW models \in Seq(Model), Singles(models, Submitted(n))
      PROVE  Singles(models, Submitted(n)')
  <2>1. \A i \in DOMAIN models : Of(models, i) \in Client
    <3>1. \A i \in DOMAIN models : models[i] \in Model
      OBVIOUS
    <3> QED
      BY <3>1 DEF Model, Of
  <2> QED
    BY <1>2, <1>3, <2>1 DEF Singles
<1>4. ASSUME NEW r, NEW T \in SUBSET Client, NEW x, Fair(r, T, Submitted(n), x)
      PROVE  Fair(r, T, Submitted(n)', x)
  <2>1. \A k \in T : Submitted(n)[k] \subseteq Submitted(n)'[k]
    BY <1>2
  <2> QED
    BY <1>4, <2>1, FairStays
<1> QED
  BY <1>2, <1>3, <1>4 DEF Sound

\* The pool and the unhandled models of one node change.
LEMMA PoolsChange ==
    ASSUME Chosen, RoundShape, Pools, Advances, UNCHANGED <<train, late, round>>, NEW n \in Client,
           NEW models \in Seq(Model), NEW early \in Seq(Model),
           pool' = [pool EXCEPT ![n] = models], unhandled' = [unhandled EXCEPT ![n] = early],
           Sound(models, Submitted(n)'), Singles(early, Submitted(n)')
    PROVE  pool' \in [Client -> Seq(Model)] /\ unhandled' \in [Client -> Seq(Model)] /\ Pools'
<1>1. pool \in [Client -> Seq(Model)] /\ unhandled \in [Client -> Seq(Model)]
  BY DEF RoundShape
<1>2. pool' \in [Client -> Seq(Model)] /\ unhandled' \in [Client -> Seq(Model)]
  BY <1>1
<1>3. ASSUME NEW m \in Client
      PROVE  /\ Sound(pool'[m], Submitted(m)')
             /\ Singles(unhandled'[m], Submitted(m)')
  <2>1. CASE m = n
    <3>1. pool'[m] = models /\ unhandled'[m] = early
      BY <1>1, <2>1
    <3> QED
      BY <2>1, <3>1
  <2>2. CASE m # n
    <3>1. pool'[m] = pool[m] /\ unhandled'[m] = unhandled[m]
      BY <1>1, <2>2
    <3>2. \A s \in Seq(Model) : /\ Singles(s, Submitted(m)) => Singles(s, Submitted(m)')
                                /\ Sound(s, Submitted(m)) => Sound(s, Submitted(m)')
      BY HeldStays
    <3>3. Sound(pool[m], Submitted(m)) /\ Singles(unhandled[m], Submitted(m))
      BY DEF Pools
    <3> QED
      BY <1>1, <3>1, <3>2, <3>3
  <2> QED
    BY <2>1, <2>2
<1> QED
  BY <1>2, <1>3 DEF Pools

\* What is held stays sound in a step that moves no model.
LEMMA PoolsStay ==
    ASSUME Chosen, RoundShape, Pools, Advances, UNCHANGED <<train, late, round, pool, unhandled>>
    PROVE  Pools'
<1> SUFFICES ASSUME NEW m \in Client
             PROVE  /\ Sound(pool'[m], Submitted(m)')
                    /\ Singles(unhandled'[m], Submitted(m)')
  BY DEF Pools
<1>1. \A s \in Seq(Model) : /\ Singles(s, Submitted(m)) => Singles(s, Submitted(m)')
                            /\ Sound(s, Submitted(m)) => Sound(s, Submitted(m)')
  BY HeldStays
<1>2. /\ Sound(pool[m], Submitted(m)) /\ Singles(unhandled[m], Submitted(m))
      /\ pool[m] \in Seq(Model) /\ unhandled[m] \in Seq(Model)
  BY DEF Pools, RoundShape
<1> QED
  BY <1>1, <1>2

\* What a trainer has aggregated stays fair while it is in the round.
LEMMA ResultsStay ==
    ASSUME Chosen, RoundShape, Results, Advances, NEW n \in Client,
           UNCHANGED <<rule, train, late>>, round'[n] = round[n], result'[n] = result[n],
           result'[n] # <<>>
    PROVE  Fair(rule', Ungated!TrainSet(n)', Submitted(n)', result'[n][1].param)
<1>1. Fair(rule, Ungated!TrainSet(n), Submitted(n), result[n][1].param)
  BY DEF Results
<1>2. Ungated!TrainSet(n)' = Ungated!TrainSet(n)
  BY DEF Ungated!TrainSet
<1>3. Ungated!TrainSet(n) \in SUBSET Client
  BY RoundTypes
<1>4. Fair(rule, Ungated!TrainSet(n), Submitted(n)', result[n][1].param)
  BY <1>1, <1>3, HeldStays
<1> QED
  BY <1>2, <1>4

\* A round that a node does not leave keeps its train set.
LEMMA TrainSetStays ==
    ASSUME train' = train, NEW n \in Client, round'[n] = round[n]
    PROVE  Ungated!TrainSet(n)' = Ungated!TrainSet(n)
BY DEF Ungated!TrainSet

RangeParts == RoundShape /\ Pools /\ Emptied /\ Trainers /\ Results

\* set_nodes_to_aggregate keeps the parts of the invariant: it adds what came early.
LEMMA OpenParts ==
    ASSUME Chosen, RangeParts, Advances, NEW n \in Client, Ungated!Open(n)
    PROVE  RangeParts'
<1>1. /\ step[n] = "vote" /\ UNCHANGED <<rule, train, drift, late, round, base, fitted, result>>
      /\ \/ n \in Ungated!TrainSet(n) /\ step' = [step EXCEPT ![n] = "train"]
         \/ step' = [step EXCEPT ![n] = "wait"] /\ UNCHANGED <<pool, unhandled>>
  BY DEF Ungated!Open, Ungated!Goto, Ungated!fixed
<1>2. \A models \in Seq(Model) : Sound(models, Submitted(n)) => Sound(models, Submitted(n)')
  BY <1>1, HeldStays DEF RangeParts
<1>3. pool' \in [Client -> Seq(Model)] /\ unhandled' \in [Client -> Seq(Model)] /\ Pools'
  <2>1. CASE UNCHANGED <<pool, unhandled>>
    BY <1>1, <2>1, PoolsStay DEF RangeParts, RoundShape
  <2>2. CASE n \in Ungated!TrainSet(n)
    <3> DEFINE store == [models |-> pool[n], unhandled |-> unhandled[n]]
               T == Ungated!TrainSet(n)
               after == Ungated!FoldLeft(LAMBDA h, added : Ungated!AddModel(T, h, added),
                                         store, store.unhandled)
               iter[s \in SUBSET (DOMAIN store.unhandled)] ==
                    IF s = {} THEN store
                    ELSE Ungated!AddModel(T, iter[s \ {Ungated!Max(s)}],
                                          store.unhandled[Ungated!Max(s)])
    <3>1. pool' = [pool EXCEPT ![n] = after.models] /\ unhandled' = [unhandled EXCEPT ![n] = <<>>]
      BY <2>2 DEF Ungated!Open, Ungated!Held
    <3>2. store \in Store
      BY DEF RangeParts, RoundShape, Store
    <3>3. Sound(store.models, Submitted(n)) /\ Singles(store.unhandled, Submitted(n))
      BY DEF RangeParts, Pools
    <3>4. after = iter[DOMAIN store.unhandled]
      <4> HIDE DEF store, T
      <4> QED
        BY DEF Ungated!FoldLeft, Ungated!MapThenFoldSet
    <3> HIDE DEF after, store, T
    <3>5. Adding(T, store, iter)
      <4>1. iter = CHOOSE z : Adding(T, store, z)
        BY DEF Adding
      <4>2. \E z : Adding(T, store, z)
        BY <3>2, <3>3, OpenedKeeps
      <4> HIDE DEF iter
      <4> QED
        BY <4>1, <4>2
    <3> HIDE DEF iter
    <3>6. after \in Store /\ Sound(after.models, Submitted(n))
      BY <3>2, <3>3, <3>4, <3>5, OpenedKeeps
    <3>7. after.models \in Seq(Model) /\ Sound(after.models, Submitted(n)')
      BY <1>2, <3>6 DEF Store
    <3>8. <<>> \in Seq(Model) /\ Singles(<<>>, Submitted(n)')
      BY DEF Singles
    <3> QED
      BY <1>1, <3>1, <3>7, <3>8, PoolsChange DEF RangeParts
  <2> QED
    BY <2>1, <2>2 DEF Ungated!Open
<1>4. RoundShape'
  BY <1>1, <1>3 DEF RangeParts, RoundShape
<1>5. Emptied' /\ Trainers'
  <2>1. \A m \in Client : Ungated!TrainSet(m)' = Ungated!TrainSet(m)
    BY <1>1, TrainSetStays
  <2>2. \A m \in Client : m # n => pool'[m] = pool[m] /\ unhandled'[m] = unhandled[m]
    BY DEF Ungated!Open, RangeParts, RoundShape
  <2>3. step'[n] \in {"train", "wait"} /\ (step'[n] = "train" => n \in Ungated!TrainSet(n))
        /\ \A m \in Client : m # n => step'[m] = step[m]
    BY <1>1 DEF RangeParts, RoundShape
  <2> QED
    BY <1>1, <2>1, <2>2, <2>3 DEF Emptied, Trainers, RangeParts
<1>6. Results'
  BY <1>1, ResultsStay DEF Results, RangeParts
<1> QED
  BY <1>3, <1>4, <1>5, <1>6 DEF RangeParts

\* A trained model is the node's own and is not trained again in the round.
LEMMA FitParts ==
    ASSUME Chosen, RangeParts, Advances, NEW n \in Client, Ungated!Fit(n)
    PROVE  RangeParts'
<1> DEFINE x == Ungated!Plus(base[n], drift[n])
           own == [param |-> x, samples |-> SampleCount[n], contributors |-> <<n>>,
                   delta_y |-> drift[n], delta_c |-> Ungated!Minus(Ungated!Zeros, drift[n])]
           store == [models |-> pool[n], unhandled |-> unhandled[n]]
           after == Ungated!AddModel(Ungated!TrainSet(n), store, own)
<1>1. /\ step[n] = "train" /\ UNCHANGED <<rule, train, drift, late, round, result>>
      /\ step' = [step EXCEPT ![n] = "gossip"] /\ base' = [base EXCEPT ![n] = x]
      /\ fitted' = [fitted EXCEPT ![n][round[n]] = x]
      /\ pool' = [pool EXCEPT ![n] = after.models]
      /\ unhandled' = [unhandled EXCEPT ![n] = after.unhandled]
  BY DEF Ungated!Fit, Ungated!Goto, Ungated!fixed, Ungated!Held
<1>2. /\ drift \in [Client -> Ungated!Weights] /\ SampleCount \in [Client -> Nat]
      /\ round[n] \in Ungated!Rounds
  BY RoundTypes DEF RangeParts
<1>3. /\ base \in [Client -> Ungated!Weights] /\ step \in [Client -> RoundSteps]
      /\ round \in [Client -> 1..Len(train)]
      /\ fitted \in [Client -> [Ungated!Rounds -> Ungated!Weights]]
      /\ pool \in [Client -> Seq(Model)] /\ unhandled \in [Client -> Seq(Model)]
      /\ DOMAIN result = Client
  BY DEF RangeParts, RoundShape
<1>4. /\ x \in Ungated!Weights /\ drift[n] \in Ungated!Weights /\ SampleCount[n] \in Nat
      /\ Ungated!Minus(Ungated!Zeros, drift[n]) \in Ungated!Weights
  <2>1. base[n] \in Ungated!Weights /\ drift[n] \in Ungated!Weights /\ SampleCount[n] \in Nat
    BY <1>2, <1>3
  <2> QED
    BY <2>1 DEF Ungated!Weights, Ungated!Plus, Ungated!Minus, Ungated!Zeros
<1>5. step'[n] = "gossip" /\ fitted'[n][round[n]] = x
      /\ fitted' \in [Client -> [Ungated!Rounds -> Ungated!Weights]] /\ round'[n] = round[n]
  <2> HIDE DEF x
  <2> QED
    BY <1>1, <1>2, <1>3, <1>4
<1>6. own \in Model
  <2> HIDE DEF x
  <2> QED
    BY <1>4 DEF Model
<1>7. Singles(<<own>>, Submitted(n)')
  <2>1. n \in train[round[n]] /\ round[n] \in 1..round[n]
    BY <1>1, <1>3 DEF RangeParts, Trainers, Ungated!TrainSet
  <2>2. x \in Submitted(n)'[n]
    <3> HIDE DEF x
    <3> QED
      BY <1>1, <1>5, <2>1 DEF Submitted, Frozen
  <2>3. <<own>>[1].param = x /\ Of(<<own>>, 1) = n
    BY DEF Of
  <2> HIDE DEF own, x
  <2> QED
    BY <2>2, <2>3 DEF Singles
<1>8. \A models \in Seq(Model) : /\ Singles(models, Submitted(n)) => Singles(models, Submitted(n)')
                                 /\ Sound(models, Submitted(n)) => Sound(models, Submitted(n)')
  BY <1>1, HeldStays DEF RangeParts
<1>9. store \in Store /\ Sound(store.models, Submitted(n)')
      /\ Singles(store.unhandled, Submitted(n)')
  <2>1. store \in Store
    BY <1>3 DEF Store
  <2> QED
    BY <1>3, <1>8, <2>1 DEF RangeParts, Pools
<1> HIDE DEF store, own
<1>10. /\ after \in Store /\ Sound(after.models, Submitted(n)')
       /\ Singles(after.unhandled, Submitted(n)')
  BY <1>6, <1>7, <1>9, AddedKeeps
<1> HIDE DEF after
<1>11. after.models \in Seq(Model) /\ after.unhandled \in Seq(Model)
  BY <1>10 DEF Store
<1>12. pool' \in [Client -> Seq(Model)] /\ unhandled' \in [Client -> Seq(Model)] /\ Pools'
  BY <1>1, <1>10, <1>11, PoolsChange DEF RangeParts
<1>13. RoundShape'
  <2> HIDE DEF x
  <2> QED
    BY <1>1, <1>3, <1>4, <1>5, <1>12 DEF RoundShape
<1>14. Emptied' /\ Trainers'
  <2>1. \A m \in Client : Ungated!TrainSet(m)' = Ungated!TrainSet(m)
    BY <1>1, TrainSetStays
  <2>2. \A m \in Client : m # n => pool'[m] = pool[m] /\ unhandled'[m] = unhandled[m] /\ step'[m] = step[m]
    BY <1>1, <1>3
  <2> QED
    BY <1>1, <1>5, <2>1, <2>2 DEF Emptied, Trainers, RangeParts
<1>15. Results'
  BY <1>1, ResultsStay DEF Results, RangeParts
<1> QED
  BY <1>12, <1>13, <1>14, <1>15 DEF RangeParts

\* What comes from the pool of another node of the same round may be in one's own.
LEMMA SendPartialParts ==
    ASSUME Robust, Chosen, RangeParts, Advances,
           NEW i \in Client, NEW j \in Client, Ungated!SendPartial(i, j)
    PROVE  RangeParts'
<1> DEFINE store == [models |-> pool[j], unhandled |-> unhandled[j]]
<1>1. /\ UNCHANGED <<rule, train, drift, late, round, step, base, fitted, result>>
      /\ round[j] = round[i] /\ (step[j] = "cleared" => late # 0)
  <2>1. Len(unhandled[j]) \in Nat /\ late \in Nat
    BY RoundTypes DEF RangeParts, RoundShape
  <2> QED
    BY <2>1 DEF Ungated!SendPartial, Ungated!fixed
<1> DEFINE T == IF step[j] \in {"vote", "cleared"} THEN {} ELSE Ungated!TrainSet(j)
<1>2. PICK except \in Ungated!Announced(j) : \E added \in Ungated!GetModel(pool[i], except) :
        /\ pool' = [pool EXCEPT ![j] = Ungated!AddModel(T, store, added).models]
        /\ unhandled' = [unhandled EXCEPT ![j] = Ungated!AddModel(T, store, added).unhandled]
  BY DEF Ungated!SendPartial, Ungated!Held
<1>3. PICK added \in Ungated!GetModel(pool[i], except) :
        /\ pool' = [pool EXCEPT ![j] = Ungated!AddModel(T, store, added).models]
        /\ unhandled' = [unhandled EXCEPT ![j] = Ungated!AddModel(T, store, added).unhandled]
  BY <1>2
<1> HIDE DEF T
<1> DEFINE after == Ungated!AddModel(T, store, added)
<1>4. /\ step \in [Client -> RoundSteps] /\ pool \in [Client -> Seq(Model)]
      /\ unhandled \in [Client -> Seq(Model)]
  BY DEF RangeParts, RoundShape
<1>5. added \in Model /\ Singles(<<added>>, Submitted(j))
  <2>1. PICK k \in DOMAIN pool[i] : added = pool[i][k]
    BY <1>3 DEF Ungated!GetModel, Ungated!Partial, Robust
  <2>2. pool[i][k] \in Model
    BY <1>4, <2>1
  <2>3. Singles(pool[i], Submitted(i))
    BY DEF RangeParts, Pools, Sound
  <2>4. Submitted(i) = Submitted(j)
    BY <1>1 DEF Submitted
  <2> QED
    BY <2>1, <2>2, <2>3, <2>4 DEF Singles, Of
<1>6. \A models \in Seq(Model) : /\ Singles(models, Submitted(j)) => Singles(models, Submitted(j)')
                                 /\ Sound(models, Submitted(j)) => Sound(models, Submitted(j)')
  BY <1>1, HeldStays DEF RangeParts
<1>7. store \in Store /\ Sound(store.models, Submitted(j))
      /\ Singles(store.unhandled, Submitted(j))
  <2>1. store \in Store
    BY <1>4 DEF Store
  <2> QED
    BY <2>1 DEF RangeParts, Pools
<1> HIDE DEF store
<1>8. /\ after \in Store /\ Sound(after.models, Submitted(j))
      /\ Singles(after.unhandled, Submitted(j))
  BY <1>5, <1>7, AddedKeeps
<1>9. pool' = [pool EXCEPT ![j] = after.models] /\ unhandled' = [unhandled EXCEPT ![j] = after.unhandled]
  BY <1>3
<1> HIDE DEF after
<1>10. /\ after.models \in Seq(Model) /\ after.unhandled \in Seq(Model)
       /\ Sound(after.models, Submitted(j)') /\ Singles(after.unhandled, Submitted(j)')
  BY <1>6, <1>8 DEF Store
<1>11. pool' \in [Client -> Seq(Model)] /\ unhandled' \in [Client -> Seq(Model)] /\ Pools'
  BY <1>1, <1>9, <1>10, PoolsChange DEF RangeParts
<1>12. RoundShape'
  BY <1>1, <1>11 DEF RangeParts, RoundShape
<1>13. Emptied' /\ Trainers'
  <2>1. \A m \in Client : Ungated!TrainSet(m)' = Ungated!TrainSet(m)
    BY <1>1, TrainSetStays
  <2>2. \A m \in Client : m # j => pool'[m] = pool[m] /\ unhandled'[m] = unhandled[m]
    BY <1>4, <1>9
  <2> QED
    BY <1>1, <2>1, <2>2 DEF Emptied, Trainers, RangeParts
<1>14. Results'
  BY <1>1, ResultsStay DEF Results, RangeParts
<1> QED
  BY <1>11, <1>12, <1>13, <1>14 DEF RangeParts

\* What a complete pool is aggregated to is fair.
LEMMA AggregateParts ==
    ASSUME NormHolds, Robust, Chosen, RangeParts, Advances, NEW n \in Client, Ungated!Aggregate(n)
    PROVE  RangeParts'
<1> DEFINE outcome == Ungated!Aggregated(rule, memory[n], pool[n])
           T == Ungated!TrainSet(n)
           x == outcome.model.param
<1>1. /\ step[n] = "gossip" /\ UNCHANGED <<rule, train, drift, late, round, fitted, pool, unhandled>>
      /\ step' = [step EXCEPT ![n] = "full"] /\ base' = [base EXCEPT ![n] = x]
      /\ result' = [result EXCEPT ![n] = <<outcome.model>>] /\ Ungated!Covered(pool[n]) = T
  BY DEF Ungated!Aggregate, Ungated!Goto, Ungated!fixed
<1>2. /\ base \in [Client -> Ungated!Weights] /\ step \in [Client -> RoundSteps]
      /\ round \in [Client -> 1..Len(train)]
      /\ fitted \in [Client -> [Ungated!Rounds -> Ungated!Weights]]
      /\ pool \in [Client -> Seq(Model)] /\ unhandled \in [Client -> Seq(Model)]
      /\ DOMAIN result = Client
  BY DEF RangeParts, RoundShape
<1>3. T \in SUBSET Client /\ IsFiniteSet(T) /\ round[n] \in Ungated!Rounds
  BY RoundTypes DEF RangeParts
<1>4. Sound(pool[n], Submitted(n)) /\ pool[n] \in Seq(Model)
  BY <1>2 DEF RangeParts, Pools
<1>5. T = {Of(pool[n], i) : i \in DOMAIN pool[n]}
  BY <1>1, <1>4, CoveredSingles
<1>6. pool[n] # <<>>
  <2>1. n \in T
    BY <1>1 DEF RangeParts, Trainers
  <2> QED
    BY <1>5, <2>1
<1>7. x \in Ungated!Weights /\ Fair(rule, T, Submitted(n), x)
  <2>1. rule \in {"fedmedian", "krum"}
    BY DEF Robust
  <2> HIDE DEF T
  <2> QED
    BY <1>1, <1>3, <1>4, <1>6, <2>1, OutcomeIsHonest
<1> HIDE DEF outcome, T
<1>9. Pools'
  BY <1>1, PoolsStay DEF RangeParts
<1>10. RoundShape'
  <2> HIDE DEF x
  <2> QED
    BY <1>1, <1>2, <1>7 DEF RoundShape
<1>11. Emptied' /\ Trainers'
  <2>1. \A m \in Client : Ungated!TrainSet(m)' = Ungated!TrainSet(m)
    BY <1>1, TrainSetStays
  <2>2. step'[n] = "full" /\ \A m \in Client : m # n => step'[m] = step[m]
    BY <1>1, <1>2
  <2> QED
    BY <1>1, <2>1, <2>2 DEF Emptied, Trainers, RangeParts
<1>12. ASSUME NEW m \in Client, result'[m] # <<>>
       PROVE  Fair(rule', Ungated!TrainSet(m)', Submitted(m)', result'[m][1].param)
  <2>1. CASE m = n
    <3>1. result'[m][1].param = x /\ Ungated!TrainSet(m)' = T /\ rule' = rule
      BY <1>1, <1>2, <2>1, TrainSetStays DEF T
    <3>2. Fair(rule, T, Submitted(n)', x)
      <4> HIDE DEF x
      <4> QED
        BY <1>1, <1>3, <1>7, HeldStays DEF RangeParts
    <3> QED
      BY <2>1, <3>1, <3>2
  <2>2. CASE m # n
    <3>1. result'[m] = result[m]
      BY <1>1, <1>2, <2>2
    <3> QED
      BY <1>1, <1>12, <3>1, ResultsStay DEF RangeParts
  <2> QED
    BY <2>1, <2>2
<1> QED
  BY <1>9, <1>10, <1>11, <1>12 DEF RangeParts, Results

\* Steps that leave rounds, pools and results alone.
LEMMA OtherParts ==
    ASSUME Chosen, RangeParts, Advances,
           \/ \E i, j \in Client : Ungated!SendFull(i, j)
           \/ \E n \in Client : Ungated!WaitOver(n)
    PROVE  RangeParts'
<1>1. /\ UNCHANGED <<rule, train, drift, late, round, fitted, pool, unhandled, result>>
      /\ \/ step' = step /\ \E i, j \in Client : base' = [base EXCEPT ![j] = base[i]]
         \/ base' = base /\ \E n \in Client : step[n] = "wait" /\ step' = [step EXCEPT ![n] = "full"]
  <2>1. CASE \E i, j \in Client : Ungated!SendFull(i, j)
    BY <2>1 DEF Ungated!SendFull, Ungated!fixed
  <2>2. CASE \E n \in Client : Ungated!WaitOver(n)
    BY <2>2 DEF Ungated!WaitOver, Ungated!fixed, Ungated!Goto
  <2> QED
    BY <2>1, <2>2
<1>2. base \in [Client -> Ungated!Weights] /\ step \in [Client -> RoundSteps]
  BY DEF RangeParts, RoundShape
<1>3. base' \in [Client -> Ungated!Weights] /\ step' \in [Client -> RoundSteps]
      /\ \A m \in Client : step'[m] \in {step[m], "full"}
  BY <1>1, <1>2
<1>4. Pools'
  BY <1>1, PoolsStay DEF RangeParts
<1>5. RoundShape'
  BY <1>1, <1>3 DEF RangeParts, RoundShape
<1>6. Emptied' /\ Trainers'
  <2>1. \A m \in Client : Ungated!TrainSet(m)' = Ungated!TrainSet(m)
    BY <1>1, TrainSetStays
  <2>2. \A m \in Client : step'[m] # "full" => step'[m] = step[m]
    BY <1>3
  <2> QED
    BY <1>1, <2>1, <2>2 DEF Emptied, Trainers, RangeParts
<1>7. Results'
  BY <1>1, ResultsStay DEF Results, RangeParts
<1> QED
  BY <1>4, <1>5, <1>6, <1>7 DEF RangeParts

\* A cleared aggregator is empty ...
LEMMA ClearParts ==
    ASSUME Chosen, RangeParts, Advances, NEW n \in Client, Ungated!Clear(n)
    PROVE  RangeParts'
<1>1. /\ UNCHANGED <<rule, train, drift, late, round, fitted, base, result>>
      /\ pool' = [pool EXCEPT ![n] = <<>>] /\ unhandled' = [unhandled EXCEPT ![n] = <<>>]
      /\ step' = [step EXCEPT ![n] = "cleared"]
  BY DEF Ungated!Clear, Ungated!fixed, Ungated!Goto
<1>2. <<>> \in Seq(Model) /\ Sound(<<>>, Submitted(n)') /\ Singles(<<>>, Submitted(n)')
  BY DEF Sound, Singles, Distinct
<1>3. pool' \in [Client -> Seq(Model)] /\ unhandled' \in [Client -> Seq(Model)] /\ Pools'
  BY <1>1, <1>2, PoolsChange DEF RangeParts
<1>4. RoundShape'
  BY <1>1, <1>3 DEF RangeParts, RoundShape
<1>5. Emptied' /\ Trainers'
  <2>1. \A m \in Client : Ungated!TrainSet(m)' = Ungated!TrainSet(m)
    BY <1>1, TrainSetStays
  <2>2. /\ step'[n] = "cleared" /\ pool'[n] = <<>> /\ unhandled'[n] = <<>>
        /\ \A m \in Client : m # n =>
             pool'[m] = pool[m] /\ unhandled'[m] = unhandled[m] /\ step'[m] = step[m]
    BY <1>1 DEF RangeParts, RoundShape
  <2> QED
    BY <1>1, <2>1, <2>2 DEF Emptied, Trainers, RangeParts
<1>6. Results'
  BY <1>1, ResultsStay DEF Results, RangeParts
<1> QED
  BY <1>3, <1>4, <1>5, <1>6 DEF RangeParts

\* ... and so is that of the next round, but for the models that came late.
LEMMA IncreaseRoundParts ==
    ASSUME Chosen, RangeParts, Advances, NEW n \in Client, Ungated!IncreaseRound(n)
    PROVE  RangeParts'
<1>1. /\ UNCHANGED <<rule, train, drift, late, fitted, base, pool, unhandled>>
      /\ step[n] = "cleared" /\ round[n] < Len(train) /\ round' = [round EXCEPT ![n] = @ + 1]
      /\ result' = [result EXCEPT ![n] = <<>>] /\ step' = [step EXCEPT ![n] = "vote"]
  BY DEF Ungated!IncreaseRound, Ungated!fixed, Ungated!Goto
<1>2. /\ round \in [Client -> 1..Len(train)] /\ step \in [Client -> RoundSteps] /\ DOMAIN result = Client
      /\ Len(train) \in Nat
  <2>1. Len(train) \in Nat
    BY RoundTypes DEF RangeParts
  <2> QED
    BY <2>1 DEF RangeParts, RoundShape
<1>3. /\ step'[n] = "vote" /\ result'[n] = <<>>
      /\ \A m \in Client : m # n => /\ step'[m] = step[m] /\ result'[m] = result[m]
                                    /\ round'[m] = round[m]
  BY <1>1, <1>2
<1>4. round' \in [Client -> 1..Len(train)]
  BY <1>1, <1>2
<1>5. RoundShape'
  BY <1>1, <1>2, <1>4 DEF RangeParts, RoundShape
<1>6. ASSUME NEW m \in Client
      PROVE  /\ Sound(pool'[m], Submitted(m)')
             /\ Singles(unhandled'[m], Submitted(m)')
  <2>1. CASE m = n /\ late = 0
    <3>1. pool'[m] = <<>> /\ unhandled'[m] = <<>>
      BY <1>1, <2>1 DEF RangeParts, Emptied
    <3> QED
      BY <3>1 DEF Sound, Singles, Distinct
  <2>2. CASE m # n \/ late # 0
    <3>1. round'[m] = round[m] \/ (late > 0 /\ round'[m] = round[m] + 1)
      <4>1. late \in Nat /\ round'[n] = round[n] + 1
        BY <1>1, <1>2, RoundTypes DEF RangeParts
      <4> QED
        BY <1>3, <2>2, <4>1
    <3>2. \A s \in Seq(Model) : /\ Singles(s, Submitted(m)) => Singles(s, Submitted(m)')
                                /\ Sound(s, Submitted(m)) => Sound(s, Submitted(m)')
      BY <1>1, <3>1, HeldStays DEF RangeParts
    <3>3. /\ Sound(pool[m], Submitted(m)) /\ Singles(unhandled[m], Submitted(m))
          /\ pool[m] \in Seq(Model) /\ unhandled[m] \in Seq(Model)
      BY DEF RangeParts, Pools, RoundShape
    <3> QED
      BY <1>1, <3>2, <3>3
  <2> QED
    BY <2>1, <2>2
<1>7. Emptied' /\ Trainers'
  <2>1. \A m \in Client : m # n => Ungated!TrainSet(m)' = Ungated!TrainSet(m)
    BY <1>1, <1>3, TrainSetStays
  <2> QED
    BY <1>1, <1>3, <2>1 DEF Emptied, Trainers, RangeParts
<1>8. ASSUME NEW m \in Client, result'[m] # <<>>
      PROVE  Fair(rule', Ungated!TrainSet(m)', Submitted(m)', result'[m][1].param)
  BY <1>1, <1>3, <1>8, ResultsStay DEF RangeParts
<1> QED
  BY <1>5, <1>6, <1>7, <1>8 DEF RangeParts, Pools, Results

\* Every step keeps the invariant.
LEMMA NextRangeInv == ASSUME NormHolds PROVE RangeInv /\ [Ungated!Next]_Ungated!vars => RangeInv'
<1> SUFFICES ASSUME RangeInv, [Ungated!Next]_Ungated!vars PROVE RangeInv'
  OBVIOUS
<1>1. UNCHANGED <<rule, train, drift, late>>
  BY DEF Ungated!Next, Ungated!vars, Ungated!fixed, Ungated!Open, Ungated!Fit, Ungated!SendPartial,
         Ungated!Aggregate, Ungated!SendFull, Ungated!WaitOver, Ungated!Clear, Ungated!IncreaseRound
<1>2. Chosen /\ Chosen' /\ (Robust' <=> Robust)
  BY <1>1 DEF RangeInv, Chosen, Robust
<1> SUFFICES ASSUME Robust, RangeParts PROVE RangeParts'
  BY <1>2 DEF RangeInv, RangeParts
<1>3. CASE UNCHANGED Ungated!vars
  <2>1. UNCHANGED <<rule, train, drift, late, round, step, base, pool, unhandled, fitted, result>>
    BY <1>3 DEF Ungated!vars, Ungated!fixed
  <2>2. Advances
    BY <2>1 DEF Advances, Frozen
  <2>3. Pools' /\ Results'
    BY <1>2, <2>1, <2>2, PoolsStay, ResultsStay DEF RangeParts, Results
  <2>4. RoundShape' /\ Emptied' /\ Trainers'
    BY <2>1 DEF RangeParts, RoundShape, Emptied, Trainers, Ungated!TrainSet
  <2> QED
    BY <2>3, <2>4 DEF RangeParts
<1>4. CASE Ungated!Next
  <2>1. Advances
    BY <1>2, <1>4, StepAdvances DEF RangeParts
  <2>2. CASE \E n \in Client : Ungated!Open(n)
    BY <1>2, <2>1, <2>2, OpenParts
  <2>3. CASE \E n \in Client : Ungated!Fit(n)
    BY <1>2, <2>1, <2>3, FitParts
  <2>4. CASE \E n \in Client : Ungated!Aggregate(n)
    BY <1>2, <2>1, <2>4, AggregateParts
  <2>5. CASE \E n \in Client : Ungated!Clear(n)
    BY <1>2, <2>1, <2>5, ClearParts
  <2>6. CASE \E n \in Client : Ungated!IncreaseRound(n)
    BY <1>2, <2>1, <2>6, IncreaseRoundParts
  <2>7. CASE \E i, j \in Client : Ungated!SendPartial(i, j)
    BY <1>2, <2>1, <2>7, SendPartialParts
  <2>8. CASE \/ \E i, j \in Client : Ungated!SendFull(i, j)
             \/ \E n \in Client : Ungated!WaitOver(n)
    BY <1>2, <2>1, <2>8, OtherParts
  <2> QED
    BY <1>4, <2>2, <2>3, <2>4, <2>5, <2>6, <2>7, <2>8 DEF Ungated!Next
<1> QED
  BY <1>3, <1>4

\* The invariant is stronger than the property.
LEMMA RangeFollows == RangeInv => HonestRange
<1> SUFFICES ASSUME RangeInv PROVE HonestRange
  OBVIOUS
<1> SUFFICES ASSUME NEW n \in Client, Ungated!Trained(n), Ungated!FewLie(n), Robust
             PROVE  LET T == Ungated!TrainSet(n)
                        H == Cardinality(T \ Dishonest)
                        l == Cardinality(T \cap Dishonest)
                        x == result[n][1].param
                    IN  /\ rule = "fedmedian" => Ungated!InRange(n, x)
                        /\ rule = "krum" => \A k \in T \ Dishonest :
                             \E y \in Ungated!Submissions(n, k), v, w \in Ungated!Honest(n) :
                                 (H - l) * Ungated!Distance(x, y) <= 2 * (H - 1) * Ungated!Distance(v, w)
  BY SameCardinality DEF HonestRange, Ungated!HonestRange, Robust
<1> DEFINE T == Ungated!TrainSet(n)
           x == result[n][1].param
           val == [k \in Client |-> Ungated!Submissions(n, k)]
<1>1. T \in SUBSET Client /\ Chosen /\ RoundShape /\ Results
  BY RoundTypes DEF RangeInv
<1>2. Fair(rule, T, Submitted(n), x)
  BY <1>1 DEF Results, Ungated!Trained
<1>3. \A k \in T : Submitted(n)[k] \subseteq val[k]
  BY <1>1 DEF Submitted, Ungated!Submissions
<1>4. Fair(rule, T, val, x)
  <2> HIDE DEF T, x, val
  <2> QED
    BY <1>2, <1>3, FairStays
<1>5. UNION {val[k] : k \in T \ Dishonest} = Ungated!Honest(n)
  <2>1. \A k \in T \ Dishonest : val[k] = Ungated!Submissions(n, k)
    BY <1>1
  <2> HIDE DEF val
  <2> QED
    BY <2>1 DEF Ungated!Honest
<1>6. Cardinality(T \cap Dishonest) < Cardinality(T \ Dishonest)
  BY SameCardinality DEF Ungated!FewLie
<1>7. \A k \in T \ Dishonest : val[k] = Ungated!Submissions(n, k)
  BY <1>1
<1> HIDE DEF T, x, val
<1>8. rule = "fedmedian" => Ungated!InRange(n, x)
  BY <1>4, <1>5, <1>6 DEF Fair, Ungated!InRange
<1>9. rule = "krum" => \A k \in T \ Dishonest :
            \E y \in Ungated!Submissions(n, k), v, w \in Ungated!Honest(n) :
                (Cardinality(T \ Dishonest) - Cardinality(T \cap Dishonest)) * Ungated!Distance(x, y)
                    <= 2 * (Cardinality(T \ Dishonest) - 1) * Ungated!Distance(v, w)
  BY <1>4, <1>5, <1>6, <1>7 DEF Fair
<1> QED
  BY <1>8, <1>9 DEF T, x

\* In every federation, with any models, rounds, train sets, orders of arrival, drifts and
\* models that come late: a minority of liars neither moves an entry of the median out of the
\* range of what honest trainers submitted nor makes Krum select a model far from theirs.
\* Of the arithmetic of NumPy it is assumed that distances are those of a norm
\* (fedmedian.py, krum.py, aggregator.py, round_finished_stage.py).
THEOREM AggregatesAreHonest ==
    ASSUME Ungated!IsNormOn(Ungated!Weights) PROVE Ungated!Spec => []HonestRange
<1>1. Ungated!Init => RangeInv
  BY InitRangeInv
<1>2. RangeInv /\ [Ungated!Next]_Ungated!vars => RangeInv'
  BY NextRangeInv DEF NormHolds
<1>3. RangeInv => HonestRange
  BY RangeFollows
<1> QED
  BY <1>1, <1>2, <1>3, PTL DEF Ungated!Spec
=============================================================================
