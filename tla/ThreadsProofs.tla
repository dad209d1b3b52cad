------------------------------ MODULE ThreadsProofs ------------------------------
(***************************************************************************)
(* Proofs about what threads share behind locks.  The pool, for any        *)
(* numbers of nodes, actors and jobs and for any faults: a node that goes  *)
(* on got its own answer, and every actor is idle or has one job.  The     *)
(* logger, for any nodes, experiments, rounds and faults: the log is       *)
(* exact.                                                                  *)
(***************************************************************************)
EXTENDS Threads, SequenceTheorems, FiniteSetTheorems, TLAPS

-----------------------------------------------------------------------------
(* The pool of actors.  Its inductive invariant. *)

\* A node's future is that of the job it submitted last.
OwnFuture == \A n \in Node : \A f \in entry[n].future : f.task = <<n, job[n]>>

\* The lock is held from the moment a future is taken off until its node is told.
Locked == \A n \in Node : pc[n] \in {"return", "flag"} <=> holder = n

\* The future a thread takes off is one that it found finished.
Picks == \A n \in Node : pc[n] \in {"pop", "return", "flag"} => \E f \in Future : picked[n] = {f}

\* The actor of a future that was taken off and is not handed on yet.
Lent == {a \in Actor : \E n \in Node : pc[n] = "return" /\ \E f \in picked[n] : f.actor = a}

\* All actors the pool knows of.
InPool == Idle \cup Busy \cup Lent

\* Every actor is idle, has one job or is lent, and these are all that are counted.
Accounts ==
    /\ \A f, g \in futures : f.actor = g.actor => f = g
    /\ Distinct(idle)
    /\ Idle \cap Busy = {} /\ Lent \cap (Idle \cup Busy) = {}
    /\ count = Cardinality(InPool)

\* Also while the lock is held.
NoneIdle == pending # <<>> => idle = <<>>

\* Whoever waits for an actor has submitted a job.
Asked == \A i \in DOMAIN pending : job[pending[i]] > 0

\* The inductive invariant.
IInv ==
    /\ TypeOK
    /\ OwnFuture
    /\ AnswerIsOwn
    /\ Locked
    /\ Picks
    /\ Accounts
    /\ NoneIdle
    /\ Asked

-----------------------------------------------------------------------------
(* The order of the idle actors. *)

\* The actors of an order.
Seat(s) == {s[i] : i \in DOMAIN s}

\* An actor is put at the end.
LEMMA AppendSeats ==
    ASSUME NEW s \in Seq(Actor), NEW a \in Actor
    PROVE  /\ Append(s, a) \in Seq(Actor) /\ Append(s, a) # <<>>
           /\ Seat(Append(s, a)) = Seat(s) \cup {a}
           /\ Append(s, a)[Len(Append(s, a))] = a
           /\ Distinct(s) /\ a \notin Seat(s) => Distinct(Append(s, a))
<1>1. /\ Append(s, a) \in Seq(Actor) /\ Append(s, a) # <<>>
      /\ Len(Append(s, a)) = Len(s) + 1 /\ Append(s, a)[Len(s) + 1] = a
      /\ \A i \in 1..Len(s) : Append(s, a)[i] = s[i]
  BY AppendProperties
<1>2. /\ Len(s) \in Nat /\ DOMAIN s = 1..Len(s)
      /\ DOMAIN Append(s, a) = 1..(Len(s) + 1)
  BY <1>1, LenProperties
<1>3. Seat(Append(s, a)) = Seat(s) \cup {a}
  <2>1. Seat(Append(s, a)) \subseteq Seat(s) \cup {a}
    BY <1>1, <1>2 DEF Seat
  <2>2. Seat(s) \cup {a} \subseteq Seat(Append(s, a))
    <3>1. a \in Seat(Append(s, a))
      BY <1>1, <1>2 DEF Seat
    <3>2. ASSUME NEW i \in DOMAIN s PROVE s[i] \in Seat(Append(s, a))
      BY <1>1, <1>2 DEF Seat
    <3> QED
      BY <3>1, <3>2 DEF Seat
  <2> QED
    BY <2>1, <2>2
<1>4. ASSUME Distinct(s), a \notin Seat(s) PROVE Distinct(Append(s, a))
  BY <1>1, <1>2, <1>4 DEF Distinct, Seat
<1> QED
  BY <1>1, <1>3, <1>4

\* The last actor is taken.
LEMMA FrontSeats ==
    ASSUME NEW s \in Seq(Actor), s # <<>>, Distinct(s)
    PROVE  LET front == SubSeq(s, 1, Len(s) - 1) IN
           /\ front \in Seq(Actor) /\ Distinct(front)
           /\ s[Len(s)] \in Seat(s) /\ s[Len(s)] \in Actor
           /\ Seat(front) = Seat(s) \ {s[Len(s)]}
<1> DEFINE front == SubSeq(s, 1, Len(s) - 1)
<1>1. Len(s) \in Nat \ {0} /\ DOMAIN s = 1..Len(s) /\ \A i \in 1..Len(s) : s[i] \in Actor
  BY EmptySeq, LenProperties, ElementOfSeq
<1>2. /\ front \in Seq(Actor)
      /\ Len(front) = Len(s) - 1
      /\ \A i \in 1..(Len(s) - 1) : front[i] = s[i]
  <2>1. Len(s) - 1 \in Int /\ \A i \in 1..(Len(s) - 1) : s[i] \in Actor
    BY <1>1
  <2>2. /\ front \in Seq(Actor)
        /\ Len(front) = IF 1 <= Len(s) - 1 THEN Len(s) - 1 - 1 + 1 ELSE 0
        /\ \A i \in 1..(Len(s) - 1 - 1 + 1) : front[i] = s[1 + i - 1]
    BY <2>1, SubSeqProperties
  <2> QED
    BY <1>1, <2>2
<1>3. DOMAIN front = 1..(Len(s) - 1)
  BY <1>2, LenProperties
<1> HIDE DEF front
<1>4. Distinct(front)
  BY <1>1, <1>2, <1>3 DEF Distinct
<1>5. s[Len(s)] \in Seat(s) /\ s[Len(s)] \in Actor
  BY <1>1 DEF Seat
<1>6. Seat(front) = Seat(s) \ {s[Len(s)]}
  <2>1. ASSUME NEW i \in DOMAIN front PROVE front[i] \in Seat(s) \ {s[Len(s)]}
    BY <1>1, <1>2, <1>3 DEF Seat, Distinct
  <2>2. ASSUME NEW i \in DOMAIN s, s[i] # s[Len(s)] PROVE s[i] \in Seat(front)
    <3>1. i \in DOMAIN front /\ front[i] = s[i]
      BY <1>1, <1>2, <1>3, <2>2
    <3> QED
      BY <3>1 DEF Seat
  <2> QED
    BY <2>1, <2>2 DEF Seat
<1> QED
  BY <1>2, <1>4, <1>5, <1>6 DEF front

-----------------------------------------------------------------------------
(* What the steps do. *)

\* The job of a submit.
Work(m, k, a) == [task |-> <<m, k>>, actor |-> a]

\* The values of entry and of outcome.
Entries == [Node -> [future : SUBSET Future, ready : BOOLEAN]]
Outcomes == {"none", "running", "ok", "error", "died"}

\* The actor that is taken next.
LastOf(s) == s[Len(s)]

\* submit takes the last of the actors, and gives it the job unless it was flagged.
LEMMA SubmitEffect ==
    ASSUME NEW m \in Node, NEW k \in 1..Jobs, NEW actors \in Seq(Actor), actors # <<>>,
           Distinct(actors), NEW entries \in Entries, Submit(m, k, actors, entries),
           flagged \subseteq Actor, outcome \in [Task -> Outcomes]
    PROVE  /\ idle' \in Seq(Actor) /\ Distinct(idle')
           /\ LastOf(actors) \in Actor /\ LastOf(actors) \in Seat(actors)
           /\ Idle' = Seat(actors) \ {LastOf(actors)}
           /\ Work(m, k, LastOf(actors)) \in Future
           /\ \/ /\ LastOf(actors) \in flagged
                 /\ futures' = futures /\ count' = count - 1 /\ entry' = entries
              \/ /\ futures' = futures \cup {Work(m, k, LastOf(actors))} /\ count' = count
                 /\ entry' = [entries EXCEPT ![m].future = {Work(m, k, LastOf(actors))}]
           /\ flagged' \subseteq Actor /\ outcome' \in [Task -> Outcomes]
<1> DEFINE a == actors[Len(actors)]
<1>1. /\ idle' \in Seq(Actor) /\ Distinct(idle') /\ a \in Seat(actors) /\ a \in Actor
      /\ Seat(idle') = Seat(actors) \ {a}
  BY FrontSeats DEF Submit
<1>2. Idle' = Seat(actors) \ {a}
  BY <1>1 DEF Idle, Seat
<1>3. Work(m, k, a) \in Future
  BY <1>1 DEF Work, Future, Task
<1>4. \/ /\ a \in flagged /\ futures' = futures /\ count' = count - 1 /\ entry' = entries
         /\ flagged' = flagged \ {a} /\ outcome' = outcome
      \/ /\ futures' = futures \cup {Work(m, k, a)} /\ count' = count
         /\ entry' = [entries EXCEPT ![m].future = {Work(m, k, a)}]
         /\ flagged' = flagged
         /\ outcome' = [outcome EXCEPT ![<<m, k>>] = IF a \in dead THEN "died" ELSE "running"]
  BY DEF Submit, Work
<1>5. flagged' \subseteq Actor /\ outcome' \in [Task -> Outcomes]
  BY <1>4 DEF Outcomes
<1> QED
  BY <1>1, <1>2, <1>3, <1>4, <1>5 DEF LastOf

\* Where the thread of a node is.
Places == {"idle", "check", "again", "list", "wait", "pop", "return", "flag", "fetch", "failed"}

\* A new job finds no actor and waits, or takes the last idle one.
LEMMA JobEffect ==
    ASSUME TypeOK, Accounts, NEW n \in Node, SubmitLearnerJob(n)
    PROVE  /\ pc[n] = "idle" /\ pc' = [pc EXCEPT ![n] = "check"] /\ Free
           /\ job' = [job EXCEPT ![n] = job[n] + 1] /\ job[n] + 1 \in 1..Jobs
           /\ UNCHANGED <<load, dead, snapshot, picked, holder, answered>>
           /\ Reset(n) \in Entries
           /\ \/ /\ idle = <<>> /\ pending' = Append(pending, n) /\ entry' = Reset(n)
                 /\ UNCHANGED <<idle, futures, flagged, count, outcome>>
              \/ /\ idle # <<>> /\ pending' = pending
                 /\ Submit(n, job[n] + 1, idle, Reset(n))
<1>1. load \in Loads /\ job \in [Node -> 0..Jobs] /\ entry \in Entries
  BY DEF TypeOK, Entries
<1>2. job[n] < load.jobs[n] /\ load.jobs[n] \in 0..Jobs /\ Jobs \in Nat
  BY <1>1, PoolAssumption DEF SubmitLearnerJob
<1>3. job[n] + 1 \in 1..Jobs
  BY <1>1, <1>2
<1>4. Reset(n) \in Entries
  BY <1>1 DEF Reset, Entries
<1> QED
  BY <1>3, <1>4 DEF SubmitLearnerJob, Goto

\* A returned actor goes to the idle ones, to the first waiting job, or away.
LEMMA ReturnEffect ==
    ASSUME TypeOK, Picks, Accounts, Asked, NEW n \in Node, ReturnActor(n)
    PROVE  /\ pc[n] = "return" /\ pc' = [pc EXCEPT ![n] = "flag"]
           /\ UNCHANGED <<load, dead, job, snapshot, picked, holder, answered>>
           /\ idle' \in Seq(Actor) /\ Distinct(idle')
           /\ flagged' \subseteq Actor /\ outcome' \in [Task -> Outcomes]
           /\ \E a \in Actor :
                /\ \A f \in picked[n] : f.actor = a
                /\ a \in Lent
                /\ \/ /\ pending = <<>> /\ Idle' = Idle \cup {a}
                      /\ UNCHANGED <<futures, pending, entry, count>>
                   \/ /\ pending # <<>> /\ pending' = Tail(pending) /\ Idle' = Idle
                      /\ LET m == Head(pending) IN
                         /\ m \in Node /\ job[m] \in 1..Jobs /\ Work(m, job[m], a) \in Future
                         /\ futures' = futures \cup {Work(m, job[m], a)} /\ count' = count
                         /\ entry' = [entry EXCEPT ![m].future = {Work(m, job[m], a)}]
                   \/ /\ Idle' = Idle /\ count' = count - 1
                      /\ UNCHANGED <<idle, futures, pending, entry>>
<1>1. /\ idle \in Seq(Actor) /\ pending \in Seq(Node) /\ job \in [Node -> 0..Jobs]
      /\ entry \in Entries /\ flagged \subseteq Actor /\ outcome \in [Task -> Outcomes]
  BY DEF TypeOK, Entries, Outcomes
<1>2. PICK f \in Future : picked[n] = {f}
  BY DEF Picks, ReturnActor
<1> DEFINE a == f.actor
<1>3. a \in Actor /\ pc[n] = "return"
  BY DEF Future, ReturnActor
<1>4. a \in Lent /\ a \notin Idle
  BY <1>2, <1>3 DEF Lent, Accounts
<1>5. Seat(idle) = Idle /\ Distinct(idle) /\ (Seat(idle) = Idle)'
  BY DEF Seat, Idle, Accounts
<1> DEFINE actors == Append(idle, a)
<1>6. /\ actors \in Seq(Actor) /\ actors # <<>> /\ Seat(actors) = Idle \cup {a}
      /\ LastOf(actors) = a /\ Distinct(actors)
  BY <1>1, <1>3, <1>4, <1>5, AppendSeats DEF LastOf
<1> HIDE DEF actors
<1>7. CASE /\ a \notin flagged /\ pending = <<>> /\ idle' = actors
           /\ UNCHANGED <<futures, pending, entry, flagged, count, outcome>>
  <2>1. Idle' = Idle \cup {a}
    BY <1>5, <1>6, <1>7
  <2> QED
    BY <1>1, <1>2, <1>3, <1>4, <1>6, <1>7, <2>1 DEF ReturnActor, Goto
<1>8. CASE /\ a \notin flagged /\ pending # <<>> /\ pending' = Tail(pending)
           /\ Submit(Head(pending), job[Head(pending)], actors, entry)
  <2> DEFINE m == Head(pending)
  <2>1. m \in Node /\ job[m] \in 1..Jobs
    <3>1. 1 \in DOMAIN pending /\ m = pending[1] /\ m \in Node
      BY <1>1, <1>8, EmptySeq, LenProperties, HeadTailProperties
    <3> QED
      BY <1>1, <3>1, PoolAssumption DEF Asked
  <2> HIDE DEF m
  <2>2. Submit(m, job[m], actors, entry)
    BY <1>8 DEF m
  <2>3. /\ idle' \in Seq(Actor) /\ Distinct(idle') /\ Idle' = (Idle \cup {a}) \ {a}
        /\ Work(m, job[m], a) \in Future
        /\ futures' = futures \cup {Work(m, job[m], a)} /\ count' = count
        /\ entry' = [entry EXCEPT ![m].future = {Work(m, job[m], a)}]
        /\ flagged' \subseteq Actor /\ outcome' \in [Task -> Outcomes]
    <3>1. /\ actors \in Seq(Actor) /\ actors # <<>> /\ Distinct(actors) /\ LastOf(actors) = a
          /\ Seat(actors) = Idle \cup {a} /\ a \notin flagged
      BY <1>6, <1>8
    <3>2. entry \in Entries /\ flagged \subseteq Actor /\ outcome \in [Task -> Outcomes]
      BY <1>1
    <3> HIDE DEF a
    <3> QED
      BY <2>1, <2>2, <3>1, <3>2, SubmitEffect
  <2>4. Idle' = Idle
    BY <1>4, <2>3
  <2>5. /\ UNCHANGED <<load, dead, job, snapshot, picked, holder, answered>>
        /\ pc' = [pc EXCEPT ![n] = "flag"]
    BY DEF ReturnActor, Goto
  <2> QED
    BY <1>2, <1>3, <1>4, <1>8, <2>1, <2>3, <2>4, <2>5 DEF m
<1>9. CASE /\ a \in flagged /\ Leave(a) /\ UNCHANGED <<idle, futures, pending, entry, outcome>>
  <2>1. Idle' = Idle /\ count' = count - 1 /\ flagged' \subseteq Actor
    BY <1>1, <1>9 DEF Idle, Leave
  <2> QED
    BY <1>1, <1>2, <1>3, <1>4, <1>5, <1>9, <2>1 DEF ReturnActor, Goto
<1> QED
  BY <1>2, <1>7, <1>8, <1>9 DEF ReturnActor, HandOn, actors

-----------------------------------------------------------------------------
(* Each part of the invariant is kept. *)

\* TypeOK is kept, but for the count, of which the accounts speak.
LEMMA TypeStep ==
    ASSUME TypeOK, Picks, Accounts, Asked, Next, count' \in 0..Cardinality(Actor)
    PROVE  TypeOK'
<1>1. /\ load \in Loads /\ idle \in Seq(Actor) /\ futures \subseteq Future /\ pending \in Seq(Node)
      /\ entry \in Entries /\ flagged \subseteq Actor /\ dead \subseteq Actor
      /\ outcome \in [Task -> Outcomes] /\ pc \in [Node -> Places]
      /\ job \in [Node -> 0..Jobs] /\ answered \in [Node -> 0..Jobs]
      /\ snapshot \in [Node -> SUBSET Future] /\ picked \in [Node -> SUBSET Future]
      /\ holder \in Node \cup {Nobody}
  BY DEF TypeOK, Entries, Outcomes, Places
<1> DEFINE Typed ==
      /\ load' \in Loads /\ idle' \in Seq(Actor) /\ futures' \subseteq Future /\ pending' \in Seq(Node)
      /\ entry' \in Entries /\ flagged' \subseteq Actor /\ dead' \subseteq Actor
      /\ outcome' \in [Task -> Outcomes] /\ pc' \in [Node -> Places]
      /\ job' \in [Node -> 0..Jobs] /\ answered' \in [Node -> 0..Jobs]
      /\ snapshot' \in [Node -> SUBSET Future] /\ picked' \in [Node -> SUBSET Future]
      /\ holder' \in Node \cup {Nobody}
<1>2. ASSUME NEW n \in Node, SubmitLearnerJob(n) PROVE Typed
  <2>1. /\ pc' = [pc EXCEPT ![n] = "check"] /\ job' = [job EXCEPT ![n] = job[n] + 1]
        /\ job[n] + 1 \in 1..Jobs /\ Reset(n) \in Entries
        /\ UNCHANGED <<load, dead, snapshot, picked, holder, answered>>
    BY <1>2, JobEffect
  <2>2. job' \in [Node -> 0..Jobs] /\ pc' \in [Node -> Places]
    BY <1>1, <2>1, PoolAssumption DEF Places
  <2>3. CASE /\ pending' = Append(pending, n) /\ entry' = Reset(n)
             /\ UNCHANGED <<idle, futures, flagged, count, outcome>>
    <3>1. pending' \in Seq(Node)
      BY <1>1, <2>3, AppendProperties
    <3> QED
      BY <1>1, <2>1, <2>2, <2>3, <3>1
  <2>4. CASE idle # <<>> /\ pending' = pending /\ Submit(n, job[n] + 1, idle, Reset(n))
    <3>1. /\ idle' \in Seq(Actor) /\ flagged' \subseteq Actor /\ outcome' \in [Task -> Outcomes]
          /\ futures' \subseteq Future /\ entry' \in Entries
      <4>1. Distinct(idle)
        BY DEF Accounts
      <4> DEFINE work == Work(n, job[n] + 1, LastOf(idle))
      <4>2. /\ idle' \in Seq(Actor) /\ flagged' \subseteq Actor /\ outcome' \in [Task -> Outcomes]
            /\ work \in Future
            /\ \/ futures' = futures /\ entry' = Reset(n)
               \/ /\ futures' = futures \cup {work}
                  /\ entry' = [Reset(n) EXCEPT ![n].future = {work}]
        <5>1. idle # <<>> /\ job[n] + 1 \in 1..Jobs /\ Reset(n) \in Entries
          BY <2>1, <2>4
        <5>2. Submit(n, job[n] + 1, idle, Reset(n))
          BY <2>4
        <5>3. idle \in Seq(Actor) /\ flagged \subseteq Actor /\ outcome \in [Task -> Outcomes]
          BY <1>1
        <5> QED
          BY <4>1, <5>1, <5>2, <5>3, SubmitEffect
      <4> HIDE DEF work
      <4>3. futures' \subseteq Future
        BY <1>1, <4>2
      <4>4. Reset(n) \in [Node -> [future : SUBSET Future, ready : BOOLEAN]]
        BY <2>1 DEF Entries
      <4>5. [Reset(n) EXCEPT ![n].future = {work}]
               \in [Node -> [future : SUBSET Future, ready : BOOLEAN]]
        BY <4>2, <4>4
      <4> QED
        BY <4>2, <4>3, <4>4, <4>5 DEF Entries
    <3> QED
      BY <1>1, <2>1, <2>2, <2>4, <3>1
  <2> QED
    BY <1>2, <2>3, <2>4, JobEffect
<1>3. ASSUME NEW n \in Node, ReturnActor(n) PROVE Typed
  <2>1. /\ pc' = [pc EXCEPT ![n] = "flag"]
        /\ UNCHANGED <<load, dead, job, snapshot, picked, holder, answered>>
        /\ idle' \in Seq(Actor)
        /\ flagged' \subseteq Actor /\ outcome' \in [Task -> Outcomes]
    BY <1>3, ReturnEffect
  <2>2. pc' \in [Node -> Places]
    BY <1>1, <2>1 DEF Places
  <2>3. futures' \subseteq Future /\ pending' \in Seq(Node) /\ entry' \in Entries
    <3>1. CASE UNCHANGED <<futures, pending, entry>>
      BY <1>1, <3>1
    <3>2. ASSUME pending # <<>>, pending' = Tail(pending), NEW m \in Node, NEW work \in Future,
                 futures' = futures \cup {work}, entry' = [entry EXCEPT ![m].future = {work}]
          PROVE  futures' \subseteq Future /\ pending' \in Seq(Node) /\ entry' \in Entries
      <4>1. entry' \in Entries
        BY <1>1, <3>2 DEF Entries
      <4>2. pending' \in Seq(Node)
        BY <1>1, <3>2, HeadTailProperties
      <4> QED
        BY <1>1, <3>2, <4>1, <4>2
    <3> QED
      BY <1>3, <3>1, <3>2, ReturnEffect
  <2> QED
    BY <1>1, <2>1, <2>2, <2>3
<1>4. ASSUME NEW n \in Node, Check(n) \/ CheckAgain(n) \/ ListFutures(n) PROVE Typed
  BY <1>1, <1>4 DEF Check, CheckAgain, ListFutures, Goto, Places
<1>5. ASSUME NEW n \in Node, WaitAny(n) \/ Pop(n) PROVE Typed
  <2>1. CASE WaitAny(n)
    <3>1. picked' \in [Node -> SUBSET Future] /\ snapshot' \in [Node -> SUBSET Future]
      <4>1. PICK f \in snapshot[n] : picked' = [picked EXCEPT ![n] = {f}]
        BY <2>1 DEF WaitAny
      <4> QED
        BY <1>1, <2>1, <4>1 DEF WaitAny
    <3> QED
      BY <1>1, <2>1, <3>1 DEF WaitAny, Goto, Places
  <2>2. CASE Pop(n)
    <3>1. picked' \in [Node -> SUBSET Future] /\ futures' \subseteq Future
          /\ holder' \in Node \cup {Nobody} /\ pc' \in [Node -> Places]
      BY <1>1, <2>2 DEF Pop, Goto, Places
    <3> QED
      BY <1>1, <2>2, <3>1 DEF Pop
  <2> QED
    BY <1>5, <2>1, <2>2
<1>6. ASSUME NEW n \in Node, FlagFutureAsReady(n) PROVE Typed
  <2>1. entry' \in Entries
    <3>1. PICK f \in picked[n] : entry' = [entry EXCEPT ![f.task[1]].ready = TRUE]
      BY <1>6 DEF FlagFutureAsReady
    <3> QED
      BY <1>1, <3>1 DEF Entries
  <2> QED
    BY <1>1, <1>6, <2>1 DEF FlagFutureAsReady, Goto, Places
<1>7. ASSUME NEW n \in Node, FetchFutureResult(n) PROVE Typed
  <2>1. /\ entry' \in Entries /\ answered' \in [Node -> 0..Jobs] /\ flagged' \subseteq Actor
        /\ pc' \in [Node -> Places]
    <3>1. entry[n].future \subseteq Future /\ Reset(n) \in Entries /\ Jobs \in Nat
      BY <1>1, PoolAssumption DEF Entries, Reset
    <3>2. \A f \in entry[n].future : f.task[2] \in 0..Jobs /\ f.actor \in Actor
      BY <3>1 DEF Future, Task
    <3> QED
      BY <1>1, <1>7, <3>1, <3>2 DEF FetchFutureResult, Goto, Places
  <2> QED
    BY <1>1, <1>7, <2>1 DEF FetchFutureResult
<1>8. ASSUME NEW f \in futures, Succeed(f) \/ Raise(f) PROVE Typed
  BY <1>1, <1>8 DEF Succeed, Raise, Outcomes
<1>9. ASSUME NEW a \in Actor, Die(a) PROVE Typed
  <2>1. outcome' \in [Task -> Outcomes]
    BY <1>1, <1>9 DEF Die, Outcomes
  <2> QED
    BY <1>1, <1>9, <2>1 DEF Die
<1>10. Typed
  BY <1>2, <1>3, <1>4, <1>5, <1>6, <1>7, <1>8, <1>9 DEF Next, ThreadStep
<1> QED
  BY <1>10 DEF TypeOK, Entries, Outcomes, Places

\* The pool is finite.
LEMMA PoolShape ==
    ASSUME TypeOK
    PROVE  /\ Idle \subseteq Actor /\ Busy \subseteq Actor /\ Lent \subseteq Actor
           /\ InPool \subseteq Actor
           /\ \A S \in SUBSET Actor : /\ IsFiniteSet(S) /\ Cardinality(S) \in 0..Cardinality(Actor)
<1>1. idle \in Seq(Actor) /\ futures \subseteq Future
  BY DEF TypeOK
<1>2. Idle \subseteq Actor
  BY <1>1, LenProperties, ElementOfSeq DEF Idle
<1>3. Busy \subseteq Actor
  BY <1>1 DEF Busy, Future
<1>4. Lent \subseteq Actor
  BY DEF Lent
<1>5. ASSUME NEW S \in SUBSET Actor
      PROVE  IsFiniteSet(S) /\ Cardinality(S) \in 0..Cardinality(Actor)
  <2>1. IsFiniteSet(S) /\ Cardinality(S) <= Cardinality(Actor)
    BY PoolAssumption, FS_Subset
  <2>2. Cardinality(S) \in Nat /\ Cardinality(Actor) \in Nat
    BY <2>1, PoolAssumption, FS_CardinalityType
  <2> QED
    BY <2>1, <2>2
<1> QED
  BY <1>2, <1>3, <1>4, <1>5 DEF InPool

\* Whoever takes no future off and returns no actor lends nothing else.
LEMMA LentStays ==
    ASSUME TypeOK, NEW n \in Node, NEW step, pc[n] # "return", step # "return",
           pc' = [pc EXCEPT ![n] = step],
           \A x \in Node \ {n} : picked'[x] = picked[x]
    PROVE  Lent' = Lent
<1>1. pc \in [Node -> Places]
  BY DEF TypeOK, Places
<1>2. \A x \in Node : pc'[x] = "return" <=> pc[x] = "return"
  BY <1>1
<1>3. \A x \in Node : pc[x] = "return" => picked'[x] = picked[x]
  OBVIOUS
<1> QED
  BY <1>2, <1>3 DEF Lent

\* Only the holder of the lock lends an actor.
LEMMA LentByHolder ==
    ASSUME TypeOK, Locked, NEW n \in Node, pc[n] = "return", NEW f \in Future, picked[n] = {f}
    PROVE  Lent = {f.actor}
<1>1. \A x \in Node : pc[x] = "return" => x = n
  BY DEF Locked
<1>2. f.actor \in Actor
  BY DEF Future
<1> QED
  BY <1>1, <1>2 DEF Lent

\* Without a holder none is lent.
LEMMA LentByNobody ==
    ASSUME \A x \in Node : pc[x] # "return"
    PROVE  Lent = {}
  BY DEF Lent

\* The accounts after a step that keeps the actors of the pool or takes one away.
LEMMA Balanced ==
    ASSUME TypeOK, Accounts, NEW a,
           \/ InPool' = InPool /\ count' = count
           \/ InPool' = InPool \ {a} /\ a \in InPool /\ count' = count - 1
    PROVE  count' = Cardinality(InPool') /\ count' \in 0..Cardinality(Actor)
<1>1. InPool \subseteq Actor /\ InPool' \subseteq Actor
  BY PoolShape
<1>2. IsFiniteSet(InPool) /\ Cardinality(InPool') \in 0..Cardinality(Actor)
  BY <1>1, PoolShape
<1>3. count = Cardinality(InPool)
  BY DEF Accounts
<1>4. CASE InPool' = InPool /\ count' = count
  BY <1>2, <1>3, <1>4
<1>5. CASE InPool' = InPool \ {a} /\ a \in InPool /\ count' = count - 1
  <2>1. Cardinality(InPool \ {a}) = Cardinality(InPool) - 1
    BY <1>2, <1>5, FS_RemoveElement
  <2> QED
    BY <1>2, <1>3, <1>5, <2>1
<1> QED
  BY <1>4, <1>5

\* A new future for an actor without one.
LEMMA NewFuture ==
    ASSUME Accounts, NEW m, NEW k, NEW a, a \notin Busy, futures' = futures \cup {Work(m, k, a)}
    PROVE  Busy' = Busy \cup {a} /\ \A f, g \in futures' : f.actor = g.actor => f = g
<1>1. Work(m, k, a).actor = a
  BY DEF Work
<1>2. \A f \in futures : f.actor # a
  BY DEF Busy
<1>3. Busy' = Busy \cup {a}
  BY <1>1 DEF Busy
<1>4. \A f, g \in futures : f.actor = g.actor => f = g
  BY DEF Accounts
<1>5. ASSUME NEW f \in futures', NEW g \in futures', f.actor = g.actor PROVE f = g
  BY <1>1, <1>2, <1>4, <1>5
<1> QED
  BY <1>3, <1>5

\* The accounts are kept: only a flagged actor leaves.
LEMMA AccountsStep ==
    ASSUME TypeOK, Locked, Picks, Accounts, Asked, Next
    PROVE  Accounts' /\ count' \in 0..Cardinality(Actor)
<1>1. /\ \A f, g \in futures : f.actor = g.actor => f = g
      /\ Distinct(idle)
      /\ Idle \cap Busy = {} /\ Lent \cap (Idle \cup Busy) = {}
  BY DEF Accounts
<1>2. /\ idle \in Seq(Actor) /\ futures \subseteq Future /\ entry \in Entries
      /\ flagged \subseteq Actor /\ outcome \in [Task -> Outcomes] /\ pc \in [Node -> Places]
      /\ picked \in [Node -> SUBSET Future] /\ holder \in Node \cup {Nobody}
  BY DEF TypeOK, Entries, Outcomes, Places
<1> DEFINE Goal == Accounts' /\ count' \in 0..Cardinality(Actor)
<1>3. ASSUME UNCHANGED <<idle, futures, count>>, Lent' = Lent PROVE Goal
  <2>1. Idle' = Idle /\ Busy' = Busy
    BY <1>3 DEF Idle, Busy
  <2>2. InPool' = InPool
    BY <1>3, <2>1 DEF InPool
  <2> QED
    BY <1>1, <1>3, <2>1, <2>2, Balanced DEF Accounts
<1>4. ASSUME NEW n \in Node, SubmitLearnerJob(n) PROVE Goal
  <2>1. Lent' = Lent
    <3>1. pc[n] # "return" /\ pc' = [pc EXCEPT ![n] = "check"] /\ picked' = picked
      BY <1>4, JobEffect
    <3> QED
      BY <3>1, LentStays
  <2>2. CASE UNCHANGED <<idle, futures, count>>
    BY <1>3, <2>1, <2>2
  <2>3. CASE idle # <<>> /\ Submit(n, job[n] + 1, idle, Reset(n))
    <3> DEFINE a == LastOf(idle)
    <3>1. job[n] + 1 \in 1..Jobs /\ Reset(n) \in Entries
      BY <1>4, JobEffect
    <3>2. idle # <<>> /\ Submit(n, job[n] + 1, idle, Reset(n)) /\ Seat(idle) = Idle
      BY <2>3 DEF Seat, Idle
    <3>3. /\ Distinct(idle') /\ a \in Idle /\ Idle' = Idle \ {a}
          /\ \/ futures' = futures /\ count' = count - 1
             \/ futures' = futures \cup {Work(n, job[n] + 1, a)} /\ count' = count
      BY <1>1, <1>2, <3>1, <3>2, SubmitEffect
    <3> HIDE DEF a
    <3>4. a \notin Busy /\ a \notin Lent /\ a \in InPool
      BY <1>1, <3>3 DEF InPool
    <3>5. CASE futures' = futures /\ count' = count - 1
      <4>1. Busy' = Busy
        BY <3>5 DEF Busy
      <4>2. InPool' = InPool \ {a}
        BY <2>1, <3>3, <3>4, <4>1 DEF InPool
      <4>3. count' = Cardinality(InPool') /\ count' \in 0..Cardinality(Actor)
        BY <3>4, <3>5, <4>2, Balanced
      <4> QED
        BY <1>1, <2>1, <3>3, <3>5, <4>1, <4>3 DEF Accounts
    <3>6. CASE futures' = futures \cup {Work(n, job[n] + 1, a)} /\ count' = count
      <4>1. Busy' = Busy \cup {a} /\ \A f, g \in futures' : f.actor = g.actor => f = g
        BY <3>4, <3>6, NewFuture
      <4>2. InPool' = InPool
        BY <2>1, <3>3, <4>1 DEF InPool
      <4>3. count' = Cardinality(InPool') /\ count' \in 0..Cardinality(Actor)
        BY <3>6, <4>2, Balanced
      <4> QED
        BY <1>1, <2>1, <3>3, <3>4, <4>1, <4>3 DEF Accounts
    <3> QED
      BY <3>3, <3>5, <3>6
  <2> QED
    BY <1>4, <2>2, <2>3, JobEffect
<1>5. ASSUME NEW n \in Node, ReturnActor(n) PROVE Goal
  <2>1. /\ pc[n] = "return" /\ pc' = [pc EXCEPT ![n] = "flag"] /\ picked' = picked
        /\ Distinct(idle')
    BY <1>5, ReturnEffect
  <2>2. PICK f \in Future : picked[n] = {f}
    BY <2>1 DEF Picks
  <2> DEFINE a == f.actor
  <2>3. Lent = {a}
    BY <2>1, <2>2, LentByHolder
  <2>4. Lent' = {}
    <3>1. \A x \in Node : pc[x] = "return" => x = n
      BY <2>1 DEF Locked
    <3>2. \A x \in Node : pc'[x] # "return"
      BY <1>2, <2>1, <3>1
    <3> QED
      BY <3>2 DEF Lent
  <2>5. \/ Idle' = Idle \cup {a} /\ UNCHANGED <<futures, count>>
        \/ \E m, k : Idle' = Idle /\ futures' = futures \cup {Work(m, k, a)} /\ count' = count
        \/ Idle' = Idle /\ futures' = futures /\ count' = count - 1
    <3>1. PICK b \in Actor :
             /\ \A g \in picked[n] : g.actor = b
             /\ \/ Idle' = Idle \cup {b} /\ UNCHANGED <<futures, count>>
                \/ \E m, k : Idle' = Idle /\ futures' = futures \cup {Work(m, k, b)} /\ count' = count
                \/ Idle' = Idle /\ futures' = futures /\ count' = count - 1
      BY <1>5, ReturnEffect
    <3>2. b = a
      BY <2>2, <3>1
    <3> QED
      BY <3>1, <3>2
  <2> HIDE DEF a
  <2>6. a \notin Idle /\ a \notin Busy /\ a \in InPool
    BY <1>1, <2>3 DEF InPool
  <2>7. CASE Idle' = Idle \cup {a} /\ UNCHANGED <<futures, count>>
    <3>1. Busy' = Busy
      BY <2>7 DEF Busy
    <3>2. InPool' = InPool
      BY <2>3, <2>4, <2>7, <3>1 DEF InPool
    <3>3. count' = Cardinality(InPool') /\ count' \in 0..Cardinality(Actor)
      BY <2>7, <3>2, Balanced
    <3> QED
      BY <1>1, <2>1, <2>4, <2>6, <2>7, <3>1, <3>3 DEF Accounts
  <2>8. ASSUME NEW m, NEW k, Idle' = Idle, futures' = futures \cup {Work(m, k, a)}, count' = count
        PROVE  Goal
    <3>1. Busy' = Busy \cup {a} /\ \A g, h \in futures' : g.actor = h.actor => g = h
      BY <2>6, <2>8, NewFuture
    <3>2. InPool' = InPool
      BY <2>3, <2>4, <2>8, <3>1 DEF InPool
    <3>3. count' = Cardinality(InPool') /\ count' \in 0..Cardinality(Actor)
      BY <2>8, <3>2, Balanced
    <3> QED
      BY <1>1, <2>1, <2>4, <2>6, <2>8, <3>1, <3>3 DEF Accounts
  <2>9. CASE Idle' = Idle /\ futures' = futures /\ count' = count - 1
    <3>1. Busy' = Busy
      BY <2>9 DEF Busy
    <3>2. InPool' = InPool \ {a}
      BY <2>3, <2>4, <2>6, <2>9, <3>1 DEF InPool
    <3>3. count' = Cardinality(InPool') /\ count' \in 0..Cardinality(Actor)
      BY <2>6, <2>9, <3>2, Balanced
    <3> QED
      BY <1>1, <2>1, <2>4, <2>9, <3>1, <3>3 DEF Accounts
  <2> QED
    BY <2>5, <2>7, <2>8, <2>9
<1>6. ASSUME NEW n \in Node, Pop(n) PROVE Goal
  <2>1. PICK f \in Future : picked[n] = {f}
    BY <1>6 DEF Pop, Picks
  <2>2. CASE f \notin futures
    <3>1. /\ UNCHANGED <<idle, futures, count>> /\ pc[n] # "return" /\ pc' = [pc EXCEPT ![n] = "check"]
          /\ \A x \in Node \ {n} : picked'[x] = picked[x]
      BY <1>2, <1>6, <2>1, <2>2 DEF Pop, Goto
    <3> QED
      BY <1>3, <3>1, LentStays
  <2>3. CASE f \in futures
    <3>1. /\ futures' = futures \ {f} /\ idle' = idle /\ count' = count
          /\ pc' = [pc EXCEPT ![n] = "return"] /\ picked' = picked /\ Free
      BY <1>6, <2>1, <2>3 DEF Pop, Goto
    <3>2. \A x \in Node : pc[x] # "return"
      BY <3>1, PoolAssumption DEF Locked, Free
    <3>3. Lent = {}
      BY <3>2, LentByNobody
    <3>4. f.actor \in Actor
      BY DEF Future
    <3>5. Lent' = {f.actor}
      BY <1>2, <2>1, <3>1, <3>2, <3>4 DEF Lent
    <3>6. Busy' = Busy \ {f.actor} /\ f.actor \in Busy
      <4>1. \A g \in futures : g # f => g.actor # f.actor
        BY <1>1, <2>3
      <4> QED
        BY <2>3, <3>1, <4>1 DEF Busy
    <3>7. Idle' = Idle
      BY <3>1 DEF Idle
    <3>8. InPool' = InPool
      BY <3>3, <3>5, <3>6, <3>7 DEF InPool
    <3>9. count' = Cardinality(InPool') /\ count' \in 0..Cardinality(Actor)
      BY <3>1, <3>8, Balanced
    <3> QED
      BY <1>1, <3>1, <3>5, <3>6, <3>7, <3>9 DEF Accounts
  <2> QED
    BY <2>2, <2>3
<1>7. ASSUME NEW n \in Node,
             Check(n) \/ CheckAgain(n) \/ ListFutures(n) \/ WaitAny(n) \/ FlagFutureAsReady(n)
             \/ FetchFutureResult(n)
      PROVE  Goal
  <2>1. /\ UNCHANGED <<idle, futures, count>> /\ pc[n] # "return"
        /\ \A x \in Node \ {n} : picked'[x] = picked[x]
        /\ \E step : step # "return" /\ pc' = [pc EXCEPT ![n] = step]
    BY <1>2, <1>7 DEF Check, CheckAgain, ListFutures, WaitAny, FlagFutureAsReady, FetchFutureResult, Goto
  <2> QED
    BY <1>3, <2>1, LentStays
<1>8. ASSUME (\E f \in futures : Succeed(f) \/ Raise(f)) \/ \E a \in Actor : Die(a) PROVE Goal
  <2>1. UNCHANGED <<idle, futures, count, pc, picked>>
    BY <1>8 DEF Succeed, Raise, Die
  <2>2. Lent' = Lent
    BY <2>1 DEF Lent
  <2> QED
    BY <1>3, <2>1, <2>2
<1> QED
  BY <1>4, <1>5, <1>6, <1>7, <1>8 DEF Next, ThreadStep

\* A job is submitted only when the one before is answered, and a future is made for
\* the job submitted last.
LEMMA OwnFutureStep ==
    ASSUME TypeOK, Picks, Accounts, Asked, OwnFuture, AnswerIsOwn, Next
    PROVE  OwnFuture' /\ AnswerIsOwn'
<1>1. /\ entry \in Entries /\ job \in [Node -> 0..Jobs] /\ answered \in [Node -> 0..Jobs]
      /\ pc \in [Node -> Places] /\ idle \in Seq(Actor)
      /\ flagged \subseteq Actor /\ outcome \in [Task -> Outcomes]
  BY DEF TypeOK, Entries, Outcomes, Places
<1>2. \A n \in Node : \A f \in entry[n].future : f.task = <<n, job[n]>>
  BY DEF OwnFuture
<1>3. \A n \in Node : pc[n] = "idle" => answered[n] = job[n]
  BY DEF AnswerIsOwn
<1> DEFINE Goal == OwnFuture' /\ AnswerIsOwn'
<1>4. ASSUME NEW n \in Node, SubmitLearnerJob(n) PROVE Goal
  <2>1. /\ pc' = [pc EXCEPT ![n] = "check"] /\ answered' = answered
        /\ job' = [job EXCEPT ![n] = job[n] + 1] /\ Reset(n) \in Entries
        /\ job[n] + 1 \in 1..Jobs
    BY <1>4, JobEffect
  <2>2. \A x \in Node : Reset(n)[x].future = IF x = n THEN {} ELSE entry[x].future
    BY <1>1 DEF Reset, Entries
  <2>3. AnswerIsOwn'
    BY <1>1, <1>3, <2>1 DEF AnswerIsOwn
  <2>4. CASE entry' = Reset(n)
    BY <1>1, <1>2, <2>1, <2>2, <2>3, <2>4 DEF OwnFuture
  <2>5. CASE idle # <<>> /\ Submit(n, job[n] + 1, idle, Reset(n))
    <3> DEFINE work == Work(n, job[n] + 1, LastOf(idle))
    <3>1. Distinct(idle)
      BY DEF Accounts
    <3>2. idle # <<>> /\ Submit(n, job[n] + 1, idle, Reset(n))
      BY <2>5
    <3>3. entry' = Reset(n) \/ entry' = [Reset(n) EXCEPT ![n].future = {work}]
      BY <1>1, <2>1, <3>1, <3>2, SubmitEffect
    <3>4. work.task = <<n, job[n] + 1>>
      BY DEF Work
    <3> HIDE DEF work
    <3>5. CASE entry' = [Reset(n) EXCEPT ![n].future = {work}]
      <4>1. \A x \in Node : entry'[x].future = IF x = n THEN {work} ELSE entry[x].future
        BY <2>1, <2>2, <3>5 DEF Entries
      <4> QED
        BY <1>1, <1>2, <2>1, <2>3, <3>4, <4>1 DEF OwnFuture
    <3> QED
      BY <2>4, <3>3, <3>5
  <2> QED
    BY <1>4, <2>4, <2>5, JobEffect
<1>5. ASSUME NEW n \in Node, ReturnActor(n) PROVE Goal
  <2>1. pc' = [pc EXCEPT ![n] = "flag"] /\ UNCHANGED <<job, answered>>
    BY <1>5, ReturnEffect
  <2>2. AnswerIsOwn'
    BY <1>1, <1>3, <2>1 DEF AnswerIsOwn
  <2>3. CASE entry' = entry
    BY <1>2, <2>1, <2>2, <2>3 DEF OwnFuture
  <2>4. ASSUME NEW m \in Node, NEW a, entry' = [entry EXCEPT ![m].future = {Work(m, job[m], a)}]
        PROVE  Goal
    <3>1. \A x \in Node : entry'[x].future = IF x = m THEN {Work(m, job[m], a)} ELSE entry[x].future
      BY <1>1, <2>4 DEF Entries
    <3>2. Work(m, job[m], a).task = <<m, job[m]>>
      BY DEF Work
    <3> QED
      BY <1>2, <2>1, <2>2, <3>1, <3>2 DEF OwnFuture
  <2> QED
    BY <1>5, <2>3, <2>4, ReturnEffect
<1>6. ASSUME NEW n \in Node,
             Check(n) \/ CheckAgain(n) \/ ListFutures(n) \/ WaitAny(n) \/ Pop(n)
      PROVE  Goal
  <2>1. UNCHANGED <<entry, job, answered>> /\ \E step : step # "idle" /\ pc' = [pc EXCEPT ![n] = step]
    BY <1>6 DEF Check, CheckAgain, ListFutures, WaitAny, Pop, Goto
  <2> QED
    BY <1>1, <1>2, <1>3, <2>1 DEF OwnFuture, AnswerIsOwn
<1>7. ASSUME NEW n \in Node, FlagFutureAsReady(n) PROVE Goal
  <2>1. PICK f \in picked[n] : entry' = [entry EXCEPT ![f.task[1]].ready = TRUE]
    BY <1>7 DEF FlagFutureAsReady
  <2>2. \A x \in Node : entry'[x].future = entry[x].future
    BY <1>1, <2>1 DEF Entries
  <2>3. UNCHANGED <<job, answered>> /\ pc' = [pc EXCEPT ![n] = "check"]
    BY <1>7 DEF FlagFutureAsReady, Goto
  <2> QED
    BY <1>1, <1>2, <1>3, <2>2, <2>3 DEF OwnFuture, AnswerIsOwn
<1>8. ASSUME NEW n \in Node, FetchFutureResult(n) PROVE Goal
  <2>1. CASE /\ pc' = [pc EXCEPT ![n] = "failed"] /\ UNCHANGED <<answered, entry, job>>
    BY <1>1, <1>2, <1>3, <2>1 DEF OwnFuture, AnswerIsOwn
  <2>2. ASSUME NEW f \in entry[n].future, answered' = [answered EXCEPT ![n] = f.task[2]],
               entry' = Reset(n), pc' = [pc EXCEPT ![n] = "idle"], job' = job
        PROVE  Goal
    <3>1. f.task[2] = job[n]
      BY <1>2
    <3>2. AnswerIsOwn'
      BY <1>1, <1>3, <2>2, <3>1 DEF AnswerIsOwn
    <3>3. \A x \in Node : entry'[x].future = IF x = n THEN {} ELSE entry[x].future
      BY <1>1, <2>2 DEF Reset, Entries
    <3> QED
      BY <1>2, <2>2, <3>2, <3>3 DEF OwnFuture
  <2> QED
    BY <1>8, <2>1, <2>2 DEF FetchFutureResult, Goto
<1>9. ASSUME (\E f \in futures : Succeed(f) \/ Raise(f)) \/ \E a \in Actor : Die(a) PROVE Goal
  <2>1. UNCHANGED <<entry, job, answered, pc>>
    BY <1>9 DEF Succeed, Raise, Die
  <2> QED
    BY <1>2, <1>3, <2>1 DEF OwnFuture, AnswerIsOwn
<1> QED
  BY <1>4, <1>5, <1>6, <1>7, <1>8, <1>9 DEF Next, ThreadStep

\* The lock is taken by Pop, with one future picked before, and given back by Flag.
LEMMA LockedStep ==
    ASSUME TypeOK, Locked, Picks, Accounts, Asked, Next
    PROVE  Locked' /\ Picks'
<1>1. /\ pc \in [Node -> Places] /\ picked \in [Node -> SUBSET Future] /\ Nobody \notin Node
      /\ snapshot \in [Node -> SUBSET Future]
  BY PoolAssumption DEF TypeOK, Places
<1>2. \A n \in Node : pc[n] \in {"return", "flag"} <=> holder = n
  BY DEF Locked
<1>3. \A n \in Node : pc[n] \in {"pop", "return", "flag"} => \E f \in Future : picked[n] = {f}
  BY DEF Picks
<1>4. ASSUME NEW n \in Node, holder' = holder, pc[n] \notin {"pop", "return", "flag"},
             NEW step \in Places \ {"pop", "return", "flag"}, pc' = [pc EXCEPT ![n] = step],
             \A x \in Node \ {n} : picked'[x] = picked[x]
      PROVE  Locked' /\ Picks'
  BY <1>1, <1>2, <1>3, <1>4 DEF Locked, Picks
<1>5. ASSUME NEW n \in Node, SubmitLearnerJob(n) PROVE Locked' /\ Picks'
  <2>1. pc[n] = "idle" /\ pc' = [pc EXCEPT ![n] = "check"] /\ UNCHANGED <<holder, picked>>
    BY <1>5, JobEffect
  <2> QED
    BY <1>4, <2>1 DEF Places
<1>6. ASSUME NEW n \in Node, Check(n) \/ CheckAgain(n) \/ ListFutures(n) \/ FetchFutureResult(n)
      PROVE  Locked' /\ Picks'
  <2>1. /\ pc[n] \notin {"pop", "return", "flag"} /\ UNCHANGED <<holder, picked>>
        /\ \E step \in Places \ {"pop", "return", "flag"} : pc' = [pc EXCEPT ![n] = step]
    BY <1>6 DEF Check, CheckAgain, ListFutures, FetchFutureResult, Goto, Places
  <2> QED
    BY <1>4, <2>1
<1>7. ASSUME NEW n \in Node, WaitAny(n) PROVE Locked' /\ Picks'
  <2>1. PICK f \in snapshot[n] : picked' = [picked EXCEPT ![n] = {f}]
    BY <1>7 DEF WaitAny
  <2>2. pc[n] = "wait" /\ pc' = [pc EXCEPT ![n] = "pop"] /\ holder' = holder
    BY <1>7 DEF WaitAny, Goto
  <2>3. f \in Future
    BY <1>1
  <2> QED
    BY <1>1, <1>2, <1>3, <2>1, <2>2, <2>3 DEF Locked, Picks
<1>8. ASSUME NEW n \in Node, Pop(n) PROVE Locked' /\ Picks'
  <2>1. holder = Nobody /\ pc[n] = "pop"
    BY <1>8 DEF Pop, Free
  <2>2. CASE /\ holder' = n /\ pc' = [pc EXCEPT ![n] = "return"] /\ picked' = picked
    BY <1>1, <1>2, <1>3, <2>1, <2>2 DEF Locked, Picks
  <2>3. CASE /\ pc' = [pc EXCEPT ![n] = "check"] /\ picked' = [picked EXCEPT ![n] = {}]
             /\ holder' = holder
    BY <1>1, <1>2, <1>3, <2>1, <2>3 DEF Locked, Picks
  <2> QED
    BY <1>8, <2>2, <2>3 DEF Pop, Goto
<1>9. ASSUME NEW n \in Node, ReturnActor(n) PROVE Locked' /\ Picks'
  <2>1. pc[n] = "return" /\ pc' = [pc EXCEPT ![n] = "flag"] /\ UNCHANGED <<holder, picked>>
    BY <1>9, ReturnEffect
  <2> QED
    BY <1>1, <1>2, <1>3, <2>1 DEF Locked, Picks
<1>10. ASSUME NEW n \in Node, FlagFutureAsReady(n) PROVE Locked' /\ Picks'
  <2>1. /\ pc[n] = "flag" /\ pc' = [pc EXCEPT ![n] = "check"] /\ holder' = Nobody
        /\ picked' = [picked EXCEPT ![n] = {}]
    BY <1>10 DEF FlagFutureAsReady, Goto
  <2> QED
    BY <1>1, <1>2, <1>3, <2>1 DEF Locked, Picks
<1>11. ASSUME (\E f \in futures : Succeed(f) \/ Raise(f)) \/ \E a \in Actor : Die(a)
       PROVE  Locked' /\ Picks'
  <2>1. UNCHANGED <<pc, picked, holder>>
    BY <1>11 DEF Succeed, Raise, Die
  <2> QED
    BY <1>2, <1>3, <2>1 DEF Locked, Picks
<1> QED
  BY <1>5, <1>6, <1>7, <1>8, <1>9, <1>10, <1>11 DEF Next, ThreadStep

\* A job waits only when no actor is idle, and an actor that comes back goes to it.
LEMMA WaitingStep ==
    ASSUME TypeOK, Picks, Accounts, NoneIdle, Asked, Next
    PROVE  NoneIdle' /\ Asked'
<1>1. pending \in Seq(Node) /\ job \in [Node -> 0..Jobs] /\ idle \in Seq(Actor)
  BY DEF TypeOK
<1>2. /\ pending # <<>> => idle = <<>>
      /\ \A i \in DOMAIN pending : job[pending[i]] > 0
      /\ Len(pending) \in Nat /\ DOMAIN pending = 1..Len(pending)
      /\ \A i \in DOMAIN pending : pending[i] \in Node
  BY <1>1, LenProperties, ElementOfSeq DEF NoneIdle, Asked
<1>3. ASSUME NEW n \in Node, SubmitLearnerJob(n) PROVE NoneIdle' /\ Asked'
  <2>1. job' = [job EXCEPT ![n] = job[n] + 1] /\ job[n] + 1 \in 1..Jobs
    BY <1>3, JobEffect
  <2>2. job[n] + 1 > 0 /\ \A x \in Node : job[x] > 0 => job'[x] > 0
    BY <1>1, <2>1, PoolAssumption
  <2>3. CASE idle = <<>> /\ pending' = Append(pending, n) /\ idle' = idle
    <3>1. /\ DOMAIN pending' = 1..(Len(pending) + 1)
          /\ \A i \in 1..Len(pending) : pending'[i] = pending[i]
          /\ pending'[Len(pending) + 1] = n
      <4>1. /\ pending' \in Seq(Node) /\ Len(pending') = Len(pending) + 1
            /\ \A i \in 1..Len(pending) : pending'[i] = pending[i]
            /\ pending'[Len(pending) + 1] = n
        BY <1>1, <2>3, AppendProperties
      <4> QED
        BY <4>1, LenProperties
    <3>2. job'[n] > 0
      BY <1>1, <2>1, <2>2
    <3> QED
      BY <1>2, <2>2, <2>3, <3>1, <3>2 DEF NoneIdle, Asked
  <2>4. CASE idle # <<>> /\ pending' = pending
    BY <1>2, <2>2, <2>4 DEF NoneIdle, Asked
  <2> QED
    BY <1>3, <2>3, <2>4, JobEffect
<1>4. ASSUME NEW n \in Node, ReturnActor(n) PROVE NoneIdle' /\ Asked'
  <2>1. job' = job /\ idle' \in Seq(Actor)
    BY <1>4, ReturnEffect
  <2>2. CASE pending = <<>> /\ pending' = pending
    BY <1>2, <2>1, <2>2 DEF NoneIdle, Asked
  <2>3. CASE pending # <<>> /\ pending' = Tail(pending) /\ Idle' = Idle
    <3>1. idle = <<>>
      BY <1>2, <2>3
    <3>2. Idle' = {}
      BY <2>3, <3>1 DEF Idle
    <3>3. DOMAIN idle' = {}
      BY <3>2 DEF Idle
    <3>4. Len(idle') = 0
      <4>1. Len(idle') \in Nat /\ DOMAIN idle' = 1..Len(idle')
        BY <2>1, LenProperties
      <4>2. 1 \notin 1..Len(idle')
        BY <3>3, <4>1
      <4> QED
        BY <4>1, <4>2
    <3>5. idle' = <<>>
      BY <2>1, <3>4, EmptySeq
    <3>6. /\ DOMAIN pending' = 1..(Len(pending) - 1)
          /\ \A i \in 1..(Len(pending) - 1) : pending'[i] = pending[i + 1]
      <4>1. /\ pending' \in Seq(Node) /\ Len(pending') = Len(pending) - 1
            /\ \A i \in 1..Len(pending') : pending'[i] = pending[i + 1]
        BY <1>1, <2>3, HeadTailProperties
      <4> QED
        BY <4>1, LenProperties
    <3>7. Asked'
      <4> SUFFICES ASSUME NEW i \in DOMAIN pending' PROVE job'[pending'[i]] > 0
        BY DEF Asked
      <4>1. i + 1 \in DOMAIN pending /\ pending'[i] = pending[i + 1]
        BY <1>2, <3>6
      <4> QED
        BY <1>2, <2>1, <4>1
    <3> QED
      BY <3>5, <3>7 DEF NoneIdle
  <2>4. CASE UNCHANGED <<idle, pending>>
    BY <1>2, <2>1, <2>4 DEF NoneIdle, Asked
  <2> QED
    BY <1>4, <2>2, <2>3, <2>4, ReturnEffect
<1>5. CASE UNCHANGED <<idle, pending, job>>
  BY <1>2, <1>5 DEF NoneIdle, Asked
<1>6. ASSUME NEW n \in Node,
             Check(n) \/ CheckAgain(n) \/ ListFutures(n) \/ WaitAny(n) \/ Pop(n)
             \/ FlagFutureAsReady(n) \/ FetchFutureResult(n)
      PROVE  UNCHANGED <<idle, pending, job>>
  BY <1>6 DEF Check, CheckAgain, ListFutures, WaitAny, Pop, FlagFutureAsReady, FetchFutureResult
<1>7. ASSUME (\E f \in futures : Succeed(f) \/ Raise(f)) \/ \E a \in Actor : Die(a)
      PROVE  UNCHANGED <<idle, pending, job>>
  BY <1>7 DEF Succeed, Raise, Die
<1> QED
  BY <1>3, <1>4, <1>5, <1>6, <1>7 DEF Next, ThreadStep

-----------------------------------------------------------------------------
(* The invariant and what it says. *)

\* It holds initially: all actors are idle, each once.
LEMMA InitIInv == Init => IInv
<1> SUFFICES ASSUME Init PROVE IInv
  OBVIOUS
<1> DEFINE N == Cardinality(Actor)
<1>1. /\ load \in Loads /\ futures = {} /\ pending = <<>> /\ flagged = {} /\ dead = {}
      /\ count = N /\ holder = Nobody
      /\ entry = [n \in Node |-> [future |-> {}, ready |-> FALSE]]
      /\ outcome = [t \in Task |-> "none"] /\ pc = [n \in Node |-> "idle"]
      /\ job = [n \in Node |-> 0] /\ answered = [n \in Node |-> 0]
      /\ snapshot = [n \in Node |-> {}] /\ picked = [n \in Node |-> {}]
  BY DEF Init
<1>2. idle \in [1..N -> Actor] /\ Distinct(idle)
  BY DEF Init, Orders
<1>3. IsFiniteSet(Actor) /\ N \in Nat /\ Nobody \notin Node /\ Jobs \in Nat
  BY PoolAssumption, FS_CardinalityType
<1> HIDE DEF N
<1>4. Idle = Actor
  <2>1. idle \in Injection(1..N, Actor)
    BY <1>2 DEF Distinct, Injection, IsInjective
  <2>2. Cardinality(1..N) = N
    BY <1>3, FS_Interval
  <2>3. Cardinality(Actor) = N
    BY DEF N
  <2>4. idle \in Surjection(1..N, Actor)
    BY <1>3, <2>1, <2>2, <2>3, FS_Injection
  <2> QED
    BY <1>2, <2>4 DEF Surjection, Idle
<1>5. idle \in Seq(Actor) /\ pending \in Seq(Node)
  BY <1>1, <1>2, <1>3, SeqDef, EmptySeq
<1>6. TypeOK
  <2>1. [future |-> {}, ready |-> FALSE] \in [future : SUBSET Future, ready : BOOLEAN]
    OBVIOUS
  <2>2. entry \in [Node -> [future : SUBSET Future, ready : BOOLEAN]]
    BY <1>1, <2>1
  <2>3. count \in 0..Cardinality(Actor)
    BY <1>1, <1>3 DEF N
  <2>4. /\ pc \in [Node -> {"idle", "check", "again", "list", "wait", "pop", "return", "flag", "fetch",
                            "failed"}]
        /\ outcome \in [Task -> {"none", "running", "ok", "error", "died"}]
        /\ job \in [Node -> 0..Jobs] /\ answered \in [Node -> 0..Jobs]
        /\ snapshot \in [Node -> SUBSET Future] /\ picked \in [Node -> SUBSET Future]
    BY <1>1, <1>3
  <2> QED
    BY <1>1, <1>5, <2>2, <2>3, <2>4 DEF TypeOK
<1>7. OwnFuture /\ AnswerIsOwn /\ Locked /\ Picks
  BY <1>1, <1>3 DEF OwnFuture, AnswerIsOwn, Locked, Picks
<1>8. Accounts
  <2>1. Busy = {} /\ Lent = {}
    BY <1>1 DEF Busy, Lent
  <2>2. count = Cardinality(InPool)
    BY <1>1, <1>4, <2>1 DEF InPool, N
  <2> QED
    BY <1>1, <1>2, <2>1, <2>2 DEF Accounts
<1>9. NoneIdle /\ Asked
  BY <1>1 DEF NoneIdle, Asked
<1> QED
  BY <1>6, <1>7, <1>8, <1>9 DEF IInv

\* It is inductive.
LEMMA NextIInv == IInv /\ [Next]_vars => IInv'
<1>1. ASSUME IInv, Next PROVE IInv'
  <2>1. TypeOK /\ OwnFuture /\ AnswerIsOwn /\ Locked /\ Picks /\ Accounts /\ NoneIdle /\ Asked
    BY <1>1 DEF IInv
  <2>2. Accounts' /\ count' \in 0..Cardinality(Actor)
    BY <1>1, <2>1, AccountsStep
  <2>3. TypeOK'
    BY <1>1, <2>1, <2>2, TypeStep
  <2> QED
    BY <1>1, <2>1, <2>2, <2>3, OwnFutureStep, LockedStep, WaitingStep DEF IInv
<1>2. ASSUME IInv, UNCHANGED vars PROVE IInv'
  <2>1. UNCHANGED <<load, idle, futures, pending, entry, flagged, count, outcome, dead, pc, job,
                    snapshot, picked, holder, answered>>
    BY <1>2 DEF vars
  <2>2. TypeOK'
    BY <1>2, <2>1 DEF IInv, TypeOK
  <2>3. OwnFuture' /\ AnswerIsOwn' /\ Locked' /\ Picks'
    BY <1>2, <2>1 DEF IInv, OwnFuture, AnswerIsOwn, Locked, Picks
  <2>4. Idle' = Idle /\ Busy' = Busy /\ Lent' = Lent
    BY <2>1 DEF Idle, Busy, Lent
  <2>5. Accounts' /\ NoneIdle' /\ Asked'
    BY <1>2, <2>1, <2>4 DEF IInv, Accounts, InPool, Distinct, NoneIdle, Asked
  <2> QED
    BY <2>2, <2>3, <2>5 DEF IInv
<1> QED
  BY <1>1, <1>2

\* The parts of the invariant hold in every reachable state.
THEOREM PoolInvariance == Spec => []IInv
<1>1. Init => IInv
  BY InitIInv
<1>2. IInv /\ [Next]_vars => IInv'
  BY NextIInv
<1> QED
  BY <1>1, <1>2, PTL DEF Spec

\* Every variable of the pool keeps its type; its actors are never over-counted.
THEOREM PoolTypeCorrect == Spec => []TypeOK
<1>1. IInv => TypeOK
  BY DEF IInv
<1> QED
  BY <1>1, PoolInvariance, PTL

\* A node that goes on has the answer of the job it asked for, whichever threads
\* take the futures off the pool and whatever fails (get_learner_result).
THEOREM AnswersAreOwn == Spec => []AnswerIsOwn
<1>1. IInv => AnswerIsOwn
  BY DEF IInv
<1> QED
  BY <1>1, PoolInvariance, PTL

\* No actor is lost, counted twice or given two jobs, and none is idle while a job
\* waits (_return_actor, submit, num_actors).
THEOREM EveryActorIsUsed == Spec => []ActorsAreUsed
<1>1. IInv => ActorsAreUsed
  <2> SUFFICES ASSUME IInv PROVE ActorsAccounted /\ WorkConserving
    BY DEF ActorsAreUsed
  <2>1. Accounts /\ Locked /\ NoneIdle
    BY DEF IInv
  <2>2. ASSUME Free PROVE Lent = {}
    <3>1. \A n \in Node : pc[n] # "return"
      BY <2>1, <2>2, PoolAssumption DEF Locked, Free
    <3> QED
      BY <3>1, LentByNobody
  <2>3. Free => InPool = Idle \cup Busy
    BY <2>2 DEF InPool
  <2> QED
    BY <2>1, <2>3 DEF Accounts, ActorsAccounted, NoneIdle, WorkConserving
<1> QED
  BY <1>1, PoolInvariance, PTL

-----------------------------------------------------------------------------
(* The logger.  Its inductive invariant. *)

\* What a storage is.
Metrics == UNION {[M -> Seq(Logger!Point)] : M \in SUBSET (Logger!Experiment \X LogNode)}
Storage == [lock : Logger!Thread \cup {Logger!Free}, metrics : Metrics,
            entries : SUBSET Logger!LogEntry]

\* The nodes, the driver and the messages keep their types,
NodeTypes ==
    /\ setting \in Settings /\ experiment \in 0..setting.experiments
    /\ nodes \in [LogNode -> {-1} \cup Logger!Experiment]
    /\ state \in [LogNode -> Logger!Experiment]
    /\ round \in [LogNode -> Nat] /\ running \subseteq LogNode
    /\ learner \in [LogNode -> Logger!Steps]
    /\ messages \subseteq Logger!Message
    /\ processed \in [LogNode -> SUBSET Logger!Measurement]
    /\ outages \in Nat /\ stops \in Nat

\* and so do the storages and the calls.
StoreTypes == store \in Seq(Storage) /\ Len(store) > 0
CallTypes ==
    /\ DOMAIN calls \subseteq Logger!Thread /\ calls \in [DOMAIN calls -> Logger!Call]
    /\ \A t \in DOMAIN calls : calls[t].store \in 1..Len(store)

\* Who is about to write holds the lock of its storage,
Held == \A t \in DOMAIN calls : calls[t].next = "write" => store[calls[t].store].lock = t

\* and what it read of the storage still holds.
Noted ==
    \A t \in DOMAIN calls :
        calls[t].next = "write" =>
            /\ calls[t].series = Logger!Logged(calls[t])
            /\ (calls[t].seen <=> Logger!Seen(calls[t]))
            /\ (calls[t].fresh <=> Logger!Fresh(calls[t]))

\* A series has one value for each round, and the value of every call that wrote.
OneValueEach(series) ==
    \A i, j \in DOMAIN series : i # j => series[i].round # series[j].round
SeriesOnce ==
    \A s \in DOMAIN store : \A k \in DOMAIN store[s].metrics : OneValueEach(store[s].metrics[k])
Written == \A t \in DOMAIN calls : calls[t].next = "forward" => Logger!Seen(calls[t])

LogCore == Held /\ Noted /\ SeriesOnce /\ Written

\* No message goes back to its source.  What a node has had, what it handles or has
\* answered, and what is on record as sent to it, it has on record as received, or is
\* about to have.
NotToSource == \A m \in messages : m.to # m.value.by
Had ==
    /\ \A n \in LogNode : \A v \in processed[n] : Logger!OnRecord(n, v)
    /\ \A m \in messages : m.at \in {"running", "answered"} => Logger!OnRecord(m.to, m.value)
LogRecord == NotToSource /\ Had /\ Logger!SentWasReceived

\* The inductive invariant of the logger.
LogInv == NodeTypes /\ StoreTypes /\ CallTypes /\ LogCore /\ LogRecord

-----------------------------------------------------------------------------
\* Types of the nodes, the driver and the messages.

LEMMA LoggerConstants ==
    /\ Rounds \in Nat /\ MaxUnderWay \in Nat /\ Connected \in BOOLEAN
    /\ \A s \in Settings : s.experiments \in Nat /\ s.faults \in Nat /\ s.nodes \subseteq LogNode
  BY LoggerAssumption DEF Logger!TelemetryAssumption

LEMMA ExperimentsAreNumbers ==
    /\ Logger!Experiment \subseteq Nat
    /\ \A s \in Settings : s.experiments \in Nat /\ 0..s.experiments \subseteq Logger!Experiment
                           /\ 0 \in Logger!Experiment
  BY LoggerConstants DEF Logger!Experiment

\* The two threads of a node that log.
LEMMA ThreadsOf ==
    /\ \A n \in LogNode :
          Logger!Learner(n) \in Logger!Thread /\ Logger!Receiver(n) \in Logger!Thread
    /\ \A t \in Logger!Thread : t.at \in LogNode /\ t # Logger!Free
  BY DEF Logger!Learner, Logger!Receiver, Logger!Thread, Logger!Own, Logger!Received, Logger!Free

\* A message is sent on to others, or comes a step further.
LEMMA SendingTypes ==
    ASSUME NEW n \in LogNode, NEW others \in SUBSET LogNode, NEW v \in Logger!Measurement,
           NEW r \in Int
    PROVE  Logger!Sending(n, others, v, r) \subseteq Logger!Message
  BY DEF Logger!Sending, Logger!Message

LEMMA MovedTypes ==
    ASSUME messages \subseteq Logger!Message, NEW m \in Logger!Message,
           NEW at \in {"taken", "running", "answered"}
    PROVE  Logger!Moved(m, at) \subseteq Logger!Message
  BY DEF Logger!Moved, Logger!Message

LEMMA NodeTypesStep ==
    ASSUME NodeTypes, CallTypes, [Logger!Next]_(Logger!vars)
    PROVE  NodeTypes'
  <1>1. /\ setting \in Settings /\ experiment \in 0..setting.experiments
        /\ nodes \in [LogNode -> {-1} \cup Logger!Experiment]
        /\ state \in [LogNode -> Logger!Experiment]
        /\ round \in [LogNode -> Nat] /\ running \subseteq LogNode
        /\ learner \in [LogNode -> Logger!Steps]
        /\ messages \subseteq Logger!Message
        /\ processed \in [LogNode -> SUBSET Logger!Measurement]
        /\ outages \in Nat /\ stops \in Nat
    BY DEF NodeTypes
  <1>2. /\ Logger!Experiment \subseteq Nat /\ 0 \in Logger!Experiment
        /\ setting.experiments \in Nat /\ experiment \in Logger!Experiment /\ experiment \in Nat
    BY <1>1, ExperimentsAreNumbers
  <1>3. ASSUME NEW n \in LogNode, Logger!Fails(n)
        PROVE  /\ learner' \in [LogNode -> Logger!Steps]
               /\ state' \in [LogNode -> Logger!Experiment] /\ running' \subseteq LogNode
               /\ nodes' \in [LogNode -> {-1} \cup Logger!Experiment]
    BY <1>1, <1>2, <1>3 DEF Logger!Fails, Logger!Steps
  <1>4. ASSUME UNCHANGED <<nodes, round, state, learner, running, experiment>>,
               UNCHANGED <<setting, outages, stops>>, messages' \subseteq Logger!Message,
               processed' \in [LogNode -> SUBSET Logger!Measurement]
        PROVE  NodeTypes'
    BY <1>1, <1>4 DEF NodeTypes
  <1>5. ASSUME NEW t \in Logger!Thread, Logger!Acquire(t) \/ Logger!Write(t)
        PROVE  NodeTypes'
    BY <1>1, <1>4, <1>5 DEF Logger!Acquire, Logger!Write
  <1>6. ASSUME NEW t \in Logger!Thread, Logger!Forward(t)
        PROVE  NodeTypes'
    <2>1. UNCHANGED <<round, experiment, processed, setting, stops>>
      BY <1>6 DEF Logger!Forward
    <2>2. CASE UNCHANGED <<nodes, state, learner, running, messages, outages>>
      BY <1>1, <1>4, <2>1, <2>2
    <2>3. CASE outages' = outages + 1 /\ Logger!Fails(t.at) /\ UNCHANGED messages
      BY <1>1, <1>3, <2>1, <2>3, ThreadsOf DEF NodeTypes
    <2>4. CASE outages' = outages + 1 /\ messages' \subseteq messages
               /\ UNCHANGED <<nodes, state, learner, running>>
      BY <1>1, <2>1, <2>4 DEF NodeTypes
    <2>. QED  BY <1>6, <2>2, <2>3, <2>4 DEF Logger!Forward
  <1>7. ASSUME NEW n \in LogNode, Logger!SetExperiment(n)
        PROVE  NodeTypes'
    <2>1. UNCHANGED <<experiment, messages, processed, setting, outages, stops>>
      BY <1>7 DEF Logger!SetExperiment
    <2>2. CASE nodes[n] = -1
      <3>1. Logger!Fails(n) /\ UNCHANGED round
        BY <1>7, <2>2 DEF Logger!SetExperiment
      <3>. QED  BY <1>1, <1>3, <2>1, <3>1 DEF NodeTypes
    <2>3. CASE nodes[n] # -1
      BY <1>1, <1>2, <1>7, <2>1, <2>3 DEF Logger!SetExperiment, NodeTypes, Logger!Steps
    <2>. QED  BY <2>2, <2>3
  <1>8. ASSUME NEW n \in LogNode, Logger!Evaluate(n)
        PROVE  NodeTypes'
    BY <1>1, <1>8 DEF Logger!Evaluate, Logger!Evaluated, NodeTypes, Logger!Steps
  <1>9. ASSUME NEW n \in LogNode, Logger!Broadcast(n)
        PROVE  NodeTypes'
    <2>1. Logger!Measured(n) \in Logger!Measurement /\ round[n] \in Int
      BY <1>1, <1>2 DEF Logger!Measurement, Logger!Measured
    <2>2. /\ Logger!Sending(n, running \ {n}, Logger!Measured(n), -1) \subseteq Logger!Message
          /\ Logger!Sending(n, running \ {n}, Logger!Measured(n), round[n]) \subseteq Logger!Message
      BY <1>1, <2>1, SendingTypes
    <2>3. messages' \subseteq Logger!Message
      BY <1>1, <1>9, <2>2 DEF Logger!Broadcast
    <2>. QED  BY <1>1, <1>9, <2>3 DEF Logger!Broadcast, Logger!Evaluated, NodeTypes, Logger!Steps
  <1>10. ASSUME NEW n \in LogNode, Logger!IncreaseRound(n)
         PROVE  NodeTypes'
    <2>1. UNCHANGED <<experiment, messages, processed, setting, outages, stops>>
      BY <1>10 DEF Logger!IncreaseRound
    <2>2. round' \in [LogNode -> Nat]
      BY <1>1, <1>10 DEF Logger!IncreaseRound
    <2>3. CASE Logger!Fails(n)
      BY <1>1, <1>3, <2>1, <2>2, <2>3 DEF NodeTypes
    <2>4. CASE ~Logger!Fails(n)
      BY <1>1, <1>10, <2>1, <2>2, <2>4 DEF Logger!IncreaseRound, NodeTypes, Logger!Steps
    <2>. QED  BY <2>3, <2>4
  <1>11. ASSUME NEW n \in LogNode, Logger!Finish(n)
         PROVE  NodeTypes'
    BY <1>1, <1>2, <1>11 DEF Logger!Finish, NodeTypes, Logger!Steps
  <1>12. ASSUME NEW n \in LogNode, Logger!StopLearning(n)
         PROVE  NodeTypes'
    BY <1>1, <1>2, <1>12 DEF Logger!StopLearning, NodeTypes, Logger!Steps
  <1>13. ASSUME NEW n \in LogNode, Logger!Stop(n)
         PROVE  NodeTypes'
    BY <1>1, <1>2, <1>13 DEF Logger!Stop, NodeTypes
  <1>14. ASSUME NEW m \in messages,
                \/ Logger!Arrive(m) \/ Logger!Receive(m) \/ Logger!Answer(m) \/ Logger!Sent(m)
                \/ Logger!Lost(m)
         PROVE  NodeTypes'
    <2>1. /\ UNCHANGED <<nodes, round, state, learner, running, experiment>>
          /\ UNCHANGED <<setting, outages, stops>>
      BY <1>14 DEF Logger!Arrive, Logger!Receive, Logger!Answer, Logger!Sent, Logger!Lost
    <2>2. m \in Logger!Message /\ m.to \in LogNode /\ m.value \in Logger!Measurement /\ m.round \in Int
      BY <1>1 DEF Logger!Message
    <2>3. \A at \in {"taken", "running", "answered"} : Logger!Moved(m, at) \subseteq Logger!Message
      BY <1>1, <2>2, MovedTypes
    <2>4. \A others \in SUBSET LogNode :
              Logger!Sending(m.to, others, m.value, m.round) \subseteq Logger!Message
      BY <2>2, SendingTypes
    <2>5. messages' \subseteq Logger!Message
      <3>1. CASE Logger!Arrive(m)
        BY <2>3, <3>1 DEF Logger!Arrive
      <3>2. CASE Logger!Receive(m)
        BY <2>3, <3>2 DEF Logger!Receive
      <3>3. CASE Logger!Answer(m)
        BY <1>1, <2>3, <2>4, <3>3 DEF Logger!Answer
      <3>4. CASE Logger!Sent(m) \/ Logger!Lost(m)
        BY <1>1, <3>4 DEF Logger!Sent, Logger!Lost
      <3>. QED  BY <1>14, <3>1, <3>2, <3>3, <3>4
    <2>6. processed' \in [LogNode -> SUBSET Logger!Measurement]
      BY <1>1, <1>14, <2>2
      DEF Logger!Arrive, Logger!Receive, Logger!Answer, Logger!Sent, Logger!Lost
    <2>. QED  BY <1>4, <2>1, <2>5, <2>6
  <1>15. ASSUME Logger!Start
         PROVE  NodeTypes'
    BY <1>1, <1>2, <1>15, LoggerConstants DEF Logger!Start, NodeTypes, Logger!Steps
  <1>16. ASSUME Logger!StartLearning
         PROVE  NodeTypes'
    BY <1>1, <1>2, <1>16 DEF Logger!StartLearning, NodeTypes, Logger!Steps
  <1>17. ASSUME Logger!Reset
         PROVE  NodeTypes'
    BY <1>1, <1>17 DEF Logger!Reset, NodeTypes
  <1>18. CASE UNCHANGED Logger!vars
    BY <1>1, <1>4, <1>18 DEF Logger!vars
  <1>. QED  BY <1>5, <1>6, <1>7, <1>8, <1>9, <1>10, <1>11, <1>12, <1>13, <1>14, <1>15, <1>16, <1>17,
               <1>18 DEF Logger!Next
-----------------------------------------------------------------------------
\* The storages and the calls.

\* The metrics of a storage are a function of experiments and nodes.
LEMMA MetricsAre ==
    ASSUME NEW M
    PROVE  M \in Metrics <=>
              /\ DOMAIN M \subseteq Logger!Experiment \X LogNode
              /\ M \in [DOMAIN M -> Seq(Logger!Point)]
  BY DEF Metrics

LEMMA StorageFields ==
    ASSUME NEW s \in Storage
    PROVE  /\ s.lock \in Logger!Thread \cup {Logger!Free} /\ s.metrics \in Metrics
           /\ s.entries \subseteq Logger!LogEntry
           /\ \A l \in Logger!Thread \cup {Logger!Free} :
                 /\ [s EXCEPT !.lock = l] \in Storage
                 /\ [s EXCEPT !.lock = l].lock = l
                 /\ [s EXCEPT !.lock = l].metrics = s.metrics
                 /\ [s EXCEPT !.lock = l].entries = s.entries
           /\ \A E \in SUBSET Logger!LogEntry :
                 /\ [s EXCEPT !.entries = E] \in Storage
                 /\ [s EXCEPT !.entries = E].lock = s.lock
                 /\ [s EXCEPT !.entries = E].metrics = s.metrics
                 /\ [s EXCEPT !.entries = E].entries = E
           /\ \A l \in Logger!Thread \cup {Logger!Free}, M \in Metrics :
                 /\ [s EXCEPT !.lock = l, !.metrics = M] \in Storage
                 /\ [s EXCEPT !.lock = l, !.metrics = M].lock = l
                 /\ [s EXCEPT !.lock = l, !.metrics = M].metrics = M
                 /\ [s EXCEPT !.lock = l, !.metrics = M].entries = s.entries
  BY DEF Storage

LEMMA CallFields ==
    ASSUME NEW c \in Logger!Call
    PROVE  /\ c.next \in {"lock", "write", "forward"} /\ c.store \in Nat \ {0}
           /\ c.addr \in LogNode /\ c.exp \in Logger!Experiment /\ c.round \in Int
           /\ c.value \in Logger!Measurement /\ c.fresh \in BOOLEAN
           /\ c.series \in Seq(Logger!Point) /\ c.seen \in BOOLEAN
  BY DEF Logger!Call

\* A storage replaced by another.
LEMMA OneStorage ==
    ASSUME StoreTypes, NEW i \in 1..Len(store), NEW s \in Storage,
           store' = [store EXCEPT ![i] = s]
    PROVE  /\ StoreTypes' /\ Len(store') = Len(store)
           /\ store'[i] = s /\ \A j \in 1..Len(store) : j # i => store'[j] = store[j]
  BY ExceptSeq DEF StoreTypes

LEMMA StorageAt ==
    ASSUME StoreTypes
    PROVE  /\ Len(store) \in Nat /\ DOMAIN store = 1..Len(store)
           /\ Len(store) \in 1..Len(store)
           /\ \A i \in 1..Len(store) : store[i] \in Storage
  BY LenProperties DEF StoreTypes

\* log_metric looks the experiment up.
LEMMA LookupEffect ==
    ASSUME NodeTypes, StoreTypes, CallTypes, NEW t \in Logger!Thread, NEW addr \in LogNode,
           NEW given \in Int, NEW value \in Logger!Measurement,
           Logger!Lookup(t, addr, given, value)
    PROVE  /\ DOMAIN calls' \subseteq Logger!Thread /\ calls' \in [DOMAIN calls' -> Logger!Call]
           /\ \A u \in DOMAIN calls' :
                 /\ calls'[u].store \in 1..Len(store)
                 /\ \/ u \in DOMAIN calls /\ calls'[u] = calls[u]
                    \/ calls'[u].next = "lock"
  <1>1. CASE ~Logger!Experiments(addr)
    BY <1>1 DEF Logger!Lookup, CallTypes
  <1>2. CASE Logger!Experiments(addr)
    <2>. DEFINE c == [next |-> "lock", store |-> Len(store), addr |-> addr, exp |-> nodes[addr],
                      round |-> IF given = Logger!NotGiven THEN round[addr] ELSE given,
                      value |-> value, fresh |-> FALSE, series |-> <<>>, seen |-> FALSE]
    <2>1. calls' = [u \in DOMAIN calls \cup {t} |-> IF u = t THEN c ELSE calls[u]]
      BY <1>2 DEF Logger!Lookup, Logger!Current
    <2>2. Len(store) \in Nat \ {0} /\ Len(store) \in 1..Len(store)
      BY StorageAt DEF StoreTypes
    <2>3. <<>> \in Seq(Logger!Point)
      BY EmptySeq
    <2>4. nodes[addr] \in Logger!Experiment
      BY <1>2 DEF NodeTypes, Logger!Experiments
    <2>5. c \in Logger!Call
      BY <2>2, <2>3, <2>4 DEF NodeTypes, Logger!Call
    <2>6. c.store = Len(store) /\ c.next = "lock"
      OBVIOUS
    <2>. HIDE DEF c
    <2>. QED  BY <2>1, <2>2, <2>5, <2>6 DEF CallTypes
  <1>. QED  BY <1>1, <1>2

\* Under the lock, the call notes what it reads.
LEMMA AcquireNotes ==
    ASSUME NEW t \in Logger!Thread, Logger!Acquire(t)
    PROVE  /\ t \in DOMAIN calls
           /\ DOMAIN calls' = DOMAIN calls /\ calls' = [u \in DOMAIN calls |-> calls'[u]]
           /\ \A u \in DOMAIN calls : u # t => calls'[u] = calls[u]
           /\ calls'[t] = [calls[t] EXCEPT !.next = "write",
                              !.fresh = Logger!Fresh(calls[t]),
                              !.series = Logger!Logged(calls[t]), !.seen = Logger!Seen(calls[t])]
  BY DEF Logger!Acquire, Logger!Busy

LEMMA AcquireEffect ==
    ASSUME StoreTypes, CallTypes, NEW t \in Logger!Thread, Logger!Acquire(t)
    PROVE  /\ t \in DOMAIN calls /\ calls[t].next = "lock"
           /\ store[calls[t].store].lock = Logger!Free
           /\ StoreTypes' /\ Len(store') = Len(store)
           /\ store'[calls[t].store].lock = t
           /\ \A s \in 1..Len(store) :
                 /\ store'[s].metrics = store[s].metrics /\ store'[s].entries = store[s].entries
                 /\ (s # calls[t].store => store'[s].lock = store[s].lock)
           /\ DOMAIN calls' = DOMAIN calls /\ calls' = [u \in DOMAIN calls |-> calls'[u]]
           /\ \A u \in DOMAIN calls : u # t => calls'[u] = calls[u]
  <1>1. /\ t \in DOMAIN calls /\ calls[t].next = "lock"
        /\ store[calls[t].store].lock = Logger!Free
        /\ store' = [store EXCEPT ![calls[t].store].lock = t]
    BY DEF Logger!Acquire, Logger!Busy, Logger!Available
  <1>2. calls[t].store \in 1..Len(store)
    BY <1>1 DEF CallTypes
  <1>3. store[calls[t].store] \in Storage
    BY <1>2, StorageAt
  <1>. DEFINE s1 == [store[calls[t].store] EXCEPT !.lock = t]
  <1>4. /\ s1 \in Storage /\ s1.lock = t /\ s1.metrics = store[calls[t].store].metrics
        /\ s1.entries = store[calls[t].store].entries
    <2>1. t \in Logger!Thread \cup {Logger!Free}
      OBVIOUS
    <2>2. \A l \in Logger!Thread \cup {Logger!Free} :
             LET s == store[calls[t].store] IN
                 /\ [s EXCEPT !.lock = l] \in Storage
                 /\ [s EXCEPT !.lock = l].lock = l
                 /\ [s EXCEPT !.lock = l].metrics = s.metrics
                 /\ [s EXCEPT !.lock = l].entries = s.entries
      BY <1>3, StorageFields
    <2>. QED  BY <2>1, <2>2, Zenon
  <1>5. store' = [store EXCEPT ![calls[t].store] = s1]
    BY <1>1
  <1>. HIDE DEF s1
  <1>6. /\ StoreTypes' /\ Len(store') = Len(store)
        /\ store'[calls[t].store] = s1
        /\ \A j \in 1..Len(store) : j # calls[t].store => store'[j] = store[j]
    BY <1>2, <1>4, <1>5, OneStorage
  <1>7. /\ DOMAIN calls' = DOMAIN calls /\ calls' = [u \in DOMAIN calls |-> calls'[u]]
        /\ \A u \in DOMAIN calls : u # t => calls'[u] = calls[u]
    BY AcquireNotes
  <1>. QED  BY <1>1, <1>4, <1>6, <1>7

\* What a call reads of a storage.
LEMMA ReadTypes ==
    ASSUME StoreTypes, NEW c \in Logger!Call, c.store \in 1..Len(store)
    PROVE  /\ Logger!Logged(c) \in Seq(Logger!Point)
           /\ Logger!Seen(c) \in BOOLEAN /\ Logger!Fresh(c) \in BOOLEAN
  <1>1. store[c.store].metrics \in Metrics
    BY StorageAt, StorageFields
  <1>2. Logger!Logged(c) \in Seq(Logger!Point)
    <2>1. <<>> \in Seq(Logger!Point)
      BY EmptySeq
    <2>. QED  BY <1>1, <2>1, MetricsAre DEF Logger!Logged
  <1>. QED  BY <1>2 DEF Logger!Seen, Logger!Fresh

LEMMA AcquireTypes ==
    ASSUME StoreTypes, CallTypes, NEW t \in Logger!Thread, Logger!Acquire(t)
    PROVE  /\ CallTypes'
           /\ calls'[t].next = "write" /\ calls'[t].store = calls[t].store
           /\ calls'[t].exp = calls[t].exp /\ calls'[t].addr = calls[t].addr
           /\ calls'[t].round = calls[t].round
           /\ calls'[t].series = Logger!Logged(calls[t])
           /\ (calls'[t].seen <=> Logger!Seen(calls[t]))
           /\ (calls'[t].fresh <=> Logger!Fresh(calls[t]))
  <1>. DEFINE c == calls[t]
              seen == Logger!Seen(c)
              fresh == Logger!Fresh(c)
              series == Logger!Logged(c)
              d == [c EXCEPT !.next = "write", !.fresh = fresh, !.series = series, !.seen = seen]
  <1>1. c \in Logger!Call /\ c.store \in 1..Len(store)
    BY AcquireEffect DEF CallTypes
  <1>2. series \in Seq(Logger!Point) /\ seen \in BOOLEAN /\ fresh \in BOOLEAN
    BY <1>1, ReadTypes
  <1>3. calls'[t] = d /\ t \in DOMAIN calls
    BY AcquireNotes
  <1>. HIDE DEF c, seen, fresh, series
  <1>4. /\ d \in Logger!Call /\ d.next = "write" /\ d.store = c.store /\ d.exp = c.exp
        /\ d.addr = c.addr /\ d.round = c.round /\ d.series = series /\ d.seen = seen
        /\ d.fresh = fresh
    BY <1>1, <1>2 DEF Logger!Call
  <1>. HIDE DEF d
  <1>5. CallTypes'
    <2>1. /\ DOMAIN calls' = DOMAIN calls /\ Len(store') = Len(store)
          /\ calls' = [u \in DOMAIN calls |-> calls'[u]]
          /\ \A u \in DOMAIN calls : u # t => calls'[u] = calls[u]
      BY AcquireEffect
    <2>2. \A u \in DOMAIN calls : calls'[u] \in Logger!Call /\ calls'[u].store \in 1..Len(store)
      BY <1>1, <1>3, <1>4, <2>1 DEF CallTypes
    <2>. QED  BY <2>1, <2>2 DEF CallTypes
  <1>6. /\ calls'[t].seen = Logger!Seen(calls[t]) /\ calls'[t].fresh = Logger!Fresh(calls[t])
        /\ calls'[t].series = Logger!Logged(calls[t])
    BY <1>3, <1>4 DEF c, seen, fresh, series
  <1>7. /\ calls'[t].next = "write" /\ calls'[t].store = calls[t].store
        /\ calls'[t].exp = calls[t].exp /\ calls'[t].addr = calls[t].addr
        /\ calls'[t].round = calls[t].round
    BY <1>3, <1>4 DEF c
  <1>. QED  BY <1>5, <1>6, <1>7

\* A call adds its value to its series, unless the round has one; no other series goes.
LEMMA WriteEffect ==
    ASSUME StoreTypes, CallTypes, LogCore, NEW t \in Logger!Thread, Logger!Write(t)
    PROVE  /\ t \in DOMAIN calls /\ calls[t].next = "write"
           /\ store[calls[t].store].lock = t
           /\ StoreTypes' /\ Len(store') = Len(store)
           /\ \A s \in 1..Len(store) :
                 /\ store'[s].entries = store[s].entries
                 /\ (s # calls[t].store => store'[s] = store[s])
           /\ store'[calls[t].store].metrics =
                 [k \in DOMAIN store[calls[t].store].metrics \cup {Logger!Series(calls[t])} |->
                     IF k = Logger!Series(calls[t])
                     THEN Logger!Appended(calls[t].seen, Logger!Logged(calls[t]),
                              [round |-> calls[t].round, value |-> calls[t].value])
                     ELSE store[calls[t].store].metrics[k]]
           /\ calls' = [calls EXCEPT ![t].next = "forward"]
  <1>. DEFINE c == calls[t]
              old == store[c.store].metrics
              longer == Logger!Appended(c.seen, c.series, [round |-> c.round, value |-> c.value])
              kept == {j \in DOMAIN old : ~(c.fresh /\ j[1] = c.exp)}
              new == [k \in kept \cup {Logger!Series(c)} |->
                         IF k = Logger!Series(c) THEN longer ELSE old[k]]
              s1 == [store[c.store] EXCEPT !.lock = Logger!Free, !.metrics = new]
  <1>1. /\ t \in DOMAIN calls /\ c.next = "write"
        /\ store' = [store EXCEPT ![c.store] = s1]
        /\ calls' = [calls EXCEPT ![t].next = "forward"]
    BY DEF Logger!Write, Logger!Busy
  <1>2. c \in Logger!Call /\ c.store \in 1..Len(store)
    BY <1>1 DEF CallTypes
  <1>3. /\ store[c.store].lock = t /\ c.series = Logger!Logged(c)
        /\ (c.fresh <=> Logger!Fresh(c))
    BY <1>1 DEF LogCore, Held, Noted
  <1>4. /\ store[c.store] \in Storage /\ old \in Metrics
        /\ DOMAIN old \subseteq Logger!Experiment \X LogNode
        /\ old \in [DOMAIN old -> Seq(Logger!Point)]
    <2>1. store[c.store] \in Storage
      BY <1>2, StorageAt
    <2>2. store[c.store].metrics \in Metrics
      BY <2>1, StorageFields
    <2>. QED  BY <2>1, <2>2, MetricsAre
  <1>5. {j \in DOMAIN old : ~(c.fresh /\ j[1] = c.exp)} = DOMAIN old
    BY <1>3 DEF Logger!Fresh
  <1>6. /\ Logger!Series(c) \in Logger!Experiment \X LogNode
        /\ [round |-> c.round, value |-> c.value] \in Logger!Point
        /\ c.series \in Seq(Logger!Point)
    BY <1>2, CallFields DEF Logger!Series, Logger!Point
  <1>7. longer \in Seq(Logger!Point)
    BY <1>6, AppendProperties DEF Logger!Appended
  <1>. HIDE DEF longer
  <1>8. new = [k \in DOMAIN old \cup {Logger!Series(c)} |->
                  IF k = Logger!Series(c) THEN longer ELSE old[k]]
    BY <1>5
  <1>. HIDE DEF new, old
  <1>9. new \in Metrics
    <2>1. DOMAIN new = DOMAIN old \cup {Logger!Series(c)}
      BY <1>8
    <2>2. new \in [DOMAIN new -> Seq(Logger!Point)]
      BY <1>4, <1>7, <1>8, <2>1
    <2>. QED  BY <1>4, <1>6, <2>1, <2>2, MetricsAre
  <1>10. s1 \in Storage /\ s1.metrics = new /\ s1.entries = store[c.store].entries
    <2>1. Logger!Free \in Logger!Thread \cup {Logger!Free}
      OBVIOUS
    <2>2. \A l \in Logger!Thread \cup {Logger!Free}, M \in Metrics :
             LET s == store[c.store] IN
                 /\ [s EXCEPT !.lock = l, !.metrics = M] \in Storage
                 /\ [s EXCEPT !.lock = l, !.metrics = M].lock = l
                 /\ [s EXCEPT !.lock = l, !.metrics = M].metrics = M
                 /\ [s EXCEPT !.lock = l, !.metrics = M].entries = s.entries
      BY <1>4, StorageFields
    <2>. QED  BY <1>9, <2>1, <2>2, Zenon
  <1>. HIDE DEF s1
  <1>11. /\ StoreTypes' /\ Len(store') = Len(store)
         /\ store'[c.store] = s1 /\ \A j \in 1..Len(store) : j # c.store => store'[j] = store[j]
    BY <1>1, <1>2, <1>10, OneStorage
  <1>. HIDE DEF c
  <1>12. /\ t \in DOMAIN calls /\ c.next = "write" /\ store[c.store].lock = t
         /\ StoreTypes' /\ Len(store') = Len(store)
         /\ \A s \in 1..Len(store) :
                 /\ store'[s].entries = store[s].entries
                 /\ (s # c.store => store'[s] = store[s])
         /\ calls' = [calls EXCEPT ![t].next = "forward"]
    BY <1>1, <1>3, <1>10, <1>11
  <1>13. store'[c.store].metrics =
                 [k \in DOMAIN store[c.store].metrics \cup {Logger!Series(c)} |->
                     IF k = Logger!Series(c)
                     THEN Logger!Appended(c.seen, Logger!Logged(c),
                              [round |-> c.round, value |-> c.value])
                     ELSE store[c.store].metrics[k]]
    BY <1>3, <1>8, <1>10, <1>11 DEF longer, old
  <1>. QED  BY <1>12, <1>13 DEF c

LEMMA WriteTypes ==
    ASSUME StoreTypes, CallTypes, LogCore, NEW t \in Logger!Thread, Logger!Write(t)
    PROVE  /\ CallTypes' /\ DOMAIN calls' = DOMAIN calls
           /\ \A u \in DOMAIN calls : u # t => calls'[u] = calls[u]
           /\ calls'[t].next = "forward" /\ calls'[t].store = calls[t].store
           /\ calls'[t].exp = calls[t].exp /\ calls'[t].addr = calls[t].addr
           /\ calls'[t].round = calls[t].round
  <1>1. /\ calls' = [calls EXCEPT ![t].next = "forward"] /\ t \in DOMAIN calls
        /\ Len(store') = Len(store)
    BY WriteEffect
  <1>2. calls[t] \in Logger!Call /\ calls[t].store \in 1..Len(store)
    BY <1>1 DEF CallTypes
  <1>. DEFINE d == [calls[t] EXCEPT !.next = "forward"]
  <1>3. /\ d \in Logger!Call /\ d.next = "forward" /\ d.store = calls[t].store
        /\ d.exp = calls[t].exp /\ d.addr = calls[t].addr /\ d.round = calls[t].round
    BY <1>2 DEF Logger!Call
  <1>4. calls'[t] = d /\ DOMAIN calls' = DOMAIN calls
        /\ \A u \in DOMAIN calls : u # t => calls'[u] = calls[u]
    BY <1>1
  <1>. HIDE DEF d
  <1>. QED  BY <1>1, <1>2, <1>3, <1>4 DEF CallTypes

-----------------------------------------------------------------------------
\* The invariant.

\* Steps that write no metric and take no lock.
LEMMA CoreStays ==
    ASSUME StoreTypes, CallTypes, LogCore, StoreTypes',
           \A s \in 1..Len(store) :
              /\ s \in 1..Len(store')
              /\ store'[s].metrics = store[s].metrics /\ store'[s].lock = store[s].lock,
           \A s \in 1..Len(store') : s \in 1..Len(store) \/ DOMAIN store'[s].metrics = {},
           \A t \in DOMAIN calls' :
              \/ t \in DOMAIN calls /\ calls'[t] = calls[t]
              \/ calls'[t].next = "lock"
    PROVE  LogCore'
  <1>0. DOMAIN store = 1..Len(store) /\ DOMAIN store' = 1..Len(store')
    <2>1. store \in Seq(Storage) /\ store' \in Seq(Storage)
      BY DEF StoreTypes
    <2>. QED  BY <2>1, LenProperties
  <1>1. ASSUME NEW t \in DOMAIN calls', calls'[t].next # "lock"
        PROVE  /\ t \in DOMAIN calls /\ calls'[t] = calls[t]
               /\ store'[calls[t].store].metrics = store[calls[t].store].metrics
               /\ store'[calls[t].store].lock = store[calls[t].store].lock
    BY <1>1 DEF CallTypes
  <1>2. ASSUME NEW t \in DOMAIN calls', calls'[t].next # "lock"
        PROVE  /\ Logger!Logged(calls[t])' = Logger!Logged(calls[t])
               /\ (Logger!Fresh(calls[t])' <=> Logger!Fresh(calls[t]))
    BY <1>1, <1>2 DEF Logger!Logged, Logger!Fresh, Logger!Series
  <1>3. ASSUME NEW t \in DOMAIN calls', calls'[t].next # "lock"
        PROVE  Logger!Seen(calls[t])' <=> Logger!Seen(calls[t])
    BY <1>1, <1>2, <1>3 DEF Logger!Seen
  <1>4. Held'
    BY <1>1 DEF Held, LogCore
  <1>5. Noted'
    BY <1>1, <1>2, <1>3 DEF Noted, LogCore
  <1>6. Written'
    BY <1>1, <1>3 DEF Written, LogCore
  <1>7. SeriesOnce'
    BY <1>0 DEF SeriesOnce, OneValueEach, LogCore
  <1>. QED  BY <1>4, <1>5, <1>6, <1>7 DEF LogCore

LEMMA AcquireKeepsCore ==
    ASSUME StoreTypes, CallTypes, LogCore, NEW t \in Logger!Thread, Logger!Acquire(t)
    PROVE  LogCore'
  <1>1. /\ t \in DOMAIN calls /\ calls[t].next = "lock"
        /\ store[calls[t].store].lock = Logger!Free
        /\ StoreTypes' /\ Len(store') = Len(store)
        /\ store'[calls[t].store].lock = t
        /\ \A s \in 1..Len(store) :
              /\ store'[s].metrics = store[s].metrics
              /\ (s # calls[t].store => store'[s].lock = store[s].lock)
        /\ DOMAIN calls' = DOMAIN calls
        /\ \A u \in DOMAIN calls : u # t => calls'[u] = calls[u]
    BY AcquireEffect
  <1>2. /\ calls'[t].next = "write" /\ calls'[t].store = calls[t].store
        /\ calls'[t].exp = calls[t].exp /\ calls'[t].addr = calls[t].addr
        /\ calls'[t].round = calls[t].round
        /\ calls'[t].series = Logger!Logged(calls[t])
        /\ (calls'[t].seen <=> Logger!Seen(calls[t]))
        /\ (calls'[t].fresh <=> Logger!Fresh(calls[t]))
    BY AcquireTypes
  <1>3. \A u \in DOMAIN calls : u \in Logger!Thread /\ calls[u].store \in 1..Len(store)
    BY DEF CallTypes
  <1>4. DOMAIN store = 1..Len(store) /\ DOMAIN store' = 1..Len(store)
    BY <1>1, LenProperties DEF StoreTypes
  <1>5. ASSUME NEW u \in DOMAIN calls
        PROVE  /\ calls'[u].store = calls[u].store
               /\ Logger!Logged(calls[u])' = Logger!Logged(calls[u])
               /\ (Logger!Fresh(calls[u])' <=> Logger!Fresh(calls[u]))
               /\ (Logger!Seen(calls[u])' <=> Logger!Seen(calls[u]))
    <2>1. /\ calls'[u].store = calls[u].store /\ calls'[u].exp = calls[u].exp
          /\ calls'[u].addr = calls[u].addr /\ calls'[u].round = calls[u].round
      BY <1>1, <1>2
    <2>2. store'[calls[u].store].metrics = store[calls[u].store].metrics
      BY <1>1, <1>3
    <2>3. /\ Logger!Logged(calls[u])' = Logger!Logged(calls[u])
          /\ (Logger!Fresh(calls[u])' <=> Logger!Fresh(calls[u]))
      BY <2>1, <2>2 DEF Logger!Logged, Logger!Fresh, Logger!Series
    <2>. QED  BY <2>1, <2>3 DEF Logger!Seen
  <1>6. Held'
    <2>. SUFFICES ASSUME NEW u \in DOMAIN calls, calls'[u].next = "write"
                  PROVE  store'[calls'[u].store].lock = u
      BY <1>1 DEF Held
    <2>1. CASE u = t
      BY <1>1, <1>2, <2>1
    <2>2. CASE u # t
      <3>1. store[calls[u].store].lock = u /\ calls[u].next = "write"
        BY <1>1, <2>2 DEF LogCore, Held
      <3>2. calls[u].store # calls[t].store
        BY <1>1, <1>3, <3>1, ThreadsOf
      <3>. QED  BY <1>1, <1>3, <2>2, <3>1, <3>2
    <2>. QED  BY <2>1, <2>2
  <1>7. Noted'
    <2>. SUFFICES ASSUME NEW u \in DOMAIN calls, calls'[u].next = "write"
                  PROVE  /\ calls'[u].series = Logger!Logged(calls[u])'
                         /\ (calls'[u].seen <=> Logger!Seen(calls[u])')
                         /\ (calls'[u].fresh <=> Logger!Fresh(calls[u])')
      BY <1>1 DEF Noted
    <2>1. CASE u = t
      BY <1>2, <1>5, <2>1
    <2>2. CASE u # t
      <3>1. calls'[u] = calls[u] /\ calls[u].next = "write"
        BY <1>1, <2>2
      <3>. QED  BY <1>5, <3>1 DEF LogCore, Noted
    <2>. QED  BY <2>1, <2>2
  <1>8. Written'
    <2>. SUFFICES ASSUME NEW u \in DOMAIN calls, calls'[u].next = "forward"
                  PROVE  Logger!Seen(calls[u])'
      BY <1>1 DEF Written
    <2>1. u # t /\ calls[u].next = "forward"
      BY <1>1, <1>2
    <2>. QED  BY <1>5, <2>1 DEF LogCore, Written
  <1>9. SeriesOnce'
    BY <1>1, <1>4 DEF SeriesOnce, OneValueEach, LogCore
  <1>. QED  BY <1>6, <1>7, <1>8, <1>9 DEF LogCore

\* A value is added to a series that has none of its round.
LEMMA AppendedOnce ==
    ASSUME NEW series \in Seq(Logger!Point), NEW point \in Logger!Point, NEW seen \in BOOLEAN,
           OneValueEach(series), seen <=> \E i \in DOMAIN series : series[i].round = point.round
    PROVE  LET longer == Logger!Appended(seen, series, point) IN
           /\ OneValueEach(longer)
           /\ \E i \in DOMAIN longer : longer[i].round = point.round
           /\ \A i \in DOMAIN series : i \in DOMAIN longer /\ longer[i] = series[i]
  <1>1. CASE seen
    BY <1>1 DEF Logger!Appended
  <1>2. CASE ~seen
    <2>. DEFINE longer == Append(series, point)
    <2>1. /\ longer \in Seq(Logger!Point) /\ Len(longer) = Len(series) + 1
          /\ \A i \in 1..Len(series) : longer[i] = series[i]
          /\ longer[Len(series) + 1] = point
      BY AppendProperties
    <2>2. Logger!Appended(seen, series, point) = longer
      BY <1>2 DEF Logger!Appended
    <2>. HIDE DEF longer
    <2>3. /\ Len(series) \in Nat /\ DOMAIN series = 1..Len(series)
          /\ DOMAIN longer = 1..(Len(series) + 1)
      BY <2>1, LenProperties
    <2>4. \A i \in DOMAIN longer : i \in DOMAIN series \/ i = Len(series) + 1
      BY <2>3
    <2>5. \A i \in DOMAIN series : i \in DOMAIN longer /\ longer[i] = series[i]
      BY <2>1, <2>3
    <2>6. \A i \in DOMAIN series : series[i].round # point.round
      BY <1>2
    <2>7. OneValueEach(longer)
      <3>. SUFFICES ASSUME NEW i \in DOMAIN longer, NEW j \in DOMAIN longer, i # j
                    PROVE  longer[i].round # longer[j].round
        BY DEF OneValueEach
      <3>1. CASE i \in DOMAIN series /\ j \in DOMAIN series
        BY <2>5, <3>1 DEF OneValueEach
      <3>2. CASE i \in DOMAIN series /\ j = Len(series) + 1
        BY <2>1, <2>5, <2>6, <3>2
      <3>3. CASE i = Len(series) + 1 /\ j \in DOMAIN series
        BY <2>1, <2>5, <2>6, <3>3
      <3>. QED  BY <2>4, <3>1, <3>2, <3>3
    <2>8. Len(series) + 1 \in DOMAIN longer /\ longer[Len(series) + 1].round = point.round
      BY <2>1, <2>3
    <2>9. \E i \in DOMAIN longer : longer[i].round = point.round
      BY <2>8
    <2>. QED  BY <2>2, <2>5, <2>7, <2>9
  <1>. QED  BY <1>1, <1>2

LEMMA WriteKeepsCore ==
    ASSUME StoreTypes, CallTypes, LogCore, NEW t \in Logger!Thread, Logger!Write(t)
    PROVE  LogCore'
  <1>. DEFINE c == calls[t]
              key == Logger!Series(c)
              old == store[c.store].metrics
              new == store'[c.store].metrics
              before == Logger!Logged(c)
              longer == Logger!Appended(c.seen, before, [round |-> c.round, value |-> c.value])
  <1>1. /\ t \in DOMAIN calls /\ c.next = "write" /\ store[c.store].lock = t
        /\ StoreTypes' /\ Len(store') = Len(store)
        /\ \A s \in 1..Len(store) : s # c.store => store'[s] = store[s]
        /\ new = [k \in DOMAIN old \cup {key} |-> IF k = key THEN longer ELSE old[k]]
    BY WriteEffect
  <1>2. /\ DOMAIN calls' = DOMAIN calls
        /\ \A u \in DOMAIN calls : u # t => calls'[u] = calls[u]
        /\ calls'[t].next = "forward" /\ calls'[t].store = c.store
        /\ calls'[t].exp = c.exp /\ calls'[t].addr = c.addr /\ calls'[t].round = c.round
    BY WriteTypes
  <1>3. /\ c \in Logger!Call /\ c.store \in 1..Len(store)
        /\ \A u \in DOMAIN calls : calls[u].store \in 1..Len(store)
    BY <1>1 DEF CallTypes
  <1>4. DOMAIN store = 1..Len(store) /\ DOMAIN store' = 1..Len(store)
    BY <1>1, LenProperties DEF StoreTypes
  <1>5. /\ before \in Seq(Logger!Point) /\ c.seen \in BOOLEAN /\ c.round \in Int
        /\ [round |-> c.round, value |-> c.value] \in Logger!Point
    BY <1>3, ReadTypes, CallFields DEF Logger!Point
  <1>6. c.seen <=> \E i \in DOMAIN before : before[i].round = c.round
    BY <1>1 DEF LogCore, Noted, Logger!Seen
  <1>7. before = IF key \in DOMAIN old THEN old[key] ELSE <<>>
    BY DEF Logger!Logged
  <1>8. OneValueEach(before)
    <2>1. OneValueEach(<<>>)
      BY EmptySeq, LenProperties DEF OneValueEach
    <2>2. \A k \in DOMAIN old : OneValueEach(old[k])
      BY <1>3, <1>4 DEF LogCore, SeriesOnce
    <2>. QED  BY <1>7, <2>1, <2>2
  <1>9. /\ OneValueEach(longer)
        /\ \E i \in DOMAIN longer : longer[i].round = c.round
        /\ \A i \in DOMAIN before : i \in DOMAIN longer /\ longer[i] = before[i]
    <2>. DEFINE point == [round |-> c.round, value |-> c.value]
    <2>1. point.round = c.round
      OBVIOUS
    <2>. HIDE DEF point, before, c
    <2>2. c.seen <=> \E i \in DOMAIN before : before[i].round = point.round
      BY <1>6, <2>1
    <2>3. point \in Logger!Point
      BY <1>5 DEF point
    <2>4. LET l == Logger!Appended(c.seen, before, point) IN
          /\ OneValueEach(l) /\ \E i \in DOMAIN l : l[i].round = point.round
          /\ \A i \in DOMAIN before : i \in DOMAIN l /\ l[i] = before[i]
      BY <1>5, <1>8, <2>2, <2>3, AppendedOnce
    <2>. QED  BY <2>1, <2>4 DEF point
  <1>. HIDE DEF longer
  <1>10. new[key] = longer /\ \A k \in DOMAIN old : k \in DOMAIN new /\ (k # key => new[k] = old[k])
    BY <1>1
  <1>11. SeriesOnce'
    <2>. SUFFICES ASSUME NEW s \in 1..Len(store), NEW k \in DOMAIN store'[s].metrics
                  PROVE  OneValueEach(store'[s].metrics[k])
      BY <1>4 DEF SeriesOnce, OneValueEach
    <2>1. CASE s # c.store
      BY <1>1, <1>4, <2>1 DEF LogCore, SeriesOnce
    <2>2. CASE s = c.store /\ k = key
      BY <1>9, <1>10, <2>2
    <2>3. CASE s = c.store /\ k # key
      <3>1. k \in DOMAIN old /\ new[k] = old[k]
        BY <1>1, <2>3
      <3>. QED  BY <1>3, <1>4, <2>3, <3>1 DEF LogCore, SeriesOnce
    <2>. QED  BY <2>1, <2>2, <2>3
  <1>12. ASSUME NEW u \in DOMAIN calls, calls[u].next = "write", u # t
         PROVE  calls[u].store # c.store /\ store'[calls[u].store] = store[calls[u].store]
    BY <1>1, <1>3, <1>12 DEF LogCore, Held
  <1>13. Held'
    BY <1>2, <1>12 DEF LogCore, Held
  <1>14. Noted'
    <2>. SUFFICES ASSUME NEW u \in DOMAIN calls, calls'[u].next = "write"
                  PROVE  /\ calls'[u].series = Logger!Logged(calls[u])'
                         /\ (calls'[u].seen <=> Logger!Seen(calls[u])')
                         /\ (calls'[u].fresh <=> Logger!Fresh(calls[u])')
      BY <1>2 DEF Noted
    <2>1. u # t /\ calls'[u] = calls[u] /\ calls[u].next = "write"
      BY <1>2
    <2>2. store'[calls[u].store] = store[calls[u].store]
      BY <1>12, <2>1
    <2>3. /\ Logger!Logged(calls[u])' = Logger!Logged(calls[u])
          /\ (Logger!Fresh(calls[u])' <=> Logger!Fresh(calls[u]))
      BY <2>1, <2>2 DEF Logger!Logged, Logger!Fresh, Logger!Series
    <2>4. Logger!Seen(calls[u])' <=> Logger!Seen(calls[u])
      BY <2>1, <2>3 DEF Logger!Seen
    <2>. QED  BY <2>1, <2>3, <2>4 DEF LogCore, Noted
  <1>15. Written'
    <2>. SUFFICES ASSUME NEW u \in DOMAIN calls, calls'[u].next = "forward"
                  PROVE  Logger!Seen(calls[u])'
      BY <1>2 DEF Written
    <2>1. /\ calls'[u].store = calls[u].store /\ calls'[u].exp = calls[u].exp
          /\ calls'[u].addr = calls[u].addr /\ calls'[u].round = calls[u].round
      BY <1>2
    <2>2. Logger!Series(calls[u])' = Logger!Series(calls[u])
      BY <2>1 DEF Logger!Series
    <2>3. CASE calls[u].store = c.store /\ Logger!Series(calls[u]) = key
      <3>1. Logger!Logged(calls[u])' = longer
        BY <1>1, <1>10, <2>1, <2>2, <2>3 DEF Logger!Logged
      <3>2. CASE u = t
        BY <1>9, <2>1, <3>1, <3>2 DEF Logger!Seen
      <3>3. CASE u # t
        <4>1. calls[u].next = "forward" /\ Logger!Logged(calls[u]) = before
          BY <1>2, <2>3, <3>3 DEF Logger!Logged
        <4>2. \E i \in DOMAIN before : before[i].round = calls[u].round
          BY <4>1 DEF LogCore, Written, Logger!Seen
        <4>. QED  BY <1>9, <2>1, <3>1, <4>2 DEF Logger!Seen
      <3>. QED  BY <3>2, <3>3
    <2>4. CASE ~(calls[u].store = c.store /\ Logger!Series(calls[u]) = key)
      <3>1. u # t /\ calls'[u] = calls[u] /\ calls[u].next = "forward"
        BY <1>2, <2>4
      <3>2. Logger!Logged(calls[u])' = Logger!Logged(calls[u])
        <4>1. CASE calls[u].store # c.store
          BY <1>1, <1>3, <2>1, <2>2, <4>1 DEF Logger!Logged
        <4>2. CASE calls[u].store = c.store
          <5>1. Logger!Series(calls[u]) # key
            BY <2>4, <4>2
          <5>2. Logger!Series(calls[u]) \in DOMAIN new <=> Logger!Series(calls[u]) \in DOMAIN old
            BY <1>1, <5>1
          <5>. QED  BY <1>10, <2>1, <2>2, <4>2, <5>1, <5>2 DEF Logger!Logged
        <4>. QED  BY <4>1, <4>2
      <3>3. Logger!Seen(calls[u])
        BY <3>1 DEF LogCore, Written
      <3>. QED  BY <3>1, <3>2, <3>3 DEF Logger!Seen
    <2>. QED  BY <2>3, <2>4
  <1>. QED  BY <1>11, <1>13, <1>14, <1>15 DEF LogCore

\* Messages on record.  What is on record, or about to be, stays so,
LEMMA OnRecordStays ==
    ASSUME StoreTypes, StoreTypes', NEW n, NEW v, Logger!OnRecord(n, v),
           \A s \in 1..Len(store) :
              s \in 1..Len(store') /\ store[s].entries \subseteq store'[s].entries,
           \A m \in messages : m.at = "taken" =>
              m \in messages' \/ Logger!OnRecord(m.to, m.value)'
    PROVE  Logger!OnRecord(n, v)'
  <1>1. DOMAIN store = 1..Len(store) /\ DOMAIN store' = 1..Len(store')
    BY LenProperties DEF StoreTypes
  <1>2. CASE \E s \in DOMAIN store : \E e \in store[s].entries :
                e.direction = "received" /\ e.node = n /\ e.value = v
    BY <1>1, <1>2 DEF Logger!OnRecord
  <1>3. CASE \E m \in messages : m.at = "taken" /\ m.to = n /\ m.value = v
    <2>1. PICK m \in messages : m.at = "taken" /\ m.to = n /\ m.value = v
      BY <1>3
    <2>2. CASE m \in messages'
      BY <2>1, <2>2 DEF Logger!OnRecord
    <2>3. CASE Logger!OnRecord(m.to, m.value)'
      BY <2>1, <2>3
    <2>. QED  BY <2>1, <2>2, <2>3
  <1>. QED  BY <1>2, <1>3 DEF Logger!OnRecord

\* and what is new is on record.
LEMMA RecordStays ==
    ASSUME NodeTypes, StoreTypes, StoreTypes', LogRecord,
           \A s \in 1..Len(store) :
              s \in 1..Len(store') /\ store[s].entries \subseteq store'[s].entries,
           \A m \in messages : m.at = "taken" =>
              m \in messages' \/ Logger!OnRecord(m.to, m.value)',
           \A n \in LogNode : \A v \in processed'[n] :
              v \in processed[n] \/ Logger!OnRecord(n, v)',
           \A m \in messages' :
              \/ m \in messages
              \/ /\ m.to # m.value.by
                 /\ m.at \in {"running", "answered"} => Logger!OnRecord(m.to, m.value)',
           \A s \in 1..Len(store') : \A e \in store'[s].entries :
              \/ e.direction # "sent"
              \/ s \in 1..Len(store) /\ e \in store[s].entries
              \/ Logger!OnRecord(e.peer, e.value)'
    PROVE  LogRecord'
  <1>1. /\ DOMAIN store = 1..Len(store) /\ DOMAIN store' = 1..Len(store')
    BY LenProperties DEF StoreTypes
  <1>2. NotToSource'
    BY DEF LogRecord, NotToSource
  <1>3. ASSUME NEW n \in LogNode, NEW v \in processed'[n]
        PROVE  Logger!OnRecord(n, v)'
    <2>1. CASE v \in processed[n]
      <3>1. Logger!OnRecord(n, v)
        BY <2>1 DEF LogRecord, Had
      <3>. QED  BY <3>1, OnRecordStays
    <2>. QED  BY <2>1
  <1>4. ASSUME NEW m \in messages', m.at \in {"running", "answered"}
        PROVE  Logger!OnRecord(m.to, m.value)'
    <2>1. CASE m \in messages
      <3>1. Logger!OnRecord(m.to, m.value)
        BY <1>4, <2>1 DEF LogRecord, Had
      <3>. QED  BY <3>1, OnRecordStays
    <2>. QED  BY <1>4, <2>1
  <1>5. ASSUME NEW s \in 1..Len(store'), NEW e \in store'[s].entries, e.direction = "sent"
        PROVE  Logger!OnRecord(e.peer, e.value)'
    <2>1. CASE s \in 1..Len(store) /\ e \in store[s].entries
      <3>1. Logger!OnRecord(e.peer, e.value)
        BY <1>1, <1>5, <2>1 DEF LogRecord, Logger!SentWasReceived
      <3>. QED  BY <3>1, OnRecordStays
    <2>. QED  BY <1>5, <2>1
  <1>6. Had'
    BY <1>3, <1>4 DEF Had
  <1>7. Logger!SentWasReceived'
    BY <1>1, <1>5 DEF Logger!SentWasReceived
  <1>. QED  BY <1>2, <1>6, <1>7 DEF LogRecord

\* Steps that record no message and at most lose some.
LEMMA RecordKept ==
    ASSUME NodeTypes, StoreTypes, StoreTypes', LogRecord, Len(store') = Len(store),
           \A s \in 1..Len(store) : store'[s].entries = store[s].entries,
           processed' = processed, messages' \subseteq messages,
           \A m \in messages : m.at = "taken" => m \in messages'
    PROVE  LogRecord'
  BY RecordStays

\* Steps that leave the storages alone.
LEMMA StoreStays ==
    ASSUME StoreTypes, CallTypes, LogCore, store' = store,
           DOMAIN calls' \subseteq Logger!Thread, calls' \in [DOMAIN calls' -> Logger!Call],
           \A t \in DOMAIN calls' :
              /\ calls'[t].store \in 1..Len(store)
              /\ \/ t \in DOMAIN calls /\ calls'[t] = calls[t]
                 \/ calls'[t].next = "lock"
    PROVE  StoreTypes' /\ CallTypes' /\ LogCore'
  <1>1. StoreTypes'
    BY DEF StoreTypes
  <1>2. CallTypes'
    BY DEF CallTypes
  <1>3. LogCore'
    <2>1. \A s \in 1..Len(store) :
              /\ s \in 1..Len(store')
              /\ store'[s].metrics = store[s].metrics /\ store'[s].lock = store[s].lock
      OBVIOUS
    <2>2. \A s \in 1..Len(store') : s \in 1..Len(store) \/ DOMAIN store'[s].metrics = {}
      OBVIOUS
    <2>3. \A t \in DOMAIN calls' :
              \/ t \in DOMAIN calls /\ calls'[t] = calls[t]
              \/ calls'[t].next = "lock"
      OBVIOUS
    <2>. QED  BY <1>1, <2>1, <2>2, <2>3, CoreStays
  <1>. QED  BY <1>1, <1>2, <1>3

LEMMA QuietCore ==
    ASSUME LogInv, UNCHANGED <<store, calls>>
    PROVE  StoreTypes' /\ CallTypes' /\ LogCore'
  BY StoreStays DEF LogInv, CallTypes

LEMMA QuietStep ==
    ASSUME LogInv, UNCHANGED <<store, calls, messages, processed>>
    PROVE  StoreTypes' /\ CallTypes' /\ LogCore' /\ LogRecord'
  <1>1. StoreTypes' /\ CallTypes' /\ LogCore'
    BY QuietCore
  <1>. QED  BY <1>1, RecordKept DEF LogInv

LEMMA AcquireStep ==
    ASSUME LogInv, NEW t \in Logger!Thread, Logger!Acquire(t)
    PROVE  StoreTypes' /\ CallTypes' /\ LogCore' /\ LogRecord'
  <1>0. NodeTypes /\ StoreTypes /\ CallTypes /\ LogCore /\ LogRecord
    BY DEF LogInv
  <1>1. LogCore' /\ CallTypes'
    BY <1>0, AcquireKeepsCore, AcquireTypes
  <1>2. /\ StoreTypes' /\ Len(store') = Len(store)
        /\ \A s \in 1..Len(store) : store'[s].entries = store[s].entries
    BY <1>0, AcquireEffect
  <1>3. messages' = messages /\ processed' = processed
    BY DEF Logger!Acquire
  <1>4. LogRecord'
    BY <1>0, <1>2, <1>3, RecordKept
  <1>. QED  BY <1>1, <1>2, <1>4

LEMMA WriteStep ==
    ASSUME LogInv, NEW t \in Logger!Thread, Logger!Write(t)
    PROVE  StoreTypes' /\ CallTypes' /\ LogCore' /\ LogRecord'
  <1>0. NodeTypes /\ StoreTypes /\ CallTypes /\ LogCore /\ LogRecord
    BY DEF LogInv
  <1>1. LogCore' /\ CallTypes'
    BY <1>0, WriteKeepsCore, WriteTypes
  <1>2. /\ StoreTypes' /\ Len(store') = Len(store)
        /\ \A s \in 1..Len(store) : store'[s].entries = store[s].entries
    BY <1>0, WriteEffect
  <1>3. messages' = messages /\ processed' = processed
    BY DEF Logger!Write
  <1>4. LogRecord'
    BY <1>0, <1>2, <1>3, RecordKept
  <1>. QED  BY <1>1, <1>2, <1>4

LEMMA ForwardStep ==
    ASSUME LogInv, NEW t \in Logger!Thread, Logger!Forward(t)
    PROVE  StoreTypes' /\ CallTypes' /\ LogCore' /\ LogRecord'
  <1>1. store' = store /\ calls' = [u \in DOMAIN calls \ {t} |-> calls[u]]
    BY DEF Logger!Forward, Logger!Returned
  <1>2. /\ DOMAIN calls' = DOMAIN calls \ {t}
        /\ \A u \in DOMAIN calls' : u \in DOMAIN calls /\ calls'[u] = calls[u]
    BY <1>1
  <1>3. /\ messages' \subseteq messages /\ processed' = processed
        /\ \A m \in messages : m.at = "taken" => m \in messages'
    BY DEF Logger!Forward
  <1>4. StoreTypes' /\ CallTypes' /\ LogCore'
    BY <1>1, <1>2, StoreStays DEF LogInv, CallTypes
  <1>. QED  BY <1>1, <1>3, <1>4, RecordKept DEF LogInv

LEMMA EvaluateStep ==
    ASSUME LogInv, NEW n \in LogNode, Logger!Evaluate(n)
    PROVE  StoreTypes' /\ CallTypes' /\ LogCore' /\ LogRecord'
  <1>1. UNCHANGED <<store, messages, processed>>
    BY DEF Logger!Evaluate
  <1>2. NodeTypes /\ StoreTypes /\ CallTypes /\ LogCore /\ LogRecord
    BY DEF LogInv
  <1>3. CASE calls' = calls
    BY <1>1, <1>3, QuietStep
  <1>4. CASE Logger!Lookup(Logger!Learner(n), n, Logger!NotGiven, Logger!Measured(n))
    <2>1. experiment \in Nat /\ round[n] \in Nat
      BY <1>2, LoggerConstants DEF NodeTypes
    <2>2. /\ Logger!Learner(n) \in Logger!Thread /\ Logger!NotGiven \in Int
          /\ Logger!Measured(n) \in Logger!Measurement
      BY <2>1, ThreadsOf DEF Logger!NotGiven, Logger!Measured, Logger!Measurement
    <2>3. /\ DOMAIN calls' \subseteq Logger!Thread /\ calls' \in [DOMAIN calls' -> Logger!Call]
          /\ \A u \in DOMAIN calls' :
                /\ calls'[u].store \in 1..Len(store)
                /\ \/ u \in DOMAIN calls /\ calls'[u] = calls[u]
                   \/ calls'[u].next = "lock"
      BY <1>2, <1>4, <2>2, LookupEffect
    <2>4. StoreTypes' /\ CallTypes' /\ LogCore'
      BY <1>1, <1>2, <2>3, StoreStays
    <2>. QED  BY <1>1, <1>2, <2>4, RecordKept
  <1>. QED  BY <1>3, <1>4 DEF Logger!Evaluate

\* An entry is added to the storage of now.
LEMMA EntryAdded ==
    ASSUME StoreTypes, NEW e \in Logger!LogEntry, Logger!Logs(e)
    PROVE  /\ StoreTypes' /\ Len(store') = Len(store)
           /\ store'[Len(store)].entries = store[Len(store)].entries \cup {e}
           /\ \A s \in 1..Len(store) :
                 /\ store'[s].metrics = store[s].metrics /\ store'[s].lock = store[s].lock
                 /\ (s # Len(store) => store'[s] = store[s])
  <1>. DEFINE i == Len(store)
              E == store[i].entries \cup {e}
              s1 == [store[i] EXCEPT !.entries = E]
  <1>1. /\ i \in 1..Len(store) /\ store[i] \in Storage
        /\ E \in SUBSET Logger!LogEntry
    BY StorageAt, StorageFields
  <1>3. store' = [store EXCEPT ![i] = s1]
    BY DEF Logger!Logs, Logger!Current
  <1>. HIDE DEF E
  <1>2. /\ s1 \in Storage /\ s1.entries = E /\ s1.metrics = store[i].metrics
        /\ s1.lock = store[i].lock
    <2>1. \A F \in SUBSET Logger!LogEntry :
             LET s == store[i] IN
                 /\ [s EXCEPT !.entries = F] \in Storage
                 /\ [s EXCEPT !.entries = F].lock = s.lock
                 /\ [s EXCEPT !.entries = F].metrics = s.metrics
                 /\ [s EXCEPT !.entries = F].entries = F
      BY <1>1, StorageFields
    <2>. QED  BY <1>1, <2>1, Zenon
  <1>. HIDE DEF s1
  <1>4. /\ StoreTypes' /\ Len(store') = Len(store) /\ store'[i] = s1
        /\ \A j \in 1..Len(store) : j # i => store'[j] = store[j]
    BY <1>1, <1>2, <1>3, OneStorage
  <1>. QED  BY <1>2, <1>4 DEF E

\* What the moves of a message leave of the others.
LEMMA MovedEffect ==
    ASSUME NEW m \in messages, messages \subseteq Logger!Message,
           NEW at \in {"taken", "running", "answered"}
    PROVE  /\ \A k \in messages : k # m => k \in Logger!Moved(m, at)
           /\ \A k \in Logger!Moved(m, at) :
                 \/ k \in messages
                 \/ k.at = at /\ k.to = m.to /\ k.value = m.value
           /\ \E k \in Logger!Moved(m, at) : k.at = at /\ k.to = m.to /\ k.value = m.value
  <1>. DEFINE k == [m EXCEPT !.at = at]
  <1>1. k.at = at /\ k.to = m.to /\ k.value = m.value
    BY DEF Logger!Message
  <1>. HIDE DEF k
  <1>2. Logger!Moved(m, at) = (messages \ {m}) \cup {k}
    BY DEF Logger!Moved, k
  <1>. QED  BY <1>1, <1>2

LEMMA BroadcastStep ==
    ASSUME LogInv, NEW n \in LogNode, Logger!Broadcast(n)
    PROVE  StoreTypes' /\ CallTypes' /\ LogCore' /\ LogRecord'
  <1>0. NodeTypes /\ StoreTypes /\ LogRecord
    BY DEF LogInv
  <1>1. UNCHANGED <<store, calls, processed>>
    BY DEF Logger!Broadcast
  <1>2. messages \subseteq messages'
    BY DEF Logger!Broadcast
  <1>3. \A m \in messages' : m \in messages \/ (m.to # m.value.by /\ m.at = "sent")
    BY DEF Logger!Broadcast, Logger!Sending, Logger!Measured
  <1>4. StoreTypes' /\ CallTypes' /\ LogCore'
    BY <1>1, QuietCore
  <1>5. LogRecord'
    BY <1>0, <1>1, <1>2, <1>3, <1>4, RecordStays
  <1>. QED  BY <1>4, <1>5

LEMMA StartStep ==
    ASSUME LogInv, Logger!Start
    PROVE  StoreTypes' /\ CallTypes' /\ LogCore' /\ LogRecord'
  <1>0. NodeTypes /\ StoreTypes /\ LogRecord
    BY DEF LogInv
  <1>1. UNCHANGED <<store, calls, messages>> /\ processed' = [n \in LogNode |-> {}]
    BY DEF Logger!Start
  <1>2. StoreTypes' /\ CallTypes' /\ LogCore'
    BY <1>1, QuietCore
  <1>3. LogRecord'
    BY <1>0, <1>1, <1>2, RecordStays
  <1>. QED  BY <1>2, <1>3

LEMMA LostStep ==
    ASSUME LogInv, NEW m \in messages, Logger!Lost(m)
    PROVE  StoreTypes' /\ CallTypes' /\ LogCore' /\ LogRecord'
  <1>1. /\ UNCHANGED <<store, calls, processed>> /\ messages' = messages \ {m}
        /\ m.at \in {"sent", "answered"}
    BY DEF Logger!Lost
  <1>2. StoreTypes' /\ CallTypes' /\ LogCore'
    BY <1>1, QuietCore
  <1>. QED  BY <1>1, <1>2, RecordKept DEF LogInv

\* A message that a node had before was on record; another is so while it is taken.
LEMMA ArriveStep ==
    ASSUME LogInv, NEW m \in messages, Logger!Arrive(m)
    PROVE  StoreTypes' /\ CallTypes' /\ LogCore' /\ LogRecord'
  <1>0. NodeTypes /\ StoreTypes /\ LogRecord
    BY DEF LogInv
  <1>1. /\ messages \subseteq Logger!Message /\ m.to \in LogNode /\ m.to # m.value.by
        /\ processed \in [LogNode -> SUBSET Logger!Measurement]
    BY <1>0 DEF NodeTypes, Logger!Message, LogRecord, NotToSource
  <1>2. UNCHANGED <<store, calls>> /\ m.at = "sent"
    BY DEF Logger!Arrive
  <1>3. StoreTypes' /\ CallTypes' /\ LogCore'
    BY <1>2, QuietCore
  <1>4. CASE m.value \in processed[m.to]
    <2>1. messages' = Logger!Moved(m, "answered") /\ processed' = processed
      BY <1>4 DEF Logger!Arrive
    <2>2. /\ \A k \in messages : k # m => k \in messages'
          /\ \A k \in messages' :
                k \in messages \/ (k.at = "answered" /\ k.to = m.to /\ k.value = m.value)
      BY <1>1, <2>1, MovedEffect
    <2>3. Logger!OnRecord(m.to, m.value)
      BY <1>0, <1>1, <1>4 DEF LogRecord, Had
    <2>4. \A k \in messages : k.at = "taken" => k \in messages'
      BY <1>2, <2>2
    <2>5. Logger!OnRecord(m.to, m.value)'
      BY <1>0, <1>2, <1>3, <2>3, <2>4, OnRecordStays
    <2>6. \A k \in messages' :
              \/ k \in messages
              \/ k.to # k.value.by /\ Logger!OnRecord(k.to, k.value)'
      BY <1>1, <2>2, <2>5
    <2>7. LogRecord'
      BY <1>0, <1>2, <1>3, <2>1, <2>4, <2>6, RecordStays
    <2>. QED  BY <1>3, <2>7
  <1>5. CASE m.value \notin processed[m.to]
    <2>1. /\ messages' = Logger!Moved(m, "taken")
          /\ processed' = [processed EXCEPT ![m.to] = @ \cup {m.value}]
      BY <1>1, <1>5 DEF Logger!Arrive
    <2>2. /\ \A k \in messages : k # m => k \in messages'
          /\ \A k \in messages' :
                k \in messages \/ (k.at = "taken" /\ k.to = m.to /\ k.value = m.value)
          /\ \E k \in messages' : k.at = "taken" /\ k.to = m.to /\ k.value = m.value
      BY <1>1, <2>1, MovedEffect
    <2>3. Logger!OnRecord(m.to, m.value)'
      BY <2>2 DEF Logger!OnRecord
    <2>4. \A k \in messages : k.at = "taken" => k \in messages'
      BY <1>2, <2>2
    <2>5. \A n \in LogNode : \A v \in processed'[n] :
              v \in processed[n] \/ Logger!OnRecord(n, v)'
      <3>1. \A n \in LogNode : \A v \in processed'[n] :
                v \in processed[n] \/ (n = m.to /\ v = m.value)
        BY <1>1, <2>1
      <3>. QED  BY <2>3, <3>1
    <2>6. \A k \in messages' : k \in messages \/ (k.to # k.value.by /\ k.at = "taken")
      BY <1>1, <2>2
    <2>7. LogRecord'
      BY <1>0, <1>2, <1>3, <2>4, <2>5, <2>6, RecordStays
    <2>. QED  BY <1>3, <2>7
  <1>. QED  BY <1>4, <1>5

LEMMA ReceiveStep ==
    ASSUME LogInv, NEW m \in messages, Logger!Receive(m)
    PROVE  StoreTypes' /\ CallTypes' /\ LogCore' /\ LogRecord'
  <1>0. NodeTypes /\ StoreTypes /\ CallTypes /\ LogCore /\ LogRecord
    BY DEF LogInv
  <1>1. /\ messages \subseteq Logger!Message /\ m.to \in LogNode /\ m.round \in Int
        /\ m.value \in Logger!Measurement /\ m.value.by \in LogNode /\ m.to # m.value.by
    BY <1>0 DEF NodeTypes, Logger!Message, Logger!Measurement, LogRecord, NotToSource
  <1>. DEFINE e == [direction |-> "received", node |-> m.to, peer |-> m.value.by,
                    value |-> m.value, round |-> m.round]
  <1>2. /\ Logger!Logs(e) /\ messages' = Logger!Moved(m, "running") /\ processed' = processed
        /\ Logger!Lookup(Logger!Receiver(m.to), m.value.by, m.round, m.value)
    BY DEF Logger!Receive
  <1>3. /\ DOMAIN calls' \subseteq Logger!Thread /\ calls' \in [DOMAIN calls' -> Logger!Call]
        /\ \A u \in DOMAIN calls' :
              /\ calls'[u].store \in 1..Len(store)
              /\ \/ u \in DOMAIN calls /\ calls'[u] = calls[u]
                 \/ calls'[u].next = "lock"
    BY <1>0, <1>1, <1>2, LookupEffect, ThreadsOf
  <1>4. /\ e \in Logger!LogEntry /\ e.direction = "received" /\ e.node = m.to
        /\ e.value = m.value
    BY <1>1 DEF Logger!LogEntry
  <1>. HIDE DEF e
  <1>5. Len(store) \in 1..Len(store)
    BY <1>0, StorageAt
  <1>6. /\ StoreTypes' /\ Len(store') = Len(store)
        /\ store'[Len(store)].entries = store[Len(store)].entries \cup {e}
        /\ \A s \in 1..Len(store) :
              /\ store'[s].metrics = store[s].metrics /\ store'[s].lock = store[s].lock
              /\ (s # Len(store) => store'[s] = store[s])
    BY <1>0, <1>2, <1>4, EntryAdded
  <1>7. LogCore' /\ CallTypes'
    BY <1>0, <1>3, <1>6, CoreStays DEF CallTypes
  <1>8. Logger!OnRecord(m.to, m.value)'
    <2>1. Len(store) \in DOMAIN store' /\ e \in store'[Len(store)].entries
      BY <1>5, <1>6, LenProperties DEF StoreTypes
    <2>. QED  BY <1>4, <2>1 DEF Logger!OnRecord
  <1>9. LogRecord'
    <2>1. \A s \in 1..Len(store) : store[s].entries \subseteq store'[s].entries
      BY <1>6
    <2>2. \A s \in 1..Len(store') : \A x \in store'[s].entries :
              x.direction # "sent" \/ (s \in 1..Len(store) /\ x \in store[s].entries)
      BY <1>4, <1>6
    <2>3. /\ \A k \in messages : k # m => k \in messages'
          /\ \A k \in messages' :
                k \in messages \/ (k.at = "running" /\ k.to = m.to /\ k.value = m.value)
      BY <1>1, <1>2, MovedEffect
    <2>4. \A k \in messages : k \in messages' \/ Logger!OnRecord(k.to, k.value)'
      BY <1>8, <2>3
    <2>5. \A k \in messages' :
              \/ k \in messages
              \/ k.to # k.value.by /\ Logger!OnRecord(k.to, k.value)'
      BY <1>1, <1>8, <2>3
    <2>. QED  BY <1>0, <1>2, <1>6, <2>1, <2>2, <2>4, <2>5, RecordStays
  <1>. QED  BY <1>6, <1>7, <1>9

LEMMA AnswerStep ==
    ASSUME LogInv, NEW m \in messages, Logger!Answer(m)
    PROVE  StoreTypes' /\ CallTypes' /\ LogCore' /\ LogRecord'
  <1>0. NodeTypes /\ StoreTypes /\ LogRecord
    BY DEF LogInv
  <1>1. /\ messages \subseteq Logger!Message /\ m.to # m.value.by
        /\ Logger!OnRecord(m.to, m.value)
    BY <1>0 DEF NodeTypes, LogRecord, NotToSource, Had, Logger!Answer
  <1>2. UNCHANGED <<store, calls, processed>> /\ m.at = "running"
    BY DEF Logger!Answer
  <1>3. PICK others \in {{}, running \ {m.to, m.value.by}} :
            messages' = Logger!Moved(m, "answered")
                            \cup Logger!Sending(m.to, others, m.value, m.round)
    BY DEF Logger!Answer
  <1>4. \A k \in Logger!Sending(m.to, others, m.value, m.round) :
            k.at = "sent" /\ k.to # k.value.by
    BY <1>3 DEF Logger!Sending
  <1>5. /\ \A k \in messages : k # m => k \in messages'
        /\ \A k \in messages' :
              \/ k \in messages
              \/ k.at = "answered" /\ k.to = m.to /\ k.value = m.value
              \/ k.at = "sent" /\ k.to # k.value.by
    BY <1>1, <1>3, <1>4, MovedEffect
  <1>6. StoreTypes' /\ CallTypes' /\ LogCore'
    BY <1>2, QuietCore
  <1>7. \A k \in messages : k.at = "taken" => k \in messages'
    BY <1>2, <1>5
  <1>8. Logger!OnRecord(m.to, m.value)'
    BY <1>0, <1>1, <1>2, <1>6, <1>7, OnRecordStays
  <1>9. \A k \in messages' :
            \/ k \in messages
            \/ /\ k.to # k.value.by
               /\ k.at \in {"running", "answered"} => Logger!OnRecord(k.to, k.value)'
    BY <1>1, <1>5, <1>8
  <1>10. LogRecord'
    BY <1>0, <1>2, <1>6, <1>7, <1>9, RecordStays
  <1>. QED  BY <1>6, <1>10

LEMMA SentStep ==
    ASSUME LogInv, NEW m \in messages, Logger!Sent(m)
    PROVE  StoreTypes' /\ CallTypes' /\ LogCore' /\ LogRecord'
  <1>0. NodeTypes /\ StoreTypes /\ CallTypes /\ LogCore /\ LogRecord
    BY DEF LogInv
  <1>1. m \in Logger!Message /\ Logger!OnRecord(m.to, m.value)
    BY <1>0 DEF NodeTypes, LogRecord, Had, Logger!Sent
  <1>. DEFINE e == [direction |-> "sent", node |-> m.from, peer |-> m.to, value |-> m.value,
                    round |-> m.round]
  <1>2. /\ Logger!Logs(e) /\ UNCHANGED <<calls, processed>> /\ messages' = messages \ {m}
        /\ m.at = "answered"
    BY DEF Logger!Sent
  <1>3. e \in Logger!LogEntry /\ e.peer = m.to /\ e.value = m.value
    BY <1>1 DEF Logger!LogEntry, Logger!Message
  <1>. HIDE DEF e
  <1>4. /\ StoreTypes' /\ Len(store') = Len(store)
        /\ store'[Len(store)].entries = store[Len(store)].entries \cup {e}
        /\ \A s \in 1..Len(store) :
              /\ store'[s].metrics = store[s].metrics /\ store'[s].lock = store[s].lock
              /\ (s # Len(store) => store'[s] = store[s])
    BY <1>0, <1>2, <1>3, EntryAdded
  <1>5. LogCore' /\ CallTypes'
    BY <1>0, <1>2, <1>4, CoreStays DEF CallTypes
  <1>6. /\ \A s \in 1..Len(store) : store[s].entries \subseteq store'[s].entries
        /\ \A k \in messages : k.at = "taken" => k \in messages'
    BY <1>2, <1>4
  <1>7. Logger!OnRecord(m.to, m.value)'
    BY <1>0, <1>1, <1>4, <1>6, OnRecordStays
  <1>8. \A s \in 1..Len(store') : \A x \in store'[s].entries :
            \/ s \in 1..Len(store) /\ x \in store[s].entries
            \/ Logger!OnRecord(x.peer, x.value)'
    <2>1. \A s \in 1..Len(store') : \A x \in store'[s].entries :
              (s \in 1..Len(store) /\ x \in store[s].entries) \/ x = e
      BY <1>4
    <2>. QED  BY <1>3, <1>7, <2>1
  <1>9. LogRecord'
    BY <1>0, <1>2, <1>4, <1>6, <1>8, RecordStays
  <1>. QED  BY <1>4, <1>5, <1>9

LEMMA NoMetrics == <<>> \in Metrics /\ DOMAIN <<>> = {}
  <1>1. <<>> \in Seq(Logger!Point) /\ Len(<<>>) = 0
    BY EmptySeq
  <1>2. DOMAIN <<>> = {} /\ <<>> \in [{} -> Seq(Logger!Point)]
    BY <1>1
  <1>. QED  BY <1>2, MetricsAre

LEMMA ResetStep ==
    ASSUME LogInv, Logger!Reset
    PROVE  StoreTypes' /\ CallTypes' /\ LogCore' /\ LogRecord'
  <1>0. NodeTypes /\ StoreTypes /\ CallTypes /\ LogCore /\ LogRecord
    BY DEF LogInv
  <1>1. store' = Append(store, Logger!Empty) /\ calls' = calls
    BY DEF Logger!Reset
  <1>2. /\ Logger!Empty \in Storage /\ DOMAIN Logger!Empty.metrics = {}
        /\ Logger!Empty.entries = {}
    BY NoMetrics DEF Logger!Empty, Storage
  <1>3. /\ store' \in Seq(Storage) /\ Len(store') = Len(store) + 1
        /\ \A s \in 1..Len(store) : store'[s] = store[s]
        /\ store'[Len(store) + 1] = Logger!Empty
    BY <1>0, <1>1, <1>2, AppendProperties DEF StoreTypes
  <1>4. Len(store) \in Nat
    BY <1>0, StorageAt
  <1>5. \A s \in 1..Len(store') : s \in 1..Len(store) \/ s = Len(store) + 1
    BY <1>3, <1>4
  <1>6. StoreTypes'
    BY <1>3, <1>4 DEF StoreTypes
  <1>7. \A s \in 1..Len(store) : s \in 1..Len(store')
    BY <1>3, <1>4
  <1>8. LogCore'
    <2>1. \A s \in 1..Len(store') : s \in 1..Len(store) \/ DOMAIN store'[s].metrics = {}
      BY <1>2, <1>3, <1>5
    <2>. QED  BY <1>0, <1>1, <1>3, <1>6, <1>7, <2>1, CoreStays
  <1>9. LogRecord'
    <2>1. \A s \in 1..Len(store') : \A x \in store'[s].entries :
              s \in 1..Len(store) /\ x \in store[s].entries
      BY <1>2, <1>3, <1>5
    <2>2. messages' = messages /\ processed' = processed
      BY DEF Logger!Reset
    <2>. QED  BY <1>0, <1>3, <1>6, <1>7, <2>1, <2>2, RecordStays
  <1>. QED  BY <1>0, <1>1, <1>6, <1>7, <1>8, <1>9 DEF CallTypes

LEMMA LogInit == Logger!Init => LogInv
  <1>. SUFFICES ASSUME Logger!Init
                PROVE  LogInv
    OBVIOUS
  <1>1. NodeTypes
    BY ExperimentsAreNumbers DEF Logger!Init, NodeTypes, Logger!Steps
  <1>2. store = <<Logger!Empty>> /\ calls = <<>>
    BY DEF Logger!Init
  <1>3. /\ Logger!Empty \in Storage /\ DOMAIN Logger!Empty.metrics = {}
        /\ Logger!Empty.entries = {}
    BY NoMetrics DEF Logger!Empty, Storage
  <1>4. /\ store \in Seq(Storage) /\ Len(store) = 1 /\ DOMAIN store = 1..1
        /\ store[1] = Logger!Empty
    BY <1>2, <1>3
  <1>5. DOMAIN calls = {}
    BY <1>2, EmptySeq, LenProperties
  <1>6. StoreTypes /\ CallTypes
    BY <1>4, <1>5 DEF StoreTypes, CallTypes
  <1>7. LogCore
    BY <1>3, <1>4, <1>5 DEF LogCore, Held, Noted, SeriesOnce, Written
  <1>8. LogRecord
    BY <1>3, <1>4 DEF LogRecord, NotToSource, Had, Logger!SentWasReceived, Logger!Init
  <1>. QED  BY <1>1, <1>6, <1>7, <1>8 DEF LogInv

LEMMA LogNext == LogInv /\ [Logger!Next]_(Logger!vars) => LogInv'
  <1>. SUFFICES ASSUME LogInv, [Logger!Next]_(Logger!vars)
                PROVE  StoreTypes' /\ CallTypes' /\ LogCore' /\ LogRecord'
    BY NodeTypesStep DEF LogInv
  <1>1. ASSUME NEW n \in LogNode,
               \/ Logger!SetExperiment(n) \/ Logger!IncreaseRound(n)
               \/ Logger!Finish(n) \/ Logger!StopLearning(n) \/ Logger!Stop(n)
        PROVE  UNCHANGED <<store, calls, messages, processed>>
    BY <1>1 DEF Logger!SetExperiment, Logger!IncreaseRound,
                Logger!Finish, Logger!StopLearning, Logger!Stop
  <1>2. ASSUME Logger!StartLearning \/ UNCHANGED Logger!vars
        PROVE  UNCHANGED <<store, calls, messages, processed>>
    BY <1>2 DEF Logger!StartLearning, Logger!vars
  <1>. QED  BY <1>1, <1>2, QuietStep, AcquireStep, WriteStep, ForwardStep, EvaluateStep,
               BroadcastStep, StartStep, ArriveStep, ReceiveStep, AnswerStep, SentStep, LostStep,
               ResetStep DEF Logger!Next

\* The types that the module states are among those of the invariant.
LEMMA LoggerTypes == LogInv => Logger!TypeOK
  <1>. SUFFICES ASSUME LogInv
                PROVE  Logger!TypeOK
    OBVIOUS
  <1>1. NodeTypes /\ StoreTypes /\ CallTypes
    BY DEF LogInv
  <1>2. DOMAIN store = 1..Len(store) /\ store # <<>> /\ Len(store) \in Nat
    BY <1>1, StorageAt, EmptySeq DEF StoreTypes
  <1>3. ASSUME NEW s \in DOMAIN store
        PROVE  \E M \in SUBSET (Logger!Experiment \X LogNode) :
                  /\ store[s].lock \in Logger!Thread \cup {Logger!Free}
                  /\ store[s].entries \subseteq Logger!LogEntry
                  /\ store[s].metrics \in [M -> Seq(Logger!Point)]
    <2>1. store[s] \in Storage
      BY <1>1, <1>2, StorageAt
    <2>. QED  BY <2>1, StorageFields, MetricsAre
  <1>4. calls \in [DOMAIN calls -> Logger!Call]
    BY <1>1 DEF CallTypes
  <1>5. \A t \in DOMAIN calls : calls[t].store <= Logger!Current
    BY <1>1, <1>2 DEF CallTypes, Logger!Current
  <1>. QED  BY <1>1, <1>2, <1>3, <1>4, <1>5 DEF Logger!TypeOK, NodeTypes, CallTypes

LEMMA LogIsExactThen == LogInv => LogIsExact
  <1>. SUFFICES ASSUME LogInv
                PROVE  LogIsExact
    OBVIOUS
  <1>1. Logger!OncePerRound
    BY DEF LogInv, LogCore, SeriesOnce, OneValueEach, Written, Logger!OncePerRound
  <1>. QED  BY <1>1 DEF LogIsExact, LogInv, LogRecord

\* The inductive invariant of the logger: who writes holds the lock of its storage, and
\* what it read of the series before still holds.
THEOREM LoggerInvariance == Logger!Spec => []LogInv
  BY LogInit, LogNext, PTL DEF Logger!Spec

\* Every variable of the logger keeps its type.
THEOREM LoggerTypeCorrect == Logger!Spec => []Logger!TypeOK
  BY LoggerInvariance, LoggerTypes, PTL

\* However many threads log, of whatever experiments, with relays, nodes that stop,
\* services that do not answer and resets in between: a storage has one value of a metric
\* for each round, that of every call that is past the lock is among them, and the
\* receiver of a message on record as sent has it on record as received, or is about to
\* (add_log of metric_storage.py, send of server.py).
THEOREM LogsAreExact == Logger!Spec => []LogIsExact
  BY LoggerInvariance, LogIsExactThen, PTL
=============================================================================
