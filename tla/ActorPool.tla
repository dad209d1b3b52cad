------------------------------ MODULE ActorPool ------------------------------
(***************************************************************************)
(* SuperActorPool, the pool of Ray actors that the virtual nodes of a       *)
(* simulation share, and VirtualNodeLearner, whose fit and evaluate submit  *)
(* a job to it and wait for the answer.  The thread of each node drives the *)
(* pool while it waits: it takes finished jobs of any node off the pool and *)
(* hands their actors on.  It reads the dictionaries without the lock.      *)
(***************************************************************************)
EXTENDS Naturals, Sequences, FiniteSets

CONSTANTS
    Node,
    Actor,
    Jobs,       \* BOUND: jobs of a node, one after the other
    Loads       \* BOUND: what a simulation may ask of the pool, records of the jobs of
                \* each node and of how many jobs raise and actors die, together

Nobody == "nobody"

ASSUME PoolAssumption ==
    /\ IsFiniteSet(Actor) /\ Nobody \notin Node
    /\ Jobs \in Nat
    /\ \A l \in Loads : l.jobs \in [Node -> 0..Jobs] /\ l.faults \in Nat

VARIABLES
    load,      \* the load of this simulation
    idle,      \* _idle_actors, taken from the end
    futures,   \* _future_to_actor
    pending,   \* _pending_submits: nodes whose job waits for an actor
    entry,     \* _addr_to_future; future is the one of the job, or nothing
    flagged,   \* actor_to_remove
    count,     \* num_actors
    outcome,   \* of the jobs that an actor got (Ray)
    dead,      \* actors that died (Ray)
    pc,        \* what the thread of a node does
    job,       \* jobs it has submitted
    snapshot,  \* futures it passes to ray.wait
    picked,    \* the future it found finished, or nothing
    holder,    \* who holds the lock
    answered   \* the job whose answer the node got last

vars == <<load, idle, futures, pending, entry, flagged, count, outcome, dead,
          pc, job, snapshot, picked, holder, answered>>

Task == Node \X (1..Jobs)
Future == [task : Task, actor : Actor]
Faults == Cardinality(dead) + Cardinality({t \in Task : outcome[t] = "error"})
Distinct(s) == \A i, j \in DOMAIN s : s[i] = s[j] => i = j
Orders == {s \in [1..Cardinality(Actor) -> Actor] : Distinct(s)}

Init ==
    /\ load \in Loads
    /\ idle \in Orders
    /\ futures = {} /\ pending = <<>>
    /\ entry = [n \in Node |-> [future |-> {}, ready |-> FALSE]]
    /\ flagged = {} /\ count = Cardinality(Actor)
    /\ outcome = [t \in Task |-> "none"] /\ dead = {}
    /\ pc = [n \in Node |-> "idle"] /\ job = [n \in Node |-> 0]
    /\ snapshot = [n \in Node |-> {}] /\ picked = [n \in Node |-> {}]
    /\ holder = Nobody
    /\ answered = [n \in Node |-> 0]

Goto(n, step) == pc' = [pc EXCEPT ![n] = step]
Free == holder = Nobody
HasNext == futures # {}

\* _reset_addr_to_future_dict.  (Mutated form: the old future stays.)
ResetReady(n) == [entry EXCEPT ![n].ready = FALSE]
Reset(n) == [entry EXCEPT ![n] = [future |-> {}, ready |-> FALSE]]

-----------------------------------------------------------------------------
(* The steps of the threads. *)

\* submit: job k of node m gets the last of the actors that are idle.  An actor that
\* was flagged leaves the pool instead, and the job is dropped.
Submit(m, k, actors, entries) ==
    LET actor == actors[Len(actors)] IN
    /\ idle' = SubSeq(actors, 1, Len(actors) - 1)
    /\ IF actor \in flagged
       THEN /\ flagged' = flagged \ {actor} /\ count' = count - 1
            /\ entry' = entries
            /\ UNCHANGED <<futures, outcome>>
       ELSE /\ futures' = futures \cup {[task |-> <<m, k>>, actor |-> actor]}
            /\ entry' = [entries EXCEPT ![m].future = {[task |-> <<m, k>>, actor |-> actor]}]
            /\ outcome' = [outcome EXCEPT ![<<m, k>>] = IF actor \in dead THEN "died" ELSE "running"]
            /\ UNCHANGED <<flagged, count>>

SubmitLearnerJob(n) ==
    /\ pc[n] = "idle" /\ job[n] < load.jobs[n] /\ Free
    /\ job' = [job EXCEPT ![n] = @ + 1]
    /\ \/ /\ idle = <<>>
          /\ pending' = Append(pending, n) /\ entry' = Reset(n)
          /\ UNCHANGED <<idle, futures, flagged, count, outcome>>
       \/ /\ idle # <<>>
          /\ Submit(n, job[n] + 1, idle, Reset(n))
          /\ UNCHANGED pending
    /\ Goto(n, "check")
    /\ UNCHANGED <<load, dead, snapshot, picked, holder, answered>>

\* The loop of get_learner_result,
Check(n) ==
    /\ pc[n] = "check"
    /\ Goto(n, IF HasNext /\ ~entry[n].ready THEN "again" ELSE "fetch")
    /\ UNCHANGED <<load, idle, futures, pending, entry, flagged, count, outcome, dead, job, snapshot, picked, holder, answered>>

\* the test of process_unordered_future,
CheckAgain(n) ==
    /\ pc[n] = "again"
    /\ Goto(n, IF HasNext THEN "list" ELSE "fetch")
    /\ UNCHANGED <<load, idle, futures, pending, entry, flagged, count, outcome, dead, job, snapshot, picked, holder, answered>>

\* and its list, which ray.wait refuses when it is empty.
ListFutures(n) ==
    /\ pc[n] = "list"
    /\ snapshot' = [snapshot EXCEPT ![n] = futures]
    /\ Goto(n, IF HasNext THEN "wait" ELSE "failed")
    /\ UNCHANGED <<load, idle, futures, pending, entry, flagged, count, outcome, dead, job, picked, holder, answered>>

WaitAny(n) ==
    /\ pc[n] = "wait"
    /\ \E f \in snapshot[n] :
          /\ outcome[f.task] # "running"
          /\ picked' = [picked EXCEPT ![n] = {f}]
    /\ snapshot' = [snapshot EXCEPT ![n] = {}]
    /\ Goto(n, "pop")
    /\ UNCHANGED <<load, idle, futures, pending, entry, flagged, count, outcome, dead, job, holder, answered>>

\* Under the lock: the future is taken off, unless another thread was first,
Pop(n) ==
    /\ pc[n] = "pop" /\ Free
    /\ \/ /\ picked[n] \subseteq futures
          /\ futures' = futures \ picked[n]
          /\ holder' = n /\ Goto(n, "return") /\ UNCHANGED picked
       \/ /\ ~(picked[n] \subseteq futures)
          /\ Goto(n, "check") /\ picked' = [picked EXCEPT ![n] = {}]
          /\ UNCHANGED <<futures, holder>>
    /\ UNCHANGED <<load, idle, pending, entry, flagged, count, outcome, dead, job, snapshot, answered>>

\* its actor goes back to the idle ones, or to the next job.  (Mutated form: the jobs
\* that wait are left for the next submit.)
HandOnLater(actor) ==
    /\ idle' = Append(idle, actor)
    /\ UNCHANGED <<futures, pending, entry, flagged, count, outcome>>
HandOn(actor) ==
    \/ /\ pending = <<>>
       /\ idle' = Append(idle, actor)
       /\ UNCHANGED <<futures, pending, entry, flagged, count, outcome>>
    \/ /\ pending # <<>>
       /\ LET m == Head(pending) IN Submit(m, job[m], Append(idle, actor), entry)
       /\ pending' = Tail(pending)

\* (Mutated form: an actor that leaves the pool is still counted.)
LeaveCounted(actor) == flagged' = flagged \ {actor} /\ UNCHANGED count
Leave(actor) == flagged' = flagged \ {actor} /\ count' = count - 1

ReturnActor(n) ==
    /\ pc[n] = "return"
    /\ \E f \in picked[n] :
          \/ f.actor \notin flagged /\ HandOn(f.actor)
          \/ /\ f.actor \in flagged /\ Leave(f.actor)
             /\ UNCHANGED <<idle, futures, pending, entry, outcome>>
    /\ Goto(n, "flag")
    /\ UNCHANGED <<load, dead, job, snapshot, picked, holder, answered>>

\* and the node of the job is told.
FlagFutureAsReady(n) ==
    /\ pc[n] = "flag"
    /\ \E f \in picked[n] : entry' = [entry EXCEPT ![f.task[1]].ready = TRUE]
    /\ picked' = [picked EXCEPT ![n] = {}]
    /\ holder' = Nobody
    /\ Goto(n, "check")
    /\ UNCHANGED <<load, idle, futures, pending, flagged, count, outcome, dead, job, snapshot, answered>>

\* _fetch_future_result raises without a future, and when the job raised or its actor
\* died; the exception ends the learning of the node.
FetchFutureResult(n) ==
    /\ pc[n] = "fetch"
    /\ \/ \E f \in entry[n].future :
             /\ outcome[f.task] = "ok"
             /\ answered' = [answered EXCEPT ![n] = f.task[2]]
             /\ entry' = Reset(n)
             /\ Goto(n, "idle") /\ UNCHANGED flagged
       \/ /\ entry[n].future = {} \/ \E f \in entry[n].future : outcome[f.task] = "error"
          /\ Goto(n, "failed") /\ UNCHANGED <<answered, entry, flagged>>
       \/ \E f \in entry[n].future :
             /\ outcome[f.task] = "died" /\ Free
             /\ flagged' = flagged \cup {f.actor}
             /\ Goto(n, "failed") /\ UNCHANGED <<answered, entry>>
    /\ UNCHANGED <<load, idle, futures, pending, count, outcome, dead, job, snapshot, picked, holder>>

-----------------------------------------------------------------------------
(* Ray. *)

Running(f) == f \in futures /\ outcome[f.task] = "running"

Succeed(f) ==
    /\ Running(f)
    /\ outcome' = [outcome EXCEPT ![f.task] = "ok"]
    /\ UNCHANGED <<load, idle, futures, pending, entry, flagged, count, dead, pc, job, snapshot, picked, holder, answered>>

Raise(f) ==
    /\ Running(f) /\ Faults < load.faults
    /\ outcome' = [outcome EXCEPT ![f.task] = "error"]
    /\ UNCHANGED <<load, idle, futures, pending, entry, flagged, count, dead, pc, job, snapshot, picked, holder, answered>>

Die(a) ==
    /\ a \notin dead /\ Faults < load.faults
    /\ dead' = dead \cup {a}
    /\ outcome' = [t \in Task |-> IF \E f \in futures : Running(f) /\ f.task = t /\ f.actor = a
                                  THEN "died" ELSE outcome[t]]
    /\ UNCHANGED <<load, idle, futures, pending, entry, flagged, count, pc, job, snapshot, picked, holder, answered>>
-----------------------------------------------------------------------------
ThreadStep(n) ==
    \/ SubmitLearnerJob(n) \/ Check(n) \/ CheckAgain(n) \/ ListFutures(n) \/ WaitAny(n)
    \/ Pop(n) \/ ReturnActor(n) \/ FlagFutureAsReady(n) \/ FetchFutureResult(n)

Next ==
    \/ \E n \in Node : ThreadStep(n)
    \/ \E f \in futures : Succeed(f) \/ Raise(f)
    \/ \E a \in Actor : Die(a)

Spec == Init /\ [][Next]_vars

-----------------------------------------------------------------------------
TypeOK ==
    /\ load \in Loads
    /\ idle \in Seq(Actor)
    /\ futures \subseteq Future
    /\ pending \in Seq(Node)
    /\ entry \in [Node -> [future : SUBSET Future, ready : BOOLEAN]]
    /\ flagged \subseteq Actor /\ dead \subseteq Actor /\ count \in 0..Cardinality(Actor)
    /\ outcome \in [Task -> {"none", "running", "ok", "error", "died"}]
    /\ pc \in [Node -> {"idle", "check", "again", "list", "wait", "pop", "return", "flag", "fetch", "failed"}]
    /\ job \in [Node -> 0..Jobs] /\ answered \in [Node -> 0..Jobs]
    /\ snapshot \in [Node -> SUBSET Future] /\ picked \in [Node -> SUBSET Future]
    /\ holder \in Node \cup {Nobody}

\* A node that goes on got the answer of the job it asked for, not that of an earlier
\* one, although other threads write its entry (actor_pool.py:289 asserts the node).
AnswerIsOwn == \A n \in Node : pc[n] = "idle" => answered[n] = job[n]

\* While the lock is free every actor the pool counts is idle or has one job, and no
\* actor has two, whatever fails and whoever takes a future off (num_actors).
Busy == {f.actor : f \in futures}
Idle == {idle[i] : i \in DOMAIN idle}
ActorsAccounted ==
    /\ \A f, g \in futures : f.actor = g.actor => f = g
    /\ Distinct(idle) /\ Idle \cap Busy = {}
    /\ Free => count = Cardinality(Idle \cup Busy)

\* No job waits while an actor is idle and the lock is free.
WorkConserving == Free /\ pending # <<>> => idle = <<>>

\* Every actor is idle or has one job, and no job waits while one is idle.
ActorsAreUsed == ActorsAccounted /\ WorkConserving

\* Every job is answered unless a fault hit the pool: not met, has_next and the list
\* are read while another thread holds the only future (README, section 4).
EveryJobAnswered == load.faults = 0 => \A n \in Node : pc[n] # "failed"
=============================================================================
