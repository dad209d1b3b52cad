------------------------- MODULE RoundLifecycleProofs -------------------------
(***************************************************************************)
(* Theorems about RoundLifecycle, for every number of nodes and rounds and *)
(* every gated experiment.                                                 *)
(***************************************************************************)
EXTENDS RoundLifecycle, SequenceTheorems, FiniteSetTheorems, TLAPS

-----------------------------------------------------------------------------
(* The experiment, its pools and the models made of them. *)

\* The admitted are trainers, and trainers are participants.
LEMMA ExperimentShape ==
    ASSUME experiment \in Experiments
    PROVE  /\ AdmittedSet \subseteq Trainer
           /\ Trainer \subseteq Node
           /\ FinalRound \in Round
           /\ {Merging, EarlyExit, Timeouts} \subseteq BOOLEAN
  BY PolicyAssumption, BoundAssumption
     DEF AdmittedSet, Admitted, Trainer, FinalRound, Merging, EarlyExit, Timeouts

\* The experiment is frozen.
LEMMA StepFreezes == [Next]_vars => UNCHANGED experiment
  BY DEF Next, StageStep, MessageStep, Elect, Submit, Publish, Admit, EndGossip, Aggregate,
     AwaitDecisions, AwaitInstallation, Arrive, PassBarrier, WaitTimeout, SendPartial,
     LearnModels, SendFull, LearnReady, vars

\* So is all that is read from it.
LEMMA SameExperiment ==
    ASSUME UNCHANGED experiment
    PROVE  UNCHANGED <<Trainer, AdmittedSet, FinalRound, Merging, EarlyExit, Timeouts>>
  BY DEF Trainer, AdmittedSet, FinalRound, Merging, EarlyExit, Timeouts

\* The average of a pool is a digest.
LEMMA AverageShape ==
    ASSUME NEW p \in Seq(SUBSET Node)
    PROVE  Average(p) \in Digest
<1>1. Len(p) \in Nat /\ DOMAIN p = 1..Len(p) /\ \A i \in 1..Len(p) : p[i] \in SUBSET Node
  BY LenProperties, ElementOfSeq
<1>2. SubSeq(p, 3, Len(p)) \in Seq(SUBSET Node)
  BY <1>1, SubSeqProperties
<1>3. {p[i] : i \in DOMAIN p \cap {1, 2}} \in SUBSET SUBSET Node
  BY <1>1
<1> QED
  BY <1>2, <1>3 DEF Average, Digest

\* What an average averages is what the pool holds.
LEMMA AveragedAverage ==
    ASSUME NEW p \in Seq(SUBSET Node)
    PROVE  Averaged(Average(p)) = UNION ToSet(p)
<1>1. Len(p) \in Nat /\ DOMAIN p = 1..Len(p) /\ \A i \in 1..Len(p) : p[i] \in SUBSET Node
  BY LenProperties, ElementOfSeq
<1> DEFINE rest == SubSeq(p, 3, Len(p))
           pair == {p[i] : i \in DOMAIN p \cap {1, 2}}
<1>2. /\ rest \in Seq(SUBSET Node)
      /\ Len(rest) = IF 3 <= Len(p) THEN Len(p) - 3 + 1 ELSE 0
      /\ \A i \in 1..(Len(p) - 3 + 1) : rest[i] = p[3 + i - 1]
  BY <1>1, SubSeqProperties
<1>3. DOMAIN rest = 1..Len(rest)
  BY <1>2, LenProperties
<1>4. ToSet(rest) \subseteq ToSet(p)
  <2> SUFFICES ASSUME NEW i \in DOMAIN rest PROVE \E j \in DOMAIN p : rest[i] = p[j]
    BY DEF ToSet
  <2>1. i + 2 \in DOMAIN p /\ rest[i] = p[i + 2]
    BY <1>1, <1>2, <1>3
  <2> QED
    BY <2>1
<1>5. ToSet(p) \subseteq pair \cup ToSet(rest)
  <2> SUFFICES ASSUME NEW j \in DOMAIN p PROVE p[j] \in pair \cup ToSet(rest)
    BY DEF ToSet
  <2>1. CASE j \in {1, 2}
    BY <2>1
  <2>2. CASE j \notin {1, 2}
    <3>1. j - 2 \in DOMAIN rest /\ rest[j - 2] = p[j]
      BY <1>1, <1>2, <1>3, <2>2
    <3> QED
      BY <3>1 DEF ToSet
  <2> QED
    BY <2>1, <2>2
<1>6. pair \subseteq ToSet(p)
  BY DEF ToSet
<1>7. pair \cup ToSet(rest) = ToSet(p)
  BY <1>4, <1>5, <1>6
<1>8. Averaged(Average(p)) = UNION (pair \cup ToSet(rest))
  BY DEF Averaged, Average
<1> QED
  BY <1>7, <1>8

\* The three seats of a sum of two: a pool of single models of at most two
\* contributors, none twice, has only one average.
LEMMA AverageOfTwo ==
    ASSUME NEW S, AtMostTwo(S), NEW p \in Seq(SUBSET Node), UNION ToSet(p) = S,
           \A i \in DOMAIN p : \E x \in Node : p[i] = {x},
           \A i, j \in DOMAIN p : i # j => p[i] \cap p[j] = {}
    PROVE  Average(p) = [pair |-> {{x} : x \in S}, rest |-> <<>>]
<1>1. Len(p) \in Nat /\ DOMAIN p = 1..Len(p) /\ \A i \in 1..Len(p) : p[i] \in SUBSET Node
  BY LenProperties, ElementOfSeq
<1>2. \A i \in DOMAIN p : p[i] \subseteq S
  BY DEF ToSet
<1>3. Len(p) <= 2
  <2> SUFFICES ASSUME Len(p) > 2 PROVE FALSE
    BY <1>1
  <2>1. {1, 2, 3} \subseteq DOMAIN p
    BY <1>1
  <2>2. PICK x \in Node : p[1] = {x}
    BY <2>1
  <2>3. PICK y \in Node : p[2] = {y}
    BY <2>1
  <2>4. PICK z \in Node : p[3] = {z}
    BY <2>1
  <2>5. x \in S /\ y \in S /\ z \in S
    BY <1>2, <2>1, <2>2, <2>3, <2>4
  <2>6. x # y /\ y # z /\ x # z
    <3>1. p[1] \cap p[2] = {} /\ p[2] \cap p[3] = {} /\ p[1] \cap p[3] = {}
      BY <2>1
    <3> QED
      BY <2>2, <2>3, <2>4, <3>1
  <2> QED
    BY <2>5, <2>6 DEF AtMostTwo
<1>4. SubSeq(p, 3, Len(p)) = <<>>
  BY <1>1, <1>3, SubSeqEmpty
<1>5. {p[i] : i \in DOMAIN p \cap {1, 2}} = {{x} : x \in S}
  <2>1. DOMAIN p \cap {1, 2} = DOMAIN p
    BY <1>1, <1>3
  <2>2. ASSUME NEW i \in DOMAIN p PROVE \E x \in S : p[i] = {x}
    BY <1>2
  <2>3. ASSUME NEW x \in S PROVE \E i \in DOMAIN p : p[i] = {x}
    <3>1. PICK i \in DOMAIN p : x \in p[i]
      BY DEF ToSet
    <3> QED
      BY <3>1
  <2>4. {p[i] : i \in DOMAIN p} \subseteq {{x} : x \in S}
    BY <2>2
  <2>5. {{x} : x \in S} \subseteq {p[i] : i \in DOMAIN p}
    BY <2>3
  <2> QED
    BY <2>1, <2>4, <2>5
<1> QED
  BY <1>4, <1>5 DEF Average

-----------------------------------------------------------------------------
(* The inductive invariant. *)

\* A node that is not done is in one of the experiment's rounds, trainers train,
\* and a node that has voted in its round knows its train set.
Placed ==
    \A n \in Node :
        /\ pc[n] = "done" => round[n] = FinalRound + 1
        /\ pc[n] # "done" => round[n] \in 0..FinalRound
        /\ pc[n] \in {"train", "publish", "decisions", "gossip", "wait"} => n \in Trainer
        /\ pc[n] \notin {"elect", "stopped"} => elected[n]

\* A node has gone beyond the given places of a round, or is at one of them.
Beyond(n, r, places) == round[n] > r \/ (round[n] = r /\ pc[n] \in places)

\* Who has arrived at a barrier stays there until it opens, and is a holder.
Arrivals ==
    \A n \in Node, r \in Round :
        /\ n \in arrived[r] => Beyond(n, r, {"barrier", "stopped"}) /\ n \in holders[r]
        /\ pc[n] = "barrier" => n \in arrived[round[n]]
        /\ round[n] > r => final[r]

\* A final round has everybody at its barrier and a settled aggregate.
Finals ==
    \A r \in Round : final[r] => arrived[r] = Node /\ aggregate[r] # None

\* The places of a round after the publication of the own candidate, and after the
\* admission of the own model to the aggregator.
AfterPublish == {"decisions", "gossip", "wait", "diffuse", "barrier", "stopped"}
AfterAdmit == {"gossip", "wait", "diffuse", "barrier", "stopped"}

\* Decisions are those of trainers that have published a committed candidate, all
\* are in before anyone gossips, and the last one settles the admission.
Decisions ==
    /\ \A n \in Node, r \in Round : n \in decided[r] => Beyond(n, r, AfterPublish)
    /\ \A r \in Round : decided[r] \subseteq submitted[r]
    /\ \A n \in Node : pc[n] = "publish" => n \in submitted[round[n]]
    /\ \A n \in Node : pc[n] \in {"gossip", "wait"} => decided[round[n]] = Trainer
    /\ \A r \in Round : decided[r] = Trainer /\ Trainer # {} => admission[r] # None

\* What is settled of a round: the admission, which is the admitted set, before the
\* aggregate, the aggregate before its holders.
Settled ==
    \A r \in Round :
        /\ admission[r] # None => decided[r] = Trainer /\ admission[r] = AdmittedSet
        /\ aggregate[r] # None => admission[r] # None
        /\ holders[r] # {} => aggregate[r] # None

\* What a node has installed is the aggregate of its round, it is a holder, and its
\* learner has that model.
Installs ==
    \A n \in Node :
        /\ installed[n] # None =>
              /\ pc[n] # "done"
              /\ installed[n] = aggregate[round[n]]
              /\ n \in holders[round[n]]
              /\ pc[n] # "stopped" => learner[n] = installed[n]
        /\ pc[n] \in {"diffuse", "barrier"} => installed[n] # None

\* A trainer starts its round with the aggregate of the previous one.
Parents ==
    /\ \A n \in Trainer : pc[n] \in {"elect", "train"} =>
          learner[n] = IF round[n] = 0 THEN InitialModel ELSE aggregate[round[n] - 1]
    /\ ParentIsPreviousAggregate

\* What a pool averages is admitted, comes from trainers that are past their own
\* admission and averages nobody twice.
PoolOf(n) ==
    /\ Contributors(n) \subseteq AdmittedSet
    /\ \A x \in Contributors(n) :
          /\ Beyond(x, round[n], AfterAdmit)
          /\ round[x] = round[n] => x \in Contributors(x)
    /\ \A i, j \in DOMAIN pool[n] : i # j => pool[n][i] \cap pool[n][j] = {}

\* Every pool is such a pool.
Pools == \A n \in Node : PoolOf(n)

\* Without merging, a pool holds models of one contributor.
Singles == ~Merging => \A n \in Node : \A i \in DOMAIN pool[n] : \E x \in Node : pool[n][i] = {x}

\* Every model of a pool went through the own gate, where it has one contributor:
\* without merging, or with two trainers, whose pools never have two to offer.
Gated ==
    /\ \A n \in Node : pc[n] \in {"publish", "decisions"} => n \in rows[n]
    /\ ~Merging \/ AtMostTwo(Trainer) => \A n \in Node : Contributors(n) \subseteq rows[n]

\* Without timeouts an aggregate is of exactly the admitted, who have all given it
\* their models.
Matches ==
    ~Timeouts => \A r \in Round : aggregate[r] # None =>
        /\ Averaged(aggregate[r]) = AdmittedSet
        /\ \A x \in AdmittedSet : Beyond(x, r, AfterAdmit)

\* The only average of one or two admitted candidates.
TheAverage == [pair |-> {{x} : x \in AdmittedSet}, rest |-> <<>>]

\* In a harmonious experiment nobody raises, because every aggregate is that one and
\* an admitted trainer still has the model it submitted.
Harmony ==
    Harmonious =>
        /\ NobodyStops
        /\ \A r \in Round : aggregate[r] \in {None, TheAverage}
        /\ \A n \in AdmittedSet : pc[n] \in {"publish", "decisions"} => learner[n] = Candidate(n)

\* The inductive invariant.
IInv ==
    /\ TypeOK
    /\ Placed
    /\ Arrivals
    /\ Finals
    /\ Decisions
    /\ Settled
    /\ Installs
    /\ Parents
    /\ Pools
    /\ Singles
    /\ Gated
    /\ Matches
    /\ Harmony

-----------------------------------------------------------------------------
(* What the steps do, and the commitments they settle. *)

\* What a step that confirms the installation of h at m does, and one that does not.
Confirms(m, h) ==
    /\ Confirmable(round[m], h)
    /\ Confirm(round[m], m, h)
    /\ installed' = [installed EXCEPT ![m] = h]

\* The ledger hears nothing of it.
ConfirmsNothing == UNCHANGED <<aggregate, holders, installed>>

\* The steps with branches, by what they do: Aggregate installs the average of the
\* pool or stops the node.
LEMMA AggregateEffect ==
    ASSUME NEW n \in Node, Aggregate(n)
    PROVE  /\ pc[n] = "wait"
           /\ Complete(n) \/ Timeouts
           /\ UNCHANGED <<round, elected, rows, pool, known, ready, decided, arrived, parent,
                          submitted, admission, final>>
           /\ \/ /\ pool[n] # <<>> /\ Contributors(n) = AdmittedRows(n)
                 /\ installed[n] \in {None, Average(pool[n])}
                 /\ Confirms(n, Average(pool[n]))
                 /\ learner' = [learner EXCEPT ![n] = Average(pool[n])]
                 /\ pc' = [pc EXCEPT ![n] = "diffuse"] /\ UNCHANGED fault
              \/ /\ ~(/\ pool[n] # <<>> /\ Contributors(n) = AdmittedRows(n)
                      /\ installed[n] \in {None, Average(pool[n])}
                      /\ Confirmable(round[n], Average(pool[n])))
                 /\ ConfirmsNothing
                 /\ learner' = [learner EXCEPT ![n] = Learned(n)]
                 /\ pc' = [pc EXCEPT ![n] = "stopped"]
  BY DEF Aggregate, At, Goto, Stop, Learned, Confirms, ConfirmsNothing, registryVars

\* A relayed model is installed, is already there, or stops the receiver.
LEMMA SendFullEffect ==
    ASSUME NEW n \in Node, NEW m \in Node, SendFull(n, m)
    PROVE  /\ pc[n] = "diffuse" /\ m # n /\ m \in Active /\ round[m] = round[n]
           /\ UNCHANGED <<round, elected, rows, pool, known, ready, decided, arrived, parent,
                          submitted, admission, final>>
           /\ \/ /\ installed[m] = None /\ elected[m]
                 /\ Confirms(m, learner[n])
                 /\ learner' = [learner EXCEPT ![m] = learner[n]]
                 /\ UNCHANGED <<pc, fault>>
              \/ /\ elected[m] /\ installed[m] = learner[n]
                 /\ ConfirmsNothing
                 /\ UNCHANGED <<pc, learner, fault>>
              \/ /\ \/ ~elected[m]
                    \/ installed[m] \notin {None, learner[n]}
                    \/ ~Confirmable(round[m], learner[n])
                 /\ ConfirmsNothing
                 /\ learner' \in {learner, [learner EXCEPT ![m] = learner[n]]}
                 /\ pc' = [pc EXCEPT ![m] = "stopped"]
  BY DEF SendFull, FullModelInstalls, At, Goto, Stop, Confirms, ConfirmsNothing, registryVars

\* The barrier ends the round for the node, or stops it.
LEMMA PassBarrierEffect ==
    ASSUME NEW n \in Node, PassBarrier(n)
    PROVE  /\ pc[n] = "barrier"
           /\ arrived[round[n]] = Node
           /\ UNCHANGED <<elected, learner, decided, arrived, parent, submitted, admission,
                          aggregate, holders>>
           /\ \/ /\ aggregate[round[n]] # None /\ Node \subseteq holders[round[n]]
                 /\ final' = [final EXCEPT ![round[n]] = TRUE]
                 /\ round' = [round EXCEPT ![n] = round[n] + 1]
                 /\ pc' = [pc EXCEPT ![n] = IF round[n] = FinalRound THEN "done" ELSE "elect"]
                 /\ rows' = [rows EXCEPT ![n] = {}]
                 /\ pool' = [pool EXCEPT ![n] = <<>>]
                 /\ installed' = [installed EXCEPT ![n] = None]
                 /\ UNCHANGED fault
              \/ /\ ~Finalizable(round[n])
                 /\ pc' = [pc EXCEPT ![n] = "stopped"]
                 /\ UNCHANGED <<round, final, rows, pool, installed>>
  BY DEF PassBarrier, BarrierOpen, Finalizable, At, Goto, Stop, registryVars

\* Only four actions settle anything.
LEMMA CommitmentSteps ==
    ASSUME Next
    PROVE  \/ UNCHANGED <<decided, admission, aggregate, holders, final, installed>>
           \/ \E n \in Node : Publish(n) \/ Aggregate(n) \/ PassBarrier(n)
           \/ \E n, m \in Node : SendFull(n, m)
  BY DEF Next, StageStep, MessageStep, Elect, Submit, Admit, EndGossip, AwaitDecisions,
     AwaitInstallation, Arrive, WaitTimeout, SendPartial, LearnModels, LearnReady, nodeVars,
     registryVars, ledgerVars

\* A live node of the experiment is in one of its rounds.
LEMMA CurrentRound ==
    ASSUME TypeOK, Placed, NEW n \in Node, pc[n] # "done"
    PROVE  round[n] \in Round
<1>1. FinalRound \in Round
  BY ExperimentShape DEF TypeOK
<1> QED
  BY <1>1, BoundAssumption DEF Placed, Round

\* What is settled of a round, and who holds its model, stays.
LEMMA ConfirmSettled ==
    ASSUME TypeOK, Settled, NEW n \in Node, round[n] \in Round, NEW h \in Digest, Confirms(n, h),
           UNCHANGED <<experiment, decided, admission>>
    PROVE  Settled'
<1>1. UNCHANGED <<Trainer, AdmittedSet>>
  BY SameExperiment
<1>2. aggregate \in [Round -> {None} \cup Digest] /\ holders \in [Round -> SUBSET Node]
  BY DEF TypeOK
<1> QED
  BY <1>1, <1>2, NoneAssumption DEF Settled, Confirms, Confirm, Confirmable

\* Settled is kept.
LEMMA SettledStep ==
    ASSUME TypeOK, TypeOK', Placed, Decisions, Settled, Next
    PROVE  Settled'
<1>0. UNCHANGED <<experiment, Trainer, AdmittedSet>>
  BY StepFreezes, SameExperiment
<1>1. CASE UNCHANGED <<decided, admission, aggregate, holders, final, installed>>
  BY <1>0, <1>1 DEF Settled
<1>2. ASSUME NEW n \in Node, Publish(n) PROVE Settled'
  <2>1. round[n] \in Round /\ pc[n] = "publish"
    BY <1>2, CurrentRound DEF Publish, At
  <2>2. n \notin decided[round[n]] /\ decided[round[n]] \subseteq submitted[round[n]]
        /\ n \in submitted[round[n]]
    <3>1. ~Beyond(n, round[n], AfterPublish)
      BY <2>1 DEF Beyond, AfterPublish, TypeOK
    <3> QED
      BY <2>1, <3>1 DEF Decisions
  <2>3. AdmittedSet \subseteq Trainer /\ n \in Trainer
    BY <2>1, ExperimentShape DEF TypeOK, Placed
  <2>4. decided \in [Round -> SUBSET Trainer] /\ admission \in [Round -> {None} \cup SUBSET Trainer]
    BY DEF TypeOK
  <2>5. admission[round[n]] = None
    BY <2>1, <2>2, <2>3 DEF Settled
  <2>6. CASE AllDecidedAfter(round[n], n)
    BY <1>0, <1>2, <2>1, <2>2, <2>3, <2>4, <2>6 DEF Publish, Settled, AllDecidedAfter, ledgerVars
  <2>7. CASE ~AllDecidedAfter(round[n], n)
    BY <1>0, <1>2, <2>1, <2>2, <2>3, <2>4, <2>5, <2>7 DEF Publish, Settled, ledgerVars
  <2> QED
    BY <2>6, <2>7
<1>3. ASSUME NEW n \in Node, Aggregate(n) PROVE Settled'
  <2>1. round[n] \in Round
    BY <1>3, AggregateEffect, CurrentRound
  <2>2. Average(pool[n]) \in Digest
    BY AverageShape, ExperimentShape, SeqMonotonic DEF TypeOK
  <2> QED
    BY <1>0, <1>3, <2>1, <2>2, AggregateEffect, ConfirmSettled DEF ConfirmsNothing, Settled
<1>4. ASSUME NEW n \in Node, NEW m \in Node, SendFull(n, m) PROVE Settled'
  <2>1. round[m] \in Round
    BY <1>4, SendFullEffect, CurrentRound
  <2>2. learner[n] \in Digest
    BY DEF TypeOK
  <2> QED
    BY <1>0, <1>4, <2>1, <2>2, SendFullEffect, ConfirmSettled DEF ConfirmsNothing, Settled
<1>5. ASSUME NEW n \in Node, PassBarrier(n) PROVE Settled'
  BY <1>0, <1>5, PassBarrierEffect DEF Settled
<1> QED
  BY <1>1, <1>2, <1>3, <1>4, <1>5, CommitmentSteps

-----------------------------------------------------------------------------
(* Pools and types. *)

\* What a pool holds and what it averages.
LEMMA PoolShape ==
    ASSUME TypeOK, NEW n \in Node
    PROVE  /\ pool[n] \in Seq(SUBSET Node)
           /\ Len(pool[n]) \in Nat /\ DOMAIN pool[n] = 1..Len(pool[n])
           /\ \A i \in DOMAIN pool[n] : pool[n][i] \in SUBSET Trainer /\ pool[n][i] \subseteq Contributors(n)
           /\ \A x : x \in Contributors(n) <=> \E i \in DOMAIN pool[n] : x \in pool[n][i]
           /\ pool[n] # <<>> => DOMAIN pool[n] # {}
<1>1. pool[n] \in Seq(SUBSET Trainer) /\ Trainer \subseteq Node
  BY ExperimentShape DEF TypeOK
<1>2. SUBSET Trainer \subseteq SUBSET Node
  BY <1>1
<1>3. /\ pool[n] \in Seq(SUBSET Node)
      /\ Len(pool[n]) \in Nat /\ DOMAIN pool[n] = 1..Len(pool[n])
  BY <1>1, <1>2, SeqMonotonic, LenProperties
<1>4. \A i \in DOMAIN pool[n] : pool[n][i] \in SUBSET Trainer
  BY <1>1, <1>3, ElementOfSeq
<1>5. \A x : x \in Contributors(n) <=> \E i \in DOMAIN pool[n] : x \in pool[n][i]
  BY DEF Contributors, ToSet
<1>6. pool[n] # <<>> => DOMAIN pool[n] # {}
  <2>1. \A p \in Seq(SUBSET Trainer) : p # <<>> => Len(p) \in Nat \ {0}
    BY EmptySeq
  <2> QED
    BY <1>1, <1>3, <2>1
<1> QED
  BY <1>3, <1>4, <1>5, <1>6

\* Nobody's pool holds what the admission policy refuses, so narrowing changes nothing.
LEMMA NothingDropped ==
    ASSUME TypeOK, Pools, NEW n \in Node
    PROVE  Kept(pool[n]) = pool[n]
  BY PoolShape DEF Pools, PoolOf, Kept

\* What is offered of a pool averages contributors of it that were not excepted.
LEMMA OfferShape ==
    ASSUME TypeOK, NEW n \in Node, NEW except, NEW model \in Offers(n, except)
    PROVE  /\ model \in SUBSET Contributors(n)
           /\ Contributors(n) \subseteq Trainer
           /\ model \cap except = {}
           /\ ~Merging => \E i \in DOMAIN pool[n] : model = pool[n][i]
<1>1. Contributors(n) \subseteq Trainer
  BY PoolShape
<1>2. Earliest(Unknown(n, except)) \subseteq Unknown(n, except)
  BY DEF Earliest
<1>3. Unknown(n, except) \subseteq DOMAIN pool[n]
      /\ \A i \in Unknown(n, except) : pool[n][i] \cap except = {}
  BY DEF Unknown
<1>4. CASE Merging /\ Unknown(n, except) # {}
  <2>1. model = UNION {pool[n][i] : i \in Unknown(n, except)}
    BY <1>4 DEF Offers
  <2> QED
    BY <1>1, <1>3, <1>4, <2>1, PoolShape
<1>5. CASE ~(Merging /\ Unknown(n, except) # {})
  <2>1. PICK i \in Earliest(Unknown(n, except)) : model = pool[n][i]
    BY <1>5 DEF Offers
  <2> QED
    BY <1>1, <1>2, <1>3, <2>1, PoolShape
<1> QED
  BY <1>4, <1>5

\* A row of the gate is for a contributor of the model.
LEMMA GateRowShape ==
    ASSUME NEW m, NEW model
    PROVE  GateRow(m, model) \subseteq model
  BY DEF GateRow

\* The models nobody else has made are digests.
LEMMA InitialShape == InitialModel \in Digest /\ \A n \in Node : Candidate(n) \in Digest
<1>1. <<>> \in Seq(SUBSET Node) /\ \A n \in Node : <<{n}>> \in Seq(SUBSET Node)
  OBVIOUS
<1> QED
  BY <1>1, AverageShape DEF InitialModel, Candidate

\* What is recorded of an installation has its type.
LEMMA ConfirmShape ==
    ASSUME NEW n \in Node, round[n] \in Round, NEW h \in Digest, Confirms(n, h) \/ ConfirmsNothing,
           installed \in [Node -> {None} \cup Digest],
           aggregate \in [Round -> {None} \cup Digest],
           holders \in [Round -> SUBSET Node]
    PROVE  /\ installed' \in [Node -> {None} \cup Digest]
           /\ aggregate' \in [Round -> {None} \cup Digest]
           /\ holders' \in [Round -> SUBSET Node]
  BY DEF ConfirmsNothing, Confirms, Confirm

-----------------------------------------------------------------------------
(* Types. *)

\* TypeOK is kept: the pools need Pools, the adapter Placed.
LEMMA TypeStep ==
    ASSUME TypeOK, Placed, Pools, Next
    PROVE  TypeOK'
<1>0. /\ UNCHANGED <<experiment, Trainer, AdmittedSet>> /\ experiment \in Experiments
      /\ AdmittedSet \subseteq Trainer /\ Trainer \subseteq Node
  BY StepFreezes, SameExperiment, ExperimentShape DEF TypeOK
<1>1. /\ pc \in [Node -> Stages]
      /\ fault \in [Node -> {None} \cup Faults]
      /\ learner \in [Node -> Digest]
      /\ pool \in [Node -> Seq(SUBSET Trainer)]
      /\ installed \in [Node -> {None} \cup Digest]
      /\ aggregate \in [Round -> {None} \cup Digest]
      /\ holders \in [Round -> SUBSET Node]
      /\ final \in [Round -> BOOLEAN]
  BY DEF TypeOK
<1>2. ASSUME NEW n \in Node, Submit(n) PROVE TypeOK'
  <2>1. n \in Trainer /\ round[n] \in Round
    BY <1>2, CurrentRound DEF Submit, At, Placed
  <2>2. Candidate(n) \in Digest /\ ParentOf(n) \in Digest
    BY <1>1, InitialShape DEF ParentOf
  <2>3. pc' \in [Node -> Stages] /\ fault' \in [Node -> {None} \cup Faults]
    BY <1>1, <1>2 DEF Submit, Stop, Goto, Stages, Faults
  <2>4. learner' \in [Node -> Digest] /\ rows' \in [Node -> SUBSET Trainer]
    BY <1>2, <2>1, <2>2 DEF Submit, TypeOK
  <2>5. parent' \in [Round -> {None} \cup Digest] /\ submitted' \in [Round -> SUBSET Trainer]
    <3>1. parent \in [Round -> {None} \cup Digest] /\ submitted \in [Round -> SUBSET Trainer]
      BY DEF TypeOK
    <3> QED
      BY <1>2, <2>1, <2>2, <3>1 DEF Submit
  <2>6. UNCHANGED <<round, elected, pool, known, ready, installed, decided, arrived, admission,
                    aggregate, holders, final>>
    BY <1>2 DEF Submit, Stop, registryVars
  <2> QED
    BY <1>0, <2>3, <2>4, <2>5, <2>6 DEF TypeOK
<1>3. ASSUME NEW n \in Node, Publish(n) PROVE TypeOK'
  <2>1. n \in Trainer /\ round[n] \in Round
    BY <1>3, CurrentRound DEF Publish, At, Placed
  <2>2. pc' \in [Node -> Stages]
    BY <1>1, <1>3 DEF Publish, Goto, Stages
  <2>3. decided' \in [Round -> SUBSET Trainer]
    BY <1>3, <2>1 DEF Publish, TypeOK
  <2>4. admission' \in [Round -> {None} \cup SUBSET Trainer]
    BY <1>0, <1>3, <2>1 DEF Publish, TypeOK
  <2>5. UNCHANGED <<round, fault, elected, rows, pool, known, ready, learner, installed, arrived,
                    parent, submitted, aggregate, holders, final>>
    BY <1>3 DEF Publish, nodeVars
  <2> QED
    BY <1>0, <2>2, <2>3, <2>4, <2>5 DEF TypeOK
<1>4. ASSUME NEW n \in Node, Admit(n) PROVE TypeOK'
  <2>1. n \in Trainer /\ {n} \in SUBSET Trainer
    BY <1>4 DEF Admit, At, Placed
  <2>2. pc' \in [Node -> Stages] /\ fault' \in [Node -> {None} \cup Faults]
    BY <1>1, <1>4 DEF Admit, Stop, Goto, Stages, Faults
  <2>3. Append(pool[n], {n}) \in Seq(SUBSET Trainer)
    BY <1>1, <2>1, AppendProperties
  <2>4. pool' \in [Node -> Seq(SUBSET Trainer)]
    BY <1>1, <1>4, <2>3, NothingDropped DEF Admit
  <2>5. UNCHANGED <<round, elected, rows, known, ready, learner, installed, decided, arrived,
                    parent, submitted, admission, aggregate, holders, final>>
    BY <1>4 DEF Admit, Stop, registryVars, ledgerVars
  <2> QED
    BY <1>0, <2>2, <2>4, <2>5 DEF TypeOK
<1>5. ASSUME NEW n \in Node, Aggregate(n) PROVE TypeOK'
  <2>1. round[n] \in Round
    BY <1>5, CurrentRound, AggregateEffect
  <2>2. Average(pool[n]) \in Digest /\ Learned(n) \in Digest
    BY <1>1, PoolShape, AverageShape DEF Learned
  <2>3. pc' \in [Node -> Stages]
    BY <1>1, <1>5, AggregateEffect DEF Stages
  <2>4. fault' \in [Node -> {None} \cup Faults]
    BY <1>1, <1>5 DEF Aggregate, Stop, Faults
  <2>5. learner' \in [Node -> Digest]
    <3>1. \/ learner' = [learner EXCEPT ![n] = Average(pool[n])]
          \/ learner' = [learner EXCEPT ![n] = Learned(n)]
      BY <1>5, AggregateEffect
    <3>2. learner \in [Node -> Digest]
      BY <1>1
    <3> QED
      BY <2>2, <3>1, <3>2
  <2>6. /\ installed' \in [Node -> {None} \cup Digest]
        /\ aggregate' \in [Round -> {None} \cup Digest]
        /\ holders' \in [Round -> SUBSET Node]
    <3>1. Confirms(n, Average(pool[n])) \/ ConfirmsNothing
      BY <1>5, AggregateEffect
    <3> QED
      BY <1>1, <2>1, <2>2, <3>1, ConfirmShape
  <2>7. UNCHANGED <<round, elected, rows, pool, known, ready, decided, arrived, parent,
                    submitted, admission, final>>
    BY <1>5, AggregateEffect
  <2> QED
    BY <1>0, <2>3, <2>4, <2>5, <2>6, <2>7 DEF TypeOK
<1>6. ASSUME NEW n \in Node, PassBarrier(n) PROVE TypeOK'
  <2>1. round[n] \in Round /\ round[n] + 1 \in 0..(MaxRound + 1)
    BY <1>6, CurrentRound, PassBarrierEffect, BoundAssumption DEF Round
  <2>2. pc' \in [Node -> Stages]
    BY <1>1, <1>6, PassBarrierEffect DEF Stages
  <2>3. fault' \in [Node -> {None} \cup Faults]
    BY <1>1, <1>6 DEF PassBarrier, Stop, Faults
  <2>4. round' \in [Node -> 0..(MaxRound + 1)]
    <3>1. round \in [Node -> 0..(MaxRound + 1)]
      BY DEF TypeOK
    <3> QED
      BY <1>6, <2>1, <3>1, PassBarrierEffect
  <2>5. pool' \in [Node -> Seq(SUBSET Trainer)]
    <3>1. <<>> \in Seq(SUBSET Trainer)
      OBVIOUS
    <3> QED
      <4>1. pool' = pool \/ pool' = [pool EXCEPT ![n] = <<>>]
        BY <1>6, PassBarrierEffect
      <4>2. pool \in [Node -> Seq(SUBSET Trainer)]
        BY <1>1
      <4> QED
        BY <3>1, <4>1, <4>2
  <2>6. /\ rows' \in [Node -> SUBSET Trainer]
        /\ known' \in [Node -> [Node -> SUBSET Trainer]]
        /\ ready' \in [Node -> SUBSET Node]
    <3>1. /\ rows \in [Node -> SUBSET Trainer]
          /\ known \in [Node -> [Node -> SUBSET Trainer]]
          /\ ready \in [Node -> SUBSET Node]
      BY DEF TypeOK
    <3>2. \/ rows' = [rows EXCEPT ![n] = {}]
             /\ known' = [known EXCEPT ![n] = [m \in Node |-> {}]]
             /\ ready' = [ready EXCEPT ![n] = {}]
          \/ UNCHANGED <<rows, known, ready>>
      BY <1>6 DEF PassBarrier
    <3>3. [m \in Node |-> {}] \in [Node -> SUBSET Trainer]
      OBVIOUS
    <3> QED
      BY <3>1, <3>2, <3>3
  <2>8. /\ installed' \in [Node -> {None} \cup Digest]
        /\ final' \in [Round -> BOOLEAN]
    BY <1>1, <1>6, <2>1, PassBarrierEffect
  <2>7. UNCHANGED <<elected, learner, decided, arrived, parent, submitted, admission,
                    aggregate, holders>>
    BY <1>6, PassBarrierEffect
  <2> QED
    BY <1>0, <2>2, <2>3, <2>4, <2>5, <2>6, <2>7, <2>8 DEF TypeOK
<1>7. ASSUME NEW n \in Node, NEW m \in Node, SendPartial(n, m) PROVE TypeOK'
  <2>1. PICK model \in Offers(n, known[n][m]) :
           /\ rows' = [rows EXCEPT ![m] = @ \cup GateRow(m, model)]
           /\ pool' = [pool EXCEPT ![m] = IF Takes(m, model) THEN Append(@, model) ELSE @]
    BY <1>7 DEF SendPartial
  <2>2. model \in SUBSET Trainer /\ GateRow(m, model) \in SUBSET Trainer
    BY OfferShape, GateRowShape
  <2>3. rows' \in [Node -> SUBSET Trainer]
    BY <2>1, <2>2 DEF TypeOK
  <2>4. Append(pool[m], model) \in Seq(SUBSET Trainer)
    BY <1>1, <2>2, AppendProperties
  <2>5. pool' \in [Node -> Seq(SUBSET Trainer)]
    BY <1>1, <2>1, <2>4
  <2>6. UNCHANGED <<pc, round, fault, elected, known, ready, learner, installed, decided,
                    arrived, parent, submitted, admission, aggregate, holders, final>>
    BY <1>7 DEF SendPartial, registryVars, ledgerVars
  <2> QED
    BY <1>0, <2>3, <2>5, <2>6 DEF TypeOK
<1>8. ASSUME NEW n \in Node, NEW m \in Node, LearnModels(n, m) PROVE TypeOK'
  <2>1. Contributors(m) \subseteq Trainer
    BY PoolShape
  <2>2. known[n][m] \in SUBSET Trainer
    BY DEF TypeOK
  <2>3. known' \in [Node -> [Node -> SUBSET Trainer]]
    BY <1>8, <2>1, <2>2 DEF LearnModels, TypeOK
  <2> QED
    BY <1>0, <1>8, <2>3 DEF TypeOK, LearnModels, registryVars, ledgerVars
<1>9. ASSUME NEW n \in Node, NEW m \in Node, SendFull(n, m) PROVE TypeOK'
  <2>1. round[m] \in Round
    BY <1>9, CurrentRound, SendFullEffect
  <2>2. pc' \in [Node -> Stages]
    BY <1>1, <1>9, SendFullEffect DEF Stages
  <2>3. fault' \in [Node -> {None} \cup Faults]
    BY <1>1, <1>9 DEF SendFull, FullModelInstalls, Stop, Faults
  <2>4. learner' \in [Node -> Digest]
    <3>1. learner' = learner \/ learner' = [learner EXCEPT ![m] = learner[n]]
      BY <1>9, SendFullEffect
    <3> QED
      BY <1>1, <3>1
  <2>5. /\ installed' \in [Node -> {None} \cup Digest]
        /\ aggregate' \in [Round -> {None} \cup Digest]
        /\ holders' \in [Round -> SUBSET Node]
    <3>1. Confirms(m, learner[n]) \/ ConfirmsNothing
      BY <1>9, SendFullEffect
    <3>2. learner[n] \in Digest
      BY <1>1
    <3> QED
      BY <1>1, <2>1, <3>1, <3>2, ConfirmShape
  <2>6. UNCHANGED <<round, elected, rows, pool, known, ready, decided, arrived, parent,
                    submitted, admission, final>>
    BY <1>9, SendFullEffect
  <2> QED
    BY <1>0, <2>2, <2>3, <2>4, <2>5, <2>6 DEF TypeOK
<1>10. ASSUME NEW n \in Node, NEW m \in Node, LearnReady(n, m) PROVE TypeOK'
  <2>1. ready' \in [Node -> SUBSET Node]
    BY <1>10 DEF LearnReady, TypeOK
  <2> QED
    BY <1>0, <1>10, <2>1 DEF TypeOK, LearnReady, registryVars, ledgerVars
<1>11. ASSUME NEW n \in Node, Elect(n) \/ EndGossip(n) \/ AwaitDecisions(n) \/ AwaitInstallation(n)
                              \/ Arrive(n) \/ WaitTimeout(n)
       PROVE TypeOK'
  <2>1. pc' \in [Node -> Stages] /\ fault' \in [Node -> {None} \cup Faults]
    BY <1>1, <1>11 DEF Elect, EndGossip, AwaitDecisions, AwaitInstallation, Arrive, WaitTimeout,
       Goto, Stop, Stages, Faults
  <2>2. elected' \in [Node -> BOOLEAN] /\ arrived' \in [Round -> SUBSET Node]
    <3>1. CASE Elect(n) \/ EndGossip(n) \/ AwaitDecisions(n) \/ AwaitInstallation(n) \/ WaitTimeout(n)
      BY <3>1 DEF TypeOK, Elect, EndGossip, AwaitDecisions, AwaitInstallation, WaitTimeout, nodeVars,
         registryVars
    <3>2. CASE Arrive(n)
      <4>1. round[n] \in Round
        BY <3>2, CurrentRound DEF Arrive, At
      <4> QED
        BY <3>2, <4>1 DEF TypeOK, Arrive, nodeVars
    <3> QED
      BY <1>11, <3>1, <3>2
  <2>3. UNCHANGED <<round, rows, pool, known, ready, learner, installed, decided, parent,
                    submitted, admission, aggregate, holders, final>>
    BY <1>11 DEF Elect, EndGossip, AwaitDecisions, AwaitInstallation, Arrive, WaitTimeout, Stop,
       nodeVars, registryVars, ledgerVars
  <2> QED
    BY <1>0, <2>1, <2>2, <2>3 DEF TypeOK
<1> QED
  BY <1>2, <1>3, <1>4, <1>5, <1>6, <1>7, <1>8, <1>9, <1>10, <1>11 DEF Next, StageStep, MessageStep

-----------------------------------------------------------------------------
(* How threads walk through a round, and what the ledger only adds to. *)

\* Rounds are natural numbers.
LEMMA RoundNat == Round \subseteq Nat /\ 0..(MaxRound + 1) \subseteq Nat
  BY BoundAssumption DEF Round

\* Where the thread of a node goes within a round.
Route == {<<"elect", "train">>, <<"elect", "await">>, <<"train", "publish">>,
          <<"publish", "decisions">>, <<"decisions", "gossip">>, <<"gossip", "wait">>,
          <<"wait", "diffuse">>, <<"await", "install">>, <<"install", "diffuse">>,
          <<"diffuse", "barrier">>}

\* A node stays, goes on along the route, stops, or passes the barrier.
Walks(x) ==
    \/ /\ round'[x] = round[x]
       /\ \/ pc'[x] = pc[x]
          \/ <<pc[x], pc'[x]>> \in Route
          \/ pc'[x] = "stopped" /\ pc[x] # "done"
    \/ /\ pc[x] = "barrier" /\ round'[x] = round[x] + 1
       /\ pc'[x] = IF round[x] = FinalRound THEN "done" ELSE "elect"
       /\ arrived[round[x]] = Node /\ final'[round[x]]

\* Every step lets every node walk.
LEMMA StepWalks ==
    ASSUME TypeOK, Placed, Next
    PROVE  \A x \in Node : Walks(x)
<1>1. pc \in [Node -> Stages] /\ round \in [Node -> 0..(MaxRound + 1)]
  BY DEF TypeOK
<1>2. ASSUME NEW n \in Node, PassBarrier(n) PROVE \A x \in Node : Walks(x)
  <2>1. round[n] \in Round /\ final \in [Round -> BOOLEAN]
    BY <1>2, CurrentRound, PassBarrierEffect DEF TypeOK
  <2> QED
    BY <1>1, <1>2, <2>1, PassBarrierEffect DEF Walks
<1>3. ASSUME NEW n \in Node, Aggregate(n) PROVE \A x \in Node : Walks(x)
  BY <1>1, <1>3, AggregateEffect DEF Walks, Route
<1>4. ASSUME NEW n \in Node, NEW m \in Node, SendFull(n, m) PROVE \A x \in Node : Walks(x)
  <2>1. pc[m] # "done"
    BY <1>4, SendFullEffect DEF Active
  <2> QED
    BY <1>1, <1>4, <2>1, SendFullEffect DEF Walks
<1>5. ASSUME NEW n \in Node, Submit(n) \/ Admit(n) \/ WaitTimeout(n) PROVE \A x \in Node : Walks(x)
  BY <1>1, <1>5 DEF Submit, Admit, WaitTimeout, Waiting, Stop, At, Goto, Walks, Route
<1>6. ASSUME NEW n \in Node, Elect(n) \/ Publish(n) \/ EndGossip(n) PROVE \A x \in Node : Walks(x)
  BY <1>1, <1>6 DEF Elect, Publish, EndGossip, At, Goto, Walks, Route
<1>7. ASSUME NEW n \in Node, AwaitDecisions(n) \/ AwaitInstallation(n) \/ Arrive(n)
      PROVE \A x \in Node : Walks(x)
  BY <1>1, <1>7 DEF AwaitDecisions, AwaitInstallation, Arrive, At, Goto, Walks, Route
<1>8. ASSUME NEW n \in Node, NEW m \in Node, SendPartial(n, m) \/ LearnModels(n, m) \/ LearnReady(n, m)
      PROVE \A x \in Node : Walks(x)
  BY <1>8 DEF SendPartial, LearnModels, LearnReady, Walks
<1> QED
  BY <1>2, <1>3, <1>4, <1>5, <1>6, <1>7, <1>8 DEF Next, StageStep, MessageStep

\* Places from which a thread only goes on to others of them, until the round ends.
Onward == {AfterPublish, AfterAdmit, {"barrier", "stopped"}}

\* Whoever is beyond such places stays beyond them.
LEMMA BeyondStays ==
    ASSUME TypeOK, Placed, Next, NEW x \in Node, NEW r \in Nat, NEW places \in Onward,
           Beyond(x, r, places)
    PROVE  Beyond(x, r, places)'
<1>1. Walks(x)
  BY StepWalks
<1>2. round[x] \in Nat
  BY BoundAssumption DEF TypeOK
<1>3. CASE places = AfterPublish
  BY <1>1, <1>2, <1>3 DEF Walks, Route, Beyond, AfterPublish
<1>4. CASE places = AfterAdmit
  BY <1>1, <1>2, <1>4 DEF Walks, Route, Beyond, AfterAdmit
<1>5. CASE places = {"barrier", "stopped"}
  BY <1>1, <1>2, <1>5 DEF Walks, Route, Beyond
<1> QED
  BY <1>3, <1>4, <1>5 DEF Onward

\* Which actions change which commitment.
LEMMA RecordingSteps ==
    ASSUME Next
    PROVE  /\ UNCHANGED submitted \/ \E n \in Node : Submit(n)
           /\ UNCHANGED <<decided, admission>> \/ \E n \in Node : Publish(n)
           /\ UNCHANGED arrived \/ \E n \in Node : Arrive(n)
           /\ UNCHANGED final \/ \E n \in Node : PassBarrier(n)
           /\ \/ UNCHANGED <<aggregate, holders, installed>>
              \/ \E n \in Node : Aggregate(n) \/ PassBarrier(n)
              \/ \E n, m \in Node : SendFull(n, m)
<1>1. ASSUME NEW n \in Node, Submit(n)
      PROVE  UNCHANGED <<decided, admission, arrived, final, aggregate, holders, installed>>
  BY <1>1 DEF Submit, registryVars
<1>2. ASSUME NEW n \in Node, Publish(n)
      PROVE  UNCHANGED <<submitted, arrived, final, aggregate, holders, installed>>
  BY <1>2 DEF Publish, nodeVars
<1>3. ASSUME NEW n \in Node, Arrive(n)
      PROVE  UNCHANGED <<submitted, decided, admission, final, aggregate, holders, installed>>
  BY <1>3 DEF Arrive, nodeVars, ledgerVars
<1>4. ASSUME NEW n \in Node, Elect(n) \/ Admit(n) \/ EndGossip(n) \/ AwaitDecisions(n)
                             \/ AwaitInstallation(n) \/ WaitTimeout(n)
      PROVE  UNCHANGED <<submitted, decided, admission, arrived, final, aggregate, holders, installed>>
  BY <1>4 DEF Elect, Admit, EndGossip, AwaitDecisions, AwaitInstallation, WaitTimeout, nodeVars,
     registryVars, ledgerVars
<1>5. ASSUME NEW n \in Node, NEW m \in Node, SendPartial(n, m) \/ LearnModels(n, m) \/ LearnReady(n, m)
      PROVE  UNCHANGED <<submitted, decided, admission, arrived, final, aggregate, holders, installed>>
  BY <1>5 DEF SendPartial, LearnModels, LearnReady, registryVars, ledgerVars
<1> QED
  BY <1>1, <1>2, <1>3, <1>4, <1>5, AggregateEffect, SendFullEffect, PassBarrierEffect
     DEF Next, StageStep, MessageStep

\* A confirmed installation settles nothing again.
LEMMA ConfirmGrows ==
    ASSUME TypeOK, NEW n \in Node, round[n] \in Round, NEW h, Confirms(n, h) \/ ConfirmsNothing,
           NEW r \in Round
    PROVE  /\ aggregate[r] # None => aggregate'[r] = aggregate[r]
           /\ holders[r] \subseteq holders'[r]
<1>1. aggregate \in [Round -> {None} \cup Digest] /\ holders \in [Round -> SUBSET Node]
  BY DEF TypeOK
<1> QED
  BY <1>1 DEF Confirms, ConfirmsNothing, Confirm, Confirmable

\* Nothing that is committed of a round is taken back.
Grows(r) ==
    /\ submitted[r] \subseteq submitted'[r]
    /\ decided[r] \subseteq decided'[r]
    /\ arrived[r] \subseteq arrived'[r]
    /\ holders[r] \subseteq holders'[r]
    /\ final[r] => final'[r]
    /\ admission[r] # None => admission'[r] = admission[r]
    /\ aggregate[r] # None => aggregate'[r] = aggregate[r]

\* The admission is settled once: the decision of whoever publishes was missing.
LEMMA PublishIsFirst ==
    ASSUME TypeOK, Placed, Decisions, Settled, NEW n \in Node, Publish(n)
    PROVE  /\ round[n] \in Round /\ n \in Trainer
           /\ n \notin decided[round[n]]
           /\ admission[round[n]] = None
<1>1. round[n] \in Round /\ pc[n] = "publish"
  BY CurrentRound DEF Publish, At
<1>2. n \in Trainer
  BY <1>1 DEF Placed
<1>3. ~Beyond(n, round[n], AfterPublish)
  BY <1>1 DEF Beyond, AfterPublish, TypeOK
<1>4. n \notin decided[round[n]]
  BY <1>1, <1>3 DEF Decisions
<1> QED
  BY <1>1, <1>2, <1>4 DEF Settled

\* Every step only adds to the commitments.
LEMMA StepGrows ==
    ASSUME TypeOK, Placed, Decisions, Settled, Next
    PROVE  \A r \in Round : Grows(r)
<1> SUFFICES ASSUME NEW r \in Round PROVE Grows(r)
  OBVIOUS
<1>1. submitted[r] \subseteq submitted'[r]
  <2>1. ASSUME NEW n \in Node, Submit(n) PROVE submitted[r] \subseteq submitted'[r]
    <3>1. submitted \in [Round -> SUBSET Trainer]
      BY DEF TypeOK
    <3> QED
      BY <2>1, <3>1 DEF Submit
  <2> QED
    BY <2>1, RecordingSteps
<1>2. decided[r] \subseteq decided'[r] /\ (admission[r] # None => admission'[r] = admission[r])
  <2>1. ASSUME NEW n \in Node, Publish(n)
        PROVE decided[r] \subseteq decided'[r] /\ (admission[r] # None => admission'[r] = admission[r])
    <3>1. decided \in [Round -> SUBSET Trainer] /\ admission \in [Round -> {None} \cup SUBSET Trainer]
      BY DEF TypeOK
    <3>2. admission[round[n]] = None
      BY <2>1, PublishIsFirst
    <3> QED
      BY <2>1, <3>1, <3>2 DEF Publish
  <2> QED
    BY <2>1, RecordingSteps
<1>3. arrived[r] \subseteq arrived'[r]
  <2>1. ASSUME NEW n \in Node, Arrive(n) PROVE arrived[r] \subseteq arrived'[r]
    <3>1. arrived \in [Round -> SUBSET Node]
      BY DEF TypeOK
    <3> QED
      BY <2>1, <3>1 DEF Arrive
  <2> QED
    BY <2>1, RecordingSteps
<1>4. final[r] => final'[r]
  <2>1. ASSUME NEW n \in Node, PassBarrier(n) PROVE final[r] => final'[r]
    <3>1. final \in [Round -> BOOLEAN]
      BY DEF TypeOK
    <3> QED
      BY <2>1, <3>1, PassBarrierEffect
  <2> QED
    BY <2>1, RecordingSteps
<1>5. holders[r] \subseteq holders'[r] /\ (aggregate[r] # None => aggregate'[r] = aggregate[r])
  <2>1. ASSUME NEW n \in Node, Aggregate(n)
        PROVE holders[r] \subseteq holders'[r] /\ (aggregate[r] # None => aggregate'[r] = aggregate[r])
    <3>1. round[n] \in Round /\ (Confirms(n, Average(pool[n])) \/ ConfirmsNothing)
      BY <2>1, CurrentRound, AggregateEffect
    <3> QED
      BY <3>1, ConfirmGrows
  <2>2. ASSUME NEW n \in Node, NEW m \in Node, SendFull(n, m)
        PROVE holders[r] \subseteq holders'[r] /\ (aggregate[r] # None => aggregate'[r] = aggregate[r])
    <3>1. round[m] \in Round /\ (Confirms(m, learner[n]) \/ ConfirmsNothing)
      BY <2>2, CurrentRound, SendFullEffect DEF Active
    <3> QED
      BY <3>1, ConfirmGrows
  <2>3. ASSUME NEW n \in Node, PassBarrier(n) PROVE UNCHANGED <<aggregate, holders>>
    BY <2>3, PassBarrierEffect
  <2> QED
    BY <2>1, <2>2, <2>3, RecordingSteps
<1> QED
  BY <1>1, <1>2, <1>3, <1>4, <1>5 DEF Grows

-----------------------------------------------------------------------------
(* The stage machine and the barrier. *)

\* A train set is never forgotten: train_set is not cleared between rounds.
LEMMA ElectedStays ==
    ASSUME TypeOK, Next, NEW x \in Node
    PROVE  elected[x] => elected'[x]
<1>1. elected \in [Node -> BOOLEAN]
  BY DEF TypeOK
<1>2. ASSUME NEW n \in Node, Elect(n) PROVE elected[x] => elected'[x]
  BY <1>1, <1>2 DEF Elect
<1> QED
  BY <1>2, AggregateEffect, SendFullEffect, PassBarrierEffect DEF Next, StageStep, MessageStep,
     Submit, Publish, Admit, EndGossip, AwaitDecisions, AwaitInstallation, Arrive, WaitTimeout,
     SendPartial, LearnModels, LearnReady, nodeVars

\* Only its own thread moves a node on, and each place is left by one stage step.
LEMMA OwnStep ==
    ASSUME TypeOK, Next, NEW x \in Node, pc'[x] # pc[x], pc'[x] # "stopped"
    PROVE  /\ pc[x] = "elect" => Elect(x)
           /\ pc[x] = "train" => Submit(x)
           /\ pc[x] = "publish" => Publish(x)
           /\ pc[x] = "decisions" => Admit(x)
           /\ pc[x] = "gossip" => EndGossip(x)
           /\ pc[x] = "wait" => Aggregate(x)
           /\ pc[x] = "await" => AwaitDecisions(x)
           /\ pc[x] = "install" => AwaitInstallation(x)
           /\ pc[x] = "diffuse" => Arrive(x)
           /\ pc[x] = "barrier" => PassBarrier(x)
<1>1. pc \in [Node -> Stages]
  BY DEF TypeOK
<1>2. ASSUME NEW n \in Node, StageStep(n), n # x PROVE FALSE
  BY <1>1, <1>2, AggregateEffect, PassBarrierEffect DEF StageStep, Elect, Submit, Publish, Admit,
     EndGossip, AwaitDecisions, AwaitInstallation, Arrive, WaitTimeout, Goto, Stop
<1>3. ASSUME NEW n \in Node, NEW m \in Node, MessageStep(n, m) PROVE FALSE
  BY <1>1, <1>3, SendFullEffect DEF MessageStep, SendPartial, LearnModels, LearnReady
<1>4. StageStep(x) /\ ~WaitTimeout(x)
  BY <1>1, <1>2, <1>3 DEF Next, WaitTimeout, Stop, Goto
<1> QED
  BY <1>4, AggregateEffect, PassBarrierEffect DEF StageStep, Elect, Submit, Publish, Admit, EndGossip,
     AwaitDecisions, AwaitInstallation, Arrive, At

\* Placed is kept.
LEMMA PlacedStep ==
    ASSUME TypeOK, Placed, Next
    PROVE  Placed'
<1>0. UNCHANGED <<Trainer, FinalRound>> /\ FinalRound \in Round
  BY StepFreezes, SameExperiment, ExperimentShape DEF TypeOK
<1>1. ASSUME NEW x \in Node
      PROVE  /\ pc'[x] = "done" => round'[x] = FinalRound + 1
             /\ pc'[x] # "done" => round'[x] \in 0..FinalRound
  BY <1>0, StepWalks, BoundAssumption DEF Placed, Walks, Route, Round
<1>2. ASSUME NEW x \in Node
      PROVE  pc'[x] \in {"train", "publish", "decisions", "gossip", "wait"} => x \in Trainer
  <2>2. CASE pc'[x] = "train" /\ pc[x] = "elect"
    BY <2>2, OwnStep DEF Elect, Goto, TypeOK
  <2>3. CASE ~(pc'[x] = "train" /\ pc[x] = "elect")
    BY <2>3, StepWalks DEF Placed, Walks, Route
  <2> QED
    BY <2>2, <2>3
<1>3. ASSUME NEW x \in Node
      PROVE  pc'[x] \notin {"elect", "stopped"} => elected'[x]
  <2>1. CASE pc[x] = "elect" /\ pc'[x] \in {"train", "await"}
    BY <2>1, OwnStep DEF Elect, TypeOK
  <2>2. CASE ~(pc[x] = "elect" /\ pc'[x] \in {"train", "await"})
    BY <2>2, StepWalks, ElectedStays DEF Placed, Walks, Route
  <2> QED
    BY <2>1, <2>2
<1> QED
  BY <1>0, <1>1, <1>2, <1>3 DEF Placed

\* Finals is kept.
LEMMA FinalsStep ==
    ASSUME TypeOK, TypeOK', Placed, Finals, Decisions, Settled, Next
    PROVE  Finals'
<1> SUFFICES ASSUME NEW r \in Round, final'[r] PROVE arrived'[r] = Node /\ aggregate'[r] # None
  BY DEF Finals
<1>1. Grows(r) /\ arrived'[r] \subseteq Node
  BY StepGrows DEF TypeOK
<1>2. CASE final[r]
  BY <1>1, <1>2 DEF Finals, Grows
<1>3. CASE ~final[r]
  <2>1. PICK n \in Node : PassBarrier(n)
    BY <1>3, RecordingSteps
  <2>2. round[n] = r /\ final' = [final EXCEPT ![round[n]] = TRUE]
    BY <1>3, <2>1, PassBarrierEffect DEF TypeOK
  <2>3. arrived[r] = Node /\ aggregate[r] # None
    BY <1>3, <2>1, <2>2, PassBarrierEffect
  <2> QED
    BY <1>1, <2>3 DEF Grows
<1> QED
  BY <1>2, <1>3

\* Arrivals is kept.
LEMMA ArrivalsStep ==
    ASSUME TypeOK, TypeOK', Placed, Arrivals, Finals, Decisions, Settled, Installs, Next
    PROVE  Arrivals'
<1> SUFFICES ASSUME NEW x \in Node, NEW r \in Round
             PROVE  /\ x \in arrived'[r] =>
                          Beyond(x, r, {"barrier", "stopped"})' /\ x \in holders'[r]
                    /\ pc'[x] = "barrier" => x \in arrived'[round'[x]]
                    /\ round'[x] > r => final'[r]
  BY DEF Arrivals
<1>1. Grows(r) /\ Walks(x)
  BY StepGrows, StepWalks
<1>2. ASSUME x \in arrived'[r] PROVE Beyond(x, r, {"barrier", "stopped"})' /\ x \in holders'[r]
  <2>1. CASE x \in arrived[r]
    BY <1>1, <2>1, BeyondStays, RoundNat DEF Arrivals, Grows, Onward
  <2>2. CASE x \notin arrived[r]
    <3>1. PICK n \in Node : Arrive(n)
      BY <1>2, <2>2, RecordingSteps
    <3>2. arrived \in [Round -> SUBSET Node] /\ round[n] \in Round
      BY <3>1, CurrentRound DEF TypeOK, Arrive, At
    <3>3. n = x /\ round[n] = r
      BY <1>2, <2>2, <3>1, <3>2 DEF Arrive
    <3>4. pc'[x] = "barrier" /\ round' = round
      BY <3>1, <3>3 DEF Arrive, Goto, TypeOK
    <3>5. x \in holders[r]
      BY <3>1, <3>3 DEF Arrive, At, Installs
    <3> QED
      BY <1>1, <3>3, <3>4, <3>5 DEF Beyond, Grows
  <2> QED
    BY <2>1, <2>2
<1>3. ASSUME pc'[x] = "barrier" PROVE x \in arrived'[round'[x]]
  <2>1. round'[x] = round[x] /\ pc[x] \in {"diffuse", "barrier"}
    BY <1>1, <1>3 DEF Walks, Route
  <2>2. round[x] \in Round /\ Grows(round[x])
    BY <2>1, CurrentRound, StepGrows
  <2>3. CASE pc[x] = "barrier"
    BY <2>1, <2>2, <2>3 DEF Arrivals, Grows
  <2>4. CASE pc[x] = "diffuse"
    <3>1. Arrive(x)
      BY <1>3, <2>4, OwnStep
    <3> QED
      BY <2>1, <2>2, <3>1 DEF Arrive, TypeOK
  <2> QED
    BY <2>1, <2>3, <2>4
<1>4. ASSUME round'[x] > r PROVE final'[r]
  <2>1. round[x] \in Nat /\ r \in Nat
    BY BoundAssumption DEF TypeOK, Round
  <2>2. CASE round[x] > r
    BY <1>1, <2>2 DEF Arrivals, Grows
  <2>3. CASE ~(round[x] > r)
    <3>1. round[x] = r /\ final'[round[x]]
      BY <1>1, <1>4, <2>1, <2>3 DEF Walks
    <3> QED
      BY <3>1
  <2> QED
    BY <2>2, <2>3
<1> QED
  BY <1>2, <1>3, <1>4

-----------------------------------------------------------------------------
(* Decisions, installations and parents. *)

\* Decisions is kept.
LEMMA DecisionsStep ==
    ASSUME TypeOK, TypeOK', Placed, Arrivals, Decisions, Settled, Next
    PROVE  Decisions'
<1>0. UNCHANGED <<Trainer, AdmittedSet>> /\ \A r \in Round : Grows(r)
  BY StepFreezes, SameExperiment, StepGrows
<1>1. ASSUME NEW x \in Node, NEW r \in Round, x \in decided'[r] PROVE Beyond(x, r, AfterPublish)'
  <2>1. CASE x \in decided[r]
    BY <2>1, BeyondStays, RoundNat DEF Decisions, Onward
  <2>2. CASE x \notin decided[r]
    <3>1. PICK n \in Node : Publish(n)
      BY <1>1, <2>2, RecordingSteps
    <3>2. decided \in [Round -> SUBSET Trainer]
      BY DEF TypeOK
    <3>3. n = x /\ round[n] = r
      BY <1>1, <2>2, <3>1, <3>2, PublishIsFirst DEF Publish
    <3>4. pc'[x] = "decisions" /\ round' = round
      BY <3>1, <3>3 DEF Publish, Goto, TypeOK
    <3> QED
      BY <3>3, <3>4 DEF Beyond, AfterPublish
  <2> QED
    BY <2>1, <2>2
<1>2. ASSUME NEW r \in Round PROVE decided'[r] \subseteq submitted'[r]
  <2>1. decided[r] \subseteq submitted'[r]
    BY <1>0 DEF Decisions, Grows
  <2>2. ASSUME NEW n \in Node, Publish(n) PROVE decided'[r] \subseteq submitted'[r]
    <3>1. decided \in [Round -> SUBSET Trainer] /\ round[n] \in Round
      BY <2>2, CurrentRound DEF TypeOK, Publish, At
    <3>2. n \in submitted[round[n]] /\ submitted' = submitted
      BY <2>2 DEF Publish, At, Decisions
    <3> QED
      BY <2>1, <2>2, <3>1, <3>2 DEF Publish
  <2> QED
    BY <2>1, <2>2, RecordingSteps
<1>3. ASSUME NEW x \in Node, pc'[x] = "publish" PROVE x \in submitted'[round'[x]]
  <2>1. round'[x] = round[x] /\ pc[x] \in {"train", "publish"}
    BY <1>3, StepWalks DEF Walks, Route
  <2>2. round[x] \in Round
    BY <2>1, CurrentRound
  <2>3. CASE pc[x] = "publish"
    BY <1>0, <2>1, <2>2, <2>3 DEF Decisions, Grows
  <2>4. CASE pc[x] = "train"
    <3>1. Submit(x) /\ submitted \in [Round -> SUBSET Trainer]
      BY <1>3, <2>4, OwnStep DEF TypeOK
    <3>2. submitted' = [submitted EXCEPT ![round[x]] = @ \cup {x}]
      BY <1>3, <3>1 DEF Submit, Stop, Goto, TypeOK
    <3> QED
      BY <2>1, <2>2, <3>1, <3>2
  <2> QED
    BY <2>1, <2>3, <2>4
<1>4. ASSUME NEW x \in Node, pc'[x] \in {"gossip", "wait"} PROVE decided'[round'[x]] = Trainer
  <2>1. round'[x] = round[x] /\ pc[x] \in {"decisions", "gossip", "wait"}
    BY <1>4, StepWalks DEF Walks, Route
  <2>2. round[x] \in Round /\ decided'[round[x]] \in SUBSET Trainer
    BY <1>0, <2>1, CurrentRound DEF TypeOK
  <2>3. decided[round[x]] = Trainer
    BY <1>4, <2>1, OwnStep DEF Admit, AllDecided, Decisions
  <2> QED
    BY <1>0, <2>1, <2>2, <2>3 DEF Grows
<1>5. ASSUME NEW r \in Round, decided'[r] = Trainer, Trainer # {} PROVE admission'[r] # None
  <2>1. CASE decided[r] = Trainer
    BY <1>0, <1>5, <2>1 DEF Decisions, Grows
  <2>2. CASE decided[r] # Trainer
    <3>1. PICK n \in Node : Publish(n)
      BY <1>5, <2>2, RecordingSteps
    <3>2. decided \in [Round -> SUBSET Trainer] /\ admission \in [Round -> {None} \cup SUBSET Trainer]
      BY DEF TypeOK
    <3>3. round[n] = r /\ decided'[r] = decided[r] \cup {n}
      BY <1>5, <2>2, <3>1, <3>2 DEF Publish
    <3>4. admission'[r] = submitted[r] \cap AdmittedSet
      BY <1>5, <3>1, <3>2, <3>3 DEF Publish, AllDecidedAfter
    <3>5. submitted[r] \cap AdmittedSet \in SUBSET Node
      BY ExperimentShape DEF TypeOK
    <3> QED
      BY <3>4, <3>5, NoneAssumption
  <2> QED
    BY <2>1, <2>2
<1> QED
  BY <1>0, <1>1, <1>2, <1>3, <1>4, <1>5 DEF Decisions

\* No aggregate is settled of a round that a trainer has not published its
\* candidate of, so nothing is installed there and its learner is its own.
LEMMA BeforePublish ==
    ASSUME TypeOK, Placed, Decisions, Settled, NEW n \in Trainer,
           pc[n] \in {"elect", "train", "publish"}
    PROVE  admission[round[n]] = None /\ aggregate[round[n]] = None
<1>1. n \in Node /\ round[n] \in Round
  BY CurrentRound, ExperimentShape DEF TypeOK
<1>2. ~Beyond(n, round[n], AfterPublish)
  BY <1>1 DEF Beyond, AfterPublish, TypeOK
<1> QED
  BY <1>1, <1>2 DEF Decisions, Settled

\* Which actions change what a node has in its learner or has installed.
LEMMA ModelSteps ==
    ASSUME TypeOK, Next, NEW x \in Node
    PROVE  \/ learner'[x] = learner[x] /\ installed'[x] = installed[x]
           \/ Submit(x) \/ Aggregate(x) \/ PassBarrier(x)
           \/ \E n \in Node : SendFull(n, x)
<1>1. learner \in [Node -> Digest] /\ installed \in [Node -> {None} \cup Digest]
  BY DEF TypeOK
<1>2. ASSUME NEW n \in Node, Submit(n), n # x
      PROVE  learner'[x] = learner[x] /\ installed'[x] = installed[x]
  BY <1>1, <1>2 DEF Submit
<1>3. ASSUME NEW n \in Node, Aggregate(n) \/ PassBarrier(n), n # x
      PROVE  learner'[x] = learner[x] /\ installed'[x] = installed[x]
  BY <1>1, <1>3, AggregateEffect, PassBarrierEffect DEF Confirms, ConfirmsNothing
<1>4. ASSUME NEW n \in Node, NEW m \in Node, SendFull(n, m), m # x
      PROVE  learner'[x] = learner[x] /\ installed'[x] = installed[x]
  BY <1>1, <1>4, SendFullEffect DEF Confirms, ConfirmsNothing
<1> QED
  BY <1>2, <1>3, <1>4 DEF Next, StageStep, MessageStep, Elect, Publish, Admit, EndGossip, AwaitDecisions,
     AwaitInstallation, Arrive, WaitTimeout, SendPartial, LearnModels, LearnReady, nodeVars

\* A confirmed installation at x.
LEMMA ConfirmInstalls ==
    ASSUME TypeOK, NEW x \in Node, round[x] \in Round, NEW h \in Digest, Confirms(x, h)
    PROVE  /\ installed'[x] = h /\ h # None
           /\ aggregate'[round[x]] = h
           /\ x \in holders'[round[x]]
<1>1. /\ installed \in [Node -> {None} \cup Digest]
      /\ aggregate \in [Round -> {None} \cup Digest] /\ holders \in [Round -> SUBSET Node]
  BY DEF TypeOK
<1> QED
  BY <1>1, NoneAssumption DEF Confirms, Confirm

\* Installs is kept.
LEMMA InstallsStep ==
    ASSUME TypeOK, TypeOK', Placed, Decisions, Settled, Installs, Next
    PROVE  Installs'
<1> SUFFICES ASSUME NEW x \in Node
             PROVE  /\ installed'[x] # None =>
                          /\ pc'[x] # "done"
                          /\ installed'[x] = aggregate'[round'[x]]
                          /\ x \in holders'[round'[x]]
                          /\ pc'[x] # "stopped" => learner'[x] = installed'[x]
                    /\ pc'[x] \in {"diffuse", "barrier"} => installed'[x] # None
  BY DEF Installs
<1>1. /\ installed \in [Node -> {None} \cup Digest] /\ learner \in [Node -> Digest]
      /\ pc \in [Node -> Stages]
  BY DEF TypeOK
\* What is installed stays the aggregate of the round, and the node its holder.
<1>2. ASSUME installed[x] # None
      PROVE  /\ round[x] \in Round
             /\ aggregate'[round[x]] = installed[x] /\ x \in holders'[round[x]]
  <2>1. round[x] \in Round /\ Grows(round[x])
    BY <1>2, CurrentRound, StepGrows DEF Installs
  <2> QED
    BY <1>2, <2>1 DEF Installs, Grows
<1>3. CASE Submit(x)
  <2>1. x \in Trainer /\ pc[x] = "train" /\ pc'[x] \in {"publish", "stopped"} /\ installed' = installed
    BY <1>1, <1>3 DEF Submit, At, Stop, Goto, Placed
  <2>2. installed[x] = None
    BY <2>1, BeforePublish DEF Installs
  <2> QED
    BY <2>1, <2>2
<1>4. CASE Aggregate(x)
  <2>1. round[x] \in Round /\ round' = round /\ Average(pool[x]) \in Digest
    BY <1>4, CurrentRound, AggregateEffect, PoolShape, AverageShape
  <2>2. CASE Confirms(x, Average(pool[x])) /\ learner' = [learner EXCEPT ![x] = Average(pool[x])]
             /\ pc' = [pc EXCEPT ![x] = "diffuse"]
    BY <1>1, <2>1, <2>2, ConfirmInstalls
  <2>3. CASE ConfirmsNothing /\ pc' = [pc EXCEPT ![x] = "stopped"]
    BY <1>1, <1>2, <2>1, <2>3 DEF ConfirmsNothing
  <2> QED
    BY <1>4, <2>2, <2>3, AggregateEffect
<1>5. ASSUME NEW n \in Node, SendFull(n, x)
      PROVE  /\ installed'[x] # None =>
                   /\ pc'[x] # "done"
                   /\ installed'[x] = aggregate'[round'[x]]
                   /\ x \in holders'[round'[x]]
                   /\ pc'[x] # "stopped" => learner'[x] = installed'[x]
             /\ pc'[x] \in {"diffuse", "barrier"} => installed'[x] # None
  <2>1. /\ round[x] \in Round /\ round' = round /\ learner[n] \in Digest
        /\ pc[x] \notin {"done", "stopped"}
    BY <1>1, <1>5, CurrentRound, SendFullEffect DEF Active
  <2>2. CASE Confirms(x, learner[n]) /\ learner' = [learner EXCEPT ![x] = learner[n]] /\ pc' = pc
    BY <1>1, <2>1, <2>2, ConfirmInstalls
  <2>3. CASE ConfirmsNothing /\ UNCHANGED <<pc, learner>>
    BY <1>2, <2>1, <2>3 DEF ConfirmsNothing, Installs
  <2>4. CASE ConfirmsNothing /\ pc' = [pc EXCEPT ![x] = "stopped"]
    BY <1>1, <1>2, <2>1, <2>4 DEF ConfirmsNothing
  <2> QED
    BY <1>5, <2>2, <2>3, <2>4, SendFullEffect
<1>6. CASE PassBarrier(x)
  <2>1. CASE installed' = [installed EXCEPT ![x] = None] /\ pc'[x] \in {"done", "elect"}
    BY <1>1, <2>1
  <2>2. CASE pc'[x] = "stopped" /\ installed' = installed /\ round' = round
    BY <1>2, <2>2
  <2> QED
    BY <1>1, <1>6, <2>1, <2>2, PassBarrierEffect
<1>7. CASE learner'[x] = learner[x] /\ installed'[x] = installed[x] /\ ~PassBarrier(x) /\ ~Aggregate(x)
  <2>1. pc'[x] = pc[x] \/ (pc'[x] # "done" /\ pc[x] # "barrier")
        \/ pc'[x] = "stopped"
    BY <1>7, StepWalks, OwnStep DEF Walks, Route
  <2>2. round'[x] = round[x]
    BY <1>7, StepWalks, OwnStep DEF Walks
  <2>3. pc'[x] \in {"diffuse", "barrier"} => installed[x] # None
    BY <1>7, <2>2, StepWalks, OwnStep DEF Walks, Route, AwaitInstallation, Installs
  <2>4. pc'[x] # "stopped" => pc[x] # "stopped"
    BY StepWalks DEF Walks, Route
  <2> QED
    BY <1>2, <1>7, <2>1, <2>2, <2>3, <2>4 DEF Installs
<1> QED
  BY <1>3, <1>4, <1>5, <1>6, <1>7, ModelSteps

\* Parents is kept.
LEMMA ParentsStep ==
    ASSUME TypeOK, TypeOK', Placed, Arrivals, Finals, Decisions, Settled, Installs, Parents, Next
    PROVE  Parents'
<1>0. UNCHANGED Trainer /\ Trainer \subseteq Node /\ \A r \in Round : Grows(r)
  BY StepFreezes, SameExperiment, ExperimentShape, StepGrows DEF TypeOK
\* The model a round starts from is settled before anyone is in the round.
<1>1. ASSUME NEW x \in Node, pc[x] # "done"
      PROVE  /\ round[x] \in Round /\ round[x] \in Nat
             /\ round[x] > 0 =>
                   aggregate[round[x] - 1] # None /\ aggregate'[round[x] - 1] = aggregate[round[x] - 1]
  <2>1. round[x] \in Round /\ round[x] \in Nat
    BY <1>1, CurrentRound, BoundAssumption DEF Round
  <2>2. round[x] > 0 => round[x] - 1 \in Round /\ round[x] > round[x] - 1
    BY <2>1, BoundAssumption DEF Round
  <2> QED
    BY <1>0, <2>1, <2>2 DEF Arrivals, Finals, Grows
<1>2. ASSUME NEW x \in Trainer, pc'[x] \in {"elect", "train"}
      PROVE  learner'[x] = IF round'[x] = 0 THEN InitialModel ELSE aggregate'[round'[x] - 1]
  <2>0. x \in Node /\ round' \in [Node -> 0..(MaxRound + 1)] /\ pc \in [Node -> Stages] /\ pc[x] # "done"
    BY <1>0, <1>2, StepWalks DEF TypeOK, Walks, Route
  <2>1. CASE PassBarrier(x)
    <3>1. pc[x] = "barrier" /\ round'[x] = round[x] + 1
      BY <1>2, <2>0, <2>1, PassBarrierEffect, StepWalks DEF Walks, Route
    <3>2. round[x] \in Round /\ round[x] \in Nat
      BY <1>1, <2>0
    <3>3. learner' = learner /\ aggregate' = aggregate
      BY <2>0, <2>1, PassBarrierEffect
    <3>4. learner[x] = aggregate[round[x]]
      BY <2>0, <3>1 DEF Installs
    <3>5. round[x] + 1 # 0 /\ (round[x] + 1) - 1 = round[x]
      BY <3>2
    <3> QED
      BY <3>1, <3>3, <3>4, <3>5
  <2>2. CASE ~PassBarrier(x)
    <3>1. round'[x] = round[x] /\ pc[x] \in {"elect", "train"}
      BY <1>2, <2>0, <2>2, StepWalks, OwnStep DEF Walks, Route
    <3>2. ~Submit(x) /\ ~Aggregate(x)
      BY <1>2, <2>0, <3>1, AggregateEffect DEF Submit, Stop, Goto
    <3>3. ASSUME NEW n \in Node, SendFull(n, x) PROVE learner'[x] = learner[x]
      <4>1. admission[round[x]] = None /\ aggregate[round[x]] = None
        BY <3>1, BeforePublish
      <4>2. installed[x] = None
        BY <2>0, <4>1 DEF Installs
      <4>3. ~Confirms(x, learner[n])
        BY <4>1 DEF Confirms, Confirmable
      <4>4. pc'[x] # "stopped"
        BY <1>2
      <4> QED
        BY <2>0, <3>3, <4>3, <4>4, SendFullEffect
    <3>4. learner'[x] = learner[x]
      BY <2>0, <2>2, <3>2, <3>3, ModelSteps
    <3> QED
      BY <1>1, <2>0, <3>1, <3>4 DEF Parents
  <2> QED
    BY <2>1, <2>2
<1>3. ASSUME NEW r \in Round, parent'[r] # None
      PROVE  parent'[r] = IF r = 0 THEN InitialModel ELSE aggregate'[r - 1]
  <2>0. r \in Nat /\ (r > 0 => r - 1 \in Round)
    BY BoundAssumption DEF Round
  <2>1. CASE parent'[r] = parent[r]
    <3>1. parent[r] = IF r = 0 THEN InitialModel ELSE aggregate[r - 1]
      BY <1>3, <2>1 DEF Parents, ParentIsPreviousAggregate
    <3>2. r > 0 => aggregate'[r - 1] = aggregate[r - 1]
      BY <1>0, <1>3, <2>0, <2>1, <3>1 DEF Grows
    <3> QED
      BY <2>0, <2>1, <3>1, <3>2
  <2>2. CASE parent'[r] # parent[r]
    <3>1. PICK n \in Node : Submit(n) /\ round[n] = r /\ parent'[r] = learner[n]
      <4>1. parent \in [Round -> {None} \cup Digest]
        BY DEF TypeOK
      <4>2. PICK n \in Node : Submit(n)
        BY <2>2, AggregateEffect, SendFullEffect, PassBarrierEffect DEF Next, StageStep, MessageStep, Elect,
           Publish, Admit, EndGossip, AwaitDecisions, AwaitInstallation, Arrive, WaitTimeout, SendPartial,
           LearnModels, LearnReady, ledgerVars
      <4> QED
        BY <2>2, <4>1, <4>2 DEF Submit, ParentOf
    <3>2. n \in Trainer /\ pc[n] = "train"
      BY <3>1 DEF Submit, At, Placed
    <3>3. learner[n] = IF round[n] = 0 THEN InitialModel ELSE aggregate[round[n] - 1]
      BY <3>2 DEF Parents
    <3>4. round[n] > 0 => aggregate'[round[n] - 1] = aggregate[round[n] - 1]
      BY <1>1, <3>2
    <3> QED
      BY <2>0, <3>1, <3>3, <3>4
  <2> QED
    BY <2>1, <2>2
<1> QED
  BY <1>0, <1>2, <1>3 DEF Parents, ParentIsPreviousAggregate

-----------------------------------------------------------------------------
(* The pools, the gate and the aggregate. *)

\* A model is added at the end of a pool.
Appends(m, model) == pool' = [pool EXCEPT ![m] = Append(@, model)]

\* How a pool grows, and when it is emptied.
LEMMA PoolSteps ==
    ASSUME TypeOK, Placed, Pools, Next
    PROVE  \/ UNCHANGED <<pool, round>>
           \/ \E n \in Node :
                 /\ n \in AdmittedSet /\ pc[n] = "decisions" /\ pc'[n] = "gossip"
                 /\ UNCHANGED <<round, rows>> /\ Appends(n, {n})
           \/ \E n, m \in Node : \E model \in Offers(n, known[n][m]) :
                 /\ n # m /\ m \in Trainer /\ n \in Trainer /\ round[m] = round[n]
                 /\ Takes(m, model) /\ UNCHANGED <<round, pc>> /\ Appends(m, model)
                 /\ rows' = [rows EXCEPT ![m] = @ \cup GateRow(m, model)]
           \/ \E n \in Node :
                 /\ PassBarrier(n)
                 /\ pool' = [pool EXCEPT ![n] = <<>>] /\ rows' = [rows EXCEPT ![n] = {}]
                 /\ round' = [round EXCEPT ![n] = round[n] + 1]
<1>1. pool \in [Node -> Seq(SUBSET Trainer)] /\ pc \in [Node -> Stages]
  BY DEF TypeOK
<1>2. ASSUME NEW n \in Node, Admit(n)
      PROVE  \/ UNCHANGED <<pool, round>>
             \/ /\ n \in AdmittedSet /\ pc[n] = "decisions" /\ pc'[n] = "gossip"
                /\ UNCHANGED <<round, rows>> /\ Appends(n, {n})
  <2>1. Kept(pool[n]) = pool[n]
    BY NothingDropped
  <2>2. CASE n \in AdmittedSet /\ learner[n] = Candidate(n)
    BY <1>1, <1>2, <2>1, <2>2 DEF Admit, At, Goto, Appends
  <2>3. CASE ~(n \in AdmittedSet /\ learner[n] = Candidate(n))
    <3>1. pool' = [pool EXCEPT ![n] = pool[n]] /\ round' = round
      BY <1>2, <2>1, <2>3 DEF Admit, Stop
    <3> QED
      BY <1>1, <3>1
  <2> QED
    BY <2>2, <2>3
<1>3. ASSUME NEW n \in Node, NEW m \in Node, SendPartial(n, m)
      PROVE  \/ UNCHANGED <<pool, round>>
             \/ \E model \in Offers(n, known[n][m]) :
                   /\ n # m /\ m \in Trainer /\ n \in Trainer /\ round[m] = round[n]
                   /\ Takes(m, model) /\ UNCHANGED <<round, pc>> /\ Appends(m, model)
                   /\ rows' = [rows EXCEPT ![m] = @ \cup GateRow(m, model)]
  <2>1. PICK model \in Offers(n, known[n][m]) :
           /\ rows' = [rows EXCEPT ![m] = @ \cup GateRow(m, model)]
           /\ pool' = [pool EXCEPT ![m] = IF Takes(m, model) THEN Append(@, model) ELSE @]
    BY <1>3 DEF SendPartial
  <2>2. /\ n # m /\ m \in Trainer /\ n \in Trainer /\ round[m] = round[n]
        /\ UNCHANGED <<round, pc>>
    BY <1>3 DEF SendPartial, At, Placed
  <2>3. CASE Takes(m, model)
    BY <2>1, <2>2, <2>3 DEF Appends
  <2>4. CASE ~Takes(m, model)
    BY <1>1, <2>1, <2>2, <2>4
  <2> QED
    BY <2>3, <2>4
<1>4. ASSUME NEW n \in Node, PassBarrier(n)
      PROVE  \/ UNCHANGED <<pool, round>>
             \/ /\ pool' = [pool EXCEPT ![n] = <<>>] /\ rows' = [rows EXCEPT ![n] = {}]
                /\ round' = [round EXCEPT ![n] = round[n] + 1]
  BY <1>4, PassBarrierEffect
<1>5. ASSUME NEW n \in Node, StageStep(n), ~Admit(n), ~PassBarrier(n) PROVE UNCHANGED <<pool, round>>
  BY <1>5, AggregateEffect DEF StageStep, Elect, Submit, Publish, EndGossip, AwaitDecisions,
     AwaitInstallation, Arrive, WaitTimeout, Stop, nodeVars
<1>6. ASSUME NEW n \in Node, NEW m \in Node, MessageStep(n, m), ~SendPartial(n, m)
      PROVE UNCHANGED <<pool, round>>
  BY <1>6, SendFullEffect DEF MessageStep, LearnModels, LearnReady
<1>7. CASE \E n \in Node : StageStep(n)
  <2>1. PICK n \in Node : StageStep(n)
    BY <1>7
  <2>2. CASE Admit(n)
    BY <1>2, <2>2
  <2>3. CASE PassBarrier(n)
    BY <1>4, <2>3
  <2> QED
    BY <1>5, <2>1, <2>2, <2>3
<1>8. CASE \E n, m \in Node : MessageStep(n, m)
  <2>1. PICK n \in Node, m \in Node : MessageStep(n, m)
    BY <1>8
  <2>2. CASE SendPartial(n, m)
    BY <1>3, <2>2
  <2> QED
    BY <1>6, <2>1, <2>2
<1> QED
  BY <1>7, <1>8 DEF Next

\* A pool that takes one more model.
LEMMA AppendShape ==
    ASSUME TypeOK, NEW m \in Node, NEW model \in SUBSET Trainer, Appends(m, model)
    PROVE  /\ \A y \in Node \ {m} : pool'[y] = pool[y]
           /\ DOMAIN pool'[m] = DOMAIN pool[m] \cup {Len(pool[m]) + 1}
           /\ \A i \in DOMAIN pool[m] : pool'[m][i] = pool[m][i]
           /\ pool'[m][Len(pool[m]) + 1] = model
           /\ \A x : x \in Contributors(m)' <=> x \in Contributors(m) \cup model
           /\ \A y \in Node \ {m} : Contributors(y)' = Contributors(y)
<1>1. pool \in [Node -> Seq(SUBSET Trainer)] /\ pool[m] \in Seq(SUBSET Trainer)
  BY DEF TypeOK
<1>2. pool'[m] = Append(pool[m], model) /\ \A y \in Node \ {m} : pool'[y] = pool[y]
  BY <1>1 DEF Appends
<1>3. /\ pool'[m] \in Seq(SUBSET Trainer)
      /\ Len(pool'[m]) = Len(pool[m]) + 1
      /\ \A i \in 1..Len(pool[m]) : pool'[m][i] = pool[m][i]
      /\ pool'[m][Len(pool[m]) + 1] = model
  BY <1>1, <1>2, AppendProperties
<1>4. /\ Len(pool[m]) \in Nat /\ DOMAIN pool[m] = 1..Len(pool[m])
      /\ DOMAIN pool'[m] = 1..Len(pool'[m])
  BY <1>1, <1>3, LenProperties
<1>5. DOMAIN pool'[m] = DOMAIN pool[m] \cup {Len(pool[m]) + 1}
  BY <1>3, <1>4
<1>6. ASSUME NEW x PROVE x \in Contributors(m)' <=> x \in Contributors(m) \cup model
  <2>1. x \in Contributors(m)' <=> \E i \in DOMAIN pool'[m] : x \in pool'[m][i]
    BY DEF Contributors, ToSet
  <2>2. x \in Contributors(m) <=> \E i \in DOMAIN pool[m] : x \in pool[m][i]
    BY DEF Contributors, ToSet
  <2> QED
    BY <1>3, <1>4, <1>5, <2>1, <2>2
<1>7. \A y \in Node \ {m} : Contributors(y)' = Contributors(y)
  BY <1>2 DEF Contributors
<1> QED
  BY <1>2, <1>3, <1>4, <1>5, <1>6, <1>7

\* The pool after clear.
LEMMA EmptiedShape ==
    ASSUME TypeOK, NEW n \in Node, pool' = [pool EXCEPT ![n] = <<>>]
    PROVE  /\ DOMAIN pool'[n] = {} /\ Contributors(n)' = {}
           /\ \A y \in Node \ {n} : pool'[y] = pool[y] /\ Contributors(y)' = Contributors(y)
<1>1. pool'[n] = <<>> /\ \A y \in Node \ {n} : pool'[y] = pool[y]
  BY DEF TypeOK
<1> QED
  BY <1>1 DEF Contributors, ToSet

\* Contributors are read from the pools only.
LEMMA SamePool ==
    ASSUME UNCHANGED pool
    PROVE  \A y \in Node : Contributors(y)' = Contributors(y)
  BY DEF Contributors

\* The pools hold admitted models, each once, of trainers that are past their
\* own admission and still have their own model.
LEMMA PoolsStep ==
    ASSUME TypeOK, Placed, Pools, Next
    PROVE  Pools'
<1> SUFFICES ASSUME NEW y \in Node PROVE PoolOf(y)'
  BY DEF Pools, PoolOf
<1>0. /\ UNCHANGED AdmittedSet /\ AdmittedSet \subseteq Node /\ AdmittedSet \subseteq Trainer
      /\ round \in [Node -> 0..(MaxRound + 1)]
      /\ \A x \in Node : round[x] \in Nat
      /\ PoolOf(y)
  BY StepFreezes, SameExperiment, ExperimentShape, RoundNat DEF TypeOK, Pools, PoolOf
\* Who was past its own admission still is.
<1>1. ASSUME NEW x \in Contributors(y)
      PROVE  /\ x \in Node
             /\ round'[x] > round[y] \/ (round'[x] = round[y] /\ pc'[x] \in AfterAdmit)
  <2>1. x \in Node /\ (round[x] > round[y] \/ (round[x] = round[y] /\ pc[x] \in AfterAdmit))
    BY <1>0 DEF PoolOf, Beyond
  <2> QED
    BY <1>0, <2>1, StepWalks DEF Walks, Route, AfterAdmit
<1>2. CASE UNCHANGED <<pool, round>>
  <2>1. \A z \in Node : Contributors(z)' = Contributors(z)
    BY <1>2, SamePool
  <2>2. \A x \in Contributors(y) : round[x] = round[y] => x \in Contributors(x)'
    BY <1>1, <2>1, <1>0 DEF PoolOf
  <2> QED
    BY <1>0, <1>1, <1>2, <2>1, <2>2 DEF PoolOf, Beyond
<1>3. ASSUME NEW n \in AdmittedSet, pc[n] = "decisions", pc'[n] = "gossip", UNCHANGED <<round, rows>>,
             Appends(n, {n})
      PROVE  PoolOf(y)'
  <2>1. n \in Node /\ {n} \in SUBSET Trainer
    BY <1>0
  <2>2. n \notin Contributors(n)
    BY <1>0, <1>3, <2>1 DEF Pools, PoolOf, Beyond, AfterAdmit
  <2>3. \A x \in Node : Contributors(x) \subseteq Contributors(x)' /\ n \in Contributors(n)'
    BY <1>3, <2>1, AppendShape
  <2>4. CASE y # n
    <3>1. pool'[y] = pool[y] /\ Contributors(y)' = Contributors(y)
      BY <1>3, <2>1, <2>4, AppendShape
    <3> QED
      BY <1>0, <1>1, <1>3, <2>3, <3>1 DEF PoolOf, Beyond
  <2>5. CASE y = n
    <3>1. \A x : x \in Contributors(y)' <=> x \in Contributors(y) \/ x = n
      BY <1>3, <2>1, <2>5, AppendShape
    <3>2. \A i, j \in DOMAIN pool'[y] : i # j => pool'[y][i] \cap pool'[y][j] = {}
      <4>1. \A i \in DOMAIN pool[y] : n \notin pool[y][i]
        BY <2>2, <2>5 DEF Contributors, ToSet
      <4> QED
        BY <1>0, <1>3, <2>1, <2>5, <4>1, AppendShape DEF PoolOf
    <3>3. pc'[n] \in AfterAdmit
      BY <1>3 DEF AfterAdmit
    <3> QED
      BY <1>0, <1>1, <1>3, <2>1, <2>3, <2>5, <3>1, <3>2, <3>3 DEF PoolOf, Beyond
  <2> QED
    BY <2>4, <2>5
<1>4. ASSUME NEW n \in Node, NEW m \in Trainer, NEW model \in Offers(n, known[n][m]),
             round[m] = round[n], Takes(m, model), UNCHANGED <<round, pc>>, Appends(m, model)
      PROVE  PoolOf(y)'
  <2>1. m \in Node /\ model \in SUBSET Trainer /\ model \subseteq Contributors(n)
    BY <1>0, OfferShape, ExperimentShape DEF TypeOK
  <2>2. model \cap Contributors(m) = {}
    BY <1>4 DEF Takes
  <2>3. \A x \in Node : Contributors(x) \subseteq Contributors(x)'
    BY <1>4, <2>1, AppendShape
  <2>4. CASE y # m
    <3>1. pool'[y] = pool[y] /\ Contributors(y)' = Contributors(y)
      BY <1>4, <2>1, <2>4, AppendShape
    <3> QED
      BY <1>0, <1>1, <1>4, <2>3, <3>1 DEF PoolOf, Beyond
  <2>5. CASE y = m
    <3>1. \A x : x \in Contributors(y)' <=> x \in Contributors(y) \cup model
      BY <1>4, <2>1, <2>5, AppendShape
    <3>2. \A i, j \in DOMAIN pool'[y] : i # j => pool'[y][i] \cap pool'[y][j] = {}
      <4>1. \A i \in DOMAIN pool[y] : pool[y][i] \cap model = {}
        BY <2>2, <2>5 DEF Contributors, ToSet
      <4> QED
        BY <1>0, <1>4, <2>1, <2>5, <4>1, AppendShape DEF PoolOf
    <3>3. ASSUME NEW x \in model
          PROVE  /\ x \in AdmittedSet
                 /\ Beyond(x, round[y], AfterAdmit)
                 /\ round[x] = round[y] => x \in Contributors(x)
      BY <1>4, <2>1, <2>5 DEF Pools, PoolOf
    <3> QED
      BY <1>0, <1>1, <1>4, <2>3, <3>1, <3>2, <3>3 DEF PoolOf, Beyond
  <2> QED
    BY <2>4, <2>5
<1>5. ASSUME NEW n \in Node, PassBarrier(n), pool' = [pool EXCEPT ![n] = <<>>],
             round' = [round EXCEPT ![n] = round[n] + 1]
      PROVE  PoolOf(y)'
  <2>1. CASE y = n
    BY <1>5, <2>1, EmptiedShape DEF PoolOf
  <2>2. CASE y # n
    <3>1. /\ pool'[y] = pool[y] /\ Contributors(y)' = Contributors(y)
          /\ \A x \in Node \ {n} : Contributors(x)' = Contributors(x)
      BY <1>5, <2>2, EmptiedShape
    <3>2. round'[y] = round[y] /\ round'[n] = round[n] + 1 /\ \A x \in Node \ {n} : round'[x] = round[x]
      BY <1>0, <1>5, <2>2
    <3>3. ASSUME NEW x \in Contributors(y), round'[x] = round'[y] PROVE x \in Contributors(x)'
      <4>1. x # n
        BY <1>0, <3>2, <3>3 DEF PoolOf, Beyond
      <4> QED
        BY <1>0, <1>1, <3>1, <3>2, <3>3, <4>1 DEF PoolOf
    <3> QED
      BY <1>0, <1>1, <3>1, <3>2, <3>3 DEF PoolOf, Beyond
  <2> QED
    BY <2>1, <2>2
<1> QED
  BY <1>0, <1>2, <1>3, <1>4, <1>5, PoolSteps

\* Singles is kept.
LEMMA SinglesStep ==
    ASSUME TypeOK, Placed, Pools, Singles, Next
    PROVE  Singles'
<1>0. UNCHANGED Merging /\ AdmittedSet \subseteq Trainer /\ Trainer \subseteq Node
  BY StepFreezes, SameExperiment, ExperimentShape DEF TypeOK
<1> SUFFICES ASSUME ~Merging, NEW y \in Node
             PROVE  \A i \in DOMAIN pool'[y] : \E x \in Node : pool'[y][i] = {x}
  BY <1>0 DEF Singles
<1>1. \A z \in Node : \A i \in DOMAIN pool[z] : \E x \in Node : pool[z][i] = {x}
  BY DEF Singles
<1>2. ASSUME NEW m \in Node, NEW model \in SUBSET Trainer, Appends(m, model),
             \E x \in Node : model = {x}
      PROVE  \A i \in DOMAIN pool'[y] : \E x \in Node : pool'[y][i] = {x}
  <2>1. CASE y = m
    BY <1>1, <1>2, <2>1, AppendShape
  <2>2. CASE y # m
    BY <1>1, <1>2, <2>2, AppendShape
  <2> QED
    BY <2>1, <2>2
<1>3. ASSUME NEW n \in Node, pool' = [pool EXCEPT ![n] = <<>>]
      PROVE  \A i \in DOMAIN pool'[y] : \E x \in Node : pool'[y][i] = {x}
  BY <1>1, <1>3, EmptiedShape
<1>4. ASSUME NEW n \in Node, NEW m \in Trainer, NEW model \in Offers(n, known[n][m]), Appends(m, model)
      PROVE  \A i \in DOMAIN pool'[y] : \E x \in Node : pool'[y][i] = {x}
  <2>1. model \in SUBSET Trainer /\ \E x \in Node : model = {x}
    BY <1>1, OfferShape
  <2> QED
    BY <1>0, <1>2, <1>4, <2>1
<1>5. ASSUME NEW n \in AdmittedSet, Appends(n, {n})
      PROVE  \A i \in DOMAIN pool'[y] : \E x \in Node : pool'[y][i] = {x}
  <2>1. {n} \in SUBSET Trainer /\ n \in Node
    BY <1>0
  <2> QED
    BY <1>2, <1>5, <2>1
<1> QED
  BY <1>0, <1>1, <1>3, <1>4, <1>5, PoolSteps

\* Rows are only removed with the pool, at the end of the round.
LEMMA RowsStay ==
    ASSUME TypeOK, Next, NEW x \in Node
    PROVE  \/ rows[x] \subseteq rows'[x]
           \/ PassBarrier(x) /\ Contributors(x)' = {} /\ pc'[x] \in {"elect", "done"}
<1>1. rows \in [Node -> SUBSET Trainer] /\ pc \in [Node -> Stages]
  BY DEF TypeOK
<1>2. ASSUME NEW n \in Node, Submit(n) PROVE rows[x] \subseteq rows'[x]
  BY <1>1, <1>2 DEF Submit
<1>3. ASSUME NEW n \in Node, NEW m \in Node, SendPartial(n, m) PROVE rows[x] \subseteq rows'[x]
  BY <1>1, <1>3 DEF SendPartial
<1>4. ASSUME NEW n \in Node, PassBarrier(n)
      PROVE  \/ rows[x] \subseteq rows'[x]
             \/ PassBarrier(x) /\ Contributors(x)' = {} /\ pc'[x] \in {"elect", "done"}
  BY <1>1, <1>4, PassBarrierEffect, EmptiedShape
<1>5. ASSUME NEW n \in Node, StageStep(n), ~Submit(n), ~PassBarrier(n) PROVE UNCHANGED rows
  BY <1>5, AggregateEffect DEF StageStep, Elect, Publish, Admit, EndGossip, AwaitDecisions,
     AwaitInstallation, Arrive, WaitTimeout, nodeVars
<1>6. ASSUME NEW n \in Node, NEW m \in Node, MessageStep(n, m), ~SendPartial(n, m) PROVE UNCHANGED rows
  BY <1>6, SendFullEffect DEF MessageStep, LearnModels, LearnReady
<1>7. CASE \E n \in Node : StageStep(n)
  BY <1>2, <1>4, <1>5, <1>7
<1>8. CASE \E n, m \in Node : MessageStep(n, m)
  BY <1>3, <1>6, <1>8
<1> QED
  BY <1>7, <1>8 DEF Next

\* A model is put before the gate of whoever takes it when it is a single one,
\* and where two nodes train no other can be taken.
LEMMA OfferIsGated ==
    ASSUME TypeOK, Placed, Pools, Singles, ~Merging \/ AtMostTwo(Trainer),
           NEW n \in Trainer, NEW m \in Trainer, n # m, round[m] = round[n],
           NEW model \in Offers(n, known[n][m]), Takes(m, model)
    PROVE  model \subseteq GateRow(m, model)
<1>1. /\ Trainer \subseteq Node /\ model \subseteq Contributors(n) /\ model \subseteq Trainer
      /\ ~Merging => \E i \in DOMAIN pool[n] : model = pool[n][i]
  BY OfferShape, ExperimentShape DEF TypeOK
<1>2. CASE \E x \in Node : model = {x}
  <2>1. Cardinality(model) = 1
    BY <1>2, FS_Singleton
  <2> QED
    BY <2>1 DEF GateRow
<1>3. CASE ~Merging
  <2>1. \E x \in Node : model = {x}
    BY <1>1, <1>3 DEF Singles
  <2> QED
    BY <1>2, <2>1
<1>4. CASE AtMostTwo(Trainer)
  <2>1. m \notin model
    BY <1>1 DEF Pools, PoolOf, Takes
  <2>2. model \subseteq {n}
    BY <1>1, <1>4, <2>1 DEF AtMostTwo
  <2>3. CASE model = {}
    BY <2>3
  <2>4. CASE model # {}
    BY <1>1, <1>2, <2>2, <2>4
  <2> QED
    BY <2>3, <2>4
<1> QED
  BY <1>3, <1>4

\* Gated is kept.
LEMMA GatedStep ==
    ASSUME TypeOK, Placed, Pools, Singles, Gated, Next
    PROVE  Gated'
<1>0. /\ UNCHANGED <<Merging, Trainer>> /\ AdmittedSet \subseteq Trainer /\ Trainer \subseteq Node
      /\ rows \in [Node -> SUBSET Trainer]
  BY StepFreezes, SameExperiment, ExperimentShape DEF TypeOK
<1>1. ASSUME NEW x \in Node, pc'[x] \in {"publish", "decisions"} PROVE x \in rows'[x]
  <2>1. pc[x] \in {"train", "publish", "decisions"}
    BY <1>1, StepWalks DEF Walks, Route
  <2>2. CASE pc[x] = "train"
    <3>1. Submit(x)
      BY <1>1, <2>2, OwnStep
    <3> QED
      BY <1>0, <3>1 DEF Submit
  <2>3. CASE pc[x] \in {"publish", "decisions"}
    BY <1>1, <2>3, RowsStay DEF Gated
  <2> QED
    BY <2>1, <2>2, <2>3
<1>2. ASSUME ~Merging \/ AtMostTwo(Trainer), NEW y \in Node PROVE Contributors(y)' \subseteq rows'[y]
  <2>0. Contributors(y) \subseteq rows[y]
    BY <1>2 DEF Gated
  <2>1. CASE Contributors(y)' = Contributors(y)
    BY <2>0, <2>1, RowsStay
  <2>2. ASSUME NEW n \in AdmittedSet, pc[n] = "decisions", UNCHANGED rows, Appends(n, {n})
        PROVE  Contributors(y)' \subseteq rows'[y]
    <3>1. n \in rows[n] /\ n \in Node /\ {n} \in SUBSET Trainer
      BY <1>0, <2>2 DEF Gated
    <3> QED
      BY <2>0, <2>1, <2>2, <3>1, AppendShape
  <2>3. ASSUME NEW n \in Trainer, NEW m \in Trainer, NEW model \in Offers(n, known[n][m]), n # m,
               round[m] = round[n], Takes(m, model), Appends(m, model),
               rows' = [rows EXCEPT ![m] = @ \cup GateRow(m, model)]
        PROVE  Contributors(y)' \subseteq rows'[y]
    <3>1. model \subseteq GateRow(m, model) /\ m \in Node /\ n \in Node
      BY <1>0, <1>2, <2>3, OfferIsGated
    <3>2. model \in SUBSET Trainer
      BY <3>1, OfferShape
    <3>3. rows'[m] = rows[m] \cup GateRow(m, model)
      BY <1>0, <2>3
    <3> QED
      BY <2>0, <2>1, <2>3, <3>1, <3>2, <3>3, AppendShape
  <2>4. ASSUME NEW n \in Node, pool' = [pool EXCEPT ![n] = <<>>]
        PROVE  Contributors(y)' \subseteq rows'[y]
    BY <2>1, <2>4, EmptiedShape
  <2>5. CASE UNCHANGED pool
    BY <2>1, <2>5, SamePool
  <2> QED
    BY <1>0, <2>2, <2>3, <2>4, <2>5, PoolSteps
<1>3. UNCHANGED AtMostTwo(Trainer)
  BY <1>0 DEF AtMostTwo
<1> QED
  BY <1>0, <1>1, <1>2, <1>3 DEF Gated

\* Whoever has installed a model this round relays the aggregate of the round.
LEMMA RelayedModel ==
    ASSUME TypeOK, Installs, NEW n \in Node, pc[n] \in {"diffuse", "barrier"}
    PROVE  /\ installed[n] # None /\ aggregate[round[n]] # None
           /\ learner[n] = aggregate[round[n]] /\ installed[n] = aggregate[round[n]]
           /\ n \in holders[round[n]]
  BY DEF Installs

\* The first confirmation of a round is that of a trainer that aggregated.
LEMMA NewAggregate ==
    ASSUME TypeOK, Placed, Installs, Next, NEW r \in Round,
           aggregate[r] = None, aggregate'[r] # None
    PROVE  \E n \in Node :
              /\ round[n] = r /\ pc[n] = "wait"
              /\ Complete(n) \/ Timeouts
              /\ Contributors(n) = AdmittedRows(n)
              /\ aggregate'[r] = Average(pool[n])
<1>1. aggregate \in [Round -> {None} \cup Digest]
  BY DEF TypeOK
<1>2. ASSUME NEW n \in Node, Aggregate(n)
      PROVE  /\ round[n] = r /\ pc[n] = "wait"
             /\ Complete(n) \/ Timeouts
             /\ Contributors(n) = AdmittedRows(n)
             /\ aggregate'[r] = Average(pool[n])
  BY <1>1, <1>2, AggregateEffect DEF Confirms, Confirm, ConfirmsNothing
<1>3. ASSUME NEW n \in Node, NEW m \in Node, SendFull(n, m) PROVE FALSE
  <2>1. aggregate[round[m]] # None /\ learner[n] = aggregate[round[m]]
    BY <1>3, RelayedModel, SendFullEffect
  <2>2. round[m] # r
    BY <2>1
  <2> QED
    BY <1>1, <1>3, <2>2, SendFullEffect DEF Confirms, Confirm, ConfirmsNothing
<1>4. ASSUME NEW n \in Node, PassBarrier(n) PROVE FALSE
  BY <1>4, PassBarrierEffect
<1> QED
  BY <1>2, <1>3, <1>4, RecordingSteps

\* Matches is kept.
LEMMA MatchesStep ==
    ASSUME TypeOK, TypeOK', Placed, Decisions, Settled, Installs, Pools, Matches, Next
    PROVE  Matches'
<1>0. UNCHANGED <<Timeouts, AdmittedSet>> /\ AdmittedSet \subseteq Node
  BY StepFreezes, SameExperiment, ExperimentShape DEF TypeOK
<1> SUFFICES ASSUME ~Timeouts, NEW r \in Round, aggregate'[r] # None
             PROVE  /\ Averaged(aggregate'[r]) = AdmittedSet
                    /\ \A x \in AdmittedSet : Beyond(x, r, AfterAdmit)'
  BY <1>0 DEF Matches
<1>1. ASSUME \A x \in AdmittedSet : Beyond(x, r, AfterAdmit)
      PROVE  \A x \in AdmittedSet : Beyond(x, r, AfterAdmit)'
  BY <1>0, <1>1, BeyondStays, RoundNat DEF Onward
<1>2. CASE aggregate[r] # None
  BY <1>1, <1>2, StepGrows DEF Matches, Grows
<1>3. CASE aggregate[r] = None
  <2>1. PICK n \in Node : /\ round[n] = r /\ Complete(n)
                          /\ Contributors(n) = AdmittedRows(n) /\ aggregate'[r] = Average(pool[n])
    BY <1>3, NewAggregate
  <2>2. Contributors(n) = AdmittedSet
    BY <2>1 DEF Complete, AdmittedRows
  <2>3. Averaged(aggregate'[r]) = Contributors(n)
    BY <2>1, PoolShape, AveragedAverage DEF Contributors
  <2>4. \A x \in AdmittedSet : Beyond(x, r, AfterAdmit)
    BY <2>1, <2>2 DEF Pools, PoolOf
  <2> QED
    BY <1>1, <2>2, <2>3, <2>4
<1> QED
  BY <1>2, <1>3

-----------------------------------------------------------------------------
(* Nobody raises in a harmonious experiment. *)

\* The parent a trainer opens the round with is the one the others opened it with.
LEMMA SubmitIsHarmonious ==
    ASSUME TypeOK, Placed, Parents, NEW n \in Node, Submit(n)
    PROVE  UNCHANGED fault
<1>1. n \in Trainer /\ pc[n] = "train" /\ round[n] \in Round
  BY CurrentRound DEF Submit, At, Placed
<1>2. parent[round[n]] \in {None, learner[n]}
  BY <1>1 DEF Parents, ParentIsPreviousAggregate
<1> QED
  BY <1>2 DEF Submit, ParentOf

\* The pool is complete, gated and has the only average.
LEMMA AggregateIsHarmonious ==
    ASSUME TypeOK, Placed, Decisions, Settled, Installs, Pools, Singles, Gated, Harmony, Harmonious,
           NEW n \in Node, Aggregate(n)
    PROVE  UNCHANGED fault
<1>1. pc[n] = "wait" /\ round[n] \in Round /\ AdmittedSet \subseteq Contributors(n) /\ AdmittedSet # {}
  BY CurrentRound, AggregateEffect DEF Harmonious, Complete
<1>2. pool[n] # <<>>
  BY <1>1 DEF Contributors, ToSet
<1>3. Contributors(n) = AdmittedSet /\ AdmittedSet \subseteq Node
  BY <1>1, ExperimentShape DEF Pools, PoolOf, TypeOK
<1>4. Contributors(n) = AdmittedRows(n)
  BY <1>3 DEF Gated, Harmonious, AdmittedRows
<1>5. admission[round[n]] # None
  BY <1>1, ExperimentShape DEF Decisions, TypeOK
<1>6. Average(pool[n]) = TheAverage
  BY <1>3, PoolShape, AverageOfTwo DEF Harmonious, Singles, Pools, PoolOf, Contributors, TheAverage
<1>7. aggregate[round[n]] \in {None, Average(pool[n])}
  BY <1>1, <1>6 DEF Harmony
<1>8. installed[n] \in {None, Average(pool[n])}
  <2>1. CASE installed[n] # None
    <3>1. n \in holders[round[n]] /\ installed[n] = aggregate[round[n]]
      BY <2>1 DEF Installs
    <3> QED
      BY <1>1, <1>7, <3>1 DEF Settled
  <2> QED
    BY <2>1
<1>9. Confirmable(round[n], Average(pool[n]))
  BY <1>5, <1>7 DEF Confirmable
<1> QED
  BY <1>2, <1>4, <1>8, <1>9, AggregateEffect

\* The relayed model is the aggregate of the round.
LEMMA SendFullIsHarmonious ==
    ASSUME TypeOK, Placed, Decisions, Settled, Installs, Harmonious,
           NEW n \in Node, NEW m \in Node, SendFull(n, m)
    PROVE  UNCHANGED fault
<1>1. /\ pc[n] = "diffuse" /\ round[m] = round[n] /\ pc[m] \notin {"stopped", "done"}
      /\ round[m] \in Round
  BY CurrentRound, SendFullEffect DEF Active
<1>2. aggregate[round[m]] # None /\ learner[n] = aggregate[round[m]]
  BY <1>1, RelayedModel
<1>3. elected[m]
  BY <1>1, <1>2, BeforePublish DEF Harmonious, Placed
<1>4. installed[m] \in {None, learner[n]}
  BY <1>2 DEF Installs
<1>5. Confirmable(round[m], learner[n])
  BY <1>1, <1>2 DEF Settled, Confirmable
<1> QED
  BY <1>3, <1>4, <1>5, SendFullEffect

\* Whoever has arrived is a holder, so the round can be finalized.
LEMMA PassBarrierIsHarmonious ==
    ASSUME TypeOK, Placed, Arrivals, Settled, NEW n \in Node, PassBarrier(n)
    PROVE  UNCHANGED fault
<1>1. round[n] \in Round /\ arrived[round[n]] = Node
  BY CurrentRound, PassBarrierEffect
<1>2. Node \subseteq holders[round[n]]
  BY <1>1 DEF Arrivals
<1>3. aggregate[round[n]] # None
  BY <1>1, <1>2 DEF Settled
<1> QED
  BY <1>2, <1>3, PassBarrierEffect DEF Finalizable

\* Harmony is kept.
LEMMA HarmonyStep ==
    ASSUME TypeOK, TypeOK', Placed, Arrivals, Decisions, Settled, Installs, Parents, Pools, Singles,
           Gated, Matches, Harmony, Next
    PROVE  Harmony'
<1>0. UNCHANGED <<Timeouts, EarlyExit, Merging, Trainer, AdmittedSet>> /\ AdmittedSet \subseteq Node
  BY StepFreezes, SameExperiment, ExperimentShape DEF TypeOK
<1>1. Harmonious' => Harmonious
  BY <1>0 DEF Harmonious, AtMostTwo
<1> SUFFICES ASSUME Harmonious
             PROVE  /\ NobodyStops'
                    /\ \A r \in Round : aggregate'[r] \in {None, TheAverage'}
                    /\ \A x \in AdmittedSet : pc'[x] \in {"publish", "decisions"} => learner'[x] = Candidate(x)
  BY <1>0, <1>1 DEF Harmony
<1>2. UNCHANGED fault
  <2>1. ASSUME NEW n \in Node, Admit(n) PROVE UNCHANGED fault
    <3>1. n \in AdmittedSet => learner[n] = Candidate(n)
      BY <2>1 DEF Admit, At, Harmony
    <3> QED
      BY <2>1, <3>1 DEF Admit
  <2>2. ASSUME NEW n \in Node, WaitTimeout(n) PROVE FALSE
    BY <2>2 DEF WaitTimeout, Harmonious
  <2>3. ASSUME NEW n \in Node, StageStep(n) PROVE UNCHANGED fault
    BY <2>1, <2>2, <2>3, SubmitIsHarmonious, AggregateIsHarmonious, PassBarrierIsHarmonious DEF StageStep,
       Elect, Publish, EndGossip, AwaitDecisions, AwaitInstallation, Arrive
  <2>4. ASSUME NEW n \in Node, NEW m \in Node, MessageStep(n, m) PROVE UNCHANGED fault
    BY <2>4, SendFullIsHarmonious DEF MessageStep, SendPartial, LearnModels, LearnReady
  <2> QED
    BY <2>3, <2>4 DEF Next
<1>3. ASSUME NEW r \in Round PROVE aggregate'[r] \in {None, TheAverage'}
  <2>1. TheAverage' = TheAverage
    BY <1>0 DEF TheAverage
  <2>2. CASE aggregate[r] # None
    BY <2>1, <2>2, StepGrows DEF Harmony, Grows
  <2>3. CASE aggregate[r] = None /\ aggregate'[r] # None
    <3>1. PICK n \in Node : /\ Complete(n) /\ Contributors(n) = AdmittedRows(n)
                            /\ aggregate'[r] = Average(pool[n])
      BY <2>3, NewAggregate DEF Harmonious
    <3>2. Contributors(n) = AdmittedSet
      BY <3>1 DEF Complete, AdmittedRows
    <3>3. Average(pool[n]) = TheAverage
      BY <3>2, PoolShape, AverageOfTwo DEF Harmonious, Singles, Pools, PoolOf, Contributors, TheAverage
    <3> QED
      BY <2>1, <3>1, <3>3
  <2> QED
    BY <2>2, <2>3
<1>4. ASSUME NEW x \in AdmittedSet, pc'[x] \in {"publish", "decisions"} PROVE learner'[x] = Candidate(x)
  <2>1. /\ x \in Node /\ pc[x] \in {"train", "publish", "decisions"}
        /\ round[x] \in Round /\ round[x] \in Nat
    BY RoundNat, <1>0, <1>4, StepWalks, CurrentRound DEF Walks, Route
  <2>2. CASE pc[x] = "train"
    <3>1. Submit(x)
      BY <1>4, <2>1, <2>2, OwnStep
    <3> QED
      BY <2>1, <3>1 DEF Submit, TypeOK
  <2>3. CASE pc[x] \in {"publish", "decisions"}
    <3>1. ASSUME NEW n \in Node, SendFull(n, x) PROVE FALSE
      <4>1. aggregate[round[x]] # None
        BY <2>1, <3>1, RelayedModel, SendFullEffect
      <4>2. Beyond(x, round[x], AfterAdmit)
        BY <2>1, <4>1 DEF Matches, Harmonious
      <4> QED
        BY <2>1, <2>3, <4>2 DEF Beyond, AfterAdmit
    <3>2. ~Submit(x) /\ ~Aggregate(x) /\ ~PassBarrier(x)
      BY <2>1, <2>3, AggregateEffect, PassBarrierEffect DEF Submit, At
    <3>3. learner'[x] = learner[x]
      BY <2>1, <3>1, <3>2, ModelSteps
    <3> QED
      BY <2>3, <3>3 DEF Harmony
  <2> QED
    BY <2>1, <2>2, <2>3
<1> QED
  BY <1>2, <1>3, <1>4 DEF NobodyStops, Harmony

-----------------------------------------------------------------------------
(* The invariant. *)

\* It holds initially.
LEMMA InitIInv == Init => IInv
<1> SUFFICES ASSUME Init PROVE IInv
  OBVIOUS
<1>0. /\ pc = [n \in Node |-> "elect"] /\ round = [n \in Node |-> 0]
      /\ fault = [n \in Node |-> None] /\ elected = [n \in Node |-> FALSE]
      /\ rows = [n \in Node |-> {}] /\ pool = [n \in Node |-> <<>>]
      /\ learner = [n \in Node |-> InitialModel] /\ installed = [n \in Node |-> None]
      /\ decided = [r \in Round |-> {}] /\ arrived = [r \in Round |-> {}]
      /\ parent = [r \in Round |-> None] /\ submitted = [r \in Round |-> {}]
      /\ admission = [r \in Round |-> None] /\ aggregate = [r \in Round |-> None]
      /\ holders = [r \in Round |-> {}] /\ final = [r \in Round |-> FALSE]
  BY DEF Init
<1>1. experiment \in Experiments /\ Trainer \subseteq Node /\ FinalRound \in Round
  BY ExperimentShape DEF Init
<1>2. 0 \in 0..FinalRound /\ 0 \in 0..(MaxRound + 1)
  BY <1>1, BoundAssumption DEF Round
<1>3. \A n \in Node : Contributors(n) = {} /\ pool[n] = <<>> /\ DOMAIN pool[n] = {}
  BY <1>0 DEF Contributors, ToSet
<1>4. TypeOK
  <2>1. <<>> \in Seq(SUBSET Trainer)
    BY EmptySeq
  <2>2. [m \in Node |-> {}] \in [Node -> SUBSET Trainer]
    OBVIOUS
  <2>3. pool \in [Node -> Seq(SUBSET Trainer)] /\ known \in [Node -> [Node -> SUBSET Trainer]]
    BY <1>0, <2>1, <2>2 DEF Init
  <2>4. learner \in [Node -> Digest]
    BY <1>0, InitialShape
  <2>5. pc \in [Node -> Stages] /\ round \in [Node -> 0..(MaxRound + 1)]
    BY <1>0, <1>2 DEF Stages
  <2> QED
    BY <1>0, <1>1, <2>3, <2>4, <2>5 DEF TypeOK, Init
<1>5. Placed
  BY <1>0, <1>2 DEF Placed
<1>6. Arrivals /\ Finals
  BY <1>0, RoundNat DEF Arrivals, Finals
<1>7. Decisions
  BY <1>0 DEF Decisions
<1>8. Settled /\ Installs
  BY <1>0 DEF Settled, Installs
<1>9. Parents
  BY <1>0, <1>1 DEF Parents, ParentIsPreviousAggregate
<1>10. Pools /\ Singles
  BY <1>3 DEF Pools, PoolOf, Singles
<1>11. Gated
  BY <1>0, <1>3 DEF Gated
<1>12. Matches
  BY <1>0 DEF Matches
<1>13. Harmony
  <2>1. AdmittedSet \subseteq Node
    BY <1>1, ExperimentShape
  <2> QED
    BY <1>0, <2>1 DEF Harmony, NobodyStops
<1> QED
  BY <1>4, <1>5, <1>6, <1>7, <1>8, <1>9, <1>10, <1>11, <1>12, <1>13 DEF IInv

\* Only the variables matter, so a step that changes none keeps every part.
LEMMA StutterIInv ==
    ASSUME IInv, UNCHANGED vars
    PROVE  IInv'
<1>0. UNCHANGED <<experiment, pc, round, fault, elected, rows, pool, known, ready, learner, installed,
                  decided, arrived, parent, submitted, admission, aggregate, holders, final>>
  BY DEF vars, nodeVars, registryVars, ledgerVars
<1>1. UNCHANGED <<Trainer, AdmittedSet, FinalRound, Merging, EarlyExit, Timeouts>>
  BY <1>0, SameExperiment
<1>2. \A n \in Node : Contributors(n)' = Contributors(n)
  BY <1>0, SamePool
<1>3. TypeOK'
  BY <1>0, <1>1 DEF IInv, TypeOK
<1>4. Placed' /\ Arrivals' /\ Finals'
  BY <1>0, <1>1 DEF IInv, Placed, Arrivals, Finals, Beyond
<1>5. Decisions' /\ Settled' /\ Installs'
  BY <1>0, <1>1 DEF IInv, Decisions, Settled, Installs, Beyond
<1>6. Parents'
  BY <1>0, <1>1 DEF IInv, Parents, ParentIsPreviousAggregate
<1>7. Pools' /\ Singles' /\ Gated'
  <2>1. Pools'
    <3>1. \A n \in Node : PoolOf(n)
      BY DEF IInv, Pools, PoolOf
    <3>2. ASSUME NEW n \in Node PROVE PoolOf(n)'
      <4>1. PoolOf(n) /\ Contributors(n)' = Contributors(n) /\ AdmittedSet \subseteq Node
        BY <1>2, <3>1, ExperimentShape DEF IInv, TypeOK
      <4>2. ASSUME NEW x \in Contributors(n)
            PROVE  Beyond(x, round[n], AfterAdmit)' /\ (round'[x] = round'[n] => x \in Contributors(x)')
        <5>1. /\ x \in Node /\ Beyond(x, round[n], AfterAdmit)
              /\ round[x] = round[n] => x \in Contributors(x)
          BY <4>1 DEF PoolOf
        <5> QED
          BY <1>0, <1>2, <5>1 DEF Beyond
      <4> QED
        BY <1>0, <1>1, <4>1, <4>2 DEF PoolOf
    <3> QED
      BY <3>2 DEF Pools, PoolOf
  <2>2. Singles'
    BY <1>0, <1>1 DEF IInv, Singles
  <2>3. Gated'
    BY <1>0, <1>1, <1>2 DEF IInv, Gated, AtMostTwo
  <2> QED
    BY <2>1, <2>2, <2>3
<1>8. Matches'
  BY <1>0, <1>1 DEF IInv, Matches, Averaged, Beyond
<1>9. Harmony'
  BY <1>0, <1>1 DEF IInv, Harmony, Harmonious, AtMostTwo, NobodyStops, TheAverage
<1> QED
  BY <1>3, <1>4, <1>5, <1>6, <1>7, <1>8, <1>9 DEF IInv

\* It is inductive.
LEMMA NextIInv == IInv /\ [Next]_vars => IInv'
<1>1. ASSUME IInv, Next PROVE IInv'
  <2>1. /\ TypeOK /\ Placed /\ Arrivals /\ Finals /\ Decisions /\ Settled /\ Installs
        /\ Parents /\ Pools /\ Singles /\ Gated /\ Matches /\ Harmony
    BY <1>1 DEF IInv
  <2>2. TypeOK'
    BY <1>1, <2>1, TypeStep
  <2> QED
    BY <1>1, <2>1, <2>2, PlacedStep, ArrivalsStep, FinalsStep, DecisionsStep, SettledStep, InstallsStep,
       ParentsStep, PoolsStep, SinglesStep, GatedStep, MatchesStep, HarmonyStep DEF IInv
<1> QED
  BY <1>1, StutterIInv

\* The parts of the invariant hold in every reachable state.
THEOREM Invariance == Spec => []IInv
<1>1. Init => IInv
  BY InitIInv
<1>2. IInv /\ [Next]_vars => IInv'
  BY NextIInv
<1> QED
  BY <1>1, <1>2, PTL DEF Spec

-----------------------------------------------------------------------------
(* What the invariant says of the rounds. *)

\* Every variable keeps its type.
THEOREM TypeCorrect == Spec => []TypeOK
<1>1. IInv => TypeOK
  BY DEF IInv
<1> QED
  BY <1>1, Invariance, PTL

\* The barrier keeps the nodes within one round of each other, and whoever is
\* behind is at it (wait_at_round_barrier), also where gossip ends early and
\* the waits time out.
THEOREM NodesStayTogether == Spec => []BarrierSeparation
<1>1. IInv => BarrierSeparation
  <2> SUFFICES ASSUME IInv, NEW n \in Node, NEW m \in Active, round[m] < round[n]
               PROVE  round[n] = round[m] + 1 /\ pc[m] = "barrier"
    BY DEF BarrierSeparation, At
  <2>1. m \in Node /\ pc[m] \notin {"stopped", "done"}
    BY DEF Active
  <2>2. round[m] \in Round
    BY <2>1, CurrentRound DEF IInv
  <2>3. round[n] \in Nat /\ round[m] \in Nat /\ round[n] <= MaxRound + 1 /\ MaxRound \in Nat
    <3>1. round[n] \in 0..(MaxRound + 1)
      BY DEF IInv, TypeOK
    <3>2. round[m] \in 0..MaxRound /\ MaxRound \in Nat
      BY <2>2, BoundAssumption DEF Round
    <3> QED
      BY <3>1, <3>2
  <2>4. ASSUME NEW r \in Round, r < round[n] PROVE Beyond(m, r, {"barrier", "stopped"})
    BY <2>1, <2>4 DEF IInv, Arrivals, Finals
  <2>5. pc[m] = "barrier"
    BY <2>1, <2>2, <2>3, <2>4 DEF Beyond
  <2>6. ASSUME round[m] + 1 < round[n] PROVE FALSE
    <3>1. round[m] + 1 \in Round
      BY <2>3, <2>6 DEF Round
    <3> QED
      BY <2>3, <2>4, <2>6, <3>1 DEF Beyond
  <2> QED
    BY <2>3, <2>5, <2>6
<1> QED
  BY <1>1, Invariance, PTL

\* Whoever is past its installation relays the round's aggregate, and its
\* confirmation is in the ledger (confirm_installation).
THEOREM OnlyCanonicalIsRelayed == Spec => []RelayIsCanonical
<1>1. IInv => RelayIsCanonical
  BY RelayedModel DEF IInv, RelayIsCanonical
<1> QED
  BY <1>1, Invariance, PTL

\* Each round trains from the aggregate the previous round settled, and what is
\* settled without a timeout averages exactly the admitted candidates.
THEOREM ChainIsOfAdmitted == Spec => []ChainOfAdmitted
<1>1. IInv => ChainOfAdmitted
  <2> SUFFICES ASSUME IInv
               PROVE  ParentIsPreviousAggregate /\ (~Timeouts => AggregateMatchesAdmission)
    BY DEF ChainOfAdmitted
  <2>1. ParentIsPreviousAggregate
    BY DEF IInv, Parents
  <2>2. ASSUME ~Timeouts, NEW r \in Round, aggregate[r] # None
        PROVE  Averaged(aggregate[r]) = admission[r]
    <3>1. Averaged(aggregate[r]) = AdmittedSet
      BY <2>2 DEF IInv, Matches
    <3>2. admission[r] = AdmittedSet
      BY <2>2 DEF IInv, Settled
    <3> QED
      BY <3>1, <3>2
  <2> QED
    BY <2>1, <2>2 DEF AggregateMatchesAdmission
<1> QED
  BY <1>1, Invariance, PTL

\* Where single models are gossiped or two nodes train, a pool holds what the
\* own gate has judged, and in a harmonious experiment nobody raises.
THEOREM NothingUnexpectedHappens == Spec => []NothingUnexpected
<1>1. IInv => NothingUnexpected
  <2>1. ASSUME IInv, ~Merging \/ AtMostTwo(Trainer) PROVE PoolIsGated
    <3>1. Trainer \subseteq Node
      BY <2>1, ExperimentShape DEF IInv, TypeOK
    <3> QED
      BY <2>1, <3>1 DEF IInv, Gated, Pools, PoolOf, PoolIsGated, AdmittedRows
  <2>2. ASSUME IInv, Harmonious PROVE NobodyStops
    BY <2>2 DEF IInv, Harmony
  <2> QED
    BY <2>1, <2>2 DEF NothingUnexpected
<1> QED
  BY <1>1, Invariance, PTL

-----------------------------------------------------------------------------
(* The nodes and their adapter keep the contract of the ledger's rounds. *)

\* The round of a node that has not reached its barrier is the one in progress.
LEMMA InProgress ==
    ASSUME IInv, NEW n \in Node, pc[n] \notin {"barrier", "stopped", "done"}
    PROVE  round[n] \in Round /\ Contract!Current(round[n])
<1>1. round[n] \in Round /\ round[n] \in Nat
  BY CurrentRound, RoundNat DEF IInv
<1>2. ~final[round[n]]
  BY <1>1 DEF IInv, Finals, Arrivals, Beyond
<1>3. ASSUME round[n] > 0 PROVE final[round[n] - 1]
  <2>1. round[n] - 1 \in Round /\ round[n] > round[n] - 1
    BY <1>1, <1>3, BoundAssumption DEF Round
  <2> QED
    BY <2>1 DEF IInv, Arrivals
<1> QED
  BY <1>1, <1>2, <1>3 DEF Contract!Current

\* Initially nothing is settled.
LEMMA InitContract == Init => Contract!Init
  BY DEF Init, Contract!Init, Contract!Round, Round

\* A confirmed installation is the contract's Hold.
LEMMA ConfirmHolds ==
    ASSUME IInv, NEW n \in Node, pc[n] \notin {"barrier", "stopped", "done"},
           NEW h \in Digest, Confirms(n, h), UNCHANGED <<admission, final>>
    PROVE  Contract!Hold(round[n], n) /\ round[n] \in Contract!Round
<1>1. round[n] \in Round /\ Contract!Current(round[n])
  BY InProgress
<1>2. aggregate \in [Round -> {None} \cup Digest]
  BY DEF IInv, TypeOK
<1>3. /\ admission[round[n]] # None /\ aggregate[round[n]] \in {None, h}
      /\ aggregate' = [aggregate EXCEPT ![round[n]] = h]
      /\ holders' = [holders EXCEPT ![round[n]] = @ \cup {n}]
  BY DEF Confirms, Confirmable, Confirm
<1>4. aggregate'[round[n]] = h
  BY <1>1, <1>2, <1>3
<1>5. Contract!Settles(round[n])
  BY <1>3, <1>4 DEF Contract!Settles
<1> QED
  BY <1>1, <1>3, <1>4, <1>5 DEF Contract!Hold, Contract!Round, Round

\* Publish is Admit or nothing, Aggregate and SendFull are Hold or nothing,
\* PassBarrier is Finish for the first node of a round, all others are nothing.
LEMMA StepContract ==
    ASSUME IInv, Next
    PROVE  Contract!Next \/ UNCHANGED Contract!contractVars
<1> USE DEF Contract!contractVars
<1>0. /\ TypeOK /\ Placed /\ Decisions /\ Settled /\ Installs
      /\ AdmittedSet \subseteq Node /\ Trainer \subseteq Node
  BY ExperimentShape DEF IInv, TypeOK
<1>1. ASSUME NEW n \in Node, Publish(n)
      PROVE  Contract!Next \/ UNCHANGED Contract!contractVars
  <2>1. /\ round[n] \in Round /\ admission[round[n]] = None /\ Contract!Current(round[n])
    BY <1>0, <1>1, PublishIsFirst, InProgress DEF Publish, At
  <2>2. UNCHANGED <<aggregate, holders, final>>
    BY <1>1 DEF Publish
  <2>3. CASE AllDecidedAfter(round[n], n)
    <3> DEFINE S == submitted[round[n]] \cap AdmittedSet
    <3>1. admission' = [admission EXCEPT ![round[n]] = S]
      BY <1>1, <2>3 DEF Publish
    <3>2. S \in SUBSET Node
      BY <1>0
    <3>3. Contract!Admit(round[n], S)
      BY <2>1, <2>2, <3>1 DEF Contract!Admit
    <3> QED
      BY <2>1, <3>2, <3>3 DEF Contract!Next, Contract!Round, Round
  <2>4. CASE ~AllDecidedAfter(round[n], n)
    BY <1>1, <2>2, <2>4 DEF Publish
  <2> QED
    BY <2>3, <2>4
<1>2. ASSUME NEW n \in Node, Aggregate(n)
      PROVE  Contract!Next \/ UNCHANGED Contract!contractVars
  <2>1. pc[n] = "wait" /\ UNCHANGED <<admission, final>>
    BY <1>2, AggregateEffect
  <2>2. CASE Confirms(n, Average(pool[n]))
    <3>1. Average(pool[n]) \in Digest
      BY <1>0, PoolShape, AverageShape
    <3>2. Contract!Hold(round[n], n) /\ round[n] \in Contract!Round
      BY <2>1, <2>2, <3>1, ConfirmHolds
    <3> QED
      BY <3>2 DEF Contract!Next
  <2>3. CASE ConfirmsNothing
    BY <2>1, <2>3 DEF ConfirmsNothing
  <2> QED
    BY <1>2, <2>2, <2>3, AggregateEffect
<1>3. ASSUME NEW n \in Node, NEW m \in Node, SendFull(n, m)
      PROVE  Contract!Next \/ UNCHANGED Contract!contractVars
  <2>1. pc[m] \notin {"stopped", "done"} /\ UNCHANGED <<admission, final>>
    BY <1>3, SendFullEffect DEF Active
  <2>2. CASE installed[m] = None /\ Confirms(m, learner[n])
    <3>1. learner[n] \in Digest
      BY <1>0 DEF TypeOK
    <3>2. pc[m] # "barrier"
      BY <1>0, <2>2 DEF Installs
    <3>3. Contract!Hold(round[m], m) /\ round[m] \in Contract!Round
      BY <2>1, <2>2, <3>1, <3>2, ConfirmHolds
    <3> QED
      BY <3>3 DEF Contract!Next
  <2>3. CASE ConfirmsNothing
    BY <2>1, <2>3 DEF ConfirmsNothing
  <2> QED
    BY <1>3, <2>2, <2>3, SendFullEffect
<1>4. ASSUME NEW n \in Node, PassBarrier(n)
      PROVE  Contract!Next \/ UNCHANGED Contract!contractVars
  <2>1. /\ pc[n] = "barrier" /\ round[n] \in Round /\ round[n] \in Nat
        /\ UNCHANGED <<admission, aggregate, holders>> /\ final \in [Round -> BOOLEAN]
    BY <1>0, <1>4, CurrentRound, PassBarrierEffect, RoundNat DEF TypeOK
  <2>2. CASE /\ aggregate[round[n]] # None /\ Node \subseteq holders[round[n]]
             /\ final' = [final EXCEPT ![round[n]] = TRUE]
    <3>1. CASE final[round[n]]
      BY <2>1, <2>2, <3>1
    <3>2. CASE ~final[round[n]]
      <4>1. ASSUME round[n] > 0 PROVE final[round[n] - 1]
        <5>1. round[n] - 1 \in Round /\ round[n] > round[n] - 1
          BY <2>1, <4>1, BoundAssumption DEF Round
        <5> QED
          BY <5>1 DEF IInv, Arrivals
      <4>2. Contract!Finish(round[n])
        BY <2>1, <2>2, <3>2, <4>1 DEF Contract!Finish, Contract!Current
      <4> QED
        BY <2>1, <4>2 DEF Contract!Next, Contract!Round, Round
    <3> QED
      BY <3>1, <3>2
  <2>3. CASE UNCHANGED final
    BY <2>1, <2>3
  <2> QED
    BY <1>4, <2>2, <2>3, PassBarrierEffect
<1>5. CASE UNCHANGED <<decided, admission, aggregate, holders, final, installed>>
  BY <1>5
<1> QED
  BY <1>1, <1>2, <1>3, <1>4, <1>5, CommitmentSteps

\* The rounds of the nodes keep the contract of brbfl/ledger/base.py: what is
\* settled of a round is settled once, by a round in progress, in its order.
THEOREM LifecycleKeepsContract == Spec => ImplementsContract
<1>1. Init => Contract!Init
  BY InitContract
<1>2. IInv /\ [Next]_vars => [Contract!Next]_(Contract!contractVars)
  <2>1. ASSUME IInv, Next PROVE Contract!Next \/ UNCHANGED Contract!contractVars
    BY <2>1, StepContract
  <2>2. ASSUME UNCHANGED vars PROVE UNCHANGED Contract!contractVars
    BY <2>2 DEF vars, ledgerVars, Contract!contractVars
  <2> QED
    BY <2>1, <2>2
<1> QED
  BY <1>1, <1>2, Invariance, PTL DEF Spec, ImplementsContract, Contract!Spec

\* Nothing that is committed of a round is taken back or replaced, and nobody
\* leaves the registry's decisions, the barrier or the holders of a model.
THEOREM CommitmentsGrow == Spec => [][\A r \in Round : Grows(r)]_vars
<1>1. IInv /\ [Next]_vars => [\A r \in Round : Grows(r)]_vars
  BY StepGrows DEF IInv
<1> QED
  BY <1>1, Invariance, PTL DEF Spec

=============================================================================
