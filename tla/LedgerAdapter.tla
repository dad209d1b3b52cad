---------------------------- MODULE LedgerAdapter ----------------------------
(***************************************************************************)
(* RuntimeLedgerAdapter (brbfl/ledger/runtime.py) between the nodes of an  *)
(* experiment and a ledger that may refuse a call.  A call of the adapter  *)
(* makes several calls of the ledger, trust and automaton in turn and      *)
(* keeps caches of its own; under fail_closed a refusal raises out of it,  *)
(* otherwise it goes on without.  RoundLedger is the ledger by itself and  *)
(* RoundLifecycle the round of a ledger that never refuses; here the       *)
(* question is what a refusal in the middle leaves behind.                 *)
(*                                                                         *)
(* The ledger is any implementation of BlockchainLedger (ledger/base.py):  *)
(* it refuses what the contract forbids, and its connection may fail once. *)
(* Roles are a function of the round, so a second commitment of them is    *)
(* the same; every candidate is admitted.  The gate of a receiver opens    *)
(* the round with the owner's parent after the owner did: no effect here.  *)
(***************************************************************************)
EXTENDS Integers, FiniteSets

CONSTANTS
    Node,          \* participants of the experiment: all must install and arrive
    Contributors,  \* policy.contributors, the trainers
    Validators,    \* the validators selected in every round
    Settings,      \* records [failClosed, trust, ca, odd] of an experiment; with
                   \* odd a node's aggregation may come to another result
    MaxRound,      \* bound: rounds 0..MaxRound
    MaxFaults,     \* bound: calls of the ledger that fail
    None

\* RuntimeLedgerAdapter.__init__: an automaton needs trust (runtime.py:98).
AdapterAssumption ==
    /\ Contributors \subseteq Node /\ Validators # {}
    /\ Settings \subseteq [failClosed : BOOLEAN, trust : BOOLEAN, ca : BOOLEAN, odd : BOOLEAN]
    /\ \A s \in Settings : s.ca => s.trust
    /\ MaxRound \in Nat /\ MaxFaults \in Nat
    /\ None \notin Int \X {"agreed", "odd"} /\ \A S \in SUBSET Contributors : S # None

Round == 0 .. MaxRound
Aggregate == {"agreed", "odd"}    \* what a node's aggregation computed

VARIABLES
    setting,    \* RuntimeLedgerConfig
    ledger,     \* the records of the ledger, per round
    parents, hashes, admissions, aggregates,   \* the adapter's caches, per round
    counted,    \* rounds in TrustRuntime._snapshots
    generation, \* greatest key of _ca_snapshots
    pc,         \* where the thread of a node is
    round,      \* its round
    model,      \* its learner's model, the parent of the next candidate
    decided,    \* _round_decisions, per round
    arrived,    \* _round_barriers, per round
    faults

caches == <<parents, hashes, admissions, aggregates>>
follow == <<counted, generation>>
vars == <<setting, ledger, caches, follow, pc, round, model, decided, arrived, faults>>

Record == [roles |-> FALSE, parent |-> None, candidates |-> {}, votes |-> {},
           admission |-> None, aggregate |-> None, holders |-> {}, final |-> FALSE,
           ca |-> FALSE]

Init ==
    /\ setting \in Settings
    /\ ledger = [r \in Round |-> Record]
    /\ parents = [r \in Round |-> None] /\ hashes = [r \in Round |-> {}]
    /\ admissions = [r \in Round |-> None] /\ aggregates = [r \in Round |-> None]
    /\ counted = {} /\ generation = 0
    /\ pc = [n \in Node |-> IF n \in Contributors THEN "train" ELSE "admission"]
    /\ round = [n \in Node |-> 0]
    /\ model = [n \in Node |-> <<-1, "agreed">>]
    /\ decided = [r \in Round |-> {}] /\ arrived = [r \in Round |-> {}]
    /\ faults = 0

-----------------------------------------------------------------------------
(* The ledger: calls it accepts and what they change.  A repeated call with *)
(* the same facts is accepted and changes nothing.                          *)

Accepts(l, c) ==
    LET rec == l[c.round] IN
    CASE c.op = "roles" -> c.round > 0 => l[c.round - 1].final
      [] c.op = "open" -> rec.roles /\ ~rec.final /\ rec.parent \in {None, c.parent}
      [] c.op = "candidate" -> rec.roles /\ ~rec.final /\ rec.parent = c.parent
      [] c.op = "admission" -> /\ rec.roles /\ ~rec.final /\ c.of = rec.candidates
                               /\ Validators \X c.of \subseteq rec.votes
                               /\ rec.admission \in {None, c.of}
      [] c.op = "aggregate" -> /\ ~rec.final /\ rec.admission # None /\ c.of = rec.admission
                               /\ rec.aggregate \in {None, c.model}
      [] c.op = "install" -> ~rec.final /\ rec.aggregate = c.model
      [] c.op = "finalize" -> rec.final \/ (rec.aggregate # None /\ rec.holders = Node)
      [] c.op = "verify" -> rec.roles
      [] c.op = "ca" -> rec.final

Applied(l, c) ==
    LET rec == l[c.round] IN
    [l EXCEPT ![c.round] =
        CASE c.op = "roles" -> [rec EXCEPT !.roles = TRUE]
          [] c.op = "open" -> [rec EXCEPT !.parent = c.parent]
          [] c.op = "candidate" -> [rec EXCEPT !.candidates = @ \cup {c.of}]
          [] c.op = "admission" -> [rec EXCEPT !.admission = c.of]
          [] c.op = "aggregate" -> [rec EXCEPT !.aggregate = c.model]
          [] c.op = "install" -> [rec EXCEPT !.holders = @ \cup {c.by}]
          [] c.op = "finalize" -> [rec EXCEPT !.final = TRUE]
          [] c.op = "ca" -> [rec EXCEPT !.ca = TRUE]
          [] OTHER -> rec]

(* _invoke: the ledger after the calls made so far, and whether one raised; *)
(* it takes those after it with it.                                         *)
Start == [ledger |-> ledger, raised |-> FALSE]
Invoke(done, call, fails) ==
    IF done.raised THEN done
    ELSE IF ~fails /\ Accepts(done.ledger, call)
    THEN [done EXCEPT !.ledger = Applied(@, call)]
    ELSE [done EXCEPT !.raised = setting.failClosed]

\* Which of so many calls fails: 0 for none.
MayLose(calls) == IF faults < MaxFaults THEN 0 .. calls ELSE {0}
Costs(lost) == faults' = faults + (IF lost > 0 THEN 1 ELSE 0)

\* The adapter's own complaints go through _invoke as well.
ConflictRaises == setting.failClosed

-----------------------------------------------------------------------------
(* The threads of the nodes *)

Goto(n, where) == pc' = [pc EXCEPT ![n] = where]
\* An exception out of the adapter ends the thread.
GotoUnless(raised, n, where) == Goto(n, IF raised THEN "failed" ELSE where)

\* open_round, by submit_and_decide of the owner's gate after the training.
OpenRound(n) ==
    LET r == round[n]
        roles == [op |-> "roles", round |-> r]
        open == [op |-> "open", round |-> r, parent |-> model[n]]
    IN
    /\ pc[n] = "train"
    /\ IF parents[r] # None
       THEN /\ GotoUnless(parents[r] # model[n] /\ ConflictRaises, n, "record")
            /\ UNCHANGED <<ledger, parents, faults>>
       ELSE IF setting.ca /\ generation < r
       THEN Goto(n, "failed") /\ UNCHANGED <<ledger, parents, faults>>
       ELSE \E lost \in MayLose(2) :
               LET done == Invoke(Invoke(Start, roles, lost = 1), open, lost = 2) IN
               /\ ledger' = done.ledger
               /\ parents' = IF done.raised THEN parents ELSE [parents EXCEPT ![r] = model[n]]
               /\ GotoUnless(done.raised, n, "record")
               /\ Costs(lost)
    /\ UNCHANGED <<setting, hashes, admissions, aggregates, follow, round, model,
                   decided, arrived>>

\* Whose votes on n's candidate the ledger takes, in the order of the validators'
\* names: all or, when one fails, all but that or, when it raises, those before it.
CastVotes(done, r, n, fails) ==
    IF done.raised \/ done.ledger[r].final \/ n \notin done.ledger[r].candidates THEN {{}}
    ELSE IF ~fails THEN {Validators}
    ELSE IF setting.failClosed THEN (SUBSET Validators) \ {Validators}
    ELSE {Validators \ {v} : v \in Validators}

\* record_candidate of the owner: the candidate, then the votes on it.
RecordCandidate(n) ==
    LET r == round[n]
        candidate == [op |-> "candidate", round |-> r, of |-> n, parent |-> model[n]]
    IN
    /\ pc[n] = "record"
    /\ \E lost \in MayLose(2) :
          LET done == Invoke(Start, candidate, lost = 1) IN
          /\ \E by \in CastVotes(done, r, n, lost = 2) :
                /\ ledger' = [done.ledger EXCEPT ![r].votes = @ \cup (by \X {n})]
                /\ GotoUnless(setting.failClosed /\ by # Validators, n, "publish")
          /\ hashes' = IF done.raised THEN hashes ELSE [hashes EXCEPT ![r] = @ \cup {n}]
          /\ Costs(lost)
    /\ UNCHANGED <<setting, parents, admissions, aggregates, follow, round, model,
                   decided, arrived>>

\* Mutated form: any decision passes for all.
AnyDecided(candidates) == candidates # {}
AllDecided(candidates) == candidates = Contributors

\* publish_admission_decision stores the decision first; the last of them
\* finalizes the admission.
PublishDecision(n) ==
    LET r == round[n]
        after == decided[r] \cup {n}
        admission == [op |-> "admission", round |-> r, of |-> after]
    IN
    /\ pc[n] = "publish"
    /\ decided' = [decided EXCEPT ![r] = after]
    /\ IF AllDecided(after)
       THEN \E lost \in MayLose(1) :
               LET done == Invoke(Start, admission, lost = 1) IN
               /\ ledger' = done.ledger
               /\ admissions' = IF done.raised THEN admissions
                                ELSE [admissions EXCEPT ![r] = after]
               /\ GotoUnless(done.raised, n, "admission")
               /\ Costs(lost)
       ELSE Goto(n, "admission") /\ UNCHANGED <<ledger, admissions, faults>>
    /\ UNCHANGED <<setting, parents, hashes, aggregates, follow, round, model, arrived>>

\* wait_for_admitted_contributors; a timeout when one of them has failed.
SeeAdmission(n) ==
    /\ pc[n] = "admission"
    /\ \/ AllDecided(decided[round[n]]) /\ Goto(n, "install")
       \/ /\ ~AllDecided(decided[round[n]])
          /\ \E c \in Contributors : pc[c] = "failed"
          /\ Goto(n, "failed")
    /\ UNCHANGED <<setting, ledger, caches, follow, round, model, decided, arrived, faults>>

\* confirm_installation(r, n, h): the first one commits the aggregate too.
Confirm(n, h, where) ==
    LET r == round[n]
        first == aggregates[r] = None
        last == IF first THEN 2 ELSE 1
        aggregate == [op |-> "aggregate", round |-> r, of |-> admissions[r], model |-> h]
        install == [op |-> "install", round |-> r, by |-> n, model |-> h]
    IN
    IF \/ first /\ admissions[r] = None
       \/ ~first /\ aggregates[r] # h
    THEN GotoUnless(ConflictRaises, n, where) /\ UNCHANGED <<ledger, aggregates, faults>>
    ELSE IF first /\ ~(admissions[r] \subseteq hashes[r])    \* KeyError
    THEN Goto(n, "failed") /\ UNCHANGED <<ledger, aggregates, faults>>
    ELSE \E lost \in MayLose(last) :
            LET kept == IF first THEN Invoke(Start, aggregate, lost = 1) ELSE Start
                done == Invoke(kept, install, lost = last)
            IN
            /\ ledger' = done.ledger
            /\ aggregates' = IF first /\ ~kept.raised THEN [aggregates EXCEPT ![r] = h]
                             ELSE aggregates
            /\ GotoUnless(done.raised, n, where)
            /\ Costs(lost)

\* A node aggregates or receives the round's model and installs it;
\* record_verified_installation confirms it.
Install(n) ==
    /\ pc[n] = "install"
    /\ \E h \in Aggregate :
          /\ h = "odd" => setting.odd
          /\ model' = [model EXCEPT ![n] = <<round[n], h>>]
          /\ Confirm(n, <<round[n], h>>, "barrier")
    /\ UNCHANGED <<setting, parents, hashes, admissions, follow, round, decided, arrived>>

\* The same full model arrives again: FullModelCommand records it once more.
InstallAgain(n) ==
    /\ pc[n] = "barrier" /\ n \notin ledger[round[n]].holders
    /\ Confirm(n, model[n], "barrier")
    /\ UNCHANGED <<setting, parents, hashes, admissions, follow, round, model, decided, arrived>>

Arrive(n) ==
    /\ pc[n] = "barrier" /\ n \notin arrived[round[n]]
    /\ arrived' = [arrived EXCEPT ![round[n]] = @ \cup {n}]
    /\ UNCHANGED <<setting, ledger, caches, follow, pc, round, model, decided, faults>>

-----------------------------------------------------------------------------
(* finalize_round, by every node once the barrier is open *)

\* TrustRuntime.finalize_round takes the round's votes: complete and in order.
Countable(l, r) == /\ l[r].roles /\ l[r].candidates # {}
                   /\ counted = 0 .. r - 1
                   /\ Validators \X l[r].candidates \subseteq l[r].votes

Counts(r) == setting.trust /\ r \notin counted
\* _finalize_ca runs when the round has no provenance yet.
\* (Mutated form: when it is not counted yet.)
StepsWithTrust(r) == setting.ca /\ r \notin counted
Steps(r) == setting.ca /\ generation <= r

After(n) == IF round[n] = MaxRound THEN "done"
            ELSE IF n \in Contributors THEN "train" ELSE "admission"

\* lost: 1 and 2 the calls of finalize_round and verify_round fail, 3 the
\* evidence mapper raises, 4 commit_ca_transition fails.
Finalize(n, lost) ==
    LET r == round[n]
        finalized == Invoke(Start, [op |-> "finalize", round |-> r], lost = 1)
        checked == Invoke(finalized, [op |-> "verify", round |-> r], lost = 2)
        verified == lost # 2 /\ checked.ledger[r].roles
        consumes == ~checked.raised /\ (setting.ca => verified)
        counts == consumes /\ Counts(r)
        steps == consumes /\ (counts => Countable(checked.ledger, r))
                 /\ Steps(r) /\ generation = r /\ lost # 3
        commit == [op |-> "ca", round |-> r]
        accepted == steps /\ lost # 4 /\ Accepts(checked.ledger, commit)
        stepped == steps /\ (accepted \/ ~setting.failClosed)
        raised == \/ ~consumes
                  \/ counts /\ ~Countable(checked.ledger, r)
                  \/ Steps(r) /\ ~stepped
    IN  /\ ledger' = IF accepted THEN Applied(checked.ledger, commit) ELSE checked.ledger
        /\ counted' = IF counts /\ Countable(checked.ledger, r) THEN counted \cup {r} ELSE counted
        /\ generation' = IF stepped THEN r + 1 ELSE generation
        /\ GotoUnless(raised, n, After(n))
        /\ round' = IF raised \/ r = MaxRound THEN round ELSE [round EXCEPT ![n] = r + 1]

LeaveBarrier(n) ==
    /\ pc[n] = "barrier" /\ n \in arrived[round[n]]
    /\ \/ /\ arrived[round[n]] = Node
          /\ \E lost \in IF faults < MaxFaults THEN 0 .. 4 ELSE {0} :
                Finalize(n, lost) /\ Costs(lost)
       \/ /\ arrived[round[n]] # Node          \* a timeout
          /\ \E m \in Node : pc[m] = "failed"
          /\ Goto(n, "failed")
          /\ UNCHANGED <<ledger, follow, round, faults>>
    /\ UNCHANGED <<setting, caches, model, decided, arrived>>

Next == \E n \in Node :
    \/ OpenRound(n) \/ RecordCandidate(n) \/ PublishDecision(n) \/ SeeAdmission(n)
    \/ Install(n) \/ InstallAgain(n) \/ Arrive(n) \/ LeaveBarrier(n)

Spec == Init /\ [][Next]_vars

-----------------------------------------------------------------------------
Hash == (-1 .. MaxRound) \X Aggregate
HashOrNone == Hash \cup {None}
Decision == (SUBSET Contributors) \cup {None}
RoundRecord ==
    [roles : BOOLEAN, parent : HashOrNone, candidates : SUBSET Contributors,
     votes : SUBSET (Validators \X Contributors), admission : Decision,
     aggregate : HashOrNone, holders : SUBSET Node, final : BOOLEAN, ca : BOOLEAN]

TypeOK ==
    /\ setting \in Settings
    /\ ledger \in [Round -> RoundRecord]
    /\ parents \in [Round -> HashOrNone] /\ hashes \in [Round -> SUBSET Contributors]
    /\ admissions \in [Round -> Decision] /\ aggregates \in [Round -> HashOrNone]
    /\ counted \subseteq Round /\ generation \in 0 .. MaxRound + 1
    /\ pc \in [Node -> {"train", "record", "publish", "admission", "install", "barrier",
                        "done", "failed"}]
    /\ round \in [Node -> Round] /\ model \in [Node -> Hash]
    /\ decided \in [Round -> SUBSET Contributors] /\ arrived \in [Round -> SUBSET Node]
    /\ faults \in 0 .. MaxFaults

\* admission must decide every and only committed candidate (memory.py:270),
\* for as long as the round is recorded and whatever a call was refused: every
\* owner records its candidate before it publishes the decision on it, so none
\* is committed after the last decision finalized the admission, and only the
\* owner records it.  (RoundLedger by itself does not prevent it.)
AdmissionCoversCandidates ==
    \A r \in Round : ledger[r].admission # None => ledger[r].admission = ledger[r].candidates

\* Under fail_closed the adapter's caches never say more than the ledger,
\* wherever in a call a refusal hit: what record_candidate, confirm_installation
\* and the role selection of the next round build on is committed.
CachesBacked ==
    setting.failClosed => \A r \in Round :
        /\ parents[r] \in {None, ledger[r].parent}
        /\ hashes[r] \subseteq ledger[r].candidates
        /\ admissions[r] \in {None, ledger[r].admission}
        /\ aggregates[r] \in {None, ledger[r].aggregate}
        /\ r \in counted => ledger[r].final
        /\ r < generation => ledger[r].ca

\* Under fail_closed no node leaves a round that is not final and accounted
\* for: its votes counted, the automaton stepped and its transition committed,
\* although the call that did some of it may have raised for another node
\* (finalize_round, runtime.py:322-352).
LeavesAccounted ==
    setting.failClosed => \A n \in Node, r \in Round :
        r < round[n] \/ (r = round[n] /\ pc[n] = "done") =>
            /\ ledger[r].final /\ ledger[r].holders = Node
            /\ setting.trust => r \in counted
            /\ setting.ca => generation > r /\ ledger[r].ca

\* Without fail_closed and trust, no refusal of the ledger and no conflict the
\* adapter sees ends a node's thread (_invoke, runtime.py:161-169).
ObserverNeverStops ==
    ~setting.failClosed /\ ~setting.trust => \A n \in Node : pc[n] # "failed"

\* Not met (README, section 4): without fail_closed trust and automaton raise
\* out of finalize_round all the same once a round was refused.
NeverStops == ~setting.failClosed => \A n \in Node : pc[n] # "failed"

\* Not met (README, section 4).  runtime.py:331: "CA/trust cannot consume an
\* unverified ledger round".  Only the automaton is asked for a verified round,
\* and verify_round says nothing of whether the round is final.
ConsumesFinal == \A r \in Round : r \in counted \/ r < generation => ledger[r].final
=============================================================================
