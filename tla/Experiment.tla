----------------------------- MODULE Experiment -----------------------------
(***************************************************************************)
(* The MNIST experiment driver (p2pfl/examples/mnist/mnist.py), the hooks  *)
(* by which TrainStage lets an attack act and an audit watch it, and the   *)
(* three audits (brbfl/experiments/*_evidence.py).  The driver creates the *)
(* nodes, installs the gate, the ledger and the attacks in process-wide    *)
(* registries, waits for the nodes, writes the evidence or refuses to, and *)
(* takes everything down again, whatever happened.                         *)
(*                                                                         *)
(* A model is abstracted to what an audit tells apart: whether it was      *)
(* fitted since the round began and how often an attack changed it.  The   *)
(* election, the admission vote and the diffusion of models are those of   *)
(* TrainSetElection, RoleGovernance and RoundLifecycle; here the train set *)
(* of a round is any one of the right size, the gate rejects the           *)
(* scene's `rejected', and a model that was sent may arrive at any time.   *)
(***************************************************************************)
EXTENDS Integers, FiniteSets, FiniteSetsExt

CONSTANTS Scenes,      \* the configurations of the runs
          MaxFaults,   \* bound: failed fits, failed receptions, driver timeouts
          MaxBadStops, \* bound: nodes a stop of which hangs or raises
          Patient      \* TRUE: wait_to_finish never reaches its own timeout

\* An ExperimentConfig.  kind: which audits the driver wraps around the attacks,
\* "training" (every node, TrainingLifecycleAudit), "collusion" (every node),
\* "update" (adversaries, AuditedModelUpdateAttack) or "plain" (none).
Scene == [nodes : Nat, rounds : Nat \ {0}, adversaries : SUBSET Nat,
          kind : {"training", "collusion", "update", "plain"},
          gate : BOOLEAN, rejected : SUBSET Nat, eligible : SUBSET Nat, size : Nat,
          onNode : BOOLEAN, validated : BOOLEAN]

ASSUME ScenesAssumption ==
    /\ Scenes \subseteq Scene
    /\ \A s \in Scenes : s.eligible \subseteq 1 .. s.nodes
    /\ MaxFaults \in Nat /\ MaxBadStops \in Nat /\ Patient \in BOOLEAN

None == -1             \* NodeState.round of a node that is not learning

VARIABLES
    scene,     \* the ExperimentConfig
    phase,     \* where mnist() is
    result,    \* "none", "written" (validation.json exists) or "refused"
    running,   \* nodes started and not stopped
    turn,      \* the node the driver's pass over the nodes stops next
    stops,     \* calls of Node.stop under way, and which of them never return
    broken,    \* nodes of which a stop ended in an exception
    attacks,   \* keys of registry._node_attacks
    gateOn,    \* byzantine_gate._gate_policy is installed
    ledgerOn,  \* a runtime ledger is installed
    pc,        \* where the learning thread of each node is
    round,     \* NodeState.round
    trainSet,  \* the train set of each round, {} before its election
    held,      \* nodes whose TrainStage got an attack from the registry
    cur,       \* the audit's current_round
    model,     \* the learner's model
    rows,      \* the audit's record of each round
    role,      \* NodeState.trainer_role_evidence
    got,       \* contributors in the node's aggregator
    entered,   \* the update each node gave to its aggregator in each round
    decided,   \* _round_decisions of each round
    installed, \* installed_model_hashes: a model was installed in the round
    faults

vars == <<scene, phase, result, running, turn, stops, broken, attacks, gateOn,
          ledgerOn, pc, round, trainSet, held, cur, model, rows, role, got, entered, decided,
          installed, faults>>
stopVars == <<running, turn, stops, broken>>
driverVars == <<scene, phase, result, stopVars, attacks, gateOn, ledgerOn>>
nodeVars == <<pc, round, trainSet, held, cur, model, rows, role, got, entered,
              decided, installed>>

Nodes == 1 .. scene.nodes
Rounds == 0 .. scene.rounds - 1
Adversary(n) == n \in scene.adversaries
Audited(n) == \/ scene.kind \in {"training", "collusion"}
              \/ scene.kind = "update" /\ Adversary(n)
Contributors == scene.eligible

Ended == {"finished", "failed"}
\* n will never complete round r.
Dropped(n, r) == pc[n] \in Ended /\ ~installed[n][r]
\* A stop ends the heartbeat and the gossip of n first, whatever becomes of it then.
Quiet(n) == n \notin running \/ n \in broken \/ \E s \in stops : s.of = n
\* The others may wait in vain for what n has in round r.
Lost(n, r) == Dropped(n, r) \/ Quiet(n)

NoUpdate == [trained |-> FALSE, applied |-> None]
Received == [trained |-> FALSE, applied |-> 0]
EmptyRow == [begun |-> FALSE, trained |-> FALSE, skipped |-> FALSE, applied |-> 0,
             submitted |-> NoUpdate, observed |-> FALSE, matches |-> FALSE,
             final |-> FALSE]

Init ==
    /\ scene \in Scenes
    /\ phase = "create" /\ result = "none"
    /\ running = {} /\ attacks = {}
    /\ turn = 1 /\ stops = {} /\ broken = {}
    /\ gateOn = scene.gate /\ ledgerOn = FALSE
    /\ pc = [n \in Nodes |-> "idle"]
    /\ round = [n \in Nodes |-> None]
    /\ trainSet = [r \in Rounds |-> {}]
    /\ held = {}
    /\ cur = [n \in Nodes |-> None]
    /\ model = [n \in Nodes |-> Received]
    /\ rows = [n \in Nodes |-> [r \in Rounds \cup {None} |-> EmptyRow]]
    /\ role = [n \in Nodes |-> [r \in Rounds |-> "absent"]]
    /\ got = [n \in Nodes |-> {}]
    /\ entered = [n \in Nodes |-> [r \in Rounds |-> NoUpdate]]
    /\ decided = [r \in Rounds |-> {}]
    /\ installed = [n \in Nodes |-> [r \in Rounds |-> FALSE]]
    /\ faults = 0

-----------------------------------------------------------------------------
(* The driver                                                              *)

\* One turn of the creation loop: the partition is poisoned and audited, the
\* node started and its attack registered.  The audit refuses a malicious node
\* whose attack has no partition validator, and an allowlist of trainers that
\* names a node twice is refused after the node was started.
CreateNode ==
    /\ phase = "create"
    /\ Cardinality(running) < scene.nodes
    /\ LET n == Cardinality(running) + 1
           attacker == Adversary(n) /\ scene.onNode
       IN IF attacker /\ ~scene.validated
          THEN phase' = "clearLedger" /\ result' = "refused"
               /\ UNCHANGED <<running, attacks>>
          ELSE /\ running' = running \cup {n}
               /\ attacks' = IF Audited(n) \/ attacker THEN attacks \cup {n} ELSE attacks
               /\ UNCHANGED <<phase, result>>
    /\ UNCHANGED <<scene, turn, stops, broken, gateOn, ledgerOn, nodeVars, faults>>

\* The ledger is installed, the topology connected and learning started on
\* node 0, whose broadcast starts it everywhere.
StartLearning ==
    /\ phase = "create" /\ running = Nodes
    /\ phase' = "wait" /\ ledgerOn' = TRUE
    /\ pc' = [n \in Nodes |-> "vote"]
    /\ round' = [n \in Nodes |-> 0]
    /\ UNCHANGED <<scene, result, stopVars, attacks, gateOn, trainSet, held, cur, model,
                   rows, role, got, entered, decided, installed, faults>>

\* A mutated form: only node 0 is looked at.
SeeFailureOfFirst ==
    /\ phase = "wait" /\ pc[1] = "failed"
    /\ phase' = "stopAll" /\ result' = "refused" /\ turn' = 1
    /\ UNCHANGED <<scene, running, stops, broken, attacks, gateOn, ledgerOn, nodeVars, faults>>

\* wait_to_finish finds a learning_exception and goes through the nodes to stop them.
SeeFailure ==
    /\ phase = "wait"
    /\ \E n \in Nodes : pc[n] = "failed"
    /\ phase' = "stopAll" /\ result' = "refused" /\ turn' = 1
    /\ UNCHANGED <<scene, running, stops, broken, attacks, gateOn, ledgerOn, nodeVars, faults>>

\* wait_to_finish found no exception, and every workflow is finished.
SeeFinished ==
    /\ phase = "wait"
    /\ \A n \in Nodes : pc[n] = "finished"
    /\ phase' = "collect"
    /\ UNCHANGED <<scene, result, stopVars, attacks, gateOn, ledgerOn, nodeVars, faults>>

\* wait_to_finish gives up; the nodes go on.
GiveUp ==
    /\ phase = "wait" /\ ~Patient /\ faults < MaxFaults
    /\ phase' = "clearLedger" /\ result' = "refused" /\ faults' = faults + 1
    /\ UNCHANGED <<scene, stopVars, attacks, gateOn, ledgerOn, nodeVars>>

\* A mutated form: only the rounds a node has a record of are asked for.
TrainingAgreesBegun ==
    \A n \in Nodes, r \in Rounds : rows[n][r].begun => rows[n][r].final
\* evidence_for_round of every node's lifecycle audit, for every round.
TrainingAgrees == \A n \in Nodes, r \in Rounds : rows[n][r].final
\* completed_collusion_rows: every colluder's attack was applied once.
CollusionAgrees == \A n \in scene.adversaries, r \in Rounds : rows[n][r].applied = 1
\* validate_eligible_updates: each publication, that of a node which was in no
\* round any more included, was applied once and observed.
UpdatesAgree == \A n \in scene.adversaries, r \in Rounds \cup {None} :
                    rows[n][r].applied > 0 => rows[n][r].observed /\ rows[n][r].applied = 1

AuditsAgree == /\ scene.kind \in {"training", "collusion"} => TrainingAgrees
               /\ scene.kind = "collusion" => CollusionAgrees
               /\ scene.kind = "update" => UpdatesAgree

\* The role, lineage and installation checks of a run with validators.
RolesAgree ==
    gateOn => \A r \in Rounds :
        /\ {n \in Nodes : role[n][r] = "submitted"} = Contributors
        /\ \A n \in Nodes : role[n][r] # "absent" /\ installed[n][r]

Collect ==
    /\ phase = "collect"
    /\ phase' = "clearLedger"
    /\ result' = IF AuditsAgree /\ RolesAgree THEN "written" ELSE "refused"
    /\ UNCHANGED <<scene, stopVars, attacks, gateOn, ledgerOn, nodeVars, faults>>

\* A stop of n is asked for; the protocol of a node that does not run refuses it.
Call(who, n) == [by |-> who, of |-> n, stuck |-> FALSE]
Asked(who, n) == IF n \in running THEN stops \cup {Call(who, n)} ELSE stops

\* wait_to_finish after a failure, and the finally block again, stop the nodes one
\* after the other.
Stopping == \E s \in stops : s.by = "driver"
StopNode ==
    /\ phase \in {"stopAll", "stopNodes"} /\ turn \in Nodes /\ ~Stopping
    /\ stops' = Asked("driver", turn)
    /\ turn' = turn + 1
    /\ UNCHANGED <<scene, phase, result, running, broken, attacks, gateOn, ledgerOn, nodeVars,
                   faults>>

AllStopped ==
    /\ phase = "stopAll" /\ turn \notin Nodes /\ ~Stopping
    /\ phase' = "clearLedger"
    /\ UNCHANGED <<scene, result, stopVars, attacks, gateOn, ledgerOn, nodeVars, faults>>

\* The finally block: ledger, gate, nodes, attacks.
ClearLedger ==
    /\ phase = "clearLedger"
    /\ phase' = "clearGate" /\ ledgerOn' = FALSE
    /\ UNCHANGED <<scene, result, stopVars, attacks, gateOn, nodeVars, faults>>

ClearGate ==
    /\ phase = "clearGate"
    /\ phase' = "stopNodes" /\ gateOn' = FALSE /\ turn' = 1
    /\ decided' = [r \in Rounds |-> {}]
    /\ UNCHANGED <<scene, result, running, stops, broken, attacks, ledgerOn, pc, round,
                   trainSet, held, cur, model, rows, role, got, entered, installed, faults>>

ClearAttacks ==
    /\ phase = "stopNodes" /\ turn \notin Nodes /\ ~Stopping
    /\ phase' = "done" /\ attacks' = {}
    /\ UNCHANGED <<scene, result, stopVars, gateOn, ledgerOn, nodeVars, faults>>

Driver ==
    \/ CreateNode \/ StartLearning \/ SeeFailure \/ SeeFinished \/ Collect
    \/ StopNode \/ AllStopped \/ ClearLedger \/ ClearGate \/ ClearAttacks

-----------------------------------------------------------------------------
(* Node.stop, called by the driver, by the learning thread of the node or by *)
(* a handler, more than one of them at once.                                 *)

\* The server is stopped and the state cleared: the node is in no round any more.
StopReturns(s) ==
    /\ s \in stops /\ ~s.stuck
    /\ stops' = stops \ {s}
    /\ running' = running \ {s.of}
    /\ round' = [round EXCEPT ![s.of] = None]
    /\ UNCHANGED <<scene, phase, result, turn, broken, attacks, gateOn, ledgerOn, pc, trainSet,
                   held, cur, model, rows, role, got, entered, decided, installed, faults>>

\* BOUND: a stop that does not end well.
MayGoWrong == Cardinality(broken \cup {c.of : c \in {d \in stops : d.stuck}}) < MaxBadStops

\* Somebody else removes an entry while clear_neighbors goes through the table: the
\* IndexError is swallowed, and the node's server and threads run on.
StopBreaks(s) ==
    /\ s \in stops /\ ~s.stuck /\ MayGoWrong
    /\ stops' = stops \ {s}
    /\ broken' = broken \cup {s.of}
    /\ UNCHANGED <<scene, phase, result, running, turn, attacks, gateOn, ledgerOn, nodeVars,
                   faults>>

\* The stop holds the node's table and waits for that of another node, which holds
\* its own and waits for this one's (Neighborhood!Ring).
StopHangs(s) ==
    /\ s \in stops /\ ~s.stuck /\ MayGoWrong /\ running \ {s.of} # {}
    /\ stops' = (stops \ {s}) \cup {[s EXCEPT !.stuck = TRUE]}
    /\ UNCHANGED <<scene, phase, result, running, turn, broken, attacks, gateOn, ledgerOn,
                   nodeVars, faults>>

Stop(s) == StopReturns(s) \/ StopBreaks(s) \/ StopHangs(s)

(***************************************************************************)
(* The learning thread of a node                                           *)

Others == <<scene, phase, result, running, turn, broken, attacks, gateOn, ledgerOn>>

\* The thread ends: at an early-stop check, or with an exception, which
\* Node.__start_learning keeps as learning_exception before it stops the node.
Ends(n, how) ==
    /\ pc' = [pc EXCEPT ![n] = how]
    /\ IF how = "failed" THEN stops' = Asked("thread", n) /\ UNCHANGED round
       ELSE round' = [round EXCEPT ![n] = None] /\ UNCHANGED stops

Goes(n, to) == pc' = [pc EXCEPT ![n] = to] /\ UNCHANGED <<round, stops>>

\* A stopped node's thread meets an early-stop check, and its workflow is
\* finished, or uses the round that is gone, and raises.
StoppedEnd(n) ==
    /\ pc[n] \in {"vote", "begin", "await", "wait", "close"} /\ round[n] = None
    /\ \/ Ends(n, "finished")
       \/ pc[n] # "begin" /\ Ends(n, "failed")
    /\ UNCHANGED <<Others, trainSet, held, cur, model, rows, role, got, entered,
                   decided, installed, faults>>

\* VoteTrainSetStage: the round's votes of all nodes that take part in it.  When no
\* eligible node is left the train set is empty.
Elected(r) ==
    LET seen == {m \in scene.eligible : ~Lost(m, r)}
    IN  {S \in SUBSET {m \in scene.eligible : ~Dropped(m, r)} :
            \E candidates \in SUBSET scene.eligible :
                /\ seen \cup S \subseteq candidates
                /\ \A m \in candidates : ~Dropped(m, r)
                /\ Cardinality(S) = Min({scene.size, Cardinality(candidates)})}

Vote(n) ==
    LET r == round[n] IN
    /\ pc[n] = "vote" /\ r # None
    /\ \A m \in Nodes : round[m] = r \/ Lost(m, r) \/ installed[m][r]
    /\ IF trainSet[r] # {} THEN UNCHANGED trainSet
       ELSE \E S \in Elected(r) : trainSet' = [trainSet EXCEPT ![r] = S]
    /\ Goes(n, IF n \in trainSet'[r] THEN "begin" ELSE "wait")
    /\ role' = [role EXCEPT ![n][r] = "elected"]
    /\ UNCHANGED <<Others, held, cur, model, rows, got, entered, decided, installed, faults>>

\* begin_local_training of the lifecycle audits: a fresh record.  It refuses a
\* second one for the round, which no thread ever comes to.
Begun == [EmptyRow EXCEPT !.begun = TRUE]

\* TrainStage up to the fit: the attack is fetched, the aggregator set up and
\* the model received last becomes the audit's reference.
Begin(n) ==
    LET r == round[n] IN
    /\ pc[n] = "begin" /\ r # None
    /\ held' = IF n \in attacks THEN held \cup {n} ELSE held \ {n}
    /\ cur' = [cur EXCEPT ![n] = r]
    /\ model' = [model EXCEPT ![n] = Received]
    /\ rows' = IF n \in attacks /\ scene.kind \in {"training", "collusion"}
               THEN [rows EXCEPT ![n][r] = Begun] ELSE rows
    /\ Goes(n, "fit")
    /\ UNCHANGED <<Others, trainSet, role, got, entered, decided, installed, faults>>

Skips(n) == n \in held /\ Adversary(n) /\ scene.kind = "training"

\* complete_local_training
Completed(row, skipped) == [row EXCEPT !.trained = TRUE, !.skipped = skipped]

\* The fit, or the free rider's decision to skip it, and what the audit
\* records of it; the role evidence is kept under the round.
Fit(n) ==
    /\ pc[n] = "fit"
    /\ model' = [model EXCEPT ![n].trained = ~Skips(n)]
    /\ IF n \in held /\ Audited(n)
       THEN rows' = [rows EXCEPT ![n][cur[n]] = Completed(@, Skips(n))]
       ELSE UNCHANGED rows
    /\ IF round[n] = None THEN Ends(n, "failed") /\ UNCHANGED role
       ELSE Goes(n, "publish") /\ role' = [role EXCEPT ![n][round[n]] = "trained"]
    /\ UNCHANGED <<Others, trainSet, held, cur, got, entered, decided, installed, faults>>

\* learner.fit raises.
FitFails(n) ==
    /\ pc[n] = "fit" /\ faults < MaxFaults
    /\ Ends(n, "failed") /\ faults' = faults + 1
    /\ UNCHANGED <<Others, trainSet, held, cur, model, rows, role, got, entered, decided,
                   installed>>

\* publish_update of the audits: the colluder's aligned update replaces a
\* genuinely trained one, the sign flipper's scales it; the others' is a copy.
Aligned(update) == [update EXCEPT !.applied = @ + 1]
Flipped(update) == [update EXCEPT !.applied = @ + 1]
Published(n, update) ==
    CASE n \in held /\ Adversary(n) /\ scene.kind = "collusion" -> Aligned(update)
      [] n \in held /\ Adversary(n) /\ scene.kind = "update" -> Flipped(update)
      [] OTHER -> update

\* The round a publication is filed under: AuditedModelUpdateAttack reads
\* NodeState.round now, the lifecycle audits keep the one training began in.
FiledUnder(n) == IF scene.kind = "update" THEN round[n] ELSE cur[n]

\* record_submission
Submitted(row, update) == [row EXCEPT !.applied = @ + update.applied, !.submitted = update]

\* A mutated form: what was published is not installed.
InstallsNot(n, update) == UNCHANGED model

\* The learner's model takes the parameters that were published.
Installs(n, update) == model' = [model EXCEPT ![n] = update]

\* Publication, installation of what was published and record_submission;
\* then the early-stop check.
Publish(n) ==
    LET update == Published(n, model[n]) IN
    /\ pc[n] = "publish"
    /\ Installs(n, update)
    /\ IF n \in held /\ Audited(n)
       THEN rows' = [rows EXCEPT ![n][FiledUnder(n)] = Submitted(@, update)]
       ELSE UNCHANGED rows
    /\ IF round[n] # None THEN Goes(n, "submit")
       ELSE Ends(n, IF n \in held /\ scene.kind \in {"training", "collusion"}
                    THEN "failed" ELSE "finished")
    /\ UNCHANGED <<Others, trainSet, held, cur, role, got, entered, decided, installed, faults>>

\* observe_aggregation compares the model with the publication on record.
Observed(row, update) == [row EXCEPT !.observed = TRUE, !.matches = (update = row.submitted)]

\* AuditedModelUpdateAttack refuses another update than the one it published.
Unequal(n) == /\ n \in held /\ scene.kind = "update" /\ round[n] # None
              /\ model[n] # rows[n][round[n]].submitted

\* add_model of the node's own update.
Adds(n, r) ==
    /\ entered' = [entered EXCEPT ![n][r] = model[n]]
    /\ got' = [got EXCEPT ![n] = @ \cup {n}]

\* The audit observes the update first; then the gate decides on it, or,
\* without a gate, it enters the aggregator.
Submit(n) ==
    LET r == FiledUnder(n) IN
    /\ pc[n] = "submit"
    /\ IF n \in held /\ Audited(n)
       THEN rows' = [rows EXCEPT ![n][r] = IF r = None THEN @ ELSE Observed(@, model[n])]
       ELSE UNCHANGED rows
    /\ IF gateOn \/ Unequal(n)
       THEN /\ UNCHANGED <<entered, got, role>>
            /\ IF Unequal(n) \/ round[n] = None THEN Ends(n, "failed") /\ UNCHANGED decided
               ELSE /\ decided' = [decided EXCEPT ![round[n]] = @ \cup {n}]
                    /\ Goes(n, "admit")
       ELSE /\ Adds(n, cur[n])
            /\ UNCHANGED decided
            /\ IF round[n] = None THEN Ends(n, "failed") /\ UNCHANGED role
               ELSE /\ role' = [role EXCEPT ![n][round[n]] = "submitted"]
                    /\ Goes(n, "await")
    /\ UNCHANGED <<Others, trainSet, held, cur, model, installed, faults>>

\* wait_for_admitted_contributors: every contributor is decided, or the wait
\* ends in a TimeoutError.
Admit(n) ==
    LET r == round[n] IN
    /\ pc[n] = "admit"
    /\ \/ /\ gateOn /\ r # None /\ Contributors \subseteq decided[r]
          /\ IF n \in scene.rejected THEN UNCHANGED <<entered, got>> ELSE Adds(n, r)
          /\ role' = [role EXCEPT ![n][r] = "submitted"]
          /\ Goes(n, "await")
       \/ /\ gateOn /\ r # None => \E m \in Contributors : Lost(m, r)
          /\ Ends(n, "failed") /\ UNCHANGED <<entered, got, role>>
    /\ UNCHANGED <<Others, trainSet, held, cur, model, rows, decided, installed, faults>>

\* A partial model of m reaches the aggregator of n, whenever it does.
Receive(n, m) ==
    LET r == round[n] IN
    /\ r # None /\ pc[n] \in {"fit", "publish", "submit", "admit", "await"}
    /\ m # n /\ m \notin got[n] /\ entered[m][r] # NoUpdate
    /\ got' = [got EXCEPT ![n] = @ \cup {m}]
    /\ UNCHANGED <<driverVars, pc, round, trainSet, held, cur, model, rows, role, entered,
                   decided, installed, faults>>

\* The handler of a weights message fails, and stops the node: no exception
\* reaches the learning thread.
ReceptionFails(n) ==
    /\ round[n] # None /\ trainSet[round[n]] # {} /\ faults < MaxFaults
    /\ \E m \in Nodes \ {n} : entered[m][round[n]] # NoUpdate
    /\ stops' = Asked("handler", n)
    /\ faults' = faults + 1
    /\ UNCHANGED <<Others, pc, round, trainSet, held, cur, model, rows, role, got, entered, decided,
                   installed>>

Expected(r) == IF scene.gate THEN Contributors \ scene.rejected ELSE trainSet[r]

\* observe_global_model of TrainingLifecycleAudit refuses to close a record
\* whose submission was not what it saw aggregated; the collusion audit closes it.
Unfinal(n, r) == n \in held /\ scene.kind = "training" /\ ~rows[n][r].matches

\* wait_and_get_aggregation returns when every expected model is there, or at
\* its timeout with those that are; under the gate a result of others than
\* the admitted ones is refused.  The audit's record is closed last.
Await(n) ==
    LET r == round[n] IN
    /\ pc[n] = "await" /\ r # None
    /\ \A m \in Expected(r) \ got[n] : Lost(m, r)
    /\ IF got[n] = {} \/ (gateOn /\ got[n] # Expected(r)) \/ Unfinal(n, r)
       THEN Ends(n, "failed") /\ UNCHANGED <<rows, installed, model>>
       ELSE /\ installed' = [installed EXCEPT ![n][r] = TRUE]
            /\ model' = [model EXCEPT ![n] = Received]
            /\ rows' = IF n \in held /\ scene.kind \in {"training", "collusion"}
                       THEN [rows EXCEPT ![n][r].final = TRUE] ELSE rows
            /\ Goes(n, "close")
    /\ UNCHANGED <<Others, trainSet, held, cur, role, got, entered, decided, faults>>

\* WaitAggregatedModelsStage: the full model of a trainer, or a timeout.
Wait(n) ==
    LET r == round[n] IN
    /\ pc[n] = "wait" /\ r # None
    /\ \/ /\ \E m \in trainSet[r] : installed[m][r]
          /\ installed' = [installed EXCEPT ![n][r] = TRUE]
          /\ model' = [model EXCEPT ![n] = Received]
          /\ Goes(n, "close")
       \/ /\ \A m \in trainSet[r] : Lost(m, r)
          /\ Ends(n, "failed") /\ UNCHANGED <<installed, model>>
    /\ UNCHANGED <<Others, trainSet, held, cur, rows, role, got, entered, decided, faults>>

\* GossipModelStage and RoundFinishedStage: under the gate no node leaves the
\* round before all have installed its model.
Close(n) ==
    LET r == round[n] IN
    /\ pc[n] = "close" /\ r # None
    /\ IF gateOn /\ \E m \in Nodes : ~installed[m][r]
       THEN /\ \E m \in Nodes : Lost(m, r)
            /\ Ends(n, "failed") /\ UNCHANGED got
       ELSE /\ got' = [got EXCEPT ![n] = {}]
            /\ IF r + 1 \in Rounds
               THEN /\ round' = [round EXCEPT ![n] = r + 1]
                    /\ pc' = [pc EXCEPT ![n] = "vote"]
                    /\ UNCHANGED stops
               ELSE Ends(n, "finished")
    /\ UNCHANGED <<Others, trainSet, held, cur, model, rows, role, entered, decided,
                   installed, faults>>

Thread(n) == \/ StoppedEnd(n) \/ Vote(n) \/ Begin(n) \/ Fit(n) \/ Publish(n) \/ Submit(n)
             \/ Admit(n) \/ Await(n) \/ Wait(n) \/ Close(n)

\* A stop that never returns.
Hung == \E s \in stops : s.stuck

\* wait_to_finish sleeps a second and looks again; the experiment is over, or hangs.
Poll == phase = "wait" /\ UNCHANGED vars
Ending == /\ phase = "done" \/ Hung
          /\ (\A n \in Nodes : pc[n] \in Ended \cup {"idle"}) /\ UNCHANGED vars

Next ==
    \/ Driver \/ GiveUp \/ (\E s \in stops : Stop(s))
    \/ \E n \in Nodes :
          \/ Thread(n) \/ FitFails(n) \/ ReceptionFails(n)
          \/ \E m \in Nodes : Receive(n, m)
    \/ Poll \/ Ending

Spec == Init /\ [][Next]_vars

\* The driver's thread, the learning threads, the stops and the receptions go on
\* whenever they can; of stops and receptions there are finitely many, so that each
\* comes to its turn.
FairSpec == Spec /\ WF_vars(Driver) /\ WF_vars(\E s \in stops : Stop(s))
                 /\ (\A n \in 1 .. 3 : WF_vars(n \in Nodes /\ Thread(n)))
                 /\ WF_vars(\E n, m \in Nodes : ~Quiet(m) /\ Receive(n, m))

-----------------------------------------------------------------------------
(* Properties                                                              *)

Update == [trained : BOOLEAN, applied : Int]
Row == [begun : BOOLEAN, trained : BOOLEAN, skipped : BOOLEAN, applied : Int,
        submitted : Update, observed : BOOLEAN, matches : BOOLEAN, final : BOOLEAN]

StopCall == [by : {"driver", "thread", "handler"}, of : Nodes, stuck : BOOLEAN]

TypeOK ==
    /\ scene \in Scenes
    /\ phase \in {"create", "wait", "stopAll", "collect", "clearLedger", "clearGate",
                  "stopNodes", "done"}
    /\ result \in {"none", "written", "refused"}
    /\ stops \subseteq StopCall /\ turn \in Nat /\ broken \subseteq Nodes
    /\ running \subseteq Nodes /\ attacks \subseteq Nodes
    /\ gateOn \in BOOLEAN /\ ledgerOn \in BOOLEAN
    /\ pc \in [Nodes -> {"idle", "vote", "begin", "fit", "publish", "submit", "admit",
                         "await", "wait", "close"} \cup Ended]
    /\ round \in [Nodes -> Rounds \cup {None}] /\ cur \in [Nodes -> Rounds \cup {None}]
    /\ trainSet \in [Rounds -> SUBSET Nodes] /\ held \subseteq Nodes
    /\ model \in [Nodes -> Update]
    /\ rows \in [Nodes -> [Rounds \cup {None} -> Row]]
    /\ role \in [Nodes -> [Rounds -> {"absent", "elected", "trained", "submitted"}]]
    /\ got \in [Nodes -> SUBSET Nodes]
    /\ entered \in [Nodes -> [Rounds -> Update]]
    /\ decided \in [Rounds -> SUBSET Nodes]
    /\ installed \in [Nodes -> [Rounds -> BOOLEAN]]
    /\ faults \in 0 .. MaxFaults

\* What the evidence of a round states of a node's update.
OnRecord(n, r) == rows[n][r].observed

\* The evidence, once written, tells the truth of what was aggregated: the
\* update a record speaks of is the one that entered the aggregator; the
\* adversary's was attacked exactly once (the free rider's not trained), and
\* an honest node's was trained and left alone.  evidence_for_round of the
\* three audits, mnist.py's `round_evidence'.
EvidenceIsTrue ==
    result = "written" => \A n \in Nodes, r \in Rounds :
        OnRecord(n, r) /\ ~(scene.gate /\ n \in scene.rejected) =>
            /\ entered[n][r] = rows[n][r].submitted
            /\ entered[n][r].applied =
                   (IF Adversary(n) /\ scene.kind \in {"update", "collusion"} THEN 1 ELSE 0)
            /\ entered[n][r].trained = ~(Adversary(n) /\ scene.kind = "training")

\* A run in which a node dropped out leaves no evidence, whether its thread
\* raised or ended at an early-stop check, when its audits or the validators
\* watch every node (evidence_for_round and the installation check of mnist.py).
NoSilentGap ==
    result = "written" /\ (scene.gate \/ scene.kind \in {"training", "collusion"}) =>
        \A n \in Nodes, r \in Rounds : installed[n][r]

\* What the driver wrote is what happened, and it wrote nothing of a run in which a
\* watched node dropped out.
EvidenceIsWhole == EvidenceIsTrue /\ NoSilentGap

\* The driver gets to its end, whatever a node or it met, and leaves no attack, no
\* gate and no ledger behind for the next experiment of the process, and of the
\* nodes only those it could not stop (wait_to_finish and the finally block);
\* unless two nodes wait for each other's neighbour tables in a stop.
Clean == phase = "done" /\ attacks = {} /\ running \subseteq broken /\ ~gateOn /\ ~ledgerOn
RunEnds == <>[](Clean \/ Hung)

\* Not met (README, section 4).  A stop may hang, by the driver or by a node that
\* failed, and one that is cut short by an exception leaves its node running.
NothingIsLeft == <>[](Clean /\ running = {})

\* Not met (README, section 4).  wait_to_finish takes the workflow of a node
\* that its own handler stopped for finished, so without audits of every node
\* and without validators the evidence is written all the same.
WrittenIsComplete ==
    result = "written" => \A n \in Nodes, r \in Rounds : installed[n][r]

\* Not met (README, section 4).  The audit observes the update before the gate
\* decides on it: a rejected update is on record as one that reached the
\* aggregation.
ReachedIsEntered ==
    \A n \in Nodes, r \in Rounds :
        rows[n][r].final /\ rows[n][r].observed => entered[n][r] = rows[n][r].submitted

\* Not met (README, section 4).  The finally block removes the gate before the
\* nodes are stopped, and a trainer that gets there then finds none.
NothingUngated ==
    \A n \in Nodes, r \in Rounds :
        scene.gate /\ entered[n][r] # NoUpdate => n \notin scene.rejected
=============================================================================
