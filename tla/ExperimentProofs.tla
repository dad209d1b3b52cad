-------------------------- MODULE ExperimentProofs --------------------------
(***************************************************************************)
(* Proofs about Experiment, for every set of configurations, with any      *)
(* number of nodes and rounds: the evidence that the driver writes states  *)
(* what entered the aggregators, and none is written of a run in which a   *)
(* node that is watched dropped out.                                       *)
(*                                                                         *)
(* And about Comparisons, for every set of policies, participants and      *)
(* interventions and any number of rounds: the comparators of the          *)
(* automaton (CAExperiment), of inverted votes under the gate              *)
(* (CausalComparison) and of attacks on training (EvidenceComparison) call *)
(* proven what happened, and refuse no pair without reason.                *)
(***************************************************************************)
EXTENDS Experiment, Comparisons, FiniteSetTheorems, SequenceTheorems, WellFoundedInduction, TLAPS

-----------------------------------------------------------------------------
\* The inductive invariant.

\* The round of the audit is that of the node while it trains, and an earlier one
\* before; a thread that has not begun or came to its end is in no round.
InStep(n) ==
    /\ pc[n] \in {"idle", "finished"} => round[n] = None
    /\ pc[n] = "idle" => cur[n] = None
    /\ pc[n] \in {"vote", "begin", "wait"} /\ round[n] # None => cur[n] < round[n]
    /\ pc[n] = "close" /\ round[n] # None => cur[n] <= round[n]
    /\ pc[n] \in {"fit", "publish", "submit", "admit", "await"} =>
          cur[n] # None /\ round[n] \in {cur[n], None}

\* What becomes of the update of a node whose attack and audit run.
Outcome(n) ==
    [trained |-> ~(Adversary(n) /\ scene.kind = "training"),
     applied |-> IF Adversary(n) /\ scene.kind \in {"update", "collusion"} THEN 1 ELSE 0]

\* The model between the fit and the aggregation, and the record of it.
ModelOnRecord(n) ==
    /\ pc[n] = "fit" => model[n] = Received
    /\ pc[n] = "publish" => model[n] = [trained |-> ~Skips(n), applied |-> 0]
    /\ pc[n] = "submit" /\ n \in held /\ Audited(n) =>
          model[n] = Outcome(n) /\ rows[n][cur[n]].submitted = model[n]
    /\ pc[n] = "admit" /\ rows[n][cur[n]].observed => model[n] = Outcome(n)

\* Nothing is observed before it is submitted, and what was observed is the
\* outcome, which has entered the aggregator unless the gate keeps it out.
Unseen(n) ==
    \A r \in Rounds :
        cur[n] < r \/ (cur[n] = r /\ pc[n] \in {"fit", "publish", "submit"}) =>
            ~rows[n][r].observed
KeptOut(n, r) ==
    \/ scene.gate /\ n \in scene.rejected
    \/ pc[n] = "failed"
    \/ pc[n] = "admit" /\ cur[n] = r
Recorded(n) ==
    \A r \in Rounds :
        rows[n][r].observed =>
            rows[n][r].submitted = Outcome(n) /\ (entered[n][r] = Outcome(n) \/ KeptOut(n, r))

\* A record is closed when the round's model is installed.
Closed(n) == \A r \in Rounds : rows[n][r].final => installed[n][r]

NodeInv(n) == InStep(n) /\ ModelOnRecord(n) /\ Unseen(n) /\ Recorded(n) /\ Closed(n)

\* The gate is the scene's until it is cleared, and evidence is collected of
\* threads that have come to their end.
DriverInv ==
    /\ gateOn => scene.gate
    /\ phase \in {"create", "wait", "collect"} => gateOn = scene.gate
    /\ phase = "collect" \/ result = "written" => \A n \in Nodes : pc[n] = "finished"
    /\ phase \in {"create", "wait", "collect"} => result = "none"
    /\ phase = "create" => \A n \in Nodes : pc[n] = "idle"

IInv == TypeOK /\ (\A n \in Nodes : NodeInv(n)) /\ DriverInv /\ NoSilentGap

-----------------------------------------------------------------------------
\* Types.

LEMMA SceneType ==
    ASSUME TypeOK
    PROVE  /\ scene.eligible \subseteq Nodes
           /\ scene.nodes \in Nat /\ scene.rounds \in Nat \ {0} /\ scene.gate \in BOOLEAN
           /\ scene.kind \in {"training", "collusion", "update", "plain"}
           /\ MaxFaults \in Nat
  BY ScenesAssumption DEF TypeOK, Scene, Nodes

LEMMA SceneKept ==
    ASSUME scene' = scene
    PROVE  Nodes' = Nodes /\ Rounds' = Rounds /\ StopCall' = StopCall
  BY DEF Nodes, Rounds, StopCall

LEMMA NoneIsNoRound == None \notin Rounds /\ Rounds \subseteq Int /\ None \in Int
  BY DEF None, Rounds

\* A stop that is asked for.
LEMMA AskedType ==
    ASSUME TypeOK, NEW n \in Nodes, NEW who \in {"driver", "thread", "handler"}
    PROVE  Asked(who, n) \subseteq StopCall
  <1>1. Call(who, n) \in StopCall
    BY DEF Call, StopCall
  <1> QED BY <1>1 DEF Asked, TypeOK

\* The control of a thread.
LEMMA ControlType ==
    ASSUME TypeOK, NEW n \in Nodes,
           (\E how \in Ended : Ends(n, how)) \/
           (\E to \in {"vote", "begin", "fit", "publish", "submit", "admit", "await", "wait",
                       "close"} : Goes(n, to))
    PROVE  /\ pc' \in [Nodes -> {"idle", "vote", "begin", "fit", "publish", "submit", "admit",
                                 "await", "wait", "close"} \cup Ended]
           /\ round' \in [Nodes -> Rounds \cup {None}]
           /\ stops' \subseteq StopCall
  <1>1. /\ pc \in [Nodes -> {"idle", "vote", "begin", "fit", "publish", "submit", "admit",
                             "await", "wait", "close"} \cup Ended]
        /\ round \in [Nodes -> Rounds \cup {None}] /\ stops \subseteq StopCall
    BY DEF TypeOK
  <1>2. CASE \E how \in Ended : Ends(n, how)
    BY <1>1, <1>2, AskedType DEF Ends, Ended
  <1>3. CASE \E to \in {"vote", "begin", "fit", "publish", "submit", "admit", "await", "wait",
                        "close"} : Goes(n, to)
    BY <1>1, <1>3 DEF Goes
  <1> QED BY <1>2, <1>3

\* What the audits put on record.
LEMMA RowType ==
    /\ Begun \in Row /\ EmptyRow \in Row /\ NoUpdate \in Update /\ Received \in Update
    /\ \A row \in Row, b \in BOOLEAN : Completed(row, b) \in Row
    /\ \A row \in Row, update \in Update :
          Submitted(row, update) \in Row /\ Observed(row, update) \in Row
  <1>1. NoUpdate \in Update /\ Received \in Update
    BY DEF Update, NoUpdate, Received, None
  <1>2. EmptyRow \in Row
    BY <1>1 DEF Row, EmptyRow
  <1>3. Begun \in Row
    BY <1>2 DEF Row, Begun
  <1>4. ASSUME NEW row \in Row, NEW b \in BOOLEAN
        PROVE  Completed(row, b) \in Row
    BY DEF Row, Completed
  <1>5. ASSUME NEW row \in Row, NEW update \in Update
        PROVE  Submitted(row, update) \in Row /\ Observed(row, update) \in Row
    <2>1. row.applied + update.applied \in Int
      BY DEF Row, Update
    <2>2. Submitted(row, update) \in Row
      BY <2>1 DEF Row, Submitted
    <2>3. Observed(row, update) \in Row
      BY DEF Row, Observed
    <2> QED BY <2>2, <2>3
  <1> QED BY <1>1, <1>2, <1>3, <1>4, <1>5

LEMMA RowsType ==
    ASSUME TypeOK, NEW n \in Nodes, NEW r \in Rounds \cup {None}, NEW row \in Row,
           rows' = [rows EXCEPT ![n][r] = row]
    PROVE  rows' \in [Nodes -> [Rounds \cup {None} -> Row]]
  BY DEF TypeOK

LEMMA RoleType ==
    ASSUME TypeOK, NEW n \in Nodes, NEW r, NEW to \in {"elected", "trained", "submitted"},
           role' = [role EXCEPT ![n][r] = to]
    PROVE  role' \in [Nodes -> [Rounds -> {"absent", "elected", "trained", "submitted"}]]
  <1>1. role \in [Nodes -> [Rounds -> {"absent", "elected", "trained", "submitted"}]]
    BY DEF TypeOK
  <1>2. [role[n] EXCEPT ![r] = to] \in [Rounds -> {"absent", "elected", "trained", "submitted"}]
    BY <1>1
  <1> QED BY <1>1, <1>2

LEMMA InstalledType ==
    ASSUME TypeOK, NEW n \in Nodes, NEW r, installed' = [installed EXCEPT ![n][r] = TRUE]
    PROVE  installed' \in [Nodes -> [Rounds -> BOOLEAN]]
  <1>1. installed \in [Nodes -> [Rounds -> BOOLEAN]]
    BY DEF TypeOK
  <1>2. [installed[n] EXCEPT ![r] = TRUE] \in [Rounds -> BOOLEAN]
    BY <1>1
  <1> QED BY <1>1, <1>2

LEMMA UpdateType ==
    ASSUME NEW update \in Update, NEW n
    PROVE  /\ Published(n, update) \in Update
           /\ \A b \in BOOLEAN : [update EXCEPT !.trained = b] \in Update
  BY DEF Update, Published, Aligned, Flipped

LEMMA AddsType ==
    ASSUME TypeOK, NEW n \in Nodes, NEW r, Adds(n, r)
    PROVE  entered' \in [Nodes -> [Rounds -> Update]] /\ got' \in [Nodes -> SUBSET Nodes]
  BY DEF TypeOK, Adds

LEMMA CreateNodeType ==
    ASSUME TypeOK, CreateNode
    PROVE  TypeOK'
  <1>1. Cardinality(running) \in Nat
    <2>1. IsFiniteSet(Nodes)
      <3>1. 1 \in Int /\ scene.nodes \in Int
        BY SceneType
      <3>2. IsFiniteSet(1 .. scene.nodes)
        BY <3>1, FS_Interval, Zenon
      <3> QED BY <3>2 DEF Nodes
    <2> QED BY <2>1, FS_Subset, FS_CardinalityType DEF TypeOK
  <1>2. Cardinality(running) + 1 \in Nodes
    BY <1>1, SceneType DEF CreateNode, Nodes
  <1>3. running' \subseteq Nodes /\ attacks' \subseteq Nodes
    BY <1>2 DEF CreateNode, TypeOK
  <1>4. phase' \in {"create", "clearLedger"} /\ result' \in {"none", "written", "refused"}
    BY DEF CreateNode, TypeOK
  <1>5. /\ scene' = scene /\ gateOn' = gateOn /\ ledgerOn' = ledgerOn /\ faults' = faults
        /\ nodeVars' = nodeVars /\ turn' = turn /\ stops' = stops /\ broken' = broken
    BY DEF CreateNode
  <1> QED BY <1>3, <1>4, <1>5, SceneKept DEF TypeOK, nodeVars

LEMMA StartLearningType ==
    ASSUME TypeOK, StartLearning
    PROVE  TypeOK'
  <1>1. round' = [n \in Nodes |-> 0] /\ 0 \in Rounds /\ pc' = [n \in Nodes |-> "vote"]
    BY SceneType DEF StartLearning, Rounds
  <1>2. /\ scene' = scene /\ phase' = "wait" /\ ledgerOn' = TRUE
        /\ UNCHANGED <<result, stopVars, attacks, gateOn, trainSet, held, cur, model, rows, role,
                       got, entered, decided, installed, faults>>
    BY DEF StartLearning
  <1> HIDE DEF Nodes, Rounds
  <1> QED BY <1>1, <1>2, SceneKept DEF TypeOK, stopVars

LEMMA GiveUpType ==
    ASSUME TypeOK, GiveUp
    PROVE  TypeOK'
  <1>1. faults' \in 0 .. MaxFaults
    BY ScenesAssumption DEF GiveUp, TypeOK
  <1>2. /\ scene' = scene /\ phase' = "clearLedger" /\ result' = "refused"
        /\ UNCHANGED <<stopVars, attacks, gateOn, ledgerOn, nodeVars>>
    BY DEF GiveUp
  <1> QED BY <1>1, <1>2, SceneKept DEF TypeOK, nodeVars, stopVars

LEMMA SeeFailureType ==
    ASSUME TypeOK, SeeFailure
    PROVE  TypeOK'
  <1>1. scene' = scene
    BY DEF SeeFailure
  <1> QED BY <1>1, SceneKept DEF TypeOK, SeeFailure, nodeVars

LEMMA SeeFinishedType ==
    ASSUME TypeOK, SeeFinished
    PROVE  TypeOK'
  <1>1. scene' = scene
    BY DEF SeeFinished
  <1> QED BY <1>1, SceneKept DEF TypeOK, SeeFinished, nodeVars, stopVars

LEMMA CollectType ==
    ASSUME TypeOK, Collect
    PROVE  TypeOK'
  <1>1. scene' = scene
    BY DEF Collect
  <1> QED BY <1>1, SceneKept DEF TypeOK, Collect, nodeVars, stopVars

LEMMA StopNodeType ==
    ASSUME TypeOK, StopNode
    PROVE  TypeOK'
  <1>1. turn \in Nodes /\ turn \in Nat /\ stops' = Asked("driver", turn) /\ turn' = turn + 1
    BY DEF StopNode, TypeOK
  <1>2. /\ UNCHANGED <<scene, phase, result, running, broken, attacks, gateOn, ledgerOn, faults>>
        /\ UNCHANGED nodeVars
    BY DEF StopNode
  <1>3. stops' \subseteq StopCall /\ turn' \in Nat
    BY <1>1, AskedType
  <1> QED BY <1>2, <1>3, SceneKept DEF TypeOK, nodeVars

LEMMA StopType ==
    ASSUME TypeOK, NEW s \in stops, Stop(s)
    PROVE  TypeOK'
  <1>1. s \in StopCall /\ s.of \in Nodes /\ [s EXCEPT !.stuck = TRUE] \in StopCall
    BY DEF TypeOK, StopCall
  <1>2. /\ stops' \subseteq StopCall /\ running' \subseteq Nodes /\ broken' \subseteq Nodes
        /\ round' \in [Nodes -> Rounds \cup {None}]
    <2>1. CASE StopReturns(s)
      BY <1>1, <2>1 DEF StopReturns, TypeOK
    <2>2. CASE StopBreaks(s)
      BY <1>1, <2>2 DEF StopBreaks, TypeOK, nodeVars
    <2>3. CASE StopHangs(s)
      BY <1>1, <2>3 DEF StopHangs, TypeOK, nodeVars
    <2> QED BY <2>1, <2>2, <2>3 DEF Stop
  <1>3. UNCHANGED <<scene, phase, result, turn, attacks, gateOn, ledgerOn, pc, trainSet, held, cur,
                    model, rows, role, got, entered, decided, installed, faults>>
    BY DEF Stop, StopReturns, StopBreaks, StopHangs, nodeVars
  <1> QED BY <1>2, <1>3, SceneKept DEF TypeOK

LEMMA AllStoppedType ==
    ASSUME TypeOK, AllStopped
    PROVE  TypeOK'
  <1>1. scene' = scene
    BY DEF AllStopped
  <1> QED BY <1>1, SceneKept DEF TypeOK, AllStopped, nodeVars, stopVars

LEMMA ClearLedgerType ==
    ASSUME TypeOK, ClearLedger
    PROVE  TypeOK'
  <1>1. scene' = scene
    BY DEF ClearLedger
  <1> QED BY <1>1, SceneKept DEF TypeOK, ClearLedger, nodeVars, stopVars

LEMMA ClearGateType ==
    ASSUME TypeOK, ClearGate
    PROVE  TypeOK'
  <1>1. scene' = scene
    BY DEF ClearGate
  <1> QED BY <1>1, SceneKept DEF TypeOK, ClearGate, nodeVars

LEMMA ClearAttacksType ==
    ASSUME TypeOK, ClearAttacks
    PROVE  TypeOK'
  <1>1. scene' = scene
    BY DEF ClearAttacks
  <1> QED BY <1>1, SceneKept DEF TypeOK, ClearAttacks, nodeVars, stopVars

LEMMA ReceiveType ==
    ASSUME TypeOK, NEW n \in Nodes, NEW m \in Nodes, Receive(n, m)
    PROVE  TypeOK'
  <1>1. got' \in [Nodes -> SUBSET Nodes]
    BY DEF Receive, TypeOK
  <1>2. /\ UNCHANGED driverVars
        /\ UNCHANGED <<pc, round, trainSet, held, cur, model, rows, role, entered, decided,
                       installed, faults>>
    BY DEF Receive
  <1> QED BY <1>1, <1>2, SceneKept DEF TypeOK, driverVars, stopVars

LEMMA StoppedEndType ==
    ASSUME TypeOK, NEW n \in Nodes, StoppedEnd(n)
    PROVE  TypeOK'
  <1>1. /\ pc' \in [Nodes -> {"idle", "vote", "begin", "fit", "publish", "submit", "admit",
                             "await", "wait", "close"} \cup Ended]
        /\ round' \in [Nodes -> Rounds \cup {None}] /\ stops' \subseteq StopCall
    BY ControlType DEF StoppedEnd, Ended
  <1>2. UNCHANGED <<scene, phase, result, running, turn, broken, attacks, gateOn, ledgerOn, trainSet, held, cur,
                    model, rows, role, got, entered, decided, installed, faults>>
    BY DEF StoppedEnd, Others, driverVars, Goes, Ends
  <1> QED BY <1>1, <1>2, SceneKept DEF TypeOK

LEMMA VoteType ==
    ASSUME TypeOK, NEW n \in Nodes, Vote(n)
    PROVE  TypeOK'
  <1>1. /\ pc' \in [Nodes -> {"idle", "vote", "begin", "fit", "publish", "submit", "admit",
                             "await", "wait", "close"} \cup Ended]
        /\ round' \in [Nodes -> Rounds \cup {None}] /\ stops' \subseteq StopCall
    BY ControlType DEF Vote, Ended
  <1>2. round[n] \in Rounds
    BY DEF Vote, TypeOK
  <1>3. trainSet' \in [Rounds -> SUBSET Nodes]
    BY <1>2, SceneType DEF Vote, Elected, TypeOK
  <1>4. role' \in [Nodes -> [Rounds -> {"absent", "elected", "trained", "submitted"}]]
    BY <1>2 DEF Vote, TypeOK
  <1>5. UNCHANGED <<scene, phase, result, running, turn, broken, attacks, gateOn, ledgerOn, held, cur, model,
                    rows, got, entered, decided, installed, faults>>
    BY DEF Vote, Others, driverVars, Goes, Ends
  <1> QED BY <1>1, <1>2, <1>3, <1>4, <1>5, SceneKept DEF TypeOK

LEMMA BeginType ==
    ASSUME TypeOK, NEW n \in Nodes, Begin(n)
    PROVE  TypeOK'
  <1>1. /\ pc' \in [Nodes -> {"idle", "vote", "begin", "fit", "publish", "submit", "admit",
                             "await", "wait", "close"} \cup Ended]
        /\ round' \in [Nodes -> Rounds \cup {None}] /\ stops' \subseteq StopCall
    BY ControlType DEF Begin, Ended
  <1>2. round[n] \in Rounds
    BY DEF Begin, TypeOK
  <1>3. held' \subseteq Nodes /\ cur' \in [Nodes -> Rounds \cup {None}]
    BY <1>2 DEF Begin, TypeOK
  <1>4. model' \in [Nodes -> Update]
    BY RowType DEF Begin, TypeOK
  <1>5. rows' \in [Nodes -> [Rounds \cup {None} -> Row]]
    BY <1>2, RowType DEF Begin, TypeOK
  <1>6. UNCHANGED <<scene, phase, result, running, turn, broken, attacks, gateOn, ledgerOn, trainSet, role, got,
                    entered, decided, installed, faults>>
    BY DEF Begin, Others, driverVars, Goes, Ends
  <1> QED BY <1>1, <1>2, <1>3, <1>4, <1>5, <1>6, SceneKept DEF TypeOK

LEMMA FitType ==
    ASSUME TypeOK, NEW n \in Nodes, Fit(n)
    PROVE  TypeOK'
  <1>1. /\ pc' \in [Nodes -> {"idle", "vote", "begin", "fit", "publish", "submit", "admit",
                             "await", "wait", "close"} \cup Ended]
        /\ round' \in [Nodes -> Rounds \cup {None}] /\ stops' \subseteq StopCall
    BY ControlType DEF Fit, Ended
  <1>2. cur[n] \in Rounds \cup {None} /\ rows[n][cur[n]] \in Row /\ Skips(n) \in BOOLEAN
    BY DEF TypeOK, Skips, Adversary
  <1>3. model' \in [Nodes -> Update]
    <2>1. [model[n] EXCEPT !.trained = ~Skips(n)] \in Update
      BY UpdateType, <1>2 DEF TypeOK
    <2>2. model' = [model EXCEPT ![n] = [model[n] EXCEPT !.trained = ~Skips(n)]]
      BY DEF Fit
    <2> QED BY <2>1, <2>2 DEF TypeOK
  <1>4. rows' \in [Nodes -> [Rounds \cup {None} -> Row]]
    <2>1. rows' = rows \/ rows' = [rows EXCEPT ![n][cur[n]] = Completed(rows[n][cur[n]], Skips(n))]
      BY DEF Fit
    <2> QED BY <1>2, <2>1, RowType, RowsType DEF TypeOK
  <1>5. role' \in [Nodes -> [Rounds -> {"absent", "elected", "trained", "submitted"}]]
    BY RoleType DEF Fit, TypeOK
  <1>6. UNCHANGED <<scene, phase, result, running, turn, broken, attacks, gateOn, ledgerOn, trainSet, held, cur,
                    got, entered, decided, installed, faults>>
    BY DEF Fit, Others, driverVars, Goes, Ends
  <1> QED BY <1>1, <1>2, <1>3, <1>4, <1>5, <1>6, SceneKept DEF TypeOK

LEMMA FitFailsType ==
    ASSUME TypeOK, NEW n \in Nodes, FitFails(n)
    PROVE  TypeOK'
  <1>1. /\ pc' \in [Nodes -> {"idle", "vote", "begin", "fit", "publish", "submit", "admit",
                             "await", "wait", "close"} \cup Ended]
        /\ round' \in [Nodes -> Rounds \cup {None}] /\ stops' \subseteq StopCall
    BY ControlType DEF FitFails, Ended
  <1>2. faults' \in 0 .. MaxFaults
    BY ScenesAssumption DEF FitFails, TypeOK
  <1>3. UNCHANGED <<scene, phase, result, running, turn, broken, attacks, gateOn, ledgerOn, trainSet, held, cur,
                    model, rows, role, got, entered, decided, installed>>
    BY DEF FitFails, Others, driverVars, Goes, Ends
  <1> QED BY <1>1, <1>2, <1>3, SceneKept DEF TypeOK

LEMMA PublishType ==
    ASSUME TypeOK, NEW n \in Nodes, Publish(n)
    PROVE  TypeOK'
  <1>1. /\ pc' \in [Nodes -> {"idle", "vote", "begin", "fit", "publish", "submit", "admit",
                             "await", "wait", "close"} \cup Ended]
        /\ round' \in [Nodes -> Rounds \cup {None}] /\ stops' \subseteq StopCall
    BY ControlType DEF Publish, Ended
  <1>2. FiledUnder(n) \in Rounds \cup {None} /\ Published(n, model[n]) \in Update
    BY UpdateType DEF TypeOK, FiledUnder
  <1>3. model' \in [Nodes -> Update]
    BY <1>2 DEF Publish, Installs, TypeOK
  <1>4. rows' \in [Nodes -> [Rounds \cup {None} -> Row]]
    <2>1. \/ rows' = rows
          \/ rows' = [rows EXCEPT ![n][FiledUnder(n)] =
                         Submitted(rows[n][FiledUnder(n)], Published(n, model[n]))]
      BY DEF Publish
    <2>2. rows[n][FiledUnder(n)] \in Row
      BY <1>2 DEF TypeOK
    <2> QED BY <1>2, <2>1, <2>2, RowType, RowsType DEF TypeOK
  <1>5. UNCHANGED <<scene, phase, result, running, turn, broken, attacks, gateOn, ledgerOn, trainSet, held, cur,
                    role, got, entered, decided, installed, faults>>
    BY DEF Publish, Others, driverVars, Goes, Ends
  <1> QED BY <1>1, <1>2, <1>3, <1>4, <1>5, SceneKept DEF TypeOK

LEMMA SubmitType ==
    ASSUME TypeOK, NEW n \in Nodes, Submit(n)
    PROVE  TypeOK'
  <1>1. /\ pc' \in [Nodes -> {"idle", "vote", "begin", "fit", "publish", "submit", "admit",
                             "await", "wait", "close"} \cup Ended]
        /\ round' \in [Nodes -> Rounds \cup {None}] /\ stops' \subseteq StopCall
    BY ControlType DEF Submit, Ended
  <1>2. FiledUnder(n) \in Rounds \cup {None} /\ model[n] \in Update
    BY DEF TypeOK, FiledUnder
  <1>3. rows' \in [Nodes -> [Rounds \cup {None} -> Row]]
    <2>1. \/ rows' = rows
          \/ rows' = [rows EXCEPT ![n][FiledUnder(n)] =
                         IF FiledUnder(n) = None THEN rows[n][FiledUnder(n)]
                         ELSE Observed(rows[n][FiledUnder(n)], model[n])]
      BY DEF Submit
    <2>2. rows[n][FiledUnder(n)] \in Row
      BY <1>2 DEF TypeOK
    <2> QED BY <1>2, <2>1, <2>2, RowType, RowsType DEF TypeOK
  <1>4. entered' \in [Nodes -> [Rounds -> Update]] /\ got' \in [Nodes -> SUBSET Nodes]
    BY AddsType DEF Submit, TypeOK
  <1>5. /\ decided' \in [Rounds -> SUBSET Nodes]
        /\ role' \in [Nodes -> [Rounds -> {"absent", "elected", "trained", "submitted"}]]
    <2>1. decided' \in [Rounds -> SUBSET Nodes]
      <3>1. \/ decided' = decided
            \/ /\ round[n] # None
               /\ decided' = [decided EXCEPT ![round[n]] = decided[round[n]] \cup {n}]
        BY DEF Submit
      <3>2. round[n] # None => round[n] \in Rounds
        BY DEF TypeOK
      <3>3. decided \in [Rounds -> SUBSET Nodes]
        BY DEF TypeOK
      <3>4. CASE round[n] = None
        BY <3>1, <3>3, <3>4
      <3>5. CASE round[n] # None
        BY <3>1, <3>2, <3>3, <3>5
      <3> QED BY <3>4, <3>5
    <2>2. role' = role \/ role' = [role EXCEPT ![n][round[n]] = "submitted"]
      BY DEF Submit
    <2> QED BY <2>1, <2>2, RoleType DEF TypeOK
  <1>6. UNCHANGED <<scene, phase, result, running, turn, broken, attacks, gateOn, ledgerOn, trainSet, held, cur,
                    model, installed, faults>>
    BY DEF Submit, Others, driverVars, Goes, Ends
  <1> QED BY <1>1, <1>2, <1>3, <1>4, <1>5, <1>6, SceneKept DEF TypeOK

LEMMA AdmitType ==
    ASSUME TypeOK, NEW n \in Nodes, Admit(n)
    PROVE  TypeOK'
  <1>1. /\ pc' \in [Nodes -> {"idle", "vote", "begin", "fit", "publish", "submit", "admit",
                             "await", "wait", "close"} \cup Ended]
        /\ round' \in [Nodes -> Rounds \cup {None}] /\ stops' \subseteq StopCall
    BY ControlType DEF Admit, Ended
  <1>2. entered' \in [Nodes -> [Rounds -> Update]] /\ got' \in [Nodes -> SUBSET Nodes]
    BY AddsType DEF Admit, TypeOK
  <1>3. role' \in [Nodes -> [Rounds -> {"absent", "elected", "trained", "submitted"}]]
    BY RoleType DEF Admit, TypeOK
  <1>4. UNCHANGED <<scene, phase, result, running, turn, broken, attacks, gateOn, ledgerOn, trainSet, held, cur,
                    model, rows, decided, installed, faults>>
    BY DEF Admit, Others, driverVars, Goes, Ends
  <1> QED BY <1>1, <1>2, <1>3, <1>4, SceneKept DEF TypeOK

LEMMA ReceptionFailsType ==
    ASSUME TypeOK, NEW n \in Nodes, ReceptionFails(n)
    PROVE  TypeOK'
  <1>1. faults' \in 0 .. MaxFaults
    BY ScenesAssumption DEF ReceptionFails, TypeOK
  <1>2. stops' \subseteq StopCall
    BY AskedType DEF ReceptionFails
  <1>3. UNCHANGED <<scene, phase, result, running, turn, broken, attacks, gateOn, ledgerOn, pc, round, trainSet,
                    held, cur, model, rows, role, got, entered, decided, installed>>
    BY DEF ReceptionFails, Others, driverVars, Goes, Ends
  <1> QED BY <1>1, <1>2, <1>3, SceneKept DEF TypeOK

LEMMA AwaitType ==
    ASSUME TypeOK, NEW n \in Nodes, Await(n)
    PROVE  TypeOK'
  <1>1. /\ pc' \in [Nodes -> {"idle", "vote", "begin", "fit", "publish", "submit", "admit",
                             "await", "wait", "close"} \cup Ended]
        /\ round' \in [Nodes -> Rounds \cup {None}] /\ stops' \subseteq StopCall
    BY ControlType DEF Await, Ended
  <1>2. round[n] \in Rounds
    BY DEF Await, TypeOK
  <1>3. model' \in [Nodes -> Update]
    BY RowType DEF Await, TypeOK
  <1>4. installed' \in [Nodes -> [Rounds -> BOOLEAN]]
    BY InstalledType DEF Await, TypeOK
  <1>5. rows' \in [Nodes -> [Rounds \cup {None} -> Row]]
    <2>1. rows[n][round[n]] \in Row
      BY <1>2 DEF TypeOK
    <2>2. [rows[n][round[n]] EXCEPT !.final = TRUE] \in Row
      BY <2>1 DEF Row
    <2>3. \/ rows' = rows
          \/ rows' = [rows EXCEPT ![n][round[n]] = [rows[n][round[n]] EXCEPT !.final = TRUE]]
      BY DEF Await
    <2> QED BY <1>2, <2>2, <2>3, RowsType DEF TypeOK
  <1>6. UNCHANGED <<scene, phase, result, running, turn, broken, attacks, gateOn, ledgerOn, trainSet, held, cur,
                    role, got, entered, decided, faults>>
    BY DEF Await, Others, driverVars, Goes, Ends
  <1> QED BY <1>1, <1>2, <1>3, <1>4, <1>5, <1>6, SceneKept DEF TypeOK

LEMMA WaitType ==
    ASSUME TypeOK, NEW n \in Nodes, Wait(n)
    PROVE  TypeOK'
  <1>1. /\ pc' \in [Nodes -> {"idle", "vote", "begin", "fit", "publish", "submit", "admit",
                             "await", "wait", "close"} \cup Ended]
        /\ round' \in [Nodes -> Rounds \cup {None}] /\ stops' \subseteq StopCall
    BY ControlType DEF Wait, Ended
  <1>2. round[n] \in Rounds
    BY DEF Wait, TypeOK
  <1>3. model' \in [Nodes -> Update] /\ installed' \in [Nodes -> [Rounds -> BOOLEAN]]
    <2>1. model' = model \/ model' = [model EXCEPT ![n] = Received]
      BY DEF Wait
    <2>2. installed' = installed \/ installed' = [installed EXCEPT ![n][round[n]] = TRUE]
      BY DEF Wait
    <2>3. model' \in [Nodes -> Update]
      BY <2>1, RowType DEF TypeOK
    <2>4. installed' \in [Nodes -> [Rounds -> BOOLEAN]]
      <3>1. CASE installed' = installed
        BY <3>1 DEF TypeOK
      <3>2. CASE installed' = [installed EXCEPT ![n][round[n]] = TRUE]
        BY <3>2, InstalledType
      <3> QED BY <2>2, <3>1, <3>2
    <2> QED BY <2>3, <2>4
  <1>4. UNCHANGED <<scene, phase, result, running, turn, broken, attacks, gateOn, ledgerOn, trainSet, held, cur,
                    rows, role, got, entered, decided, faults>>
    BY DEF Wait, Others, driverVars, Goes, Ends
  <1> QED BY <1>1, <1>2, <1>3, <1>4, SceneKept DEF TypeOK

LEMMA CloseType ==
    ASSUME TypeOK, NEW n \in Nodes, Close(n)
    PROVE  TypeOK'
  <1>1. /\ pc' \in [Nodes -> {"idle", "vote", "begin", "fit", "publish", "submit", "admit",
                             "await", "wait", "close"} \cup Ended]
        /\ round' \in [Nodes -> Rounds \cup {None}] /\ stops' \subseteq StopCall
    <2>1. CASE \E how \in Ended : Ends(n, how)
      BY <2>1, ControlType
    <2>2. CASE /\ round' = [round EXCEPT ![n] = round[n] + 1] /\ round[n] + 1 \in Rounds
               /\ pc' = [pc EXCEPT ![n] = "vote"] /\ UNCHANGED stops
      BY <2>2 DEF TypeOK
    <2> QED BY <2>1, <2>2 DEF Close, Ended
  <1>2. got' \in [Nodes -> SUBSET Nodes]
    BY DEF Close, TypeOK
  <1>3. UNCHANGED <<scene, phase, result, running, turn, broken, attacks, gateOn, ledgerOn, trainSet, held, cur,
                    model, rows, role, entered, decided, installed, faults>>
    BY DEF Close, Others, driverVars, Goes, Ends
  <1> QED BY <1>1, <1>2, <1>3, SceneKept DEF TypeOK

-----------------------------------------------------------------------------
\* The threads.

\* The scene does not change, nor what is said of it.
LEMMA SceneFixed ==
    ASSUME scene' = scene, NEW n \in Nodes
    PROVE  /\ Adversary(n)' = Adversary(n) /\ Audited(n)' = Audited(n)
           /\ Outcome(n)' = Outcome(n) /\ Rounds' = Rounds
  BY DEF Adversary, Audited, Outcome, Rounds

\* A node that is only stopped, or not concerned at all.
LEMMA NodeFrame ==
    ASSUME NEW n \in Nodes, NodeInv(n), scene' = scene, pc'[n] = pc[n], cur'[n] = cur[n],
           round'[n] \in {round[n], None}, model'[n] = model[n], rows'[n] = rows[n],
           entered'[n] = entered[n], installed'[n] = installed[n], n \in held' <=> n \in held
    PROVE  NodeInv(n)'
  <1>1. InStep(n)'
    BY DEF NodeInv, InStep, Ended
  <1>2. ModelOnRecord(n)'
    BY SceneFixed DEF NodeInv, ModelOnRecord, Skips, Adversary
  <1>3. Unseen(n)'
    BY SceneFixed DEF NodeInv, Unseen
  <1>4. Recorded(n)'
    BY SceneFixed DEF NodeInv, Recorded, KeptOut
  <1>5. Closed(n)'
    BY SceneFixed DEF NodeInv, Closed
  <1> QED BY <1>1, <1>2, <1>3, <1>4, <1>5 DEF NodeInv

\* A step of one thread leaves the other nodes alone.
LEMMA OthersKept ==
    ASSUME TypeOK, NEW n \in Nodes, NEW m \in Nodes, m # n, Thread(n) \/ FitFails(n), NodeInv(m)
    PROVE  NodeInv(m)'
  <1>1. CASE StoppedEnd(n)
    <2>1. /\ scene' = scene /\ pc'[m] = pc[m] /\ cur'[m] = cur[m] /\ round'[m] = round[m]
          /\ model'[m] = model[m] /\ installed'[m] = installed[m]
      BY <1>1 DEF StoppedEnd, TypeOK, Others, driverVars, Ends, Goes, Installs
    <2>2. /\ rows'[m] = rows[m] /\ entered'[m] = entered[m] /\ (m \in held' <=> m \in held)
      BY <1>1 DEF StoppedEnd, TypeOK, Others, driverVars, Adds
    <2> QED BY <2>1, <2>2, NodeFrame
  <1>2. CASE Vote(n)
    <2>1. /\ scene' = scene /\ pc'[m] = pc[m] /\ cur'[m] = cur[m] /\ round'[m] = round[m]
          /\ model'[m] = model[m] /\ installed'[m] = installed[m]
      BY <1>2 DEF Vote, TypeOK, Others, driverVars, Ends, Goes, Installs
    <2>2. /\ rows'[m] = rows[m] /\ entered'[m] = entered[m] /\ (m \in held' <=> m \in held)
      BY <1>2 DEF Vote, TypeOK, Others, driverVars, Adds
    <2> QED BY <2>1, <2>2, NodeFrame
  <1>3. CASE Begin(n)
    <2>1. /\ scene' = scene /\ pc'[m] = pc[m] /\ cur'[m] = cur[m] /\ round'[m] = round[m]
          /\ model'[m] = model[m] /\ installed'[m] = installed[m]
      BY <1>3 DEF Begin, TypeOK, Others, driverVars, Ends, Goes, Installs
    <2>2. /\ rows'[m] = rows[m] /\ entered'[m] = entered[m] /\ (m \in held' <=> m \in held)
      BY <1>3 DEF Begin, TypeOK, Others, driverVars, Adds
    <2> QED BY <2>1, <2>2, NodeFrame
  <1>4. CASE Fit(n)
    <2>1. /\ scene' = scene /\ pc'[m] = pc[m] /\ cur'[m] = cur[m] /\ round'[m] = round[m]
          /\ model'[m] = model[m] /\ installed'[m] = installed[m]
      BY <1>4 DEF Fit, TypeOK, Others, driverVars, Ends, Goes, Installs
    <2>2. /\ rows'[m] = rows[m] /\ entered'[m] = entered[m] /\ (m \in held' <=> m \in held)
      BY <1>4 DEF Fit, TypeOK, Others, driverVars, Adds
    <2> QED BY <2>1, <2>2, NodeFrame
  <1>5. CASE FitFails(n)
    <2>1. /\ scene' = scene /\ pc'[m] = pc[m] /\ cur'[m] = cur[m] /\ round'[m] = round[m]
          /\ model'[m] = model[m] /\ installed'[m] = installed[m]
      BY <1>5 DEF FitFails, TypeOK, Others, driverVars, Ends, Goes, Installs
    <2>2. /\ rows'[m] = rows[m] /\ entered'[m] = entered[m] /\ (m \in held' <=> m \in held)
      BY <1>5 DEF FitFails, TypeOK, Others, driverVars, Adds
    <2> QED BY <2>1, <2>2, NodeFrame
  <1>6. CASE Publish(n)
    <2>1. /\ scene' = scene /\ pc'[m] = pc[m] /\ cur'[m] = cur[m] /\ round'[m] = round[m]
          /\ model'[m] = model[m] /\ installed'[m] = installed[m]
      BY <1>6 DEF Publish, TypeOK, Others, driverVars, Ends, Goes, Installs
    <2>2. /\ rows'[m] = rows[m] /\ entered'[m] = entered[m] /\ (m \in held' <=> m \in held)
      BY <1>6 DEF Publish, TypeOK, Others, driverVars, Adds
    <2> QED BY <2>1, <2>2, NodeFrame
  <1>7. CASE Submit(n)
    <2>1. /\ scene' = scene /\ pc'[m] = pc[m] /\ cur'[m] = cur[m] /\ round'[m] = round[m]
          /\ model'[m] = model[m] /\ installed'[m] = installed[m]
      BY <1>7 DEF Submit, TypeOK, Others, driverVars, Ends, Goes, Installs
    <2>2. /\ rows'[m] = rows[m] /\ entered'[m] = entered[m] /\ (m \in held' <=> m \in held)
      BY <1>7 DEF Submit, TypeOK, Others, driverVars, Adds
    <2> QED BY <2>1, <2>2, NodeFrame
  <1>8. CASE Admit(n)
    <2>1. /\ scene' = scene /\ pc'[m] = pc[m] /\ cur'[m] = cur[m] /\ round'[m] = round[m]
          /\ model'[m] = model[m] /\ installed'[m] = installed[m]
      BY <1>8 DEF Admit, TypeOK, Others, driverVars, Ends, Goes, Installs
    <2>2. /\ rows'[m] = rows[m] /\ entered'[m] = entered[m] /\ (m \in held' <=> m \in held)
      BY <1>8 DEF Admit, TypeOK, Others, driverVars, Adds
    <2> QED BY <2>1, <2>2, NodeFrame
  <1>9. CASE Await(n)
    <2>1. /\ scene' = scene /\ pc'[m] = pc[m] /\ cur'[m] = cur[m] /\ round'[m] = round[m]
          /\ model'[m] = model[m] /\ installed'[m] = installed[m]
      BY <1>9 DEF Await, TypeOK, Others, driverVars, Ends, Goes, Installs
    <2>2. /\ rows'[m] = rows[m] /\ entered'[m] = entered[m] /\ (m \in held' <=> m \in held)
      BY <1>9 DEF Await, TypeOK, Others, driverVars, Adds
    <2> QED BY <2>1, <2>2, NodeFrame
  <1>10. CASE Wait(n)
    <2>1. /\ scene' = scene /\ pc'[m] = pc[m] /\ cur'[m] = cur[m] /\ round'[m] = round[m]
          /\ model'[m] = model[m] /\ installed'[m] = installed[m]
      BY <1>10 DEF Wait, TypeOK, Others, driverVars, Ends, Goes, Installs
    <2>2. /\ rows'[m] = rows[m] /\ entered'[m] = entered[m] /\ (m \in held' <=> m \in held)
      BY <1>10 DEF Wait, TypeOK, Others, driverVars, Adds
    <2> QED BY <2>1, <2>2, NodeFrame
  <1>11. CASE Close(n)
    <2>1. /\ scene' = scene /\ pc'[m] = pc[m] /\ cur'[m] = cur[m] /\ round'[m] = round[m]
          /\ model'[m] = model[m] /\ installed'[m] = installed[m]
      BY <1>11 DEF Close, TypeOK, Others, driverVars, Ends, Goes, Installs
    <2>2. /\ rows'[m] = rows[m] /\ entered'[m] = entered[m] /\ (m \in held' <=> m \in held)
      BY <1>11 DEF Close, TypeOK, Others, driverVars, Adds
    <2> QED BY <2>1, <2>2, NodeFrame
  <1> QED BY <1>1, <1>2, <1>3, <1>4, <1>5, <1>6, <1>7, <1>8, <1>9, <1>10, <1>11 DEF Thread

LEMMA StoppedEndInv ==
    ASSUME TypeOK, NEW n \in Nodes, StoppedEnd(n), NodeInv(n)
    PROVE  NodeInv(n)'
  <1>0. InStep(n) /\ ModelOnRecord(n) /\ Unseen(n) /\ Recorded(n) /\ Closed(n)
    BY DEF NodeInv
  <1>1. /\ scene' = scene /\ pc[n] \in {"vote", "begin", "await", "wait", "close"}
        /\ pc'[n] \in {"finished", "failed"} /\ round'[n] = None
        /\ cur' = cur /\ rows' = rows /\ entered' = entered /\ installed' = installed
    BY DEF StoppedEnd, TypeOK, Others, driverVars, Ends, Goes, Ended
  <1>2. InStep(n)'
    BY <1>0, SceneFixed, NoneIsNoRound, <1>1 DEF InStep, Ended
  <1>3. ModelOnRecord(n)'
    BY <1>0, SceneFixed, NoneIsNoRound, <1>1 DEF ModelOnRecord
  <1>4. Unseen(n)'
    BY <1>0, SceneFixed, NoneIsNoRound, <1>1 DEF Unseen
  <1>5. Recorded(n)'
    BY <1>0, SceneFixed, NoneIsNoRound, <1>1 DEF Recorded, KeptOut
  <1>6. Closed(n)'
    BY <1>0, SceneFixed, NoneIsNoRound, <1>1 DEF Closed
  <1> QED BY <1>2, <1>3, <1>4, <1>5, <1>6 DEF NodeInv

LEMMA VoteInv ==
    ASSUME TypeOK, NEW n \in Nodes, Vote(n), NodeInv(n)
    PROVE  NodeInv(n)'
  <1>0. InStep(n) /\ ModelOnRecord(n) /\ Unseen(n) /\ Recorded(n) /\ Closed(n)
    BY DEF NodeInv
  <1>1. /\ scene' = scene /\ pc[n] = "vote" /\ pc'[n] \in {"begin", "wait"}
        /\ round' = round /\ cur' = cur /\ rows' = rows /\ entered' = entered
        /\ installed' = installed
    BY DEF Vote, TypeOK, Others, driverVars, Ends, Goes, Ended
  <1>2. InStep(n)'
    BY <1>0, SceneFixed, NoneIsNoRound, <1>1 DEF InStep, Ended
  <1>3. ModelOnRecord(n)'
    BY <1>0, SceneFixed, NoneIsNoRound, <1>1 DEF ModelOnRecord
  <1>4. Unseen(n)'
    BY <1>0, SceneFixed, NoneIsNoRound, <1>1 DEF Unseen
  <1>5. Recorded(n)'
    BY <1>0, SceneFixed, NoneIsNoRound, <1>1 DEF Recorded, KeptOut
  <1>6. Closed(n)'
    BY <1>0, SceneFixed, NoneIsNoRound, <1>1 DEF Closed
  <1> QED BY <1>2, <1>3, <1>4, <1>5, <1>6 DEF NodeInv

LEMMA BeginInv ==
    ASSUME TypeOK, NEW n \in Nodes, Begin(n), NodeInv(n)
    PROVE  NodeInv(n)'
  <1>0. InStep(n) /\ ModelOnRecord(n) /\ Unseen(n) /\ Recorded(n) /\ Closed(n)
    BY DEF NodeInv
  <1>1. /\ scene' = scene /\ pc[n] = "begin" /\ pc'[n] = "fit" /\ round[n] \in Rounds
        /\ round' = round /\ cur'[n] = round[n] /\ model'[n] = Received
        /\ entered' = entered /\ installed' = installed
    BY DEF Begin, TypeOK, Others, driverVars, Ends, Goes, Ended
  <1>2. cur[n] \in Int /\ cur[n] < round[n]
    BY <1>0, <1>1, NoneIsNoRound DEF InStep, TypeOK
  <1>3. \A r \in Rounds :
            rows'[n][r] = rows[n][r] \/ (r = round[n] /\ rows'[n][r] = Begun)
    BY <1>1 DEF Begin, TypeOK
  <1>4. ~Begun.observed /\ ~Begun.final
    BY DEF Begun, EmptyRow
  <1>5. InStep(n)'
    BY <1>0, SceneFixed, NoneIsNoRound, <1>1, <1>2, <1>3, <1>4 DEF InStep, Ended
  <1>6. ModelOnRecord(n)'
    BY <1>0, SceneFixed, NoneIsNoRound, <1>1, <1>2, <1>3, <1>4 DEF ModelOnRecord
  <1>7. Unseen(n)'
    <2> SUFFICES ASSUME NEW r \in Rounds,
                        cur'[n] < r \/ (cur'[n] = r /\ pc'[n] \in {"fit", "publish", "submit"})
                 PROVE  ~rows'[n][r].observed
      BY <1>1, SceneFixed DEF Unseen
    <2>1. cur[n] < r \/ (cur[n] = r /\ pc[n] \in {"fit", "publish", "submit"}) =>
              ~rows[n][r].observed
      BY <1>0 DEF Unseen
    <2> QED BY <2>1, SceneFixed, NoneIsNoRound, <1>1, <1>2, <1>3, <1>4
  <1>8. Recorded(n)'
    <2> SUFFICES ASSUME NEW r \in Rounds, rows'[n][r].observed
                 PROVE  /\ rows'[n][r].submitted = Outcome(n)
                        /\ entered'[n][r] = Outcome(n) \/ KeptOut(n, r)'
      BY <1>1, SceneFixed DEF Recorded
    <2>1. rows[n][r].observed =>
            rows[n][r].submitted = Outcome(n) /\ (entered[n][r] = Outcome(n) \/ KeptOut(n, r))
      BY <1>0 DEF Recorded
    <2>2. cur[n] < r \/ (cur[n] = r /\ pc[n] \in {"fit", "publish", "submit"}) =>
              ~rows[n][r].observed
      BY <1>0 DEF Unseen
    <2> QED BY <2>1, <2>2, SceneFixed, NoneIsNoRound, <1>1, <1>2, <1>3, <1>4 DEF KeptOut
  <1>9. Closed(n)'
    BY <1>0, SceneFixed, NoneIsNoRound, <1>1, <1>2, <1>3, <1>4 DEF Closed
  <1> QED BY <1>5, <1>6, <1>7, <1>8, <1>9 DEF NodeInv

LEMMA FitInv ==
    ASSUME TypeOK, NEW n \in Nodes, Fit(n), NodeInv(n)
    PROVE  NodeInv(n)'
  <1>0. InStep(n) /\ ModelOnRecord(n) /\ Unseen(n) /\ Recorded(n) /\ Closed(n)
    BY DEF NodeInv
  <1>1. /\ scene' = scene /\ pc[n] = "fit" /\ pc'[n] \in {"publish", "failed"}
        /\ pc'[n] = "publish" => round'[n] = round[n] /\ round[n] # None
        /\ pc'[n] = "failed" => round'[n] = None
        /\ held' = held /\ cur' = cur /\ entered' = entered /\ installed' = installed
    BY DEF Fit, TypeOK, Others, driverVars, Ends, Goes, Ended
  <1>2. model'[n] = [trained |-> ~Skips(n), applied |-> 0] /\ Skips(n)' = Skips(n)
    <2>1. model[n] = Received
      BY <1>0, <1>1 DEF ModelOnRecord
    <2>2. model'[n] = [model[n] EXCEPT !.trained = ~Skips(n)]
      BY DEF Fit, TypeOK
    <2>3. Skips(n)' = Skips(n)
      BY <1>1 DEF Skips, Adversary
    <2> QED BY <2>1, <2>2, <2>3 DEF Received
  <1>3. \A r \in Rounds :
            \/ rows'[n][r] = rows[n][r]
            \/ r = cur[n] /\ rows'[n][r] = Completed(rows[n][r], Skips(n))
    BY DEF Fit, TypeOK
  <1>4. \A r \in Rounds :
            /\ Completed(rows[n][r], Skips(n)).observed = rows[n][r].observed
            /\ Completed(rows[n][r], Skips(n)).submitted = rows[n][r].submitted
            /\ Completed(rows[n][r], Skips(n)).final = rows[n][r].final
    BY DEF Completed, TypeOK, Row
  <1>5. \A r \in Rounds :
            /\ rows'[n][r].observed = rows[n][r].observed
            /\ rows'[n][r].submitted = rows[n][r].submitted
            /\ rows'[n][r].final = rows[n][r].final
    BY <1>3, <1>4
  <1>6. InStep(n)'
    BY <1>0, SceneFixed, NoneIsNoRound, <1>1, <1>2, <1>3, <1>4, <1>5 DEF InStep, Ended
  <1>7. ModelOnRecord(n)'
    BY <1>0, SceneFixed, NoneIsNoRound, <1>1, <1>2, <1>3, <1>4, <1>5 DEF ModelOnRecord
  <1>8. Unseen(n)'
    BY <1>0, SceneFixed, NoneIsNoRound, <1>1, <1>2, <1>3, <1>4, <1>5 DEF Unseen
  <1>9. Recorded(n)'
    <2> SUFFICES ASSUME NEW r \in Rounds, rows'[n][r].observed
                 PROVE  /\ rows'[n][r].submitted = Outcome(n)
                        /\ entered'[n][r] = Outcome(n) \/ KeptOut(n, r)'
      BY <1>1, SceneFixed DEF Recorded
    <2>1. rows[n][r].observed =>
            rows[n][r].submitted = Outcome(n) /\ (entered[n][r] = Outcome(n) \/ KeptOut(n, r))
      BY <1>0 DEF Recorded
    <2>2. cur[n] < r \/ (cur[n] = r /\ pc[n] \in {"fit", "publish", "submit"}) =>
              ~rows[n][r].observed
      BY <1>0 DEF Unseen
    <2> QED BY <2>1, <2>2, SceneFixed, NoneIsNoRound, <1>1, <1>2, <1>3, <1>4, <1>5 DEF KeptOut
  <1>10. Closed(n)'
    BY <1>0, SceneFixed, NoneIsNoRound, <1>1, <1>2, <1>3, <1>4, <1>5 DEF Closed
  <1> QED BY <1>6, <1>7, <1>8, <1>9, <1>10 DEF NodeInv

LEMMA FitFailsInv ==
    ASSUME TypeOK, NEW n \in Nodes, FitFails(n), NodeInv(n)
    PROVE  NodeInv(n)'
  <1>0. InStep(n) /\ ModelOnRecord(n) /\ Unseen(n) /\ Recorded(n) /\ Closed(n)
    BY DEF NodeInv
  <1>1. /\ scene' = scene /\ pc[n] = "fit" /\ pc'[n] = "failed"
        /\ cur' = cur /\ rows' = rows /\ entered' = entered /\ installed' = installed
    BY DEF FitFails, TypeOK, Others, driverVars, Ends, Goes, Ended
  <1>2. InStep(n)'
    BY <1>0, SceneFixed, NoneIsNoRound, <1>1 DEF InStep, Ended
  <1>3. ModelOnRecord(n)'
    BY <1>0, SceneFixed, NoneIsNoRound, <1>1 DEF ModelOnRecord
  <1>4. Unseen(n)'
    BY <1>0, SceneFixed, NoneIsNoRound, <1>1 DEF Unseen
  <1>5. Recorded(n)'
    BY <1>0, SceneFixed, NoneIsNoRound, <1>1 DEF Recorded, KeptOut
  <1>6. Closed(n)'
    BY <1>0, SceneFixed, NoneIsNoRound, <1>1 DEF Closed
  <1> QED BY <1>2, <1>3, <1>4, <1>5, <1>6 DEF NodeInv

LEMMA PublishInv ==
    ASSUME TypeOK, NEW n \in Nodes, Publish(n), NodeInv(n)
    PROVE  NodeInv(n)'
  <1>0. InStep(n) /\ ModelOnRecord(n) /\ Unseen(n) /\ Recorded(n) /\ Closed(n)
    BY DEF NodeInv
  <1>1. /\ scene' = scene /\ pc[n] = "publish" /\ pc'[n] \in {"submit", "finished", "failed"}
        /\ pc'[n] = "submit" => round'[n] = round[n] /\ round[n] # None
        /\ pc'[n] # "submit" => round'[n] = None
        /\ held' = held /\ cur' = cur /\ entered' = entered /\ installed' = installed
    BY DEF Publish, TypeOK, Others, driverVars, Ends, Goes, Ended
  <1>2. cur[n] \in Rounds /\ round[n] \in {cur[n], None}
    BY <1>0, <1>1 DEF InStep, TypeOK
  <1>3. n \in held /\ Audited(n) => Published(n, model[n]) = Outcome(n)
    <2>1. model[n] = [trained |-> ~Skips(n), applied |-> 0]
      BY <1>0, <1>1 DEF ModelOnRecord
    <2> QED BY <2>1, SceneType DEF Published, Outcome, Audited, Skips, Aligned, Flipped
  <1>4. model'[n] = Published(n, model[n])
    BY DEF Publish, Installs, TypeOK
  <1>5. FiledUnder(n) \in {cur[n], None} /\ (round[n] # None => FiledUnder(n) = cur[n])
    BY <1>2 DEF FiledUnder
  <1>6. IF n \in held /\ Audited(n)
        THEN rows'[n] = [rows[n] EXCEPT ![FiledUnder(n)] =
                            Submitted(rows[n][FiledUnder(n)], Published(n, model[n]))]
        ELSE rows'[n] = rows[n]
    BY DEF Publish, TypeOK
  <1>7. \A r \in Rounds :
            /\ rows'[n][r].observed = rows[n][r].observed /\ rows'[n][r].final = rows[n][r].final
            /\ rows'[n][r].submitted = rows[n][r].submitted \/ r = cur[n]
    <2> TAKE r \in Rounds
    <2>1. CASE rows'[n][r] = rows[n][r]
      BY <2>1
    <2>2. CASE r = cur[n] /\ rows'[n][r] = Submitted(rows[n][r], Published(n, model[n]))
      BY <2>2 DEF Submitted, Row, TypeOK
    <2>3. rows[n] \in [Rounds \cup {None} -> Row]
      BY DEF TypeOK
    <2> QED BY <1>5, <1>6, <2>1, <2>2, <2>3, NoneIsNoRound
  <1>8. pc'[n] = "submit" /\ n \in held /\ Audited(n) =>
            rows'[n][cur[n]].submitted = Published(n, model[n])
    <2> HAVE pc'[n] = "submit" /\ n \in held /\ Audited(n)
    <2>1. FiledUnder(n) = cur[n]
      BY <1>1, <1>5
    <2>2. rows[n] \in [Rounds \cup {None} -> Row]
      BY DEF TypeOK
    <2>3. rows'[n][cur[n]] = Submitted(rows[n][cur[n]], Published(n, model[n]))
      BY <1>2, <1>6, <2>1, <2>2
    <2>4. rows[n][cur[n]] \in Row
      BY <1>2, <2>2
    <2> QED BY <2>3, <2>4 DEF Submitted, Row
  <1>9. InStep(n)'
    BY <1>0, SceneFixed, NoneIsNoRound, <1>1, <1>2, <1>3, <1>4, <1>5, <1>6, <1>7, <1>8 DEF
       InStep, Ended
  <1>10. ModelOnRecord(n)'
    BY <1>0, SceneFixed, NoneIsNoRound, <1>1, <1>2, <1>3, <1>4, <1>5, <1>6, <1>7, <1>8 DEF
       ModelOnRecord
  <1>11. Unseen(n)'
    BY <1>0, SceneFixed, NoneIsNoRound, <1>1, <1>2, <1>3, <1>4, <1>5, <1>6, <1>7, <1>8 DEF Unseen
  <1>12. Recorded(n)'
    <2> SUFFICES ASSUME NEW r \in Rounds, rows'[n][r].observed
                 PROVE  /\ rows'[n][r].submitted = Outcome(n)
                        /\ entered'[n][r] = Outcome(n) \/ KeptOut(n, r)'
      BY <1>1, SceneFixed DEF Recorded
    <2>1. rows[n][r].observed =>
            rows[n][r].submitted = Outcome(n) /\ (entered[n][r] = Outcome(n) \/ KeptOut(n, r))
      BY <1>0 DEF Recorded
    <2>2. cur[n] < r \/ (cur[n] = r /\ pc[n] \in {"fit", "publish", "submit"}) =>
              ~rows[n][r].observed
      BY <1>0 DEF Unseen
    <2> QED BY <2>1, <2>2, SceneFixed, NoneIsNoRound, <1>1, <1>2, <1>3, <1>4, <1>5, <1>6, <1>7,
               <1>8 DEF KeptOut
  <1>13. Closed(n)'
    BY <1>0, SceneFixed, NoneIsNoRound, <1>1, <1>2, <1>3, <1>4, <1>5, <1>6, <1>7, <1>8 DEF Closed
  <1> QED BY <1>9, <1>10, <1>11, <1>12, <1>13 DEF NodeInv

LEMMA SubmitInv ==
    ASSUME TypeOK, NEW n \in Nodes, Submit(n), NodeInv(n)
    PROVE  NodeInv(n)'
  <1>0. InStep(n) /\ ModelOnRecord(n) /\ Unseen(n) /\ Recorded(n) /\ Closed(n)
    BY DEF NodeInv
  <1>1. /\ scene' = scene /\ pc[n] = "submit" /\ pc'[n] \in {"admit", "await", "failed"}
        /\ pc'[n] # "failed" => round'[n] = round[n] /\ round[n] # None
        /\ held' = held /\ cur' = cur /\ model' = model /\ installed' = installed
    BY DEF Submit, Adds, TypeOK, Others, driverVars, Ends, Goes, Ended
  <1>2. cur[n] \in Rounds /\ round[n] \in {cur[n], None}
    BY <1>0, <1>1 DEF InStep, TypeOK
  <1>3. FiledUnder(n) \in {cur[n], None}
    BY <1>2 DEF FiledUnder
  <1>4. rows[n] \in [Rounds \cup {None} -> Row]
    BY DEF TypeOK
  <1>5. \/ rows'[n] = rows[n]
        \/ /\ n \in held /\ Audited(n)
           /\ rows'[n] = [rows[n] EXCEPT ![cur[n]] = Observed(rows[n][cur[n]], model[n])]
    <2>1. \/ rows' = rows
          \/ /\ n \in held /\ Audited(n)
             /\ rows' = [rows EXCEPT ![n][FiledUnder(n)] =
                           IF FiledUnder(n) = None THEN rows[n][FiledUnder(n)]
                           ELSE Observed(rows[n][FiledUnder(n)], model[n])]
      BY DEF Submit
    <2>2. rows \in [Nodes -> [Rounds \cup {None} -> Row]]
      BY DEF TypeOK
    <2>3. CASE FiledUnder(n) = None
      BY <2>1, <2>2, <2>3
    <2>4. CASE FiledUnder(n) = cur[n] /\ cur[n] # None
      BY <2>1, <2>2, <2>4
    <2> QED BY <1>3, <2>3, <2>4
  <1>6. \A r \in Rounds :
            \/ rows'[n][r] = rows[n][r]
            \/ /\ n \in held /\ Audited(n) /\ r = cur[n]
               /\ rows'[n][r].submitted = rows[n][r].submitted
               /\ rows'[n][r].final = rows[n][r].final
    <2> TAKE r \in Rounds
    <2>1. rows[n][r] \in Row
      BY <1>4
    <2>2. /\ Observed(rows[n][r], model[n]).submitted = rows[n][r].submitted
          /\ Observed(rows[n][r], model[n]).final = rows[n][r].final
      BY <2>1 DEF Observed, Row
    <2> QED BY <1>2, <1>4, <1>5, <2>2
  <1>7. n \in held /\ Audited(n) => model[n] = Outcome(n) /\ rows[n][cur[n]].submitted = Outcome(n)
    BY <1>0, <1>1 DEF ModelOnRecord
  <1>8. \/ entered' = entered /\ pc'[n] \in {"admit", "failed"}
        \/ entered'[n] = [entered[n] EXCEPT ![cur[n]] = model[n]] /\ pc'[n] \in {"await", "failed"}
    BY DEF Submit, Adds, TypeOK, Ends, Goes
  <1>9. \A r \in Rounds :
            entered'[n][r] = entered[n][r] \/ (r = cur[n] /\ entered'[n][r] = model[n])
    BY <1>8 DEF TypeOK
  <1>10. entered'[n][cur[n]] = model[n] \/ pc'[n] \in {"admit", "failed"}
    BY <1>2, <1>8 DEF TypeOK
  <1>11. InStep(n)'
    BY <1>0, SceneFixed, NoneIsNoRound, <1>1, <1>2, <1>3, <1>4, <1>5, <1>6, <1>7, <1>8, <1>9,
       <1>10 DEF InStep, Ended
  <1>12. ModelOnRecord(n)'
    <2>1. pc'[n] \notin {"fit", "publish", "submit"} /\ cur'[n] = cur[n] /\ model'[n] = model[n]
      BY <1>1
    <2>2. ~rows[n][cur[n]].observed
      BY <1>0, <1>1, <1>2 DEF Unseen
    <2>3. rows'[n][cur[n]] = rows[n][cur[n]] \/ (n \in held /\ Audited(n))
      BY <1>2, <1>6
    <2>4. rows'[n][cur[n]].observed => model[n] = Outcome(n)
      BY <1>7, <2>2, <2>3
    <2>5. Outcome(n)' = Outcome(n)
      BY <1>1, SceneFixed
    <2> QED BY <2>1, <2>4, <2>5 DEF ModelOnRecord
  <1>13. Unseen(n)'
    <2> SUFFICES ASSUME NEW r \in Rounds,
                        cur'[n] < r \/ (cur'[n] = r /\ pc'[n] \in {"fit", "publish", "submit"})
                 PROVE  ~rows'[n][r].observed
      BY <1>1, SceneFixed DEF Unseen
    <2>1. cur[n] < r \/ (cur[n] = r /\ pc[n] \in {"fit", "publish", "submit"}) =>
              ~rows[n][r].observed
      BY <1>0 DEF Unseen
    <2> QED BY <2>1, SceneFixed, NoneIsNoRound, <1>1, <1>2, <1>3, <1>4, <1>5, <1>6, <1>7, <1>8,
               <1>9, <1>10
  <1>14. Recorded(n)'
    <2> SUFFICES ASSUME NEW r \in Rounds, rows'[n][r].observed
                 PROVE  /\ rows'[n][r].submitted = Outcome(n)
                        /\ entered'[n][r] = Outcome(n) \/ KeptOut(n, r)'
      BY <1>1, SceneFixed DEF Recorded
    <2>1. rows[n][r].observed =>
            rows[n][r].submitted = Outcome(n) /\ (entered[n][r] = Outcome(n) \/ KeptOut(n, r))
      BY <1>0 DEF Recorded
    <2>2. cur[n] < r \/ (cur[n] = r /\ pc[n] \in {"fit", "publish", "submit"}) =>
              ~rows[n][r].observed
      BY <1>0 DEF Unseen
    <2> QED BY <2>1, <2>2, SceneFixed, NoneIsNoRound, <1>1, <1>2, <1>3, <1>4, <1>5, <1>6, <1>7,
               <1>8, <1>9, <1>10 DEF KeptOut
  <1>15. Closed(n)'
    BY <1>0, SceneFixed, NoneIsNoRound, <1>1, <1>2, <1>3, <1>4, <1>5, <1>6, <1>7, <1>8, <1>9,
       <1>10 DEF Closed
  <1> QED BY <1>11, <1>12, <1>13, <1>14, <1>15 DEF NodeInv

LEMMA AdmitInv ==
    ASSUME TypeOK, NEW n \in Nodes, Admit(n), NodeInv(n), gateOn => scene.gate
    PROVE  NodeInv(n)'
  <1>0. InStep(n) /\ ModelOnRecord(n) /\ Unseen(n) /\ Recorded(n) /\ Closed(n)
    BY DEF NodeInv
  <1>1. /\ scene' = scene /\ pc[n] = "admit" /\ pc'[n] \in {"await", "failed"}
        /\ pc'[n] = "await" => round'[n] = round[n] /\ round[n] # None /\ gateOn
        /\ cur' = cur /\ rows' = rows /\ installed' = installed
    BY DEF Admit, Adds, TypeOK, Others, driverVars, Ends, Goes, Ended
  <1>2. cur[n] \in Rounds /\ (pc'[n] = "await" => round[n] = cur[n])
    BY <1>0, <1>1 DEF InStep, TypeOK
  <1>3. \/ pc'[n] = "failed" /\ entered' = entered
        \/ pc'[n] = "await" /\ n \in scene.rejected /\ entered' = entered
        \/ pc'[n] = "await" /\ entered'[n] = [entered[n] EXCEPT ![cur[n]] = model[n]]
    <2>1. CASE pc'[n] = "failed"
      BY <1>1, <2>1 DEF Admit, Goes, TypeOK
    <2>2. CASE pc'[n] = "await"
      <3>1. \/ n \in scene.rejected /\ entered' = entered
            \/ entered' = [entered EXCEPT ![n][round[n]] = model[n]]
        BY <1>1, <2>2 DEF Admit, Adds, Ends, TypeOK
      <3>2. entered \in [Nodes -> [Rounds -> Update]]
        BY DEF TypeOK
      <3> QED BY <1>2, <2>2, <3>1, <3>2
    <2> QED BY <1>1, <2>1, <2>2
  <1>4. rows[n][cur[n]].observed => model[n] = Outcome(n)
    BY <1>0, <1>1 DEF ModelOnRecord
  <1>5. \A r \in Rounds :
            \/ pc'[n] = "failed" /\ entered'[n][r] = entered[n][r]
            \/ n \in scene.rejected /\ entered'[n][r] = entered[n][r]
            \/ r # cur[n] /\ entered'[n][r] = entered[n][r]
            \/ r = cur[n] /\ entered'[n][r] = model[n]
    BY <1>2, <1>3 DEF TypeOK
  <1>6. InStep(n)'
    BY <1>0, SceneFixed, NoneIsNoRound, <1>1, <1>2, <1>3, <1>4, <1>5 DEF InStep, Ended
  <1>7. ModelOnRecord(n)'
    BY <1>0, SceneFixed, NoneIsNoRound, <1>1, <1>2, <1>3, <1>4, <1>5 DEF ModelOnRecord
  <1>8. Unseen(n)'
    BY <1>0, SceneFixed, NoneIsNoRound, <1>1, <1>2, <1>3, <1>4, <1>5 DEF Unseen
  <1>9. Recorded(n)'
    BY <1>0, SceneFixed, NoneIsNoRound, <1>1, <1>2, <1>3, <1>4, <1>5 DEF Recorded, KeptOut
  <1>10. Closed(n)'
    BY <1>0, SceneFixed, NoneIsNoRound, <1>1, <1>2, <1>3, <1>4, <1>5 DEF Closed
  <1> QED BY <1>6, <1>7, <1>8, <1>9, <1>10 DEF NodeInv

LEMMA AwaitInv ==
    ASSUME TypeOK, NEW n \in Nodes, Await(n), NodeInv(n)
    PROVE  NodeInv(n)'
  <1>0. InStep(n) /\ ModelOnRecord(n) /\ Unseen(n) /\ Recorded(n) /\ Closed(n)
    BY DEF NodeInv
  <1>1. /\ scene' = scene /\ pc[n] = "await" /\ pc'[n] \in {"close", "failed"}
        /\ pc'[n] = "close" => round' = round /\ round[n] # None
        /\ cur' = cur /\ entered' = entered
    BY DEF Await, TypeOK, Others, driverVars, Ends, Goes, Ended
  <1>2. cur[n] \in Rounds /\ round[n] = cur[n]
    BY <1>0 DEF Await, InStep, TypeOK
  <1>3. rows[n] \in [Rounds \cup {None} -> Row] /\ installed[n] \in [Rounds -> BOOLEAN]
    BY DEF TypeOK
  <1>4. \/ rows'[n] = rows[n] /\ installed' = installed
        \/ /\ installed'[n] = [installed[n] EXCEPT ![cur[n]] = TRUE]
           /\ \/ rows'[n] = rows[n]
              \/ rows'[n] = [rows[n] EXCEPT ![cur[n]] = [rows[n][cur[n]] EXCEPT !.final = TRUE]]
    <2>1. \/ rows' = rows /\ installed' = installed
          \/ /\ installed' = [installed EXCEPT ![n][cur[n]] = TRUE]
             /\ \/ rows' = rows
                \/ rows' = [rows EXCEPT ![n][cur[n]] = [rows[n][cur[n]] EXCEPT !.final = TRUE]]
      BY <1>2 DEF Await
    <2>2. /\ rows \in [Nodes -> [Rounds \cup {None} -> Row]]
          /\ installed \in [Nodes -> [Rounds -> BOOLEAN]]
      BY DEF TypeOK
    <2> QED BY <2>1, <2>2
  <1>5. \A r \in Rounds :
            /\ rows'[n][r].observed = rows[n][r].observed
            /\ rows'[n][r].submitted = rows[n][r].submitted
            /\ rows'[n][r].final => rows[n][r].final \/ installed'[n][r]
            /\ installed[n][r] => installed'[n][r]
    BY <1>2, <1>3, <1>4 DEF Row
  <1>6. InStep(n)'
    BY <1>0, SceneFixed, NoneIsNoRound, <1>1, <1>2, <1>3, <1>4, <1>5 DEF InStep, Ended
  <1>7. ModelOnRecord(n)'
    BY <1>0, SceneFixed, NoneIsNoRound, <1>1, <1>2, <1>3, <1>4, <1>5 DEF ModelOnRecord
  <1>8. Unseen(n)'
    BY <1>0, SceneFixed, NoneIsNoRound, <1>1, <1>2, <1>3, <1>4, <1>5 DEF Unseen
  <1>9. Recorded(n)'
    BY <1>0, SceneFixed, NoneIsNoRound, <1>1, <1>2, <1>3, <1>4, <1>5 DEF Recorded, KeptOut
  <1>10. Closed(n)'
    BY <1>0, SceneFixed, NoneIsNoRound, <1>1, <1>2, <1>3, <1>4, <1>5 DEF Closed
  <1> QED BY <1>6, <1>7, <1>8, <1>9, <1>10 DEF NodeInv

LEMMA WaitInv ==
    ASSUME TypeOK, NEW n \in Nodes, Wait(n), NodeInv(n)
    PROVE  NodeInv(n)'
  <1>0. InStep(n) /\ ModelOnRecord(n) /\ Unseen(n) /\ Recorded(n) /\ Closed(n)
    BY DEF NodeInv
  <1>1. /\ scene' = scene /\ pc[n] = "wait" /\ pc'[n] \in {"close", "failed"}
        /\ pc'[n] = "close" => round' = round /\ round[n] # None
        /\ cur' = cur /\ entered' = entered /\ rows' = rows
    BY DEF Wait, TypeOK, Others, driverVars, Ends, Goes, Ended
  <1>2. \A r \in Rounds : installed[n][r] => installed'[n][r]
    <2>1. installed'[n] = installed[n] \/ installed'[n] = [installed[n] EXCEPT ![round[n]] = TRUE]
      <3>1. installed' = installed \/ installed' = [installed EXCEPT ![n][round[n]] = TRUE]
        BY DEF Wait
      <3> QED BY <3>1 DEF TypeOK
    <2>2. installed[n] \in [Rounds -> BOOLEAN]
      BY DEF TypeOK
    <2> QED BY <2>1, <2>2
  <1>3. round[n] \in Int /\ cur[n] \in Int
    BY NoneIsNoRound DEF TypeOK
  <1>4. InStep(n)'
    BY <1>0, SceneFixed, NoneIsNoRound, <1>1, <1>2, <1>3 DEF InStep, Ended
  <1>5. ModelOnRecord(n)'
    BY <1>0, SceneFixed, NoneIsNoRound, <1>1, <1>2, <1>3 DEF ModelOnRecord
  <1>6. Unseen(n)'
    BY <1>0, SceneFixed, NoneIsNoRound, <1>1, <1>2, <1>3 DEF Unseen
  <1>7. Recorded(n)'
    BY <1>0, SceneFixed, NoneIsNoRound, <1>1, <1>2, <1>3 DEF Recorded, KeptOut
  <1>8. Closed(n)'
    BY <1>0, SceneFixed, NoneIsNoRound, <1>1, <1>2, <1>3 DEF Closed
  <1> QED BY <1>4, <1>5, <1>6, <1>7, <1>8 DEF NodeInv

LEMMA CloseInv ==
    ASSUME TypeOK, NEW n \in Nodes, Close(n), NodeInv(n)
    PROVE  NodeInv(n)'
  <1>0. InStep(n) /\ ModelOnRecord(n) /\ Unseen(n) /\ Recorded(n) /\ Closed(n)
    BY DEF NodeInv
  <1>1. /\ scene' = scene /\ pc[n] = "close" /\ pc'[n] \in {"vote", "finished", "failed"}
        /\ pc'[n] = "vote" => round'[n] = round[n] + 1 /\ round[n] # None
        /\ pc'[n] = "finished" => round'[n] = None
        /\ cur' = cur /\ entered' = entered /\ rows' = rows /\ installed' = installed
    BY DEF Close, TypeOK, Others, driverVars, Ends, Goes, Ended
  <1>2. round[n] \in Int /\ cur[n] \in Int
    BY NoneIsNoRound DEF TypeOK
  <1>3. InStep(n)'
    BY <1>0, SceneFixed, NoneIsNoRound, <1>1, <1>2 DEF InStep, Ended
  <1>4. ModelOnRecord(n)'
    BY <1>0, SceneFixed, NoneIsNoRound, <1>1, <1>2 DEF ModelOnRecord
  <1>5. Unseen(n)'
    BY <1>0, SceneFixed, NoneIsNoRound, <1>1, <1>2 DEF Unseen
  <1>6. Recorded(n)'
    BY <1>0, SceneFixed, NoneIsNoRound, <1>1, <1>2 DEF Recorded, KeptOut
  <1>7. Closed(n)'
    BY <1>0, SceneFixed, NoneIsNoRound, <1>1, <1>2 DEF Closed
  <1> QED BY <1>3, <1>4, <1>5, <1>6, <1>7 DEF NodeInv

-----------------------------------------------------------------------------
\* The driver, and the theorem.

\* A node's step is one of a run whose evidence is not collected yet.
LEMMA StillRunning ==
    ASSUME IInv, NEW n \in Nodes,
           \/ Thread(n) \/ FitFails(n) \/ ReceptionFails(n)
           \/ \E m \in Nodes : Receive(n, m)
    PROVE  pc[n] \notin {"idle", "finished"} /\ phase # "create" /\ phase # "collect"
           /\ result # "written"
  <1>1. round[n] # None => pc[n] \notin {"idle", "finished"}
    BY DEF IInv, NodeInv, InStep, Ended
  <1>2. pc[n] \notin {"idle", "finished"}
    <2>1. CASE StoppedEnd(n)
      BY <1>1, <2>1 DEF StoppedEnd
    <2>2. CASE Vote(n)
      BY <1>1, <2>2 DEF Vote
    <2>3. CASE Begin(n)
      BY <1>1, <2>3 DEF Begin
    <2>4. CASE Fit(n)
      BY <1>1, <2>4 DEF Fit
    <2>5. CASE FitFails(n)
      BY <1>1, <2>5 DEF FitFails
    <2>6. CASE Publish(n)
      BY <1>1, <2>6 DEF Publish
    <2>7. CASE Submit(n)
      BY <1>1, <2>7 DEF Submit
    <2>8. CASE Admit(n)
      BY <1>1, <2>8 DEF Admit
    <2>9. CASE Await(n)
      BY <1>1, <2>9 DEF Await
    <2>10. CASE Wait(n)
      BY <1>1, <2>10 DEF Wait
    <2>11. CASE Close(n)
      BY <1>1, <2>11 DEF Close
    <2>12. CASE ReceptionFails(n)
      BY <1>1, <2>12 DEF ReceptionFails
    <2>13. CASE \E m \in Nodes : Receive(n, m)
      BY <1>1, <2>13 DEF Receive
    <2> QED BY <2>1, <2>2, <2>3, <2>4, <2>5, <2>6, <2>7, <2>8, <2>9, <2>10, <2>11, <2>12, <2>13
               DEF Thread
  <1> QED BY <1>2 DEF IInv, DriverInv

\* The driver's state under it.
LEMMA DriverKept ==
    ASSUME IInv, NEW n \in Nodes,
           \/ Thread(n) \/ FitFails(n) \/ ReceptionFails(n)
           \/ \E m \in Nodes : Receive(n, m)
    PROVE  DriverInv' /\ NoSilentGap'
  <1>1. /\ scene' = scene /\ phase' = phase /\ result' = result /\ gateOn' = gateOn
    <2>1. CASE StoppedEnd(n)
      BY <2>1 DEF StoppedEnd, Others, driverVars
    <2>2. CASE Vote(n)
      BY <2>2 DEF Vote, Others, driverVars
    <2>3. CASE Begin(n)
      BY <2>3 DEF Begin, Others, driverVars
    <2>4. CASE Fit(n)
      BY <2>4 DEF Fit, Others, driverVars
    <2>5. CASE FitFails(n)
      BY <2>5 DEF FitFails, Others, driverVars
    <2>6. CASE Publish(n)
      BY <2>6 DEF Publish, Others, driverVars
    <2>7. CASE Submit(n)
      BY <2>7 DEF Submit, Others, driverVars
    <2>8. CASE Admit(n)
      BY <2>8 DEF Admit, Others, driverVars
    <2>9. CASE Await(n)
      BY <2>9 DEF Await, Others, driverVars
    <2>10. CASE Wait(n)
      BY <2>10 DEF Wait, Others, driverVars
    <2>11. CASE Close(n)
      BY <2>11 DEF Close, Others, driverVars
    <2>12. CASE ReceptionFails(n)
      BY <2>12 DEF ReceptionFails, Others, driverVars
    <2>13. CASE \E m \in Nodes : Receive(n, m)
      BY <2>13 DEF Receive, driverVars
    <2> QED BY <2>1, <2>2, <2>3, <2>4, <2>5, <2>6, <2>7, <2>8, <2>9, <2>10, <2>11, <2>12, <2>13
               DEF Thread
  <1>2. phase # "create" /\ phase # "collect" /\ result # "written"
    BY StillRunning
  <1>3. DriverInv'
    BY <1>1, <1>2 DEF IInv, DriverInv
  <1>4. NoSilentGap'
    BY <1>1, <1>2 DEF NoSilentGap
  <1> QED BY <1>3, <1>4

LEMMA ThreadStep ==
    ASSUME IInv, NEW n \in Nodes, Thread(n) \/ FitFails(n)
    PROVE  IInv'
  <1>1. TypeOK /\ NodeInv(n) /\ (gateOn => scene.gate)
    BY DEF IInv, DriverInv
  <1>2. TypeOK' /\ NodeInv(n)'
    <2>1. CASE StoppedEnd(n)
      BY <1>1, <2>1, StoppedEndType, StoppedEndInv
    <2>2. CASE Vote(n)
      BY <1>1, <2>2, VoteType, VoteInv
    <2>3. CASE Begin(n)
      BY <1>1, <2>3, BeginType, BeginInv
    <2>4. CASE Fit(n)
      BY <1>1, <2>4, FitType, FitInv
    <2>5. CASE FitFails(n)
      BY <1>1, <2>5, FitFailsType, FitFailsInv
    <2>6. CASE Publish(n)
      BY <1>1, <2>6, PublishType, PublishInv
    <2>7. CASE Submit(n)
      BY <1>1, <2>7, SubmitType, SubmitInv
    <2>8. CASE Admit(n)
      BY <1>1, <2>8, AdmitType, AdmitInv
    <2>9. CASE Await(n)
      BY <1>1, <2>9, AwaitType, AwaitInv
    <2>10. CASE Wait(n)
      BY <1>1, <2>10, WaitType, WaitInv
    <2>11. CASE Close(n)
      BY <1>1, <2>11, CloseType, CloseInv
    <2> QED BY <2>1, <2>2, <2>3, <2>4, <2>5, <2>6, <2>7, <2>8, <2>9, <2>10, <2>11 DEF Thread
  <1>3. \A m \in Nodes : NodeInv(m)'
    BY <1>1, <1>2, OthersKept DEF IInv
  <1>4. Nodes' = Nodes
    <2>1. scene' = scene
      <3>1. CASE StoppedEnd(n)
        BY <3>1 DEF StoppedEnd, Others, driverVars
      <3>2. CASE Vote(n)
        BY <3>2 DEF Vote, Others, driverVars
      <3>3. CASE Begin(n)
        BY <3>3 DEF Begin, Others, driverVars
      <3>4. CASE Fit(n)
        BY <3>4 DEF Fit, Others, driverVars
      <3>5. CASE FitFails(n)
        BY <3>5 DEF FitFails, Others, driverVars
      <3>6. CASE Publish(n)
        BY <3>6 DEF Publish, Others, driverVars
      <3>7. CASE Submit(n)
        BY <3>7 DEF Submit, Others, driverVars
      <3>8. CASE Admit(n)
        BY <3>8 DEF Admit, Others, driverVars
      <3>9. CASE Await(n)
        BY <3>9 DEF Await, Others, driverVars
      <3>10. CASE Wait(n)
        BY <3>10 DEF Wait, Others, driverVars
      <3>11. CASE Close(n)
        BY <3>11 DEF Close, Others, driverVars
      <3> QED BY <3>1, <3>2, <3>3, <3>4, <3>5, <3>6, <3>7, <3>8, <3>9, <3>10, <3>11 DEF Thread
    <2> QED BY <2>1, SceneKept
  <1>5. DriverInv' /\ NoSilentGap'
    BY DriverKept
  <1> QED BY <1>2, <1>3, <1>4, <1>5 DEF IInv

LEMMA OtherStep ==
    ASSUME IInv, NEW n \in Nodes, ReceptionFails(n) \/ \E m \in Nodes : Receive(n, m)
    PROVE  IInv'
  <1>1. TypeOK
    BY DEF IInv
  <1>2. TypeOK'
    BY <1>1, ReceptionFailsType, ReceiveType
  <1>3. /\ scene' = scene /\ pc' = pc /\ cur' = cur /\ model' = model /\ rows' = rows
        /\ entered' = entered /\ installed' = installed /\ held' = held
    BY DEF ReceptionFails, Receive, Others, driverVars
  <1>4. \A m \in Nodes : round'[m] \in {round[m], None}
    BY <1>1 DEF ReceptionFails, Receive, TypeOK
  <1>5. \A m \in Nodes : NodeInv(m)'
    BY <1>3, <1>4, NodeFrame DEF IInv
  <1>6. DriverInv' /\ NoSilentGap'
    BY DriverKept
  <1> QED BY <1>2, <1>3, <1>5, <1>6, SceneKept DEF IInv

LEMMA StartStep ==
    ASSUME IInv, StartLearning
    PROVE  IInv'
  <1>1. TypeOK /\ TypeOK'
    BY StartLearningType DEF IInv
  <1>2. /\ phase = "create" /\ phase' = "wait" /\ scene' = scene /\ result' = result
        /\ gateOn' = gateOn /\ pc' = [n \in Nodes |-> "vote"] /\ round' = [n \in Nodes |-> 0]
        /\ cur' = cur /\ model' = model /\ rows' = rows /\ entered' = entered
        /\ installed' = installed /\ held' = held
    BY DEF StartLearning
  <1>3. ASSUME NEW n \in Nodes
        PROVE  NodeInv(n)'
    <2>1. /\ pc[n] = "idle" /\ pc'[n] = "vote" /\ round'[n] = 0 /\ cur[n] = None
          /\ InStep(n) /\ Unseen(n) /\ Recorded(n) /\ Closed(n)
      BY <1>2 DEF IInv, DriverInv, NodeInv, InStep
    <2>2. InStep(n)'
      BY <1>2, <2>1 DEF InStep, Ended, None
    <2>3. ModelOnRecord(n)'
      BY <2>1 DEF ModelOnRecord
    <2>4. Unseen(n)' /\ Recorded(n)' /\ Closed(n)'
      BY <1>2, <2>1, SceneFixed DEF Unseen, Recorded, KeptOut, Closed
    <2> QED BY <2>2, <2>3, <2>4 DEF NodeInv
  <1>4. result = "none" /\ gateOn = scene.gate
    BY <1>2 DEF IInv, DriverInv
  <1>5. DriverInv' /\ NoSilentGap'
    BY <1>2, <1>4 DEF DriverInv, NoSilentGap
  <1> QED BY <1>1, <1>2, <1>3, <1>5, SceneKept DEF IInv

\* What was collected is of every node and round.
LEMMA Collected ==
    ASSUME IInv, Collect
    PROVE  NoSilentGap' /\ DriverInv'
  <1>1. /\ phase = "collect" /\ phase' = "clearLedger" /\ scene' = scene /\ gateOn' = gateOn
        /\ installed' = installed /\ pc' = pc
        /\ result' = IF AuditsAgree /\ RolesAgree THEN "written" ELSE "refused"
    BY DEF Collect, nodeVars
  <1>2. gateOn = scene.gate /\ \A n \in Nodes : pc[n] = "finished"
    BY <1>1 DEF IInv, DriverInv
  <1>3. AuditsAgree /\ scene.kind \in {"training", "collusion"} =>
            \A n \in Nodes, r \in Rounds : installed[n][r]
    BY DEF AuditsAgree, TrainingAgrees, IInv, NodeInv, Closed
  <1>4. RolesAgree /\ gateOn => \A n \in Nodes, r \in Rounds : installed[n][r]
    BY DEF RolesAgree
  <1>5. NoSilentGap'
    BY <1>1, <1>2, <1>3, <1>4, SceneKept DEF NoSilentGap
  <1>6. DriverInv'
    BY <1>1, <1>2, SceneKept DEF DriverInv
  <1> QED BY <1>5, <1>6

\* A step of the driver is none of the threads.
LEMMA DriverFrame ==
    ASSUME IInv, TypeOK', DriverInv', NoSilentGap', \A m \in Nodes : round'[m] \in {round[m], None},
           UNCHANGED <<scene, pc, held, cur, model, rows, entered, installed>>
    PROVE  IInv'
  <1>1. \A m \in Nodes : NodeInv(m)'
    BY NodeFrame DEF IInv
  <1> QED BY <1>1, SceneKept DEF IInv

LEMMA DriverStep ==
    ASSUME IInv, Driver \/ GiveUp
    PROVE  IInv'
  <1>1. TypeOK /\ NoSilentGap
    BY DEF IInv
  <1>2. /\ gateOn => scene.gate
        /\ phase \in {"create", "wait", "collect"} => gateOn = scene.gate
        /\ phase = "collect" \/ result = "written" => \A n \in Nodes : pc[n] = "finished"
        /\ phase \in {"create", "wait", "collect"} => result = "none"
        /\ phase = "create" => \A n \in Nodes : pc[n] = "idle"
    BY DEF IInv, DriverInv
  <1>3. CASE CreateNode
    <2>1. /\ UNCHANGED <<scene, pc, held, cur, model, rows, entered, installed>>
          /\ \A m \in Nodes : round'[m] \in {round[m], None}
      BY <1>3 DEF CreateNode, nodeVars
    <2>2. TypeOK'
      BY <1>1, <1>3, CreateNodeType
    <2>3. DriverInv' /\ NoSilentGap'
      BY <1>1, <1>2, <1>3, <2>1, SceneKept DEF CreateNode, DriverInv, NoSilentGap
    <2> QED BY <2>1, <2>2, <2>3, DriverFrame
  <1>4. CASE StartLearning
    BY <1>4, StartStep
  <1>5. CASE SeeFailure
    <2>1. /\ UNCHANGED <<scene, pc, held, cur, model, rows, entered, installed>>
          /\ \A m \in Nodes : round'[m] \in {round[m], None}
      BY <1>5 DEF SeeFailure, nodeVars
    <2>2. TypeOK'
      BY <1>1, <1>5, SeeFailureType
    <2>3. DriverInv' /\ NoSilentGap'
      BY <1>1, <1>2, <1>5, <2>1, SceneKept DEF SeeFailure, DriverInv, NoSilentGap
    <2> QED BY <2>1, <2>2, <2>3, DriverFrame
  <1>6. CASE SeeFinished
    <2>1. /\ UNCHANGED <<scene, pc, held, cur, model, rows, entered, installed>>
          /\ \A m \in Nodes : round'[m] \in {round[m], None}
      BY <1>6 DEF SeeFinished, nodeVars
    <2>2. TypeOK'
      BY <1>1, <1>6, SeeFinishedType
    <2>3. DriverInv' /\ NoSilentGap'
      BY <1>1, <1>2, <1>6, <2>1, SceneKept DEF SeeFinished, DriverInv, NoSilentGap
    <2> QED BY <2>1, <2>2, <2>3, DriverFrame
  <1>7. CASE Collect
    <2>1. /\ UNCHANGED <<scene, pc, held, cur, model, rows, entered, installed>>
          /\ \A m \in Nodes : round'[m] \in {round[m], None}
      BY <1>7 DEF Collect, nodeVars
    <2>2. TypeOK'
      BY <1>1, <1>7, CollectType
    <2>3. DriverInv' /\ NoSilentGap'
      BY <1>7, Collected
    <2> QED BY <2>1, <2>2, <2>3, DriverFrame
  <1>8. CASE StopNode
    <2>1. /\ UNCHANGED <<scene, pc, held, cur, model, rows, entered, installed>>
          /\ \A m \in Nodes : round'[m] \in {round[m], None}
      BY <1>8 DEF StopNode, nodeVars
    <2>2. TypeOK'
      BY <1>1, <1>8, StopNodeType
    <2>3. DriverInv' /\ NoSilentGap'
      BY <1>1, <1>2, <1>8, <2>1, SceneKept DEF StopNode, DriverInv, NoSilentGap
    <2> QED BY <2>1, <2>2, <2>3, DriverFrame
  <1>9. CASE AllStopped
    <2>1. /\ UNCHANGED <<scene, pc, held, cur, model, rows, entered, installed>>
          /\ \A m \in Nodes : round'[m] \in {round[m], None}
      BY <1>9 DEF AllStopped, nodeVars
    <2>2. TypeOK'
      BY <1>1, <1>9, AllStoppedType
    <2>3. DriverInv' /\ NoSilentGap'
      BY <1>1, <1>2, <1>9, <2>1, SceneKept DEF AllStopped, DriverInv, NoSilentGap
    <2> QED BY <2>1, <2>2, <2>3, DriverFrame
  <1>10. CASE ClearLedger
    <2>1. /\ UNCHANGED <<scene, pc, held, cur, model, rows, entered, installed>>
          /\ \A m \in Nodes : round'[m] \in {round[m], None}
      BY <1>10 DEF ClearLedger, nodeVars
    <2>2. TypeOK'
      BY <1>1, <1>10, ClearLedgerType
    <2>3. DriverInv' /\ NoSilentGap'
      BY <1>1, <1>2, <1>10, <2>1, SceneKept DEF ClearLedger, DriverInv, NoSilentGap
    <2> QED BY <2>1, <2>2, <2>3, DriverFrame
  <1>11. CASE ClearGate
    <2>1. /\ UNCHANGED <<scene, pc, held, cur, model, rows, entered, installed>>
          /\ \A m \in Nodes : round'[m] \in {round[m], None}
      BY <1>11 DEF ClearGate, nodeVars
    <2>2. TypeOK'
      BY <1>1, <1>11, ClearGateType
    <2>3. DriverInv' /\ NoSilentGap'
      BY <1>1, <1>2, <1>11, <2>1, SceneKept DEF ClearGate, DriverInv, NoSilentGap
    <2> QED BY <2>1, <2>2, <2>3, DriverFrame
  <1>12. CASE ClearAttacks
    <2>1. /\ UNCHANGED <<scene, pc, held, cur, model, rows, entered, installed>>
          /\ \A m \in Nodes : round'[m] \in {round[m], None}
      BY <1>12 DEF ClearAttacks, nodeVars
    <2>2. TypeOK'
      BY <1>1, <1>12, ClearAttacksType
    <2>3. DriverInv' /\ NoSilentGap'
      BY <1>1, <1>2, <1>12, <2>1, SceneKept DEF ClearAttacks, DriverInv, NoSilentGap
    <2> QED BY <2>1, <2>2, <2>3, DriverFrame
  <1>13. CASE GiveUp
    <2>1. /\ UNCHANGED <<scene, pc, held, cur, model, rows, entered, installed>>
          /\ \A m \in Nodes : round'[m] \in {round[m], None}
      BY <1>13 DEF GiveUp, nodeVars
    <2>2. TypeOK'
      BY <1>1, <1>13, GiveUpType
    <2>3. DriverInv' /\ NoSilentGap'
      BY <1>1, <1>2, <1>13, <2>1, SceneKept DEF GiveUp, DriverInv, NoSilentGap
    <2> QED BY <2>1, <2>2, <2>3, DriverFrame
  <1> QED BY <1>3, <1>4, <1>5, <1>6, <1>7, <1>8, <1>9, <1>10, <1>11, <1>12, <1>13 DEF Driver

\* What becomes of a stop, whoever called it.
LEMMA StopStep ==
    ASSUME IInv, NEW s \in stops, Stop(s)
    PROVE  IInv'
  <1>1. TypeOK /\ TypeOK' /\ DriverInv /\ NoSilentGap
    BY StopType DEF IInv
  <1>2. /\ UNCHANGED <<scene, phase, result, gateOn, pc, held, cur, model, rows, entered, installed>>
        /\ \A m \in Nodes : round'[m] \in {round[m], None}
    BY <1>1 DEF Stop, StopReturns, StopBreaks, StopHangs, nodeVars, TypeOK
  <1>3. DriverInv' /\ NoSilentGap'
    BY <1>1, <1>2, SceneKept DEF DriverInv, NoSilentGap
  <1> QED BY <1>1, <1>2, <1>3, DriverFrame

LEMMA Unchanged ==
    ASSUME IInv, UNCHANGED vars
    PROVE  IInv'
  <1>1. TypeOK /\ DriverInv /\ NoSilentGap
    BY DEF IInv
  <1>2. TypeOK'
    BY <1>1 DEF TypeOK, vars, Nodes, Rounds, StopCall
  <1>3. DriverInv' /\ NoSilentGap'
    BY <1>1, SceneKept DEF DriverInv, NoSilentGap, vars
  <1> QED BY <1>2, <1>3, DriverFrame DEF vars

LEMMA InitIInv == Init => IInv
  <1> SUFFICES ASSUME Init PROVE IInv
    OBVIOUS
  <1>1. scene \in Scene /\ Nodes = 1 .. scene.nodes
    BY ScenesAssumption DEF Init, Nodes
  <1>2. scene.gate \in BOOLEAN
    BY <1>1 DEF Scene
  <1>3. TypeOK
    <2>1. /\ pc = [n \in Nodes |-> "idle"] /\ round = [n \in Nodes |-> None]
          /\ trainSet = [r \in Rounds |-> {}] /\ held = {}
          /\ cur = [n \in Nodes |-> None] /\ model = [n \in Nodes |-> Received]
          /\ rows = [n \in Nodes |-> [r \in Rounds \cup {None} |-> EmptyRow]]
      BY DEF Init
    <2>2. /\ role = [n \in Nodes |-> [r \in Rounds |-> "absent"]]
          /\ got = [n \in Nodes |-> {}]
          /\ entered = [n \in Nodes |-> [r \in Rounds |-> NoUpdate]]
          /\ decided = [r \in Rounds |-> {}]
          /\ installed = [n \in Nodes |-> [r \in Rounds |-> FALSE]]
      BY DEF Init
    <2>3. faults \in 0 .. MaxFaults
      BY ScenesAssumption DEF Init
    <2>4. /\ scene \in Scenes /\ phase = "create" /\ result = "none" /\ running = {}
          /\ attacks = {} /\ gateOn = scene.gate /\ ledgerOn = FALSE
          /\ turn = 1 /\ stops = {} /\ broken = {}
      BY DEF Init
    <2> HIDE DEF Nodes, Rounds
    <2> QED BY <1>2, <2>1, <2>2, <2>3, <2>4, RowType DEF TypeOK
  <1>4. ASSUME NEW n \in Nodes
        PROVE  NodeInv(n)
    <2>1. pc[n] = "idle" /\ round[n] = None /\ cur[n] = None
      BY DEF Init
    <2>2. \A r \in Rounds : rows[n][r] = EmptyRow
      BY DEF Init
    <2>3. InStep(n) /\ ModelOnRecord(n)
      BY <2>1 DEF InStep, ModelOnRecord, Ended
    <2>4. ~EmptyRow.observed /\ ~EmptyRow.final
      BY DEF EmptyRow
    <2>5. Unseen(n) /\ Recorded(n) /\ Closed(n)
      BY <2>2, <2>4 DEF Unseen, Recorded, Closed
    <2> QED BY <2>3, <2>5 DEF NodeInv
  <1>5. DriverInv /\ NoSilentGap
    BY DEF Init, DriverInv, NoSilentGap
  <1> QED BY <1>3, <1>4, <1>5 DEF IInv

\* IInv is an invariant.
THEOREM ExperimentInvariant == Spec => []IInv
  <1>1. Init => IInv
    BY InitIInv
  <1>2. IInv /\ [Next]_vars => IInv'
    <2> SUFFICES ASSUME IInv, [Next]_vars
                 PROVE  IInv'
      OBVIOUS
    <2>1. CASE UNCHANGED vars
      BY <2>1, Unchanged
    <2>2. CASE Driver \/ GiveUp
      BY <2>2, DriverStep
    <2>3. CASE \E n \in Nodes : Thread(n) \/ FitFails(n)
      BY <2>3, ThreadStep
    <2>5. CASE \E s \in stops : Stop(s)
      BY <2>5, StopStep
    <2>4. CASE \E n \in Nodes : ReceptionFails(n) \/ \E m \in Nodes : Receive(n, m)
      BY <2>4, OtherStep
    <2> QED BY <2>1, <2>2, <2>3, <2>4, <2>5 DEF Next, Poll, Ending
  <1> QED BY <1>1, <1>2, PTL DEF Spec

\* Type correctness of the driver, the registries and the threads.
THEOREM ExperimentTypes == Spec => []TypeOK
  <1>1. IInv => TypeOK
    BY DEF IInv
  <1> QED BY <1>1, ExperimentInvariant, PTL

LEMMA WholeOfIInv == IInv => EvidenceIsWhole
  <1> SUFFICES ASSUME IInv, result = "written", NEW n \in Nodes, NEW r \in Rounds,
                      OnRecord(n, r), ~(scene.gate /\ n \in scene.rejected)
               PROVE  /\ entered[n][r] = rows[n][r].submitted
                      /\ entered[n][r].applied =
                            (IF Adversary(n) /\ scene.kind \in {"update", "collusion"} THEN 1 ELSE 0)
                      /\ entered[n][r].trained = ~(Adversary(n) /\ scene.kind = "training")
    BY DEF EvidenceIsWhole, EvidenceIsTrue, IInv
  <1>1. pc[n] = "finished"
    BY DEF IInv, DriverInv
  <1>2. rows[n][r].submitted = Outcome(n) /\ (entered[n][r] = Outcome(n) \/ KeptOut(n, r))
    BY DEF IInv, NodeInv, Recorded, OnRecord
  <1>3. ~KeptOut(n, r)
    BY <1>1 DEF KeptOut
  <1>4. entered[n][r] = Outcome(n)
    BY <1>2, <1>3
  <1> QED BY <1>2, <1>4 DEF Outcome

\* Whatever fails, whenever a node is stopped or a model arrives: the evidence that
\* mnist.py writes tells of each update what entered the aggregator, and with a gate
\* or audits of every node it is written only when each installed each round's model.
THEOREM EvidenceIsTheRun == Spec => []EvidenceIsWhole
  BY WholeOfIInv, ExperimentInvariant, PTL

-----------------------------------------------------------------------------
(* The paired experiment of the automaton: one step of a cell. *)
\* Where evidence leads, whatever the cells of the others and the policy.
LEMMA CellStep ==
    ASSUME NEW pol, NEW c, NEW p, NEW e, NEW t, NEW r,
           NEW next, next = Rules(pol)!Evolved(c, p, e, t, r),
           c[p].state \in {"trusted", "observation", "suspicious", "excluded"}
    PROVE  /\ e \in {"positive", "neutral"} /\ c[p].state \in {"trusted", "observation"}
                => next.state \in {"trusted", "observation"}
           /\ e = "neutral" /\ c[p].state \in {"observation", "excluded"}
                => next.state = c[p].state
           /\ e = "neutral" /\ c[p].state = "suspicious"
                => next.state \in {"suspicious", "excluded"}
                   /\ (next.state = "excluded"
                         <=> c[p].severe # -1 /\ c[p].held + 1 >= pol.probation)
           /\ e = "severe" /\ c[p].state = "observation"
                => next.state = "suspicious" /\ next.held = 0 /\ next.severe = r
           /\ next.state \in {"trusted", "observation", "suspicious", "excluded"}
<1>1. /\ next.state = Rules(pol)!NextState(c, p, e, t)
      /\ next.held = IF next.state = c[p].state THEN c[p].held + 1 ELSE 0
      /\ next.severe = Rules(pol)!Provenance(c[p], next.state, e, r)
  BY DEF Rules!Evolved
<1>2. /\ e = "neutral" => ~ Rules(pol)!Promoted(c, p, e, t)
      /\ e = "neutral" => ~ Rules(pol)!Recovered(c, p, e, t)
      /\ e = "neutral" => ~ Rules(pol)!RepeatedNegative(c[p], e)
  BY DEF Rules!Promoted, Rules!Recovered, Rules!RepeatedNegative
<1>3. Rules(pol)!ProbationExpired(c[p]) <=> c[p].severe # -1 /\ c[p].held + 1 >= pol.probation
  BY DEF Rules!ProbationExpired, Rules!NoRound
<1>4. CASE c[p].state = "observation"
  <2>1. /\ next.state \in {"trusted", "observation", "suspicious"}
        /\ e \in {"positive", "neutral"} => next.state \in {"trusted", "observation"}
        /\ e = "neutral" => next.state = "observation"
        /\ e = "severe" => next.state = "suspicious"
    BY <1>1, <1>2, <1>4 DEF Rules!NextState
  <2>2. e = "severe" => next.severe = r
    BY <1>1, <1>4, <2>1 DEF Rules!Provenance
  <2> QED  BY <1>1, <1>4, <2>1, <2>2
<1>5. CASE c[p].state = "trusted"
  <2>1. /\ next.state \in {"trusted", "observation", "suspicious"}
        /\ e \in {"positive", "neutral"} => next.state = "trusted"
    BY <1>1, <1>5 DEF Rules!NextState
  <2> QED  BY <1>5, <2>1
<1>6. CASE c[p].state = "suspicious"
  <2>1. /\ next.state \in {"observation", "suspicious", "excluded"}
        /\ e = "neutral" =>
             /\ next.state \in {"suspicious", "excluded"}
             /\ next.state = "excluded" <=> Rules(pol)!ProbationExpired(c[p])
    BY <1>1, <1>2, <1>6 DEF Rules!NextState
  <2> QED  BY <1>3, <1>6, <2>1
<1>7. CASE c[p].state = "excluded"
  <2>1. /\ next.state \in {"suspicious", "excluded"}
        /\ e = "neutral" => next.state = "excluded"
    BY <1>1, <1>2, <1>7 DEF Rules!NextState
  <2> QED  BY <1>7, <2>1
<1> QED  BY <1>4, <1>5, <1>6, <1>7

-----------------------------------------------------------------------------
(* The inductive invariant. *)

CellState == {"trusted", "observation", "suspicious", "excluded"}
Standing == {"trusted", "observation"}
Count == [alpha : Nat, beta : Nat]

PairRow == [evidence : [Peer -> {"positive", "neutral", "severe"}],
            trust : [Peer -> Count], state : [Peer -> CellState],
            validators : SUBSET Peer, contributors : SUBSET Peer]

\* What a run is made of.
PairTypes ==
    /\ config \in [policy : Policies, evaluable : Evaluable, rounds : Lengths]
    /\ attack \in [Run -> Interventions]
    /\ run \in Run
    /\ \A p \in Peer : cells[p].state \in CellState
    /\ betas \in [Peer -> Count]
    /\ rounds \in [Run -> Seq(PairRow)]

\* The runs follow each other, and both are complete when they are compared.
Progress ==
    /\ \A w \in Run : Len(rounds[w]) <= config.rounds
    /\ run = "clean" => rounds.attacked = << >>
    /\ run = "attacked" => Len(rounds.clean) = config.rounds
    /\ verdict # "none" => run = "attacked" /\ Len(rounds.attacked) = config.rounds

\* The cells and the trust of the last row.
Current ==
    /\ Round = 0 => cells = Fresh /\ betas = Priors
    /\ Round > 0 => /\ betas = rounds[run][Round].trust
                    /\ \A p \in Peer : cells[p].state = rounds[run][Round].state[p]
    /\ Round = 1 => \A p \in attack[run] : cells[p].held = 0 /\ cells[p].severe = 0

\* Roles go to those whose state allows it.
Assigned(row) ==
    /\ row.validators = Seated({p \in Peer : row.state[p] \in Standing})
    /\ row.contributors = Seated({p \in Peer : row.state[p] # "excluded"})

\* Who does not attack keeps its standing, and has no count against it.
Unblemished(attackers, evaluable, row) ==
    \A p \in Peer \ attackers :
        /\ row.state[p] \in Standing
        /\ row.trust[p].alpha >= 1 /\ row.trust[p].beta = 1
        /\ p \notin evaluable => row.state[p] = "observation"

\* Who attacks is suspicious after the first round,
Hit(attackers, row) ==
    \A p \in attackers :
        row.evidence[p] = "severe" /\ row.state[p] = "suspicious"
        /\ row.trust[p] = [alpha |-> 1, beta |-> 2]

\* and excluded after the second if the probation is over by then.
Judged(attackers, probation, row) ==
    \A p \in attackers :
        /\ row.evidence[p] = "neutral" /\ row.trust[p] = [alpha |-> 1, beta |-> 2]
        /\ row.state[p] \in Quarantine
        /\ row.state[p] = "excluded" <=> probation <= 1

RowsSound ==
    \A w \in Run :
        /\ \A i \in 1..Len(rounds[w]) : Assigned(rounds[w][i]) /\ Unblemished(attack[w], config.evaluable, rounds[w][i])
        /\ Len(rounds[w]) >= 1 => Hit(attack[w], rounds[w][1])
        /\ Len(rounds[w]) >= 2 => Judged(attack[w], config.policy.probation, rounds[w][2])

\* Nobody comes back from an exclusion: it is not evaluated, and recovery asks for
\* positive evidence.
ExclusionLasts ==
    \A w \in Run, p \in Peer :
        \A i, j \in 1..Len(rounds[w]) :
            i <= j /\ rounds[w][i].state[p] = "excluded" => rounds[w][j].state[p] = "excluded"

\* What the comparator said is what it found.
Told ==
    /\ verdict = "proven" => attack.attacked # {} /\ config.rounds >= 2 /\ Holds
    /\ verdict = "refused" => attack.attacked = {} \/ (config.rounds >= 2 /\ ~Holds)

PairInv == PairTypes /\ Told /\ Progress /\ Current /\ RowsSound /\ ExclusionLasts

LEMMA PairStart == ASSUME PairAssumption, PairInit PROVE PairInv
<1>1. /\ Fresh = [p \in Peer |-> [state |-> "observation", positive |-> 0, negative |-> 0,
                                         held |-> 0, moved |-> -1, severe |-> -1]]
      /\ Priors = [p \in Peer |-> [alpha |-> 1, beta |-> 1]]
  BY DEF Fresh, Priors, Rules!FreshCell, Rules!NoRound
<1>2. PairTypes
  BY <1>1 DEF PairInit, PairTypes, Run, CellState, Count
<1>3. /\ config.rounds \in Nat
      /\ \A w \in Run : rounds[w] = << >> /\ Len(rounds[w]) = 0
  BY DEF PairInit, PairAssumption
<1>4. Progress /\ Current /\ RowsSound /\ ExclusionLasts
  BY <1>2, <1>3 DEF PairInit, Progress, Current, RowsSound, ExclusionLasts, Run, Round, PairTypes
<1>5. Told
  BY DEF PairInit, Told
<1> QED  BY <1>2, <1>4, <1>5 DEF PairInv

-----------------------------------------------------------------------------
(* A round. *)

\* The row that GenerateRound appends, and what it says of each participant.
NewRow(row) ==
    /\ row \in PairRow
    /\ row.trust = betas'
    /\ \A p \in Peer :
        /\ row.evidence[p] = EvidenceOf(p)
        /\ row.trust[p] = Tallied(p, EvidenceOf(p))
        /\ row.state[p] = cells'[p].state
        /\ cells'[p] = Rules(config.policy)!Evolved(cells, p, EvidenceOf(p),
                                                   Tallied(p, EvidenceOf(p)), Round)
    /\ Assigned(row)
    /\ rounds' = [rounds EXCEPT ![run] = Append(@, row)]

LEMMA RowAppended ==
    ASSUME PairTypes, GenerateRound
    PROVE  \E row : NewRow(row)
<1> DEFINE evidence == [p \in Peer |-> EvidenceOf(p)]
           scores == [p \in Peer |-> Tallied(p, evidence[p])]
           next == [p \in Peer |->
                      Rules(config.policy)!Evolved(cells, p, evidence[p], scores[p], Round)]
           state == [p \in Peer |-> next[p].state]
           row == [evidence |-> evidence, trust |-> scores, state |-> state,
                   validators |-> Seated({p \in Peer : state[p] \in Standing}),
                   contributors |-> Seated({p \in Peer : state[p] # "excluded"})]
<1>1. cells' = next /\ betas' = scores /\ rounds' = [rounds EXCEPT ![run] = Append(@, row)]
  BY DEF GenerateRound, Standing
<1>2. \A p \in Peer :
        /\ EvidenceOf(p) \in {"positive", "neutral", "severe"}
        /\ Tallied(p, EvidenceOf(p)) \in Count
  BY DEF EvidenceOf, Tallied, PairTypes, Count
<1>3. \A p \in Peer : state[p] \in CellState
  <2> SUFFICES ASSUME NEW p \in Peer PROVE next[p].state \in CellState
    OBVIOUS
  <2>1. next[p] = Rules(config.policy)!Evolved(cells, p, evidence[p], scores[p], Round)
    OBVIOUS
  <2>2. cells[p].state \in CellState
    BY DEF PairTypes
  <2> HIDE DEF next, evidence, scores
  <2> QED  BY <2>1, <2>2, CellStep DEF CellState
<1>4. row \in PairRow
  BY <1>2, <1>3 DEF PairRow, Seated
<1>5. NewRow(row)
  <2> HIDE DEF next
  <2>1. Assigned(row)
    BY DEF Assigned
  <2>2. \A p \in Peer : row.state[p] = cells'[p].state
    BY <1>1
  <2>3. \A p \in Peer :
          /\ row.evidence[p] = EvidenceOf(p) /\ row.trust[p] = Tallied(p, EvidenceOf(p))
          /\ cells'[p] = Rules(config.policy)!Evolved(cells, p, EvidenceOf(p),
                                                     Tallied(p, EvidenceOf(p)), Round)
    BY <1>1 DEF next
  <2> QED  BY <1>1, <1>4, <2>1, <2>2, <2>3 DEF NewRow
<1> QED  BY <1>5

\* The rows before it stay.
LEMMA RowsAfter ==
    ASSUME PairTypes, NEW row, NewRow(row)
    PROVE  /\ rounds' \in [Run -> Seq(PairRow)]
           /\ Len(rounds'[run]) = Len(rounds[run]) + 1 /\ Len(rounds[run]) \in Nat
           /\ rounds'[run][Len(rounds[run]) + 1] = row
           /\ \A i \in 1..Len(rounds[run]) : rounds'[run][i] = rounds[run][i]
           /\ \A w \in Run \ {run} : rounds'[w] = rounds[w]
<1>1. rounds[run] \in Seq(PairRow) /\ row \in PairRow /\ run \in Run
  BY DEF PairTypes, NewRow
<1>2. /\ Append(rounds[run], row) \in Seq(PairRow)
      /\ Len(Append(rounds[run], row)) = Len(rounds[run]) + 1
      /\ Append(rounds[run], row)[Len(rounds[run]) + 1] = row
      /\ \A i \in 1..Len(rounds[run]) : Append(rounds[run], row)[i] = rounds[run][i]
      /\ Len(rounds[run]) \in Nat
  BY <1>1, AppendProperties, LenProperties
<1>3. rounds'[run] = Append(rounds[run], row) /\ \A w \in Run \ {run} : rounds'[w] = rounds[w]
  BY <1>1 DEF NewRow, PairTypes
<1>4. rounds' \in [Run -> Seq(PairRow)]
  BY <1>1, <1>2 DEF NewRow, PairTypes
<1> QED  BY <1>2, <1>3, <1>4

\* The row of a round in which the invariant holds.
LEMMA RowContents ==
    ASSUME PairAssumption, PairInv, NEW row, NewRow(row)
    PROVE  /\ Unblemished(attack[run], config.evaluable, row)
           /\ Round = 0 => Hit(attack[run], row) /\ \A p \in attack[run] :
                                               cells'[p].held = 0 /\ cells'[p].severe = 0
           /\ Round = 1 => Judged(attack[run], config.policy.probation, row)
           /\ Round > 0 => \A p \in Peer :
                 rounds[run][Round].state[p] = "excluded" => row.state[p] = "excluded"
<1>1. /\ run \in Run /\ attack[run] \subseteq Peer /\ Round \in Nat
      /\ rounds[run] \in Seq(PairRow) /\ config.policy \in Policies
      /\ config.policy.probation \in Nat
      /\ \A p \in Peer : cells[p].state \in CellState
  BY LenProperties DEF PairInv, PairTypes, PairAssumption, Round
<1>2. ASSUME NEW p \in Peer
      PROVE  /\ row.evidence[p] = EvidenceOf(p)
             /\ row.trust[p] = Tallied(p, EvidenceOf(p))
             /\ row.state[p] = cells'[p].state
             /\ cells'[p] = Rules(config.policy)!Evolved(cells, p, EvidenceOf(p),
                                                        Tallied(p, EvidenceOf(p)), Round)
  BY <1>2 DEF NewRow
<1>3. ASSUME NEW p \in Peer, Round = 0
      PROVE  /\ cells[p].state = "observation" /\ cells[p].severe = -1
             /\ betas[p] = [alpha |-> 1, beta |-> 1]
  BY <1>3 DEF PairInv, Current, Fresh, Priors, Rules!FreshCell, Rules!NoRound
<1>4. ASSUME NEW p \in Peer, Round > 0
      PROVE  /\ rounds[run][Round] \in PairRow
             /\ cells[p].state = rounds[run][Round].state[p]
             /\ betas[p] = rounds[run][Round].trust[p]
  BY <1>1, <1>4, ElementOfSeq DEF PairInv, Current, Round
<1>5. Unblemished(attack[run], config.evaluable, row)
  <2> SUFFICES ASSUME NEW p \in Peer \ attack[run]
               PROVE  /\ row.state[p] \in Standing
                      /\ row.trust[p].alpha >= 1 /\ row.trust[p].beta = 1
                      /\ p \notin config.evaluable => row.state[p] = "observation"
    BY DEF Unblemished
  <2>1. /\ cells[p].state \in Standing
        /\ betas[p].alpha >= 1 /\ betas[p].alpha \in Nat /\ betas[p].beta = 1
        /\ p \notin config.evaluable => cells[p].state = "observation"
    <3>1. CASE Round = 0
      BY <1>3, <3>1 DEF Standing
    <3>2. CASE Round > 0
      <4>1. Unblemished(attack[run], config.evaluable, rounds[run][Round])
        BY <1>1, <3>2 DEF PairInv, RowsSound, Round
      <4>2. betas[p] \in Count
        BY DEF PairInv, PairTypes
      <4> QED  BY <1>4, <3>2, <4>1, <4>2 DEF Unblemished, Count
    <3> QED  BY <1>1, <3>1, <3>2
  <2>2. EvidenceOf(p) = IF p \in config.evaluable THEN "positive" ELSE "neutral"
    BY <2>1 DEF EvidenceOf, Standing
  <2>3. row.trust[p].alpha >= 1 /\ row.trust[p].beta = 1
    <3>1. /\ row.trust[p].alpha = betas[p].alpha + (IF EvidenceOf(p) = "positive" THEN 1 ELSE 0)
          /\ row.trust[p].beta = betas[p].beta + (IF EvidenceOf(p) = "severe" THEN 1 ELSE 0)
      <4>1. /\ Tallied(p, EvidenceOf(p)).alpha =
                   betas[p].alpha + (IF EvidenceOf(p) = "positive" THEN 1 ELSE 0)
            /\ Tallied(p, EvidenceOf(p)).beta =
                   betas[p].beta + (IF EvidenceOf(p) = "severe" THEN 1 ELSE 0)
        BY DEF Tallied
      <4> QED  BY <1>2, <4>1
    <3> QED  BY <2>1, <2>2, <3>1
  <2>4. /\ cells'[p].state \in Standing
        /\ p \notin config.evaluable => cells'[p].state = "observation"
    BY <1>1, <1>2, <2>1, <2>2, CellStep DEF Standing, CellState
  <2> QED  BY <1>2, <2>3, <2>4
<1>6. ASSUME Round = 0, NEW p \in attack[run]
      PROVE  /\ row.evidence[p] = "severe" /\ row.state[p] = "suspicious"
             /\ row.trust[p] = [alpha |-> 1, beta |-> 2]
             /\ cells'[p].held = 0 /\ cells'[p].severe = 0
  <2>1. p \in Peer /\ EvidenceOf(p) = "severe"
    BY <1>1, <1>6 DEF EvidenceOf
  <2>2. Tallied(p, "severe") = [alpha |-> 1, beta |-> 2]
    BY <1>3, <1>6, <2>1 DEF Tallied
  <2>3. cells'[p].state = "suspicious" /\ cells'[p].held = 0 /\ cells'[p].severe = 0
    BY <1>1, <1>2, <1>3, <1>6, <2>1, CellStep DEF CellState
  <2> QED  BY <1>2, <2>1, <2>2, <2>3
<1>7. ASSUME Round = 1, NEW p \in attack[run]
      PROVE  /\ row.evidence[p] = "neutral" /\ row.trust[p] = [alpha |-> 1, beta |-> 2]
             /\ row.state[p] \in Quarantine
             /\ row.state[p] = "excluded" <=> config.policy.probation <= 1
  <2>1. p \in Peer /\ Hit(attack[run], rounds[run][1])
    BY <1>1, <1>7 DEF PairInv, RowsSound, Round
  <2>2. /\ cells[p].state = "suspicious" /\ betas[p] = [alpha |-> 1, beta |-> 2]
        /\ cells[p].held = 0 /\ cells[p].severe = 0
    BY <1>1, <1>4, <1>7, <2>1 DEF Hit, PairInv, Current
  <2>3. EvidenceOf(p) = "neutral"
    BY <1>7, <2>2 DEF EvidenceOf
  <2>4. Tallied(p, "neutral") = [alpha |-> 1, beta |-> 2]
    BY <2>2 DEF Tallied
  <2>5. /\ cells'[p].state \in Quarantine
        /\ cells'[p].state = "excluded" <=> config.policy.probation <= 1
    BY <1>1, <1>2, <2>1, <2>2, <2>3, CellStep DEF CellState, Quarantine
  <2> QED  BY <1>2, <2>1, <2>3, <2>4, <2>5
<1>8. ASSUME Round > 0, NEW p \in Peer, rounds[run][Round].state[p] = "excluded"
      PROVE  row.state[p] = "excluded"
  <2>1. cells[p].state = "excluded" /\ EvidenceOf(p) = "neutral"
    BY <1>1, <1>4, <1>8 DEF EvidenceOf
  <2> QED  BY <1>1, <1>2, <2>1, CellStep DEF CellState
<1> QED  BY <1>5, <1>6, <1>7, <1>8 DEF Hit, Judged

LEMMA RoundPreserves == ASSUME PairAssumption, PairInv, GenerateRound PROVE PairInv'
<1>1. PICK row : NewRow(row)
  BY RowAppended DEF PairInv
<1>2. /\ run \in Run /\ run' = run /\ config' = config /\ attack' = attack /\ verdict' = verdict
      /\ verdict = "none" /\ Round < config.rounds /\ row \in PairRow
  BY <1>1 DEF GenerateRound, PairInv, PairTypes, NewRow
<1>3. /\ rounds' \in [Run -> Seq(PairRow)]
      /\ Len(rounds'[run]) = Round + 1 /\ Round \in Nat
      /\ rounds'[run][Round + 1] = row
      /\ \A i \in 1..Round : rounds'[run][i] = rounds[run][i]
      /\ \A w \in Run \ {run} : rounds'[w] = rounds[w]
  BY <1>1, RowsAfter DEF PairInv, Round
<1>4. Round' = Round + 1
  BY <1>2, <1>3 DEF Round
<1>5. config.rounds \in Nat
  BY DEF PairInv, PairTypes, PairAssumption
<1>6. PairTypes'
  <2>1. betas' = row.trust /\ \A p \in Peer : cells'[p].state = row.state[p]
    BY <1>1 DEF NewRow
  <2> QED  BY <1>2, <1>3, <2>1 DEF PairInv, PairTypes, PairRow
<1>7. Progress'
  <2>1. \A w \in Run : Len(rounds[w]) <= config.rounds
    BY DEF PairInv, Progress
  <2>2. \A w \in Run : Len(rounds'[w]) <= config.rounds
    BY <1>2, <1>3, <1>5, <2>1
  <2>3. run = "clean" => rounds'.attacked = rounds.attacked
    BY <1>3 DEF Run
  <2>4. run = "attacked" => rounds'.clean = rounds.clean
    BY <1>3 DEF Run
  <2> QED  BY <1>2, <2>2, <2>3, <2>4 DEF PairInv, Progress
<1>8. Current'
  <2>1. betas' = row.trust /\ \A p \in Peer : cells'[p].state = row.state[p]
    BY <1>1 DEF NewRow
  <2>2. rounds'[run'][Round'] = row
    BY <1>2, <1>3, <1>4
  <2>3. Round' = 1 => \A p \in attack'[run'] : cells'[p].held = 0 /\ cells'[p].severe = 0
    BY <1>1, <1>2, <1>3, <1>4, RowContents
  <2> QED  BY <1>3, <1>4, <2>1, <2>2, <2>3 DEF Current
<1>9. RowsSound'
  <2> SUFFICES ASSUME NEW w \in Run
               PROVE  /\ \A i \in 1..Len(rounds'[w]) :
                            Assigned(rounds'[w][i]) /\ Unblemished(attack[w], config.evaluable, rounds'[w][i])
                      /\ Len(rounds'[w]) >= 1 => Hit(attack[w], rounds'[w][1])
                      /\ Len(rounds'[w]) >= 2 => Judged(attack[w], config.policy.probation, rounds'[w][2])
    BY <1>2 DEF RowsSound
  <2>1. CASE w # run
    BY <1>3, <2>1 DEF PairInv, RowsSound
  <2>2. CASE w = run
    <3>1. Assigned(row) /\ Unblemished(attack[w], config.evaluable, row)
      BY <1>1, <2>2, RowContents DEF NewRow
    <3>2. \A i \in 1..Round : Assigned(rounds[w][i]) /\ Unblemished(attack[w], config.evaluable, rounds[w][i])
      BY <2>2 DEF PairInv, RowsSound, Round
    <3>3. Round >= 1 => Hit(attack[w], rounds[w][1])
      BY <2>2 DEF PairInv, RowsSound, Round
    <3>4. Round >= 2 => Judged(attack[w], config.policy.probation, rounds[w][2])
      BY <2>2 DEF PairInv, RowsSound, Round
    <3>5. (Round = 0 => Hit(attack[w], row)) /\ (Round = 1 => Judged(attack[w], config.policy.probation, row))
      BY <1>1, <2>2, RowContents
    <3>6. \A i \in 1..Round + 1 : i \in 1..Round \/ i = Round + 1
      BY <1>3
    <3>7. \A i \in 1..Len(rounds'[w]) : Assigned(rounds'[w][i]) /\ Unblemished(attack[w], config.evaluable, rounds'[w][i])
      BY <1>3, <2>2, <3>1, <3>2, <3>6
    <3>8. Len(rounds'[w]) >= 1 => Hit(attack[w], rounds'[w][1])
      BY <1>3, <2>2, <3>3, <3>5
    <3>9. Len(rounds'[w]) >= 2 => Judged(attack[w], config.policy.probation, rounds'[w][2])
      BY <1>3, <2>2, <3>4, <3>5
    <3> QED  BY <3>7, <3>8, <3>9
  <2> QED  BY <2>1, <2>2
<1>10. ExclusionLasts'
  <2> SUFFICES ASSUME NEW w \in Run, NEW p \in Peer,
                      NEW i \in 1..Len(rounds'[w]), NEW j \in 1..Len(rounds'[w]),
                      i <= j, rounds'[w][i].state[p] = "excluded"
               PROVE  rounds'[w][j].state[p] = "excluded"
    BY DEF ExclusionLasts
  <2>1. CASE w # run
    BY <1>3, <2>1 DEF PairInv, ExclusionLasts
  <2>2. CASE w = run /\ j <= Round
    <3>1. i \in 1..Round /\ j \in 1..Round
      BY <1>3, <2>2
    <3> QED  BY <1>3, <2>2, <3>1 DEF PairInv, ExclusionLasts, Round
  <2>3. CASE w = run /\ j = Round + 1 /\ i <= Round
    <3>1. i \in 1..Round /\ Round \in 1..Round
      BY <1>3, <2>3
    <3>2. rounds[run][Round].state[p] = "excluded"
      BY <1>3, <2>3, <3>1 DEF PairInv, ExclusionLasts, Round
    <3> QED  BY <1>1, <1>3, <2>3, <3>1, <3>2, RowContents
  <2>4. CASE w = run /\ i = Round + 1 /\ j = Round + 1
    BY <2>4
  <2> QED  BY <1>3, <2>1, <2>2, <2>3, <2>4
<1>11. Told'
  BY <1>2 DEF Told
<1> QED  BY <1>6, <1>7, <1>8, <1>9, <1>10, <1>11 DEF PairInv

-----------------------------------------------------------------------------
(* The other steps, and the theorems. *)

LEMMA StartPreserves == ASSUME PairAssumption, PairInv, StartAttacked PROVE PairInv'
<1>1. /\ run = "clean" /\ run' = "attacked" /\ cells' = Fresh /\ betas' = Priors
      /\ UNCHANGED <<config, attack, rounds, verdict>> /\ Len(rounds.clean) = config.rounds
  BY DEF StartAttacked, Round
<1>2. rounds.attacked = << >> /\ Len(rounds.attacked) = 0
  BY <1>1 DEF PairInv, Progress
<1>3. Fresh' = Fresh /\ Priors' = Priors
  BY <1>1 DEF Fresh, Priors, Rules!FreshCell
<1>4. /\ \A p \in Peer : Fresh[p].state \in CellState
      /\ Priors \in [Peer -> Count]
  BY DEF Fresh, Priors, Rules!FreshCell, CellState, Count
<1>5. PairTypes'
  BY <1>1, <1>4 DEF PairInv, PairTypes, Run
<1>6. Progress'
  BY <1>1 DEF PairInv, Progress
<1>7. Round' = 0
  BY <1>1, <1>2 DEF Round
<1>8. Current'
  BY <1>1, <1>3, <1>7 DEF Current
<1>9. RowsSound' /\ ExclusionLasts'
  BY <1>1 DEF PairInv, RowsSound, ExclusionLasts
<1>10. Told'
  BY <1>1 DEF PairInv, Progress, Told
<1> QED  BY <1>5, <1>6, <1>8, <1>9, <1>10 DEF PairInv

LEMMA ComparePreserves == ASSUME PairAssumption, PairInv, Compare PROVE PairInv'
<1>1. /\ UNCHANGED <<config, attack, run, cells, betas, rounds>>
      /\ run = "attacked" /\ Len(rounds.attacked) = config.rounds
      /\ verdict' = IF attack.attacked = {} THEN "refused"
                     ELSE IF config.rounds < 2 THEN "IndexError"
                     ELSE IF Holds THEN "proven" ELSE "refused"
  BY DEF Compare, Round
<1>2. PairTypes' /\ RowsSound' /\ ExclusionLasts'
  <2>1. UNCHANGED <<config, attack, run, cells, betas, rounds>>
    BY <1>1
  <2> QED  BY <2>1 DEF PairInv, PairTypes, RowsSound, ExclusionLasts
<1>3. Progress'
  BY <1>1 DEF PairInv, Progress
<1>4. Current'
  BY <1>1 DEF PairInv, Current, Round, Fresh, Priors
<1>5. Holds' <=> Holds
  BY <1>1 DEF Holds, Excluded, CleanRow, AttackedRow
<1>6. config.rounds \in Nat
  BY DEF PairInv, PairTypes, PairAssumption
<1>7. Told'
  <2>1. CASE attack.attacked = {}
    <3>1. verdict' = "refused" /\ attack' = attack
      BY <1>1, <2>1
    <3> QED  BY <2>1, <3>1 DEF Told
  <2>2. CASE attack.attacked # {} /\ config.rounds < 2
    BY <1>1, <2>2 DEF Told
  <2>3. CASE attack.attacked # {} /\ config.rounds >= 2
    <3>1. verdict' = IF Holds THEN "proven" ELSE "refused"
      BY <1>1, <1>6, <2>3
    <3>2. attack' = attack /\ config' = config
      BY <1>1
    <3> QED  BY <1>5, <2>3, <3>1, <3>2 DEF Told
  <2> QED  BY <1>6, <2>1, <2>2, <2>3
<1> QED  BY <1>2, <1>3, <1>4, <1>7 DEF PairInv

LEMMA PairKept == ASSUME PairAssumption, PairInv, [PairNext]_pairVars PROVE PairInv'
<1>1. CASE GenerateRound
  BY <1>1, RoundPreserves
<1>2. CASE StartAttacked
  BY <1>2, StartPreserves
<1>3. CASE Compare
  BY <1>3, ComparePreserves
<1>4. CASE UNCHANGED pairVars
  BY <1>4 DEF pairVars, PairInv, PairTypes, Progress, Current, RowsSound, ExclusionLasts,
              Told, Round, Fresh, Priors, Holds, Excluded, CleanRow, AttackedRow
<1> QED  BY <1>1, <1>2, <1>3, <1>4 DEF PairNext

\* The inductive invariant of the pair of runs.
THEOREM PairInvariance == ASSUME PairAssumption PROVE PairSpec => []PairInv
<1> QED  BY PairStart, PairKept, PTL DEF PairSpec

\* The rows that are compared.
LEMMA ComparedRows ==
    ASSUME PairAssumption, PairInv, verdict \in {"proven", "refused"}, config.rounds >= 1
    PROVE  /\ config.rounds \in Nat /\ Peer \cap attack.attacked = attack.attacked
           /\ \A i \in 0..config.rounds - 1 :
                 /\ CleanRow(i) \in PairRow /\ AttackedRow(i) \in PairRow
                 /\ Assigned(AttackedRow(i))
                 /\ Unblemished(attack.clean, config.evaluable, CleanRow(i))
                 /\ Unblemished(attack.attacked, config.evaluable, AttackedRow(i))
           /\ Hit(attack.clean, CleanRow(0)) /\ Hit(attack.attacked, AttackedRow(0))
           /\ config.rounds >= 2 => Judged(attack.attacked, config.policy.probation, AttackedRow(1))
           /\ \A i \in 1..config.rounds - 1, p \in Peer :
                 AttackedRow(1).state[p] = "excluded" => AttackedRow(i).state[p] = "excluded"
<1>1. /\ config.rounds \in Nat /\ "clean" \in Run /\ "attacked" \in Run
      /\ attack.clean \subseteq Peer /\ attack.attacked \subseteq Peer
      /\ rounds.clean \in Seq(PairRow) /\ rounds.attacked \in Seq(PairRow)
      /\ Len(rounds.clean) = config.rounds /\ Len(rounds.attacked) = config.rounds
  BY DEF PairInv, PairTypes, PairAssumption, Progress, Run
<1>2. \A i \in 0..config.rounds - 1 : i + 1 \in 1..config.rounds
  BY <1>1
<1>3. \A i \in 1..config.rounds : rounds.clean[i] \in PairRow /\ rounds.attacked[i] \in PairRow
  BY <1>1, ElementOfSeq
<1>4. \A i \in 0..config.rounds - 1 :
         /\ CleanRow(i) \in PairRow /\ AttackedRow(i) \in PairRow
         /\ Assigned(AttackedRow(i))
         /\ Unblemished(attack.clean, config.evaluable, CleanRow(i))
         /\ Unblemished(attack.attacked, config.evaluable, AttackedRow(i))
  BY <1>1, <1>2, <1>3 DEF PairInv, RowsSound, CleanRow, AttackedRow
<1>5. /\ Hit(attack.clean, CleanRow(0)) /\ Hit(attack.attacked, AttackedRow(0))
      /\ config.rounds >= 2 => Judged(attack.attacked, config.policy.probation, AttackedRow(1))
  BY <1>1 DEF PairInv, RowsSound, CleanRow, AttackedRow
<1>6. ASSUME NEW i \in 1..config.rounds - 1, NEW p \in Peer,
             AttackedRow(1).state[p] = "excluded"
      PROVE  AttackedRow(i).state[p] = "excluded"
  <2>1. 2 \in 1..config.rounds /\ i + 1 \in 1..config.rounds /\ 2 <= i + 1
    BY <1>1, <1>6
  <2> QED  BY <1>1, <1>6, <2>1 DEF PairInv, ExclusionLasts, AttackedRow
<1> QED  BY <1>1, <1>4, <1>5, <1>6

LEMMA ExclusionFromPair == ASSUME PairAssumption, PairInv PROVE ClaimHolds
<1> SUFFICES ASSUME verdict = "proven", NEW i \in 0..config.rounds - 1
             PROVE  /\ AttackedRow(i).validators \cap attack.attacked = {}
                    /\ i >= 1 => AttackedRow(i).contributors \cap attack.attacked = {}
                    /\ AttackedRow(i).validators = Seated(Peer \ attack.attacked)
  BY DEF ClaimHolds
<1>1. config.rounds >= 2 /\ config.rounds \in Nat /\ Holds
  BY DEF PairInv, PairTypes, PairAssumption, Told
<1>2. /\ AttackedRow(i) \in PairRow /\ Assigned(AttackedRow(i))
      /\ attack.attacked \subseteq Peer
      /\ \A k \in 1..config.rounds - 1, p \in Peer :
            AttackedRow(1).state[p] = "excluded" => AttackedRow(k).state[p] = "excluded"
  BY <1>1, ComparedRows
<1>3. \A p \in attack.attacked :
         AttackedRow(i).state[p] \in Quarantine
         /\ (i >= 1 => AttackedRow(i).state[p] = "excluded")
  BY <1>1, <1>2 DEF Holds, Excluded, Quarantine
<1>4. \A p \in Peer \ attack.attacked : AttackedRow(i).state[p] \in Standing
  BY <1>1, <1>2 DEF Holds, Quarantine, PairRow, CellState, Standing
<1>5. {p \in Peer : AttackedRow(i).state[p] \in Standing} = Peer \ attack.attacked
  BY <1>2, <1>3, <1>4 DEF Quarantine, Standing
<1>6. AttackedRow(i).validators = Seated(Peer \ attack.attacked)
  BY <1>2, <1>5 DEF Assigned
<1>7. AttackedRow(i).validators \cap attack.attacked = {}
  BY <1>6 DEF Seated
<1>8. i >= 1 => AttackedRow(i).contributors \cap attack.attacked = {}
  BY <1>2, <1>3 DEF Assigned, Seated
<1> QED  BY <1>6, <1>7, <1>8

\* compare_ca_state_transition.py:155-183 reads two rounds and claims it of all: whatever
\* recovery the policy allows, an adversary validates nothing and, from the second round
\* on, has no role at all, while everybody else can have one.
THEOREM ExclusionClaimHolds == ASSUME PairAssumption PROVE PairSpec => []ClaimHolds
<1> QED  BY ExclusionFromPair, PairInvariance, PTL

LEMMA InterventionFromPair == ASSUME PairAssumption, PairInv PROVE AttackIsProven
<1> SUFFICES ASSUME verdict \in {"proven", "refused"}
             PROVE  verdict = "proven" <=>
                       /\ attack.clean = {} /\ attack.attacked # {}
                       /\ config.policy.probation <= 1
  BY DEF AttackIsProven
<1>1. CASE attack.attacked = {}
  BY <1>1 DEF PairInv, Told
<1>2. CASE attack.attacked # {}
  <2>1. config.rounds >= 2 /\ config.rounds \in Nat /\ (verdict = "proven" <=> Holds)
    BY <1>2 DEF PairInv, PairTypes, PairAssumption, Told
  <2>2. /\ attack.attacked \subseteq Peer /\ attack.clean \subseteq Peer
        /\ \A i \in 0..config.rounds - 1 :
               /\ CleanRow(i) \in PairRow /\ AttackedRow(i) \in PairRow
               /\ Assigned(AttackedRow(i))
               /\ Unblemished(attack.clean, config.evaluable, CleanRow(i))
               /\ Unblemished(attack.attacked, config.evaluable, AttackedRow(i))
        /\ Hit(attack.clean, CleanRow(0)) /\ Hit(attack.attacked, AttackedRow(0))
        /\ Judged(attack.attacked, config.policy.probation, AttackedRow(1))
    <3>1. attack.clean \subseteq Peer
      BY DEF PairInv, PairTypes, PairAssumption, Run
    <3> QED  BY <2>1, <3>1, ComparedRows
  <2>3. 0 \in 0..config.rounds - 1 /\ 1 \in 0..config.rounds - 1
    BY <2>1
  <2>4. Holds => attack.clean = {}
    <3> SUFFICES ASSUME Holds, NEW p \in attack.clean PROVE FALSE
      OBVIOUS
    <3>1. CleanRow(0).state[p] = "suspicious"
      BY <2>2 DEF Hit
    <3> QED  BY <2>2, <2>3, <3>1 DEF Holds, Quarantine
  <2>5. Holds => config.policy.probation <= 1
    <3> SUFFICES ASSUME Holds, NEW p \in attack.attacked PROVE config.policy.probation <= 1
      BY <1>2
    <3> QED  BY <2>2 DEF Holds, Excluded, Judged
  <2>6. ASSUME attack.clean = {}, config.policy.probation <= 1 PROVE Holds
    <3>1. ASSUME NEW p \in attack.attacked PROVE Excluded(p)
      <4>1. /\ AttackedRow(0).evidence[p] = "severe" /\ AttackedRow(0).state[p] = "suspicious"
            /\ AttackedRow(1).evidence[p] = "neutral" /\ AttackedRow(1).state[p] = "excluded"
            /\ AttackedRow(1).trust[p] = [alpha |-> 1, beta |-> 2]
        BY <2>2, <2>6, <3>1 DEF Hit, Judged
      <4>2. /\ CleanRow(1).trust[p] \in Count /\ CleanRow(1).trust[p].beta = 1
            /\ CleanRow(1).trust[p].alpha >= 1
        BY <2>2, <2>3, <2>6, <3>1 DEF PairRow, Unblemished
      <4>3. Less(AttackedRow(1).trust[p], CleanRow(1).trust[p])
        <5>1. \A a \in Nat : a >= 1 => 1 * (a + 1) < a * (1 + 2)
          OBVIOUS
        <5>2. CleanRow(1).trust[p].alpha \in Nat
          BY <4>2 DEF Count
        <5> QED  BY <4>1, <4>2, <5>1, <5>2 DEF Less
      <4>4. /\ p \notin AttackedRow(0).validators
            /\ p \notin AttackedRow(1).validators \cup AttackedRow(1).contributors
        BY <2>2, <2>3, <4>1 DEF Assigned, Seated, Standing
      <4> QED  BY <4>1, <4>3, <4>4 DEF Excluded
    <3>2. \A p \in Peer \ attack.attacked, i \in 0..config.rounds - 1 :
             AttackedRow(i).state[p] \notin Quarantine
      BY <2>2 DEF Unblemished, Standing, Quarantine
    <3>3. \A p \in Peer, i \in 0..config.rounds - 1 :
             /\ CleanRow(i).state[p] \notin Quarantine
             /\ p \notin config.evaluable => CleanRow(i).state[p] = "observation"
      BY <2>2, <2>6 DEF Unblemished, Standing, Quarantine
    <3> QED  BY <3>1, <3>2, <3>3 DEF Holds
  <2> QED  BY <1>2, <2>1, <2>4, <2>5, <2>6
<1> QED  BY <1>1, <1>2

\* The comparator proves exactly the interventions: of two runs of at least two rounds, a
\* clean one and one in which somebody attacks, as long as the probation is of one round.
THEOREM InterventionIsTold == ASSUME PairAssumption PROVE PairSpec => []AttackIsProven
<1> QED  BY InterventionFromPair, PairInvariance, PTL

-----------------------------------------------------------------------------
(* The comparators of inverted votes; run, rounds, betas and verdict are    *)
(* here those of a pair of runs under the validator gate.                   *)

-----------------------------------------------------------------------------
\* The inductive invariant of a pair of runs under the gate.

Written == {"written", "proven", "not proven"}

VoteTypes ==
    /\ run \in Votes!Run /\ lies \in 0..1
    /\ verdict \in Written \cup {"running", "nothing to aggregate"}
    /\ verdict \notin Written => lies = 0
    /\ DOMAIN candidates = Votes!Run /\ DOMAIN rounds = Votes!Run /\ DOMAIN betas = Votes!Run
    /\ \A w \in Votes!Run : \E S : rounds[w] \in Seq(S)
    /\ \A w \in Votes!Run : \E S : betas[w] \in Seq(S)

\* The global model from which a round starts.
Before(w, r) == IF r = 0 THEN Votes!Initial ELSE rounds[w][r].installed

RowIn(w, parent, update, reference) ==
    LET votes == [v \in Voter |-> Votes!Vote(w, v, reference)]
        admitted == Votes!AdmittedBy(votes)
    IN  [parent |-> parent, submitted |-> update, votes |-> votes, admitted |-> admitted,
         reached |-> admitted, input |-> IF admitted THEN update ELSE Votes!Other]

\* Each row is one submission: a training of the model the round starts from, and
\* the votes on it repeat one reference or invert it.
RowIsSound(w, r, c) ==
    \E draw \in 0..1, reference \in BOOLEAN :
        /\ draw = 1 => noise # {}
        /\ candidates[w][<<r, c>>] =
              RowIn(w, Before(w, r), Votes!Model(c, Before(w, r), draw), reference)
VoteRows ==
    \A w \in Votes!Run : \A k \in DOMAIN candidates[w] :
        k \in Nat \X Learner /\ k[1] <= Len(rounds[w]) /\ RowIsSound(w, k[1], k[2])

\* The lineage of a round is that of its rows.
LineFrom(table) ==
    LET chosen == {c \in Learner : table[c].admitted}
        inputs == [c \in chosen |-> table[c].submitted]
        made == {inputs[c] : c \in chosen}
    IN  [contributors |-> chosen, inputs |-> inputs, installed |-> made,
         at |-> [n \in Votes!Node |-> made]]
RowsOf(w, r) == [c \in Learner |-> candidates[w][<<r, c>>]]
VoteRounds ==
    \A w \in Votes!Run : \A r \in Nat : r < Len(rounds[w]) =>
        /\ \A c \in Learner : <<r, c>> \in DOMAIN candidates[w]
        /\ rounds[w][r + 1] = LineFrom(RowsOf(w, r))

\* Every round adds the number of candidates to one of the counts of a validator.
TrustAfter(w, r) ==
    [v \in Voter |->
        IF v \in Votes!Inverters(w)
        THEN Votes!Beta(PriorCount, PriorCount + r * Cardinality(Learner))
        ELSE Votes!Beta(PriorCount + r * Cardinality(Learner), PriorCount)]
VoteTrust ==
    \A w \in Votes!Run :
        /\ Len(betas[w]) = Len(rounds[w]) + 1
        /\ \A i \in 1..Len(betas[w]) : betas[w][i] = TrustAfter(w, i - 1)

VoteProgress ==
    /\ run = "clean" => Len(rounds["attacked"]) = 0
    /\ run = "attacked" => Len(rounds["clean"]) = LastVoted + 1
    /\ \A w \in Votes!Run :
          Len(rounds[w]) <= LastVoted + 1 /\ (verdict \in Written => Len(rounds[w]) = LastVoted + 1)
    /\ verdict = "running" => global = Before(run, Len(rounds[run]))

\* The artifacts are what the runs did, but for one field of one of them; what was
\* said of them was found in them.
OneLie(w, a) ==
    a \in Votes!Altered(Votes!Evidence(w))
    /\ artifact = [x \in Votes!Run |-> IF x = w THEN a ELSE Votes!Evidence(x)]
VoteArtifacts ==
    /\ verdict \in Written /\ lies = 0 => artifact = [w \in Votes!Run |-> Votes!Evidence(w)]
    /\ verdict \in Written /\ lies = 1 => \E w \in Votes!Run : \E a : OneLie(w, a)
    /\ verdict = "proven" => Votes!Proven(artifact["clean"], artifact["attacked"])
    /\ verdict = "not proven" => ~Votes!Proven(artifact["clean"], artifact["attacked"])

GateInv == VoteTypes /\ VoteRows /\ VoteRounds /\ VoteTrust /\ VoteProgress /\ VoteArtifacts

-----------------------------------------------------------------------------
\* An element is added to the end of a sequence, whatever its elements are.
LEMMA Appended ==
    ASSUME NEW s, \E S : s \in Seq(S), NEW e
    PROVE  /\ \E S : Append(s, e) \in Seq(S)
           /\ Len(s) \in Nat /\ Len(Append(s, e)) = Len(s) + 1
           /\ \A i \in 1..Len(s) : Append(s, e)[i] = s[i]
           /\ Append(s, e)[Len(s) + 1] = e
<1>1. PICK S : s \in Seq(S)
  OBVIOUS
<1>2. s \in Seq(S \cup {e}) /\ e \in S \cup {e}
  BY <1>1
<1>3. Append(s, e) \in Seq(S \cup {e})
  BY <1>2
<1> HIDE DEF Written
<1> QED  BY <1>2, <1>3

LEMMA SameFinite == \A S : (Votes!IsFiniteSet(S) <=> IsFiniteSet(S)) /\ Votes!Cardinality(S) = Cardinality(S)
  BY DEF Votes!IsFiniteSet, IsFiniteSet, Votes!Cardinality, Cardinality

LEMMA VoteStart == ASSUME Votes!ComparisonAssumption, Votes!Init PROVE GateInv
<1> USE DEF Votes!Run
<1> DEFINE Start == [v \in Voter |-> Votes!Beta(PriorCount, PriorCount)]
<1>1. \A w \in Votes!Run : rounds[w] = << >> /\ betas[w] = <<Start>>
  BY DEF Votes!Init
<1> HIDE DEF Start
<1>2. \A w \in Votes!Run : Len(rounds[w]) = 0 /\ Len(betas[w]) = 1 /\ betas[w][1] = Start
  <2>1. Len(<<Start>>) = 1 /\ <<Start>>[1] = Start /\ Len(<< >>) = 0
    OBVIOUS
  <2> QED  BY <1>1, <2>1
<1>3. VoteTypes
  <2>1. \A w \in Votes!Run : rounds[w] \in Seq({}) /\ betas[w] \in Seq({Start})
    <3>1. << >> \in Seq({}) /\ <<Start>> \in Seq({Start})
      OBVIOUS
    <3> QED  BY <1>1, <3>1
  <2>2. DOMAIN candidates = Votes!Run /\ DOMAIN rounds = Votes!Run /\ DOMAIN betas = Votes!Run
    BY DEF Votes!Init
  <2>3. /\ run \in Votes!Run /\ lies \in 0..1
        /\ verdict \in Written \cup {"running", "nothing to aggregate"}
        /\ verdict \notin Written => lies = 0
    BY DEF Votes!Init, Written
  <2>4. /\ \A w \in Votes!Run : \E S : rounds[w] \in Seq(S)
        /\ \A w \in Votes!Run : \E S : betas[w] \in Seq(S)
    BY <2>1
  <2> QED  BY <2>2, <2>3, <2>4 DEF VoteTypes
<1>4. VoteRows /\ VoteRounds
  <2>1. \A w \in Votes!Run : DOMAIN candidates[w] = {}
    BY DEF Votes!Init
  <2> QED  BY <1>2, <2>1 DEF VoteRows, VoteRounds
<1>5. VoteTrust
  <2>1. \A w \in Votes!Run : betas[w][1] = TrustAfter(w, 0)
    <3>1. Cardinality(Learner) \in Nat /\ PriorCount \in Nat
      BY FS_CardinalityType, SameFinite DEF Votes!ComparisonAssumption
    <3>2. PriorCount + 0 * Cardinality(Learner) = PriorCount
      BY <3>1
    <3>3. \A w \in Votes!Run : TrustAfter(w, 0) = Start
      BY <3>2 DEF TrustAfter, Start
    <3> QED  BY <1>2, <3>3
  <2>2. \A i \in 1..1 : i = 1 /\ i - 1 = 0
    OBVIOUS
  <2>3. \A w \in Votes!Run : Len(betas[w]) = Len(rounds[w]) + 1
    <3> SUFFICES ASSUME NEW w \in Votes!Run PROVE Len(betas[w]) = Len(rounds[w]) + 1
      OBVIOUS
    <3>1. Len(betas[w]) = 1 /\ Len(rounds[w]) = 0
      BY <1>2
    <3> QED  BY <3>1
  <2>4. \A w \in Votes!Run : \A i \in 1..Len(betas[w]) : betas[w][i] = TrustAfter(w, i - 1)
    BY <1>2, <2>1, <2>2
  <2> QED  BY <2>3, <2>4 DEF VoteTrust
<1>6. VoteProgress
  BY <1>2 DEF Votes!Init, VoteProgress, Before, Written, Votes!ComparisonAssumption
<1>7. VoteArtifacts
  BY DEF Votes!Init, VoteArtifacts, Written
<1> QED  BY <1>3, <1>4, <1>5, <1>6, <1>7 DEF GateInv

\* A candidate is trained, voted on and decided.
LEMMA SubmitKeeps ==
    ASSUME Votes!ComparisonAssumption, GateInv, NEW c \in Learner, Votes!Submit(c)
    PROVE  GateInv'
<1> USE DEF GateInv
<1>1. PICK draw \in 0..1, ok \in BOOLEAN :
        /\ draw = 1 => noise' # {}
        /\ noise # {} => noise' # {}
        /\ candidates' = [candidates EXCEPT ![run] =
             [k \in DOMAIN @ \cup {<<Votes!Round, c>>} |->
                IF k = <<Votes!Round, c>>
                THEN Votes!Row(c, Votes!Model(c, global, draw), ok /\ c \notin policy.rejects)
                ELSE @[k]]]
  BY DEF Votes!Submit
<1>2. /\ verdict = "running" /\ Votes!Round <= LastVoted
      /\ <<Votes!Round, c>> \notin DOMAIN candidates[run]
      /\ UNCHANGED <<policy, run, global, rounds, betas, artifact, lies, verdict>>
  BY DEF Votes!Submit
<1>3. /\ run \in Votes!Run
      /\ Votes!Round = Len(rounds[run]) /\ Votes!Round \in Nat
      /\ global = Before(run, Votes!Round)
  <2>1. Len(rounds[run]) \in Nat
    BY Appended DEF VoteTypes
  <2> QED  BY <1>2, <2>1 DEF VoteTypes, VoteProgress, Votes!Round
<1>4. /\ DOMAIN candidates' = Votes!Run
      /\ \A w \in Votes!Run \ {run} : candidates'[w] = candidates[w]
      /\ DOMAIN candidates'[run] = DOMAIN candidates[run] \cup {<<Votes!Round, c>>}
      /\ \A k \in DOMAIN candidates[run] : candidates'[run][k] = candidates[run][k]
      /\ candidates'[run][<<Votes!Round, c>>] =
            RowIn(run, global, Votes!Model(c, global, draw), ok /\ c \notin policy.rejects)
  BY <1>1, <1>2, <1>3 DEF VoteTypes, Votes!Row, RowIn
<1>5. \A w, r : Before(w, r)' = Before(w, r)
  BY <1>2 DEF Before
<1>6. VoteTypes'
  BY <1>2, <1>4 DEF VoteTypes, Written
<1>7. VoteRows'
  <2> SUFFICES ASSUME NEW w \in Votes!Run, NEW k \in DOMAIN candidates'[w]
               PROVE  k \in Nat \X Learner /\ k[1] <= Len(rounds[w]) /\ RowIsSound(w, k[1], k[2])'
    BY <1>2 DEF VoteRows
  <2>1. CASE k \in DOMAIN candidates[w]
    <3>1. candidates'[w][k] = candidates[w][k]
      BY <1>4, <2>1
    <3>2. k \in Nat \X Learner /\ k[1] <= Len(rounds[w]) /\ RowIsSound(w, k[1], k[2])
      BY <2>1 DEF VoteRows
    <3>3. k = <<k[1], k[2]>>
      BY <3>2
    <3>4. PICK d \in 0..1, reference \in BOOLEAN :
            /\ d = 1 => noise # {}
            /\ candidates[w][k] = RowIn(w, Before(w, k[1]), Votes!Model(k[2], Before(w, k[1]), d), reference)
      BY <3>2, <3>3 DEF RowIsSound
    <3>5. /\ d = 1 => noise' # {}
          /\ candidates'[w][<<k[1], k[2]>>] =
               RowIn(w, Before(w, k[1]), Votes!Model(k[2], Before(w, k[1]), d), reference)'
      <4>1. RowIn(w, Before(w, k[1]), Votes!Model(k[2], Before(w, k[1]), d), reference)'
              = RowIn(w, Before(w, k[1]), Votes!Model(k[2], Before(w, k[1]), d), reference)
        BY <1>2, <1>5 DEF RowIn, Votes!AdmittedBy, Votes!Accepts
      <4> QED  BY <1>1, <3>1, <3>3, <3>4, <4>1
    <3> QED  BY <3>2, <3>5 DEF RowIsSound
  <2>2. CASE w = run /\ k = <<Votes!Round, c>>
    <3>1. k[1] = Votes!Round /\ k[2] = c
      BY <2>2
    <3>2. RowIn(run, global, Votes!Model(c, global, draw), ok /\ c \notin policy.rejects)
            = RowIn(w, Before(w, k[1]), Votes!Model(k[2], Before(w, k[1]), draw), ok /\ c \notin policy.rejects)'
      BY <1>2, <1>3, <1>5, <2>2, <3>1 DEF RowIn, Votes!AdmittedBy, Votes!Accepts
    <3>3. /\ draw = 1 => noise' # {}
          /\ candidates'[w][<<k[1], k[2]>>] =
               RowIn(w, Before(w, k[1]), Votes!Model(k[2], Before(w, k[1]), draw),
                     ok /\ c \notin policy.rejects)'
      BY <1>1, <1>4, <2>2, <3>1, <3>2
    <3>4. (ok /\ c \notin policy.rejects) \in BOOLEAN
      OBVIOUS
    <3>5. PICK d \in 0..1, reference \in BOOLEAN :
            /\ d = 1 => noise' # {}
            /\ candidates'[w][<<k[1], k[2]>>] =
                 RowIn(w, Before(w, k[1]), Votes!Model(k[2], Before(w, k[1]), d), reference)'
      BY <1>2, <3>3, <3>4
    <3>6. RowIsSound(w, k[1], k[2])'
      BY <3>5 DEF RowIsSound
    <3> QED  BY <1>2, <1>3, <2>2, <3>1, <3>6
  <2> QED  BY <1>4, <2>1, <2>2
<1>8. VoteRounds'
  <2> SUFFICES ASSUME NEW w \in Votes!Run, NEW r \in Nat, r < Len(rounds[w])
               PROVE  /\ \A d \in Learner : <<r, d>> \in DOMAIN candidates'[w]
                      /\ rounds[w][r + 1] = LineFrom(RowsOf(w, r))'
    BY <1>2 DEF VoteRounds
  <2>1. \A d \in Learner : <<r, d>> \in DOMAIN candidates[w]
    BY DEF VoteRounds
  <2>2. \A d \in Learner : candidates'[w][<<r, d>>] = candidates[w][<<r, d>>]
    BY <1>4, <2>1
  <2>3. RowsOf(w, r)' = RowsOf(w, r)
    BY <2>2 DEF RowsOf
  <2>4. LineFrom(RowsOf(w, r))' = LineFrom(RowsOf(w, r))
    BY <2>3 DEF LineFrom
  <2> QED  BY <1>4, <2>1, <2>4 DEF VoteRounds
<1>9. VoteTrust' /\ VoteProgress' /\ VoteArtifacts'
  <2>1. VoteTrust'
    BY <1>2 DEF VoteTrust, TrustAfter
  <2>2. VoteProgress'
    BY <1>2, <1>5 DEF VoteProgress, Written
  <2>3. VoteArtifacts'
    BY <1>2 DEF VoteArtifacts, Written
  <2> QED  BY <2>1, <2>2, <2>3
<1> QED  BY <1>6, <1>7, <1>8, <1>9

\* Who inverts its votes agrees with the reference on no candidate, everybody else on all.
LEMMA AgreedOn ==
    ASSUME GateInv, NEW w \in Votes!Run, NEW r \in Nat, NEW v \in Voter,
           \A c \in Learner : <<r, c>> \in DOMAIN candidates[w]
    PROVE  Votes!Agreed(w, r, v) = IF v \in Votes!Inverters(w) THEN {} ELSE Learner
<1>1. ASSUME NEW c \in Learner
      PROVE  candidates[w][<<r, c>>].votes[v].reported = candidates[w][<<r, c>>].votes[v].reference
                <=> v \notin Votes!Inverters(w)
  <2>1. RowIsSound(w, r, c)
    <3>1. <<r, c>> \in DOMAIN candidates[w] /\ <<r, c>>[1] = r /\ <<r, c>>[2] = c
      OBVIOUS
    <3> QED  BY <3>1 DEF GateInv, VoteRows
  <2>2. PICK draw \in 0..1, reference \in BOOLEAN :
          candidates[w][<<r, c>>] = RowIn(w, Before(w, r), Votes!Model(c, Before(w, r), draw), reference)
    BY <2>1 DEF RowIsSound
  <2>3. candidates[w][<<r, c>>].votes[v] = Votes!Vote(w, v, reference)
    BY <2>2 DEF RowIn
  <2>4. (~reference) # reference
    OBVIOUS
  <2> QED  BY <2>3, <2>4 DEF Votes!Vote
<1> QED  BY <1>1 DEF Votes!Agreed

LEMMA UpdatedTrust ==
    ASSUME Votes!ComparisonAssumption, GateInv, NEW w \in Votes!Run, NEW r \in Nat,
           r + 1 <= Len(betas[w]),
           \A c \in Learner : <<r, c>> \in DOMAIN candidates[w]
    PROVE  [v \in Voter |-> Votes!Updated(w, r, v)] = TrustAfter(w, r + 1)
<1> DEFINE N == Cardinality(Learner)
<1>1. N \in Nat /\ PriorCount \in Nat /\ Cardinality({}) = 0
  BY FS_CardinalityType, FS_EmptySet, SameFinite DEF Votes!ComparisonAssumption
<1>2. PriorCount + r * N \in Nat /\ PriorCount + r * N + N = PriorCount + (r + 1) * N
  <2>1. \A a, n, p \in Nat : p + a * n \in Nat /\ p + a * n + n = p + (a + 1) * n
    OBVIOUS
  <2> HIDE DEF N
  <2> QED  BY <1>1, <2>1
<1>3. betas[w][r + 1] = TrustAfter(w, r)
  <2>1. r + 1 \in 1..Len(betas[w]) /\ (r + 1) - 1 = r
    <3>1. Len(betas[w]) \in Nat
      BY Appended DEF GateInv, VoteTypes
    <3> QED  BY <3>1
  <2> QED  BY <2>1 DEF GateInv, VoteTrust
<1> SUFFICES ASSUME NEW v \in Voter
             PROVE  Votes!Updated(w, r, v) = TrustAfter(w, r + 1)[v]
  BY DEF TrustAfter
<1>4. CASE v \in Votes!Inverters(w)
  <2>1. Votes!Cardinality(Votes!Agreed(w, r, v)) = 0
    BY <1>1, <1>4, AgreedOn, SameFinite
  <2>2. betas[w][r + 1][v] = Votes!Beta(PriorCount, PriorCount + r * N)
    BY <1>3, <1>4 DEF TrustAfter
  <2>3. betas[w][r + 1][v].alpha = PriorCount /\ betas[w][r + 1][v].beta = PriorCount + r * N
    BY <2>2 DEF Votes!Beta
  <2>4. Votes!Updated(w, r, v) = Votes!Beta(PriorCount + 0, PriorCount + r * N + N - 0)
    BY <2>1, <2>3, SameFinite DEF Votes!Updated
  <2> HIDE DEF N
  <2>5. PriorCount + 0 = PriorCount /\ PriorCount + r * N + N - 0 = PriorCount + (r + 1) * N
    BY <1>1, <1>2
  <2> QED  BY <1>4, <2>4, <2>5 DEF TrustAfter, N
<1>5. CASE v \notin Votes!Inverters(w)
  <2>1. Votes!Cardinality(Votes!Agreed(w, r, v)) = N
    BY <1>5, AgreedOn, SameFinite
  <2>2. betas[w][r + 1][v] = Votes!Beta(PriorCount + r * N, PriorCount)
    BY <1>3, <1>5 DEF TrustAfter
  <2>3. betas[w][r + 1][v].alpha = PriorCount + r * N /\ betas[w][r + 1][v].beta = PriorCount
    BY <2>2 DEF Votes!Beta
  <2>4. Votes!Updated(w, r, v) = Votes!Beta(PriorCount + r * N + N, PriorCount + N - N)
    BY <2>1, <2>3, SameFinite DEF Votes!Updated
  <2> HIDE DEF N
  <2>5. PriorCount + N - N = PriorCount
    BY <1>1
  <2> QED  BY <1>2, <1>5, <2>4, <2>5 DEF TrustAfter, N
<1> QED  BY <1>4, <1>5

\* What is said of rows, rounds and trust depends on nothing else.
LEMMA SameRecords ==
    ASSUME GateInv, UNCHANGED <<policy, noise, candidates, rounds, betas>>
    PROVE  /\ VoteRows' /\ VoteRounds' /\ VoteTrust'
           /\ \A w : Votes!Evidence(w)' = Votes!Evidence(w)
<1>1. \A w, x : Before(w, x)' = Before(w, x)
  BY DEF Before
<1>2. VoteRows'
  <2> SUFFICES ASSUME NEW w \in Votes!Run, NEW k \in DOMAIN candidates[w]
               PROVE  k \in Nat \X Learner /\ k[1] <= Len(rounds[w]) /\ RowIsSound(w, k[1], k[2])'
    BY DEF VoteRows
  <2>1. k \in Nat \X Learner /\ k[1] <= Len(rounds[w]) /\ RowIsSound(w, k[1], k[2])
    BY DEF GateInv, VoteRows
  <2>2. Before(w, k[1])' = Before(w, k[1])
    BY <1>1
  <2>3. RowIsSound(w, k[1], k[2])'
    BY <2>1, <2>2 DEF RowIsSound, RowIn, Votes!AdmittedBy, Votes!Accepts
  <2> QED  BY <2>1, <2>3
<1>3. VoteRounds'
  <2>1. \A w, x : LineFrom(RowsOf(w, x))' = LineFrom(RowsOf(w, x))
    BY DEF RowsOf, LineFrom
  <2> QED  BY <2>1 DEF GateInv, VoteRounds
<1>4. VoteTrust'
  BY DEF GateInv, VoteTrust, TrustAfter
<1>5. \A w : Votes!Evidence(w)' = Votes!Evidence(w)
  BY DEF Votes!Evidence
<1> QED  BY <1>2, <1>3, <1>4, <1>5

\* A round is aggregated, installed and its votes counted, or nothing was admitted.
LEMMA FinishKeeps ==
    ASSUME Votes!ComparisonAssumption, GateInv, Votes!FinishRound
    PROVE  GateInv'
<1> DEFINE r == Votes!Round
           line == LineFrom(RowsOf(run, r))
           counts == [v \in Voter |-> Votes!Updated(run, r, v)]
<1>1. /\ verdict = "running" /\ r <= LastVoted
      /\ \A c \in Learner : <<r, c>> \in DOMAIN candidates[run]
      /\ UNCHANGED <<policy, run, fits, noise, candidates, artifact, lies>>
  BY DEF Votes!FinishRound
<1>2. \/ /\ verdict' = "nothing to aggregate" /\ UNCHANGED <<global, rounds, betas>>
      \/ /\ global' = line.installed /\ verdict' = verdict
         /\ rounds' = [rounds EXCEPT ![run] = Append(@, line)]
         /\ betas' = [betas EXCEPT ![run] = Append(@, counts)]
  <2> DEFINE chosen == {c \in Learner : candidates[run][<<r, c>>].admitted}
             inputs == [c \in chosen |-> candidates[run][<<r, c>>].submitted]
             made == {inputs[c] : c \in chosen}
  <2>1. chosen = {c \in Learner : RowsOf(run, r)[c].admitted}
    BY DEF RowsOf
  <2>2. inputs = [c \in chosen |-> RowsOf(run, r)[c].submitted]
    BY DEF RowsOf
  <2>3. line = [contributors |-> chosen, inputs |-> inputs, installed |-> made,
                at |-> [n \in Votes!Node |-> made]]
    BY <2>1, <2>2 DEF LineFrom
  <2>4. line.installed = made
    BY <2>3
  <2> QED  BY <2>3, <2>4 DEF Votes!FinishRound
<1>3. /\ run \in Votes!Run /\ r = Len(rounds[run]) /\ r \in Nat
      /\ Len(betas[run]) = r + 1
      /\ \A w \in Votes!Run : Len(rounds[w]) \in Nat /\ Len(betas[w]) = Len(rounds[w]) + 1
  BY Appended DEF GateInv, VoteTypes, VoteTrust, Votes!Round
<1>4. CASE verdict' = "nothing to aggregate" /\ UNCHANGED <<global, rounds, betas>>
  <2>1. \A w, x : Before(w, x)' = Before(w, x)
    BY <1>4 DEF Before
  <2>2. VoteTypes'
    BY <1>1, <1>3, <1>4 DEF GateInv, VoteTypes, Written
  <2>3. VoteRows' /\ VoteRounds' /\ VoteTrust'
    BY <1>1, <1>4, SameRecords
  <2>5. VoteProgress'
    BY <1>1, <1>3, <1>4, <2>1 DEF GateInv, VoteProgress, Written
  <2>6. VoteArtifacts'
    BY <1>1, <1>3, <1>4 DEF VoteArtifacts, Written
  <2> QED  BY <2>2, <2>3, <2>5, <2>6 DEF GateInv
<1>5. CASE /\ global' = line.installed /\ verdict' = verdict
           /\ rounds' = [rounds EXCEPT ![run] = Append(@, line)]
           /\ betas' = [betas EXCEPT ![run] = Append(@, counts)]
  <2> HIDE DEF line, counts, r
  <2>1. /\ DOMAIN rounds' = Votes!Run /\ DOMAIN betas' = Votes!Run
        /\ rounds'[run] = Append(rounds[run], line) /\ betas'[run] = Append(betas[run], counts)
        /\ \A w \in Votes!Run \ {run} : rounds'[w] = rounds[w] /\ betas'[w] = betas[w]
    BY <1>3, <1>5 DEF GateInv, VoteTypes
  <2>2. /\ \E S : rounds'[run] \in Seq(S)
        /\ Len(rounds'[run]) = r + 1 /\ rounds'[run][r + 1] = line
        /\ \A i \in 1..r : rounds'[run][i] = rounds[run][i]
    <3>1. \E S : rounds[run] \in Seq(S)
      BY <1>3 DEF GateInv, VoteTypes
    <3>2. /\ \E S : Append(rounds[run], line) \in Seq(S)
          /\ Len(Append(rounds[run], line)) = Len(rounds[run]) + 1
          /\ \A i \in 1..Len(rounds[run]) : Append(rounds[run], line)[i] = rounds[run][i]
          /\ Append(rounds[run], line)[Len(rounds[run]) + 1] = line
      BY <3>1, Appended
    <3> QED  BY <1>3, <2>1, <3>2
  <2>3. /\ \E S : betas'[run] \in Seq(S)
        /\ Len(betas'[run]) = r + 2 /\ betas'[run][r + 2] = counts
        /\ \A i \in 1..r + 1 : betas'[run][i] = betas[run][i]
    <3>1. Len(betas[run]) = r + 1 /\ (r + 1) + 1 = r + 2
      BY <1>3
    <3>3. \E S : betas[run] \in Seq(S)
      BY <1>3 DEF GateInv, VoteTypes
    <3>2. /\ \E S : Append(betas[run], counts) \in Seq(S)
          /\ Len(Append(betas[run], counts)) = Len(betas[run]) + 1
          /\ \A i \in 1..Len(betas[run]) : Append(betas[run], counts)[i] = betas[run][i]
          /\ Append(betas[run], counts)[Len(betas[run]) + 1] = counts
      BY <3>3, Appended
    <3> QED  BY <2>1, <3>1, <3>2
  <2>4. /\ \A x : x = r + 1 => Before(run, x)' = line.installed
        /\ \A w \in Votes!Run, x \in Nat : x <= Len(rounds[w]) => Before(w, x)' = Before(w, x)
    <3>1. r + 1 # 0
      BY <1>3
    <3>2. \A x : x = r + 1 => Before(run, x)' = line.installed
      BY <1>1, <2>2, <3>1 DEF Before
    <3>3. ASSUME NEW w \in Votes!Run, NEW x \in Nat, x <= Len(rounds[w]), x # 0
          PROVE  rounds'[w][x] = rounds[w][x]
      <4>1. w = run => x \in 1..r
        BY <1>3, <3>3
      <4> QED  BY <2>1, <2>2, <4>1
    <3> QED  BY <3>2, <3>3 DEF Before
  <2>5. VoteTypes'
    BY <1>1, <1>3, <1>5, <2>1, <2>2, <2>3 DEF GateInv, VoteTypes
  <2>6. VoteRows'
    <3> SUFFICES ASSUME NEW w \in Votes!Run, NEW k \in DOMAIN candidates[w]
                 PROVE  k \in Nat \X Learner /\ k[1] <= Len(rounds'[w]) /\ RowIsSound(w, k[1], k[2])'
      BY <1>1 DEF VoteRows
    <3>1. k \in Nat \X Learner /\ k[1] <= Len(rounds[w]) /\ RowIsSound(w, k[1], k[2])
      BY DEF GateInv, VoteRows
    <3>2. Before(w, k[1])' = Before(w, k[1])
      BY <2>4, <3>1
    <3>3. k[1] <= Len(rounds'[w])
      BY <1>3, <2>1, <2>2, <3>1
    <3>4. RowIsSound(w, k[1], k[2])'
      BY <1>1, <3>1, <3>2 DEF RowIsSound, RowIn, Votes!AdmittedBy, Votes!Accepts
    <3> QED  BY <3>1, <3>3, <3>4
  <2>7. VoteRounds'
    <3> SUFFICES ASSUME NEW w \in Votes!Run, NEW x \in Nat, x < Len(rounds'[w])
                 PROVE  /\ \A c \in Learner : <<x, c>> \in DOMAIN candidates[w]
                        /\ rounds'[w][x + 1] = LineFrom(RowsOf(w, x))
      <4>1. \A w, x : LineFrom(RowsOf(w, x))' = LineFrom(RowsOf(w, x))
        BY <1>1 DEF RowsOf, LineFrom
      <4> QED  BY <1>1, <4>1 DEF VoteRounds
    <3>1. CASE w = run /\ x = r
      BY <1>1, <2>2, <3>1 DEF line, r
    <3>2. CASE ~(w = run /\ x = r)
      <4>1. x < Len(rounds[w]) /\ rounds'[w][x + 1] = rounds[w][x + 1]
        <5>1. CASE w = run
          <6>1. x < r /\ x + 1 \in 1..r
            BY <1>3, <2>2, <3>2, <5>1
          <6> QED  BY <1>3, <2>2, <5>1, <6>1
        <5> QED  BY <2>1, <5>1
      <4> QED  BY <4>1 DEF GateInv, VoteRounds
    <3> QED  BY <3>1, <3>2
  <2>8. VoteTrust'
    <3>1. counts = TrustAfter(run, r + 1)
      <4>1. r + 1 <= Len(betas[run])
        BY <1>3
      <4> QED  BY <1>1, <1>3, <4>1, UpdatedTrust DEF counts
    <3>2. \A w, x : TrustAfter(w, x)' = TrustAfter(w, x)
      BY DEF TrustAfter
    <3> SUFFICES ASSUME NEW w \in Votes!Run
                 PROVE  /\ Len(betas'[w]) = Len(rounds'[w]) + 1
                        /\ \A i \in 1..Len(betas'[w]) : betas'[w][i] = TrustAfter(w, i - 1)
      BY <3>2 DEF VoteTrust
    <3>3. CASE w # run
      BY <2>1, <3>3 DEF GateInv, VoteTrust
    <3>4. CASE w = run
      <4>1. Len(betas'[w]) = Len(rounds'[w]) + 1
        BY <1>3, <2>2, <2>3, <3>4
      <4>2. ASSUME NEW i \in 1..r + 2 PROVE betas'[w][i] = TrustAfter(w, i - 1)
        <5>1. CASE i = r + 2
          <6>1. i - 1 = r + 1
            BY <1>3, <5>1
          <6> QED  BY <2>3, <3>1, <3>4, <5>1, <6>1
        <5>2. CASE i # r + 2
          <6>1. i \in 1..r + 1 /\ i \in 1..Len(betas[run])
            BY <1>3, <5>2
          <6> QED  BY <2>3, <3>4, <6>1 DEF GateInv, VoteTrust
        <5> QED  BY <5>1, <5>2
      <4> QED  BY <2>3, <3>4, <4>1, <4>2
    <3> QED  BY <3>3, <3>4
  <2>9. VoteProgress'
    <3>1. \A w \in Votes!Run : Len(rounds'[w]) <= LastVoted + 1
      <4>1. LastVoted \in Nat
        BY DEF Votes!ComparisonAssumption
      <4> QED  BY <1>1, <1>3, <2>1, <2>2, <4>1 DEF GateInv, VoteProgress
    <3>2. /\ run = "clean" => Len(rounds'["attacked"]) = 0
          /\ run = "attacked" => Len(rounds'["clean"]) = LastVoted + 1
      BY <2>1 DEF GateInv, VoteProgress, Votes!Run
    <3>3. global' = Before(run, Len(rounds[run]))'
      <4>1. Before(run, Len(rounds[run]))' = line.installed
        BY <1>1, <2>2, <2>4 DEF Before
      <4> QED  BY <1>5, <4>1
    <3>4. verdict' = "running" /\ verdict' \notin Written
      BY <1>1, <1>5 DEF Written
    <3> QED  BY <1>1, <3>1, <3>2, <3>3, <3>4 DEF VoteProgress
  <2>10. VoteArtifacts'
    BY <1>1, <1>3, <1>5 DEF VoteArtifacts, Written
  <2> QED  BY <2>5, <2>6, <2>7, <2>8, <2>9, <2>10 DEF GateInv
<1> QED  BY <1>2, <1>4, <1>5

\* A run ends; after the second the artifacts are written.
LEMMA EndKeeps ==
    ASSUME Votes!ComparisonAssumption, GateInv, Votes!EndRun
    PROVE  GateInv'
<1>1. /\ verdict = "running" /\ Votes!Round > LastVoted
      /\ UNCHANGED <<policy, fits, noise, candidates, rounds, betas, lies>>
      /\ \/ run = "clean" /\ run' = "attacked" /\ global' = Votes!Initial /\ UNCHANGED verdict
         \/ /\ run # "clean" /\ UNCHANGED <<run, global>> /\ verdict' = "written"
            /\ artifact' = [w \in Votes!Run |-> Votes!Evidence(w)]
  BY DEF Votes!EndRun, Votes!truth
<1>2. /\ run \in {"clean", "attacked"} /\ lies = 0
      /\ Len(rounds[run]) = LastVoted + 1
  <2>1. run \in {"clean", "attacked"} /\ lies = 0 /\ Len(rounds[run]) \in Nat /\ LastVoted \in Nat
    BY <1>1, Appended DEF GateInv, VoteTypes, Written, Votes!Run, Votes!ComparisonAssumption
  <2>2. Len(rounds[run]) <= LastVoted + 1 /\ Len(rounds[run]) > LastVoted
    BY <1>1, <2>1 DEF GateInv, VoteProgress, Votes!Round, Votes!Run
  <2> QED  BY <2>1, <2>2
<1>3. VoteRows' /\ VoteRounds' /\ VoteTrust' /\ \A w : Votes!Evidence(w)' = Votes!Evidence(w)
  BY <1>1, SameRecords
<1>4. VoteTypes'
  BY <1>1, <1>2 DEF GateInv, VoteTypes, Written, Votes!Run
<1>5. VoteProgress'
  <2>1. \A w, x : Before(w, x)' = Before(w, x)
    BY <1>1 DEF Before
  <2>2. CASE run = "clean"
    <3>1. run' = "attacked" /\ Len(rounds'["attacked"]) = 0 /\ global' = Votes!Initial /\ verdict' = "running"
      BY <1>1, <2>2 DEF GateInv, VoteProgress
    <3>2. global' = Before(run, Len(rounds[run]))'
      BY <3>1 DEF Before
    <3> QED  BY <1>1, <1>2, <2>2, <3>1, <3>2 DEF GateInv, VoteProgress, Written, Votes!Run
  <2>3. CASE run = "attacked"
    BY <1>1, <1>2, <2>1, <2>3 DEF GateInv, VoteProgress, Written, Votes!Run
  <2> QED  BY <1>2, <2>2, <2>3
<1>6. VoteArtifacts'
  <2>1. CASE verdict' = "running"
    BY <2>1 DEF VoteArtifacts, Written
  <2>2. CASE verdict' = "written" /\ artifact' = [w \in Votes!Run |-> Votes!Evidence(w)]
    <3>1. artifact' = [w \in Votes!Run |-> Votes!Evidence(w)']
      BY <1>3, <2>2
    <3>2. lies' = 0
      BY <1>1, <1>2
    <3> QED  BY <2>2, <3>1, <3>2 DEF VoteArtifacts
  <2> QED  BY <1>1, <1>2, <2>1, <2>2
<1> QED  BY <1>3, <1>4, <1>5, <1>6 DEF GateInv

\* A field of an artifact is altered.
LEMMA LieKeeps ==
    ASSUME Votes!ComparisonAssumption, MaxLies <= 1, GateInv, Votes!Lie
    PROVE  GateInv'
<1>w. PICK w \in Votes!Run : \E a \in Votes!Altered(artifact[w]) :
                artifact' = [artifact EXCEPT ![w] = a]
  BY DEF Votes!Lie
<1>1. PICK a \in Votes!Altered(artifact[w]) : artifact' = [artifact EXCEPT ![w] = a]
  BY <1>w
<1>2. /\ verdict = "written" /\ lies < MaxLies /\ lies' = lies + 1
      /\ UNCHANGED <<policy, run, global, fits, noise, candidates, rounds, betas, verdict>>
  BY DEF Votes!Lie, Votes!truth
<1>3. lies = 0 /\ lies' = 1
  <2>1. lies \in 0..1 /\ MaxLies \in Nat
    BY DEF GateInv, VoteTypes, Votes!ComparisonAssumption
  <2> QED  BY <1>2, <2>1
<1>4. VoteRows' /\ VoteRounds' /\ VoteTrust' /\ \A x : Votes!Evidence(x)' = Votes!Evidence(x)
  BY <1>2, SameRecords
<1>5. VoteTypes' /\ VoteProgress'
  <2>1. VoteTypes'
    BY <1>2, <1>3 DEF GateInv, VoteTypes, Written
  <2>2. VoteProgress'
    BY <1>2 DEF GateInv, VoteProgress, Written, Before
  <2> QED  BY <2>1, <2>2
<1>6. VoteArtifacts'
  <2>1. artifact = [x \in Votes!Run |-> Votes!Evidence(x)]
    BY <1>2, <1>3 DEF GateInv, VoteArtifacts, Written
  <2>2. a \in Votes!Altered(Votes!Evidence(w))
    BY <1>1, <2>1
  <2>3. artifact' = [x \in Votes!Run |-> IF x = w THEN a ELSE Votes!Evidence(x)]
    BY <1>1, <2>1
  <2>4. OneLie(w, a)'
    <3>1. Votes!Altered(Votes!Evidence(w))' = Votes!Altered(Votes!Evidence(w))
      BY <1>4
    <3> QED  BY <1>4, <2>2, <2>3, <3>1 DEF OneLie
  <2> QED  BY <1>2, <1>3, <2>4 DEF VoteArtifacts, Written
<1> QED  BY <1>4, <1>5, <1>6 DEF GateInv

\* The comparator reads the artifacts.
LEMMA ComparisonKeeps ==
    ASSUME Votes!ComparisonAssumption, GateInv, Votes!Compare
    PROVE  GateInv'
<1>1. /\ verdict = "written"
      /\ verdict' = IF Votes!Proven(artifact["clean"], artifact["attacked"]) THEN "proven" ELSE "not proven"
      /\ UNCHANGED <<policy, run, global, fits, noise, candidates, rounds, betas, artifact, lies>>
  BY DEF Votes!Compare, Votes!truth
<1>2. VoteRows' /\ VoteRounds' /\ VoteTrust' /\ \A x : Votes!Evidence(x)' = Votes!Evidence(x)
  BY <1>1, SameRecords
<1>3. verdict' \in {"proven", "not proven"}
  BY <1>1
<1>4. VoteTypes' /\ VoteProgress'
  <2>1. VoteTypes'
    BY <1>1, <1>3 DEF GateInv, VoteTypes, Written
  <2>2. VoteProgress'
    BY <1>1, <1>3 DEF GateInv, VoteProgress, Written, Before
  <2> QED  BY <2>1, <2>2
<1>5. VoteArtifacts'
  <2>1. \A x, a : OneLie(x, a)' = OneLie(x, a)
    <3>1. \A x : Votes!Altered(Votes!Evidence(x))' = Votes!Altered(Votes!Evidence(x))
      BY <1>2
    <3> QED  BY <1>1, <1>2, <3>1 DEF OneLie
  <2>2. \A x, y : Votes!Proven(x, y)' = Votes!Proven(x, y)
    OBVIOUS
  <2> QED  BY <1>1, <1>2, <1>3, <2>1, <2>2 DEF GateInv, VoteArtifacts, Written
<1> QED  BY <1>2, <1>4, <1>5 DEF GateInv

LEMMA VoteKept ==
    ASSUME Votes!ComparisonAssumption, MaxLies <= 1, GateInv, [Votes!Next]_(Votes!vars)
    PROVE  GateInv'
<1>1. CASE \E c \in Learner : Votes!Submit(c)
  BY <1>1, SubmitKeeps
<1>2. CASE Votes!FinishRound
  BY <1>2, FinishKeeps
<1>3. CASE Votes!EndRun
  BY <1>3, EndKeeps
<1>4. CASE Votes!Lie
  BY <1>4, LieKeeps
<1>5. CASE Votes!Compare
  BY <1>5, ComparisonKeeps
<1>6. CASE UNCHANGED Votes!vars
  <2>1. UNCHANGED <<policy, run, global, fits, noise, candidates, rounds, betas, artifact, lies, verdict>>
    BY <1>6 DEF Votes!vars, Votes!truth
  <2>2. VoteRows' /\ VoteRounds' /\ VoteTrust' /\ \A x : Votes!Evidence(x)' = Votes!Evidence(x)
    BY <2>1, SameRecords
  <2>3. VoteTypes' /\ VoteProgress'
    BY <2>1 DEF GateInv, VoteTypes, VoteProgress, Before
  <2>4. VoteArtifacts'
    <3>1. \A x, a : OneLie(x, a)' = OneLie(x, a)
      <4>1. \A x : Votes!Altered(Votes!Evidence(x))' = Votes!Altered(Votes!Evidence(x))
        BY <2>2
      <4> QED  BY <2>1, <2>2, <4>1 DEF OneLie
    <3> QED  BY <2>1, <2>2, <3>1 DEF GateInv, VoteArtifacts
  <2> QED  BY <2>2, <2>3, <2>4 DEF GateInv
<1> QED  BY <1>1, <1>2, <1>3, <1>4, <1>5, <1>6 DEF Votes!Next

\* The inductive invariant of the pair under the gate.
THEOREM VoteInvariance ==
    ASSUME Votes!ComparisonAssumption, MaxLies <= 1
    PROVE  Votes!Spec => []GateInv
<1> QED  BY VoteStart, VoteKept, PTL DEF Votes!Spec

-----------------------------------------------------------------------------
\* What an altered field leaves as it was.

LEMMA RowsOnly ==
    ASSUME NEW e, NEW k, NEW a \in Votes!RowAltered(e, k)
    PROVE  \E x : a = [e EXCEPT !.rows = x]
<1>1. CASE a \in {[e EXCEPT !.rows[k].submitted = Votes!Other], [e EXCEPT !.rows[k].parent = Votes!NoModel],
                  [e EXCEPT !.rows[k].admitted = ~@], [e EXCEPT !.rows[k].reached = ~@],
                  [e EXCEPT !.rows[k].input = Votes!Other]}
  BY <1>1
<1>2. CASE \E v \in Voter :
             a \in {[e EXCEPT !.rows[k].votes[v].reported = ~@],
                    [e EXCEPT !.rows[k].votes[v].reference = ~@],
                    [e EXCEPT !.rows[k].votes[v].applied = 1 - @]}
  BY <1>2
<1> QED  BY <1>1, <1>2 DEF Votes!RowAltered

LEMMA RoundsOnly ==
    ASSUME NEW e, NEW i, NEW a \in Votes!RoundAltered(e, i)
    PROVE  \E x : a \in {[e EXCEPT !.rounds[i].contributors = x], [e EXCEPT !.rounds[i].installed = x],
                         [e EXCEPT !.rounds[i].at = x]}
<1>1. CASE a \in {[e EXCEPT !.rounds[i].contributors = Learner \ @],
                  [e EXCEPT !.rounds[i].installed = Votes!NoModel]}
  BY <1>1
<1>2. CASE \E n \in Votes!Node : a = [e EXCEPT !.rounds[i].at[n] = Votes!NoModel]
  BY <1>2
<1> QED  BY <1>1, <1>2 DEF Votes!RoundAltered

LEMMA TrustOnly ==
    ASSUME NEW e, NEW i, NEW a \in Votes!TrustAltered(e, i)
    PROVE  \E x : a = [e EXCEPT !.trust = x]
  BY DEF Votes!TrustAltered

LEMMA OneFieldOnly ==
    ASSUME NEW e, NEW a \in Votes!Altered(e)
    PROVE  \/ \E x : a \in {[e EXCEPT !.controlled = x], [e EXCEPT !.rows = x], [e EXCEPT !.final = x]}
           \/ \E i \in DOMAIN e.rounds : \E x :
                 a \in {[e EXCEPT !.rounds[i].contributors = x], [e EXCEPT !.rounds[i].installed = x],
                        [e EXCEPT !.rounds[i].at = x]}
           \/ \E i \in DOMAIN e.trust : a \in Votes!TrustAltered(e, i)
<1>1. CASE a = [e EXCEPT !.controlled = "other"]
  BY <1>1
<1>2. CASE \E k \in DOMAIN e.rows : a \in Votes!RowAltered(e, k)
  BY <1>2, RowsOnly
<1>3. CASE \E i \in DOMAIN e.rounds : a \in Votes!RoundAltered(e, i)
  BY <1>3, RoundsOnly
<1>4. CASE \E i \in DOMAIN e.trust : a \in Votes!TrustAltered(e, i)
  BY <1>4
<1>5. CASE \E v \in Voter : a = [e EXCEPT !.final[v].score = <<0, 1>>]
  BY <1>5
<1>6. a \in {[e EXCEPT !.final[v].score = <<0, 1>>] : v \in Voter}
         => \E v \in Voter : a = [e EXCEPT !.final[v].score = <<0, 1>>]
  OBVIOUS
<1>7. \/ a \in {[e EXCEPT !.controlled = "other"]}
      \/ a \in UNION {Votes!RowAltered(e, k) : k \in DOMAIN e.rows}
      \/ a \in UNION {Votes!RoundAltered(e, i) : i \in DOMAIN e.rounds}
      \/ a \in UNION {Votes!TrustAltered(e, i) : i \in DOMAIN e.trust}
      \/ a \in {[e EXCEPT !.final[v].score = <<0, 1>>] : v \in Voter}
  BY DEF Votes!Altered
<1>8. /\ a \in UNION {Votes!RowAltered(e, k) : k \in DOMAIN e.rows}
            => \E k \in DOMAIN e.rows : a \in Votes!RowAltered(e, k)
      /\ a \in UNION {Votes!RoundAltered(e, i) : i \in DOMAIN e.rounds}
            => \E i \in DOMAIN e.rounds : a \in Votes!RoundAltered(e, i)
      /\ a \in UNION {Votes!TrustAltered(e, i) : i \in DOMAIN e.trust}
            => \E i \in DOMAIN e.trust : a \in Votes!TrustAltered(e, i)
  OBVIOUS
<1> QED  BY <1>1, <1>2, <1>3, <1>4, <1>5, <1>6, <1>7, <1>8

\* The artifact of a run, with one field altered or none.
Possible(w) == {Votes!Evidence(w)} \cup Votes!Altered(Votes!Evidence(w))

LEMMA ArtifactIsPossible ==
    ASSUME GateInv, verdict \in Written, NEW w \in Votes!Run
    PROVE  artifact[w] \in Possible(w)
<1>1. lies \in {0, 1}
  <2>1. lies \in 0..1
    BY DEF GateInv, VoteTypes
  <2> QED  BY <2>1
<1> QED  BY <1>1 DEF GateInv, VoteArtifacts, OneLie, Possible

LEMMA AdmittedIsTold ==
    ASSUME GateInv, NEW w \in Votes!Run, NEW r, NEW c, RowIsSound(w, r, c)
    PROVE  candidates[w][<<r, c>>].admitted \in BOOLEAN
<1>1. PICK parent, update, reference : candidates[w][<<r, c>>] = RowIn(w, parent, update, reference)
  BY DEF RowIsSound
<1>2. candidates[w][<<r, c>>].admitted = Votes!AdmittedBy([v \in Voter |-> Votes!Vote(w, v, reference)])
  BY <1>1 DEF RowIn
<1>3. \A votes : Votes!AdmittedBy(votes) \in BOOLEAN
  BY DEF Votes!AdmittedBy
<1> QED  BY <1>2, <1>3

LEMMA RoundsOfEvidence ==
    ASSUME Votes!ComparisonAssumption, GateInv, verdict \in Written, NEW w \in Votes!Run
    PROVE  /\ DOMAIN rounds[w] = 1..LastVoted + 1 /\ LastVoted \in Nat
           /\ \A r \in 0..LastVoted :
                 /\ rounds[w][r + 1] = LineFrom(RowsOf(w, r))
                 /\ \A c \in Learner : <<r, c>> \in DOMAIN candidates[w] /\ RowIsSound(w, r, c)
<1>1. LastVoted \in Nat /\ Len(rounds[w]) = LastVoted + 1
  BY DEF Votes!ComparisonAssumption, GateInv, VoteProgress
<1>2. DOMAIN rounds[w] = 1..LastVoted + 1
  <2>1. PICK S : rounds[w] \in Seq(S)
    BY DEF GateInv, VoteTypes
  <2> QED  BY <1>1, <2>1
<1>3. ASSUME NEW r \in 0..LastVoted
      PROVE  /\ rounds[w][r + 1] = LineFrom(RowsOf(w, r))
             /\ \A c \in Learner : <<r, c>> \in DOMAIN candidates[w]
  BY <1>1 DEF GateInv, VoteRounds
<1>4. ASSUME NEW r, NEW c, <<r, c>> \in DOMAIN candidates[w] PROVE RowIsSound(w, r, c)
  <2>1. <<r, c>>[1] = r /\ <<r, c>>[2] = c
    OBVIOUS
  <2> QED  BY <1>4, <2>1 DEF GateInv, VoteRows
<1> QED  BY <1>1, <1>2, <1>3, <1>4

\* The inputs of a round cannot be altered, nor its model both where it is made and
\* where it is installed.
LEMMA RoundsAreKept ==
    ASSUME Votes!ComparisonAssumption, GateInv, verdict \in Written,
           NEW w \in Votes!Run, NEW a \in Possible(w)
    PROVE  /\ DOMAIN a.rounds = 1..LastVoted + 1
           /\ \A i \in 1..LastVoted + 1 :
                 /\ a.rounds[i].inputs = rounds[w][i].inputs
                 /\ a.rounds[i].installed = rounds[w][i].installed \/ a.rounds[i].at = rounds[w][i].at
<1> DEFINE e == Votes!Evidence(w)
<1>1. e.rounds = rounds[w]
  BY DEF Votes!Evidence
<1>2. DOMAIN e = {"controlled", "rows", "rounds", "trust", "final"}
  BY DEF Votes!Evidence
<1>3. DOMAIN rounds[w] = 1..LastVoted + 1
  BY RoundsOfEvidence
<1>4. ASSUME NEW i \in 1..LastVoted + 1
      PROVE  DOMAIN rounds[w][i] = {"contributors", "inputs", "installed", "at"}
  <2>1. i - 1 \in 0..LastVoted /\ (i - 1) + 1 = i
    BY RoundsOfEvidence
  <2>2. rounds[w][i] = LineFrom(RowsOf(w, i - 1))
    BY <2>1, RoundsOfEvidence
  <2> QED  BY <2>2 DEF LineFrom
<1> HIDE DEF e
<1>5. CASE a = e \/ \E x : a \in {[e EXCEPT !.controlled = x], [e EXCEPT !.rows = x],
                                  [e EXCEPT !.final = x], [e EXCEPT !.trust = x]}
  <2>1. a.rounds = e.rounds
    BY <1>2, <1>5
  <2> QED  BY <1>1, <1>3, <2>1
<1>6. CASE \E i \in DOMAIN e.rounds : \E x :
              a \in {[e EXCEPT !.rounds[i].contributors = x], [e EXCEPT !.rounds[i].installed = x],
                     [e EXCEPT !.rounds[i].at = x]}
  <2>i. PICK i \in 1..LastVoted + 1 : \E x :
              a \in {[e EXCEPT !.rounds[i].contributors = x], [e EXCEPT !.rounds[i].installed = x],
                     [e EXCEPT !.rounds[i].at = x]}
    BY <1>1, <1>3, <1>6
  <2>1. PICK x :
              a \in {[e EXCEPT !.rounds[i].contributors = x], [e EXCEPT !.rounds[i].installed = x],
                     [e EXCEPT !.rounds[i].at = x]}
    BY <2>i
  <2>2. a.rounds \in {[rounds[w] EXCEPT ![i].contributors = x], [rounds[w] EXCEPT ![i].installed = x],
                      [rounds[w] EXCEPT ![i].at = x]}
    BY <1>1, <1>2, <2>1
  <2>3. DOMAIN a.rounds = 1..LastVoted + 1
    BY <1>3, <2>2
  <2>4. ASSUME NEW j \in 1..LastVoted + 1, j # i PROVE a.rounds[j] = rounds[w][j]
    BY <1>3, <2>2, <2>4
  <2>5. a.rounds[i] \in {[rounds[w][i] EXCEPT !.contributors = x], [rounds[w][i] EXCEPT !.installed = x],
                         [rounds[w][i] EXCEPT !.at = x]}
    BY <1>3, <2>2
  <2>6. /\ a.rounds[i].inputs = rounds[w][i].inputs
        /\ a.rounds[i].installed = rounds[w][i].installed \/ a.rounds[i].at = rounds[w][i].at
    BY <1>4, <2>5
  <2> QED  BY <2>3, <2>4, <2>6
<1>7. CASE \E i \in DOMAIN e.trust : a \in Votes!TrustAltered(e, i)
  BY <1>5, <1>7, TrustOnly
<1> QED  BY <1>5, <1>6, <1>7, OneFieldOnly DEF Possible, e

\* What a valid artifact says of round 0 is so, as far as the claim reads it.
LEMMA ValidIsTrue ==
    ASSUME Votes!ComparisonAssumption, GateInv, verdict \in Written,
           NEW w \in Votes!Run, NEW a \in Possible(w), Votes!RunIsValid(a)
    PROVE  /\ DOMAIN a.rounds = 1..LastVoted + 1
           /\ a.rounds[1].installed = rounds[w][1].installed
           /\ \A c \in Learner :
                 /\ a.rows[<<0, c>>].admitted = Votes!Candidate(w, c).admitted
                 /\ Votes!Candidate(w, c).admitted =>
                       a.rows[<<0, c>>].submitted = Votes!Candidate(w, c).submitted
<1>1. LastVoted \in Nat /\ 1 \in 1..LastVoted + 1 /\ 0 \in 0..LastVoted
  BY RoundsOfEvidence
<1>2. /\ DOMAIN a.rounds = 1..LastVoted + 1
      /\ a.rounds[1].inputs = rounds[w][1].inputs
      /\ a.rounds[1].installed = rounds[w][1].installed \/ a.rounds[1].at = rounds[w][1].at
  BY <1>1, RoundsAreKept
<1>3. rounds[w][1] = LineFrom(RowsOf(w, 0))
  BY <1>1, RoundsOfEvidence
<1> DEFINE chosen == {c \in Learner : Votes!Candidate(w, c).admitted}
<1>4. /\ rounds[w][1].inputs = [c \in chosen |-> Votes!Candidate(w, c).submitted]
      /\ \A n \in Votes!Node : rounds[w][1].at[n] = rounds[w][1].installed
  <2>1. {c \in Learner : RowsOf(w, 0)[c].admitted} = chosen
    BY DEF RowsOf, Votes!Candidate
  <2>2. [c \in chosen |-> RowsOf(w, 0)[c].submitted] = [c \in chosen |-> Votes!Candidate(w, c).submitted]
    BY DEF RowsOf, Votes!Candidate
  <2> QED  BY <1>3, <2>1, <2>2 DEF LineFrom
<1>5. a.rounds[1].installed = rounds[w][1].installed
  <2>1. PICK n \in Votes!Node : TRUE
    BY DEF Votes!ComparisonAssumption, Votes!Node
  <2>2. a.rounds[1].at[n] = a.rounds[1].installed
    BY <1>1, <1>2, <2>1 DEF Votes!RunIsValid, Votes!InstalledEverywhere
  <2> QED  BY <1>2, <1>4, <2>1, <2>2
<1>6. ASSUME NEW c \in Learner
      PROVE  /\ a.rows[<<0, c>>].admitted = Votes!Candidate(w, c).admitted
             /\ Votes!Candidate(w, c).admitted =>
                   a.rows[<<0, c>>].submitted = Votes!Candidate(w, c).submitted
  <2>1. Votes!AdmissionAgrees(a.rows[<<0, c>>], a.rounds[1], c)
    <3>1. <<0, c>> \in Votes!Keys /\ <<0, c>>[1] + 1 = 1 /\ <<0, c>>[2] = c
      BY <1>1 DEF Votes!Keys
    <3> QED  BY <3>1 DEF Votes!RunIsValid
  <2>2. /\ a.rows[<<0, c>>].admitted = (c \in DOMAIN a.rounds[1].inputs)
        /\ a.rows[<<0, c>>].admitted => a.rounds[1].inputs[c] = a.rows[<<0, c>>].submitted
    BY <2>1 DEF Votes!AdmissionAgrees
  <2>3. c \in DOMAIN a.rounds[1].inputs <=> Votes!Candidate(w, c).admitted
    BY <1>2, <1>4
  <2>4. c \in chosen => a.rounds[1].inputs[c] = Votes!Candidate(w, c).submitted
    BY <1>2, <1>4
  <2>5. Votes!Candidate(w, c).admitted \in BOOLEAN
    BY <1>1, RoundsOfEvidence, AdmittedIsTold DEF Votes!Candidate
  <2>6. a.rows[<<0, c>>].admitted = Votes!Candidate(w, c).admitted
    BY <2>2, <2>3, <2>5
  <2> QED  BY <2>2, <2>4, <2>6
<1> QED  BY <1>2, <1>5, <1>6

LEMMA CauseFromProof == ASSUME Votes!ComparisonAssumption, GateInv PROVE Votes!ProvenIsCaused
<1> SUFFICES ASSUME verdict = "proven"
             PROVE  /\ rounds["clean"][1].installed # rounds["attacked"][1].installed
                    /\ \E c \in Learner :
                          Votes!Candidate("clean", c).admitted # Votes!Candidate("attacked", c).admitted
                    /\ \A c \in Learner :
                          Votes!Candidate("clean", c).admitted /\ Votes!Candidate("attacked", c).admitted =>
                              Votes!Candidate("clean", c).submitted = Votes!Candidate("attacked", c).submitted
  BY DEF Votes!ProvenIsCaused
<1> DEFINE a == artifact["clean"]
           b == artifact["attacked"]
<1>1. Votes!Proven(a, b)
  BY DEF GateInv, VoteArtifacts
<1>2. /\ "clean" \in Votes!Run /\ "attacked" \in Votes!Run /\ verdict \in Written
      /\ a \in Possible("clean") /\ b \in Possible("attacked")
  BY ArtifactIsPossible DEF Votes!Run, Written
<1> HIDE DEF a, b
<1>3. Votes!RunIsValid(a) /\ Votes!RunIsValid(b) /\ Votes!SameUntilDiverged(a, b) /\ Votes!OneRoundOfCauses(a, b)
  BY <1>1 DEF Votes!Proven
<1>4. /\ DOMAIN a.rounds = 1..LastVoted + 1 /\ DOMAIN b.rounds = 1..LastVoted + 1
      /\ a.rounds[1].installed = rounds["clean"][1].installed
      /\ b.rounds[1].installed = rounds["attacked"][1].installed
      /\ \A c \in Learner :
            /\ a.rows[<<0, c>>].admitted = Votes!Candidate("clean", c).admitted
            /\ b.rows[<<0, c>>].admitted = Votes!Candidate("attacked", c).admitted
            /\ Votes!Candidate("clean", c).admitted =>
                  a.rows[<<0, c>>].submitted = Votes!Candidate("clean", c).submitted
            /\ Votes!Candidate("attacked", c).admitted =>
                  b.rows[<<0, c>>].submitted = Votes!Candidate("attacked", c).submitted
  BY <1>2, <1>3, ValidIsTrue
<1>5. rounds["clean"][1].installed # rounds["attacked"][1].installed
  <2>1. PICK j \in 1..LastVoted + 1 : j - 1 = 0 /\ a.rounds[j].installed # b.rounds[j].installed
    BY <1>3, <1>4 DEF Votes!OneRoundOfCauses, Votes!ModelsDiffer
  <2>2. j = 1
    BY <2>1
  <2> QED  BY <1>4, <2>1, <2>2
<1>6. \E c \in Learner : Votes!Candidate("clean", c).admitted # Votes!Candidate("attacked", c).admitted
  <2>1. PICK c \in Learner : a.rows[<<0, c>>].admitted # b.rows[<<0, c>>].admitted
    BY <1>3 DEF Votes!OneRoundOfCauses, Votes!AdmissionsDiffer
  <2> QED  BY <1>4, <2>1
<1>7. ASSUME NEW c \in Learner,
             Votes!Candidate("clean", c).admitted, Votes!Candidate("attacked", c).admitted
      PROVE  Votes!Candidate("clean", c).submitted = Votes!Candidate("attacked", c).submitted
  <2>1. \A r \in Votes!ModelsDiffer(a, b) : r >= 0
    BY <1>4 DEF Votes!ModelsDiffer
  <2>2. <<0, c>> \in Votes!Keys /\ <<0, c>>[1] = 0
    BY <1>2, RoundsOfEvidence DEF Votes!Keys
  <2>3. a.rows[<<0, c>>].submitted = b.rows[<<0, c>>].submitted
    BY <1>3, <2>1, <2>2 DEF Votes!SameUntilDiverged
  <2> QED  BY <1>4, <1>7, <2>3
<1> QED  BY <1>5, <1>6, <1>7

\* A row as its gate wrote it.
LEMMA GateRow ==
    ASSUME NEW w, NEW r, NEW c, RowIsSound(w, r, c)
    PROVE  LET row == candidates[w][<<r, c>>] IN
           /\ row.parent = Before(w, r)
           /\ noise = {} => row.submitted = Votes!Model(c, Before(w, r), 0)
           /\ row.submitted.by = c
           /\ row.admitted \in BOOLEAN /\ row.reached = row.admitted
           /\ row.input = IF row.admitted THEN row.submitted ELSE Votes!Other
           /\ \E reference \in BOOLEAN :
                 \A v \in Voter : row.votes[v] = Votes!Vote(w, v, reference)
<1>1. PICK draw \in 0..1, reference \in BOOLEAN :
        /\ draw = 1 => noise # {}
        /\ candidates[w][<<r, c>>] =
              RowIn(w, Before(w, r), Votes!Model(c, Before(w, r), draw), reference)
  BY DEF RowIsSound
<1> DEFINE row == candidates[w][<<r, c>>]
           votes == [v \in Voter |-> Votes!Vote(w, v, reference)]
<1>2. /\ row.parent = Before(w, r) /\ row.submitted = Votes!Model(c, Before(w, r), draw)
      /\ row.votes = votes /\ row.admitted = Votes!AdmittedBy(votes)
      /\ row.reached = row.admitted
      /\ row.input = IF row.admitted THEN row.submitted ELSE Votes!Other
  BY <1>1 DEF RowIn
<1>3. noise = {} => draw = 0
  BY <1>1
<1>4. Votes!AdmittedBy(votes) \in BOOLEAN
  BY DEF Votes!AdmittedBy
<1>5. row.submitted.by = c
  BY <1>2 DEF Votes!Model
<1>6. \A v \in Voter : row.votes[v] = Votes!Vote(w, v, reference)
  BY <1>2
<1> QED  BY <1>2, <1>3, <1>4, <1>5, <1>6

LEMMA EvidenceIsValid ==
    ASSUME Votes!ComparisonAssumption, GateInv, verdict \in Written, NEW w \in Votes!Run
    PROVE  Votes!RunIsValid(Votes!Evidence(w))
<1> DEFINE a == Votes!Evidence(w)
<1>1. a.rows = candidates[w] /\ a.rounds = rounds[w]
  BY DEF Votes!Evidence
<1>2. LastVoted \in Nat /\ DOMAIN rounds[w] = 1..LastVoted + 1
  BY RoundsOfEvidence
<1> HIDE DEF a
<1>3. ASSUME NEW k \in Votes!Keys
      PROVE  /\ Votes!AdmissionAgrees(a.rows[k], a.rounds[k[1] + 1], k[2])
             /\ k[1] > 0 => a.rows[k].parent = a.rounds[k[1]].installed
  <2>1. PICK r \in 0..LastVoted, c \in Learner : k = <<r, c>>
    BY DEF Votes!Keys
  <2>2. k[1] = r /\ k[2] = c
    BY <2>1
  <2>3. RowIsSound(w, r, c) /\ rounds[w][r + 1] = LineFrom(RowsOf(w, r))
    BY RoundsOfEvidence
  <2> DEFINE row == candidates[w][<<r, c>>]
             line == rounds[w][r + 1]
  <2>4. /\ row.parent = Before(w, r) /\ row.admitted \in BOOLEAN /\ row.reached = row.admitted
        /\ row.input = IF row.admitted THEN row.submitted ELSE Votes!Other
    BY <2>3, GateRow
  <2>5. RowsOf(w, r)[c] = row
    BY DEF RowsOf
  <2>6. /\ c \in line.contributors <=> row.admitted
        /\ c \in DOMAIN line.inputs <=> row.admitted
        /\ row.admitted => line.inputs[c] = row.submitted
    BY <2>3, <2>5 DEF LineFrom
  <2>7. Votes!AdmissionAgrees(row, line, c)
    BY <2>4, <2>6 DEF Votes!AdmissionAgrees
  <2>8. r > 0 => row.parent = rounds[w][r].installed
    BY <2>4 DEF Before
  <2> QED  BY <1>1, <2>1, <2>2, <2>7, <2>8
<1>4. ASSUME NEW i \in DOMAIN a.rounds
      PROVE  Votes!InstalledEverywhere(a.rounds[i]) /\ a.rounds[i].contributors \subseteq Learner
  <2>1. i - 1 \in 0..LastVoted /\ (i - 1) + 1 = i
    BY <1>1, <1>2
  <2>2. a.rounds[i] = LineFrom(RowsOf(w, i - 1))
    BY <1>1, <2>1, RoundsOfEvidence
  <2> QED  BY <2>2 DEF LineFrom, Votes!InstalledEverywhere
<1> QED  BY <1>3, <1>4 DEF Votes!RunIsValid, a

LEMMA ProofOfGenuine == ASSUME Votes!ComparisonAssumption, GateInv PROVE Votes!GenuineIsProven
<1> DEFINE a == Votes!Evidence("clean")
           b == Votes!Evidence("attacked")
<1>0. SUFFICES ASSUME verdict = "not proven", lies = 0, noise = {},
                    NEW c \in Learner,
                    Votes!Candidate("clean", c).admitted # Votes!Candidate("attacked", c).admitted,
                    \A k \in Votes!Keys, v \in Voter :
                        candidates["clean"][k].votes[v].reference = candidates["attacked"][k].votes[v].reference
             PROVE  FALSE
  BY DEF Votes!GenuineIsProven
<1>1. "clean" \in Votes!Run /\ "attacked" \in Votes!Run /\ verdict \in Written
  BY <1>0 DEF Votes!Run, Written
<1>2. ~Votes!Proven(a, b)
  <2>1. artifact["clean"] = a /\ artifact["attacked"] = b
    BY <1>0, <1>1 DEF GateInv, VoteArtifacts
  <2> QED  BY <1>0, <2>1 DEF GateInv, VoteArtifacts
<1>3. /\ a.controlled = b.controlled
      /\ a.rows = candidates["clean"] /\ b.rows = candidates["attacked"]
      /\ a.rounds = rounds["clean"] /\ b.rounds = rounds["attacked"]
  BY DEF Votes!Evidence
<1>4. Votes!RunIsValid(a) /\ Votes!RunIsValid(b)
  BY <1>1, EvidenceIsValid
<1> HIDE DEF a, b
<1>5. LastVoted \in Nat /\ 0 \in 0..LastVoted
  BY <1>1, RoundsOfEvidence
<1>6. ASSUME NEW w \in Votes!Run, NEW d \in Learner
      PROVE  /\ candidates[w][<<0, d>>].parent = Votes!Initial
             /\ candidates[w][<<0, d>>].submitted = Votes!Model(d, Votes!Initial, 0)
             /\ candidates[w][<<0, d>>].admitted \in BOOLEAN
  <2>1. RowIsSound(w, 0, d)
    BY <1>1, <1>5, RoundsOfEvidence
  <2>2. noise = {} /\ Before(w, 0) = Votes!Initial
    BY <1>0 DEF Before
  <2> QED  BY <2>1, <2>2, GateRow
<1>7. ASSUME NEW w \in Votes!Run
      PROVE  LET chosen == {d \in Learner : candidates[w][<<0, d>>].admitted} IN
             /\ rounds[w][1].contributors = chosen
             /\ rounds[w][1].installed = {Votes!Model(d, Votes!Initial, 0) : d \in chosen}
             /\ DOMAIN rounds[w] = 1..LastVoted + 1
  <2> DEFINE chosen == {d \in Learner : candidates[w][<<0, d>>].admitted}
             inputs == [d \in chosen |-> RowsOf(w, 0)[d].submitted]
  <2>1. rounds[w][1] = LineFrom(RowsOf(w, 0)) /\ DOMAIN rounds[w] = 1..LastVoted + 1
    BY <1>1, <1>5, RoundsOfEvidence
  <2>2. {d \in Learner : RowsOf(w, 0)[d].admitted} = chosen
    BY DEF RowsOf
  <2>3. rounds[w][1].contributors = chosen /\ rounds[w][1].installed = {inputs[d] : d \in chosen}
    <3>1. rounds[w][1] = [contributors |-> chosen, inputs |-> inputs, installed |-> {inputs[d] : d \in chosen},
                          at |-> [n \in Votes!Node |-> {inputs[d] : d \in chosen}]]
      BY <2>1, <2>2 DEF LineFrom
    <3> QED  BY <3>1
  <2>4. \A d \in chosen : inputs[d] = Votes!Model(d, Votes!Initial, 0)
    BY <1>6 DEF RowsOf
  <2> HIDE DEF inputs
  <2> QED  BY <2>1, <2>3, <2>4
<1>8. /\ candidates["clean"][<<0, c>>].admitted # candidates["attacked"][<<0, c>>].admitted
      /\ candidates["clean"][<<0, c>>].admitted \in BOOLEAN
      /\ candidates["attacked"][<<0, c>>].admitted \in BOOLEAN
  BY <1>0, <1>1, <1>6 DEF Votes!Candidate
<1>9. Votes!OneRoundOfCauses(a, b)
  <2>1. <<0, c>> \in Votes!AdmissionsDiffer(a, b)
    BY <1>3, <1>5, <1>8 DEF Votes!AdmissionsDiffer, Votes!Keys
  <2>2. rounds["clean"][1].contributors # rounds["attacked"][1].contributors
    BY <1>1, <1>7, <1>8
  <2>3. rounds["clean"][1].installed # rounds["attacked"][1].installed
    <3>1. \A d \in Learner : Votes!Model(d, Votes!Initial, 0).by = d
      BY DEF Votes!Model
    <3>2. ASSUME NEW w \in Votes!Run
          PROVE  Votes!Model(c, Votes!Initial, 0) \in rounds[w][1].installed
                    <=> candidates[w][<<0, c>>].admitted
      <4> DEFINE chosen == {d \in Learner : candidates[w][<<0, d>>].admitted}
      <4>1. rounds[w][1].installed = {Votes!Model(d, Votes!Initial, 0) : d \in chosen}
        BY <1>7
      <4>2. c \in chosen <=> candidates[w][<<0, c>>].admitted
        OBVIOUS
      <4>3. \A d \in chosen : d \in Learner
        OBVIOUS
      <4> HIDE DEF chosen
      <4> QED  BY <3>1, <4>1, <4>2, <4>3
    <3> QED  BY <1>1, <1>8, <3>2
  <2>4. 1 \in DOMAIN a.rounds /\ 1 - 1 = 0
    BY <1>1, <1>3, <1>5, <1>7
  <2>5. 0 \in Votes!InputsDiffer(a, b) /\ 0 \in Votes!ModelsDiffer(a, b)
    BY <1>3, <2>2, <2>3, <2>4 DEF Votes!InputsDiffer, Votes!ModelsDiffer
  <2> QED  BY <2>1, <2>5 DEF Votes!OneRoundOfCauses
<1>10. Votes!SameStart(a, b) /\ Votes!SameUntilDiverged(a, b)
  <2>1. Votes!SameStart(a, b)
    BY <1>1, <1>3, <1>6 DEF Votes!SameStart
  <2>2. ASSUME NEW k \in Votes!Keys, \A r \in Votes!ModelsDiffer(a, b) : r >= k[1]
        PROVE  a.rows[k].submitted = b.rows[k].submitted /\ a.rows[k].parent = b.rows[k].parent
    <3>1. PICK r \in 0..LastVoted, d \in Learner : k = <<r, d>>
      BY DEF Votes!Keys
    <3>2. 0 >= r
      BY <1>9, <2>2, <3>1 DEF Votes!OneRoundOfCauses
    <3>3. k = <<0, d>>
      BY <1>5, <3>1, <3>2
    <3> QED  BY <1>1, <1>3, <1>6, <3>3
  <2> QED  BY <2>1, <2>2 DEF Votes!SameUntilDiverged
<1>11. Votes!VotesAsConfigured(a, b)
  <2> SUFFICES ASSUME NEW k \in Votes!Keys, NEW v \in Voter
               PROVE  LET x == a.rows[k].votes[v]
                          y == b.rows[k].votes[v]
                      IN  /\ x.reference = y.reference /\ x.reported = x.reference /\ x.applied = 0
                          /\ IF v \in Inverter THEN y.reported # x.reference /\ y.applied = 1
                             ELSE y.reported = x.reference /\ y.applied = 0
    BY DEF Votes!VotesAsConfigured
  <2>1. PICK r \in 0..LastVoted, d \in Learner : k = <<r, d>>
    BY DEF Votes!Keys
  <2>2. RowIsSound("clean", r, d) /\ RowIsSound("attacked", r, d)
    BY <1>1, RoundsOfEvidence
  <2>3. PICK x \in BOOLEAN : candidates["clean"][k].votes[v] = Votes!Vote("clean", v, x)
    BY <2>1, <2>2, GateRow, SMTT(30)
  <2>4. PICK y \in BOOLEAN : candidates["attacked"][k].votes[v] = Votes!Vote("attacked", v, y)
    BY <2>1, <2>2, GateRow
  <2>5. Votes!Inverters("clean") = {} /\ Votes!Inverters("attacked") = Inverter
    BY DEF Votes!Inverters
  <2>6. x = y
    <3>1. candidates["clean"][k].votes[v].reference = candidates["attacked"][k].votes[v].reference
      BY <1>0
    <3> QED  BY <2>3, <2>4, <3>1 DEF Votes!Vote
  <2>7. (~y) # y
    BY <2>4
  <2> QED  BY <1>3, <2>3, <2>4, <2>5, <2>6, <2>7 DEF Votes!Vote
<1> QED  BY <1>2, <1>3, <1>4, <1>9, <1>10, <1>11 DEF Votes!Proven

\* The trust of an artifact is what the votes of the rounds made of the priors.
LEMMA TrustOfEvidence ==
    ASSUME Votes!ComparisonAssumption, GateInv, verdict \in Written, NEW w \in Votes!Run
    PROVE  /\ LastVoted \in Nat
           /\ Votes!Evidence(w).trust =
                 [i \in 1..LastVoted + 1 |-> [pre |-> TrustAfter(w, i - 1), post |-> TrustAfter(w, i)]]
           /\ Votes!Evidence(w).final = TrustAfter(w, LastVoted + 1)
<1>1. LastVoted \in Nat /\ Len(rounds[w]) = LastVoted + 1
  BY DEF Votes!ComparisonAssumption, GateInv, VoteProgress
<1>2. \A i \in 1..LastVoted + 2 : betas[w][i] = TrustAfter(w, i - 1)
  <2>1. Len(betas[w]) = LastVoted + 2
    BY <1>1 DEF GateInv, VoteTrust
  <2> QED  BY <2>1 DEF GateInv, VoteTrust
<1>3. \A i \in 1..LastVoted + 1 : betas[w][i] = TrustAfter(w, i - 1) /\ betas[w][i + 1] = TrustAfter(w, i)
  <2> SUFFICES ASSUME NEW i \in 1..LastVoted + 1
               PROVE  betas[w][i] = TrustAfter(w, i - 1) /\ betas[w][i + 1] = TrustAfter(w, i)
    OBVIOUS
  <2>1. i \in 1..LastVoted + 2 /\ i + 1 \in 1..LastVoted + 2 /\ (i + 1) - 1 = i
    BY <1>1
  <2> QED  BY <1>2, <2>1
<1>4. betas[w][LastVoted + 2] = TrustAfter(w, LastVoted + 1)
  <2>1. LastVoted + 2 \in 1..LastVoted + 2 /\ (LastVoted + 2) - 1 = LastVoted + 1
    BY <1>1
  <2> QED  BY <1>2, <2>1
<1>5. [i \in 1..LastVoted + 1 |-> [pre |-> betas[w][i], post |-> betas[w][i + 1]]]
        = [i \in 1..LastVoted + 1 |-> [pre |-> TrustAfter(w, i - 1), post |-> TrustAfter(w, i)]]
  BY <1>3
<1> QED  BY <1>1, <1>4, <1>5 DEF Votes!Evidence

LEMMA TrustOfOne ==
    ASSUME Votes!ComparisonAssumption, NEW w, NEW r \in Nat, NEW v \in Voter
    PROVE  /\ \E a, b \in Nat : a > 0 /\ b > 0 /\ TrustAfter(w, r)[v] = Votes!Beta(a, b)
           /\ r > 0 /\ v \in Votes!Inverters(w) => Votes!Lost(TrustAfter(w, r)[v])
           /\ r > 0 /\ v \notin Votes!Inverters(w) => Votes!Gained(TrustAfter(w, r)[v])
<1> DEFINE N == Cardinality(Learner)
<1>1. N \in Nat /\ N > 0 /\ PriorCount \in Nat /\ PriorCount > 0
  <2>1. PriorCount \in Nat /\ PriorCount > 0 /\ IsFiniteSet(Learner) /\ Learner # {}
    BY SameFinite DEF Votes!ComparisonAssumption
  <2>2. N \in Nat /\ N # 0
    BY <2>1, FS_CardinalityType, FS_EmptySet
  <2> QED  BY <2>1, <2>2
<1>2. PriorCount + r * N \in Nat /\ PriorCount + r * N >= PriorCount /\ (r > 0 => PriorCount + r * N > PriorCount)
  <2>1. \A p, x, n \in Nat : n > 0 => p + x * n \in Nat /\ p + x * n >= p /\ (x > 0 => p + x * n > p)
    OBVIOUS
  <2> HIDE DEF N
  <2> QED  BY <1>1, <2>1
<1>3. TrustAfter(w, r)[v] = IF v \in Votes!Inverters(w) THEN Votes!Beta(PriorCount, PriorCount + r * N)
                            ELSE Votes!Beta(PriorCount + r * N, PriorCount)
  BY DEF TrustAfter
<1> HIDE DEF N
<1>4. \A a, b \in Nat : /\ a > b => Votes!Gained(Votes!Beta(a, b))
                        /\ b > a => Votes!Lost(Votes!Beta(a, b))
  BY DEF Votes!Gained, Votes!Lost, Votes!Beta
<1> QED  BY <1>1, <1>2, <1>3, <1>4

\* A trust of which a count or a score is altered is found out.
LEMMA AlteredTrustIsFound ==
    ASSUME Votes!ComparisonAssumption, GateInv, verdict \in Written, NEW w \in Votes!Run,
           NEW a \in Possible(w), Votes!TrustArithmetic(a)
    PROVE  a.trust = Votes!Evidence(w).trust
<1> DEFINE e == Votes!Evidence(w)
<1>1. DOMAIN e = {"controlled", "rows", "rounds", "trust", "final"}
  BY DEF Votes!Evidence
<1>2. /\ LastVoted \in Nat
      /\ e.trust = [i \in 1..LastVoted + 1 |-> [pre |-> TrustAfter(w, i - 1), post |-> TrustAfter(w, i)]]
  BY TrustOfEvidence
<1>3. a \in {e} \cup Votes!Altered(e)
  BY DEF Possible
<1> HIDE DEF e
<1>4. CASE \E i \in DOMAIN e.trust : a \in Votes!TrustAltered(e, i)
  <2>1. PICK i \in 1..LastVoted + 1, v \in Voter :
          a \in {[e EXCEPT !.trust[i].pre[v].beta = @ + 1], [e EXCEPT !.trust[i].post[v].alpha = @ + 1],
                 [e EXCEPT !.trust[i].post[v].score = <<0, 1>>]}
    BY <1>2, <1>4 DEF Votes!TrustAltered
  <2>2. i \in Nat /\ i - 1 \in Nat
    BY <1>2, <2>1
  <2>3. PICK x, y \in Nat : x > 0 /\ y > 0 /\ TrustAfter(w, i - 1)[v] = Votes!Beta(x, y)
    BY <2>2, TrustOfOne
  <2>4. PICK p, q \in Nat : p > 0 /\ q > 0 /\ TrustAfter(w, i)[v] = Votes!Beta(p, q)
    BY <2>2, TrustOfOne
  <2>5. /\ DOMAIN e.trust = 1..LastVoted + 1
        /\ e.trust[i] = [pre |-> TrustAfter(w, i - 1), post |-> TrustAfter(w, i)]
        /\ DOMAIN TrustAfter(w, i - 1) = Voter /\ DOMAIN TrustAfter(w, i) = Voter
    BY <1>2, <2>1 DEF TrustAfter
  <2>6. DOMAIN a.trust = DOMAIN e.trust
        /\ \/ a.trust[i].pre[v] = [Votes!Beta(x, y) EXCEPT !.beta = @ + 1]
           \/ a.trust[i].post[v] = [Votes!Beta(p, q) EXCEPT !.alpha = @ + 1]
           \/ a.trust[i].post[v] = [Votes!Beta(p, q) EXCEPT !.score = <<0, 1>>]
    <3>1. a.trust \in {[e.trust EXCEPT ![i].pre[v].beta = @ + 1], [e.trust EXCEPT ![i].post[v].alpha = @ + 1],
                       [e.trust EXCEPT ![i].post[v].score = <<0, 1>>]}
      BY <1>1, <2>1
    <3> DEFINE t == e.trust[i]
    <3>2. DOMAIN a.trust = DOMAIN e.trust
          /\ a.trust[i] \in {[t EXCEPT !.pre[v].beta = @ + 1], [t EXCEPT !.post[v].alpha = @ + 1],
                            [t EXCEPT !.post[v].score = <<0, 1>>]}
      BY <2>5, <3>1
    <3>3. /\ DOMAIN t = {"pre", "post"} /\ v \in DOMAIN t.pre /\ v \in DOMAIN t.post
          /\ t.pre[v] = Votes!Beta(x, y) /\ t.post[v] = Votes!Beta(p, q)
      BY <2>3, <2>4, <2>5
    <3> HIDE DEF t
    <3>4. CASE a.trust[i] = [t EXCEPT !.pre[v].beta = @ + 1]
      BY <3>2, <3>3, <3>4
    <3>5. CASE a.trust[i] = [t EXCEPT !.post[v].alpha = @ + 1]
      BY <3>2, <3>3, <3>5
    <3>6. CASE a.trust[i] = [t EXCEPT !.post[v].score = <<0, 1>>]
      BY <3>2, <3>3, <3>6
    <3> QED  BY <3>2, <3>4, <3>5, <3>6
  <2>7. \A s \in {a.trust[i].pre[v], a.trust[i].post[v]} :
           s.score[1] * (s.alpha + s.beta) = s.score[2] * s.alpha
    BY <2>5, <2>6 DEF Votes!TrustArithmetic
  <2>8. CASE a.trust[i].pre[v] = [Votes!Beta(x, y) EXCEPT !.beta = @ + 1]
    <3>1. /\ a.trust[i].pre[v].alpha = x /\ a.trust[i].pre[v].beta = y + 1
          /\ a.trust[i].pre[v].score = <<x, x + y>>
      BY <2>8 DEF Votes!Beta
    <3>2. x * (x + (y + 1)) = (x + y) * x
      BY <2>7, <3>1
    <3> QED  BY <2>3, <3>2
  <2>9. CASE a.trust[i].post[v] = [Votes!Beta(p, q) EXCEPT !.alpha = @ + 1]
    <3>1. /\ a.trust[i].post[v].alpha = p + 1 /\ a.trust[i].post[v].beta = q
          /\ a.trust[i].post[v].score = <<p, p + q>>
      BY <2>9 DEF Votes!Beta
    <3>2. p * ((p + 1) + q) = (p + q) * (p + 1)
      BY <2>7, <3>1
    <3> QED  BY <2>4, <3>2
  <2>10. CASE a.trust[i].post[v] = [Votes!Beta(p, q) EXCEPT !.score = <<0, 1>>]
    <3>1. /\ a.trust[i].post[v].alpha = p /\ a.trust[i].post[v].beta = q
          /\ a.trust[i].post[v].score = <<0, 1>>
      BY <2>10 DEF Votes!Beta
    <3>2. 0 * (p + q) = 1 * p
      BY <2>7, <3>1
    <3> QED  BY <2>4, <3>2
  <2> QED  BY <2>6, <2>8, <2>9, <2>10
<1>5. CASE a = e \/ \E x : a \in {[e EXCEPT !.controlled = x], [e EXCEPT !.rows = x], [e EXCEPT !.final = x]}
  BY <1>1, <1>5 DEF e
<1>6. CASE \E i \in DOMAIN e.rounds : \E x :
              a \in {[e EXCEPT !.rounds[i].contributors = x], [e EXCEPT !.rounds[i].installed = x],
                     [e EXCEPT !.rounds[i].at = x]}
  BY <1>1, <1>6 DEF e
<1> QED  BY <1>3, <1>4, <1>5, <1>6, OneFieldOnly

LEMMA TrustFromVotes == ASSUME Votes!ComparisonAssumption, GateInv PROVE Votes!TrustIsTold
<1>1. SUFFICES ASSUME verdict \in {"proven", "not proven"}
      PROVE  /\ lies = 0 => Votes!TrustProven(artifact["clean"], artifact["attacked"])
             /\ Votes!TrustProven(artifact["clean"], artifact["attacked"]) =>
                   \A w \in Votes!Run : artifact[w].trust = Votes!Evidence(w).trust
  BY DEF Votes!TrustIsTold
<1>2. "clean" \in Votes!Run /\ "attacked" \in Votes!Run /\ verdict \in Written
  BY <1>1 DEF Votes!Run, Written
<1>3. ASSUME Votes!TrustProven(artifact["clean"], artifact["attacked"]), NEW w \in Votes!Run
      PROVE  artifact[w].trust = Votes!Evidence(w).trust
  <2>1. Votes!TrustArithmetic(artifact[w])
    BY <1>3 DEF Votes!TrustProven, Votes!TrustIsValid, Votes!Run
  <2> QED  BY <1>2, <2>1, ArtifactIsPossible, AlteredTrustIsFound
<1>4. ASSUME lies = 0 PROVE Votes!TrustProven(artifact["clean"], artifact["attacked"])
  <2> DEFINE a == artifact["clean"]
             b == artifact["attacked"]
  <2>1. a = Votes!Evidence("clean") /\ b = Votes!Evidence("attacked")
    BY <1>2, <1>4 DEF GateInv, VoteArtifacts
  <2> HIDE DEF a, b
  <2>2. /\ LastVoted \in Nat
        /\ a.trust = [i \in 1..LastVoted + 1 |->
                        [pre |-> TrustAfter("clean", i - 1), post |-> TrustAfter("clean", i)]]
        /\ b.trust = [i \in 1..LastVoted + 1 |->
                        [pre |-> TrustAfter("attacked", i - 1), post |-> TrustAfter("attacked", i)]]
        /\ a.final = TrustAfter("clean", LastVoted + 1) /\ b.final = TrustAfter("attacked", LastVoted + 1)
    BY <1>2, <2>1, TrustOfEvidence
  <2>3. a.controlled = b.controlled
    BY <2>1 DEF Votes!Evidence
  <2>4. ASSUME NEW w, NEW x,
               x.trust = [i \in 1..LastVoted + 1 |-> [pre |-> TrustAfter(w, i - 1), post |-> TrustAfter(w, i)]]
        PROVE  Votes!TrustIsValid(x)
    <3>1. ASSUME NEW i \in DOMAIN x.trust, NEW v \in Voter,
                 NEW s \in {x.trust[i].pre[v], x.trust[i].post[v]}
          PROVE  s.score[1] * (s.alpha + s.beta) = s.score[2] * s.alpha
      <4>1. i \in Nat /\ i - 1 \in Nat
        BY <2>2, <2>4
      <4>2. s \in {TrustAfter(w, i - 1)[v], TrustAfter(w, i)[v]}
        BY <2>4
      <4>3. PICK p, q \in Nat : s = Votes!Beta(p, q)
        BY <4>1, <4>2, TrustOfOne
      <4>4. s.alpha = p /\ s.beta = q /\ s.score[1] = p /\ s.score[2] = p + q
        BY <4>3 DEF Votes!Beta
      <4> QED  BY <4>4
    <3>2. ASSUME NEW i \in DOMAIN x.trust, i > 1 PROVE x.trust[i].pre = x.trust[i - 1].post
      <4>1. i \in 1..LastVoted + 1 /\ i - 1 \in 1..LastVoted + 1
        BY <2>2, <2>4, <3>2
      <4> QED  BY <2>4, <4>1
    <3> QED  BY <3>1, <3>2 DEF Votes!TrustIsValid, Votes!TrustArithmetic
  <2>5. Votes!Inverters("clean") = {} /\ Votes!Inverters("attacked") = Inverter
    BY DEF Votes!Inverters
  <2>6. LastVoted + 1 \in Nat /\ LastVoted + 1 > 0 /\ Inverter \subseteq Voter
    BY <2>2 DEF Votes!ComparisonAssumption
  <2>7. (\A v \in Voter : Votes!Gained(a.final[v])) /\ \A v \in Inverter : Votes!Lost(b.final[v])
    BY <2>2, <2>5, <2>6, TrustOfOne
  <2>8. Votes!Honest \in Voter /\ Votes!Honest \notin Inverter
    BY DEF Votes!Honest, Votes!ComparisonAssumption
  <2>9. \A i : TrustAfter("clean", i)[Votes!Honest] = TrustAfter("attacked", i)[Votes!Honest]
    BY <2>5, <2>8 DEF TrustAfter
  <2>10. \A i \in DOMAIN a.trust : /\ a.trust[i].pre[Votes!Honest] = b.trust[i].pre[Votes!Honest]
                                   /\ a.trust[i].post[Votes!Honest] = b.trust[i].post[Votes!Honest]
    BY <2>2, <2>9
  <2>11. Votes!TrustIsValid(a) /\ Votes!TrustIsValid(b)
    BY <2>2, <2>4
  <2> QED  BY <2>3, <2>7, <2>10, <2>11 DEF Votes!TrustProven, a, b
<1> QED  BY <1>3, <1>4

\* Of runs of any contributors, validators, policies and lengths, of which at most one
\* field is told wrongly: what compare_byzantine_validator_causality calls proven was
\* caused by the inverted votes, a genuine pair in which they turned an admission of
\* the first round over is called proven, and compare_byzantine_validator_trust passes
\* the records of trust that the runs made, and no other.
THEOREM VotesAreJudged ==
    ASSUME Votes!ComparisonAssumption, MaxLies <= 1
    PROVE  Votes!Spec => [](Votes!ProvenIsCaused /\ Votes!GenuineIsProven /\ Votes!TrustIsTold)
<1>1. GateInv => Votes!ProvenIsCaused /\ Votes!GenuineIsProven /\ Votes!TrustIsTold
  BY CauseFromProof, ProofOfGenuine, TrustFromVotes
<1>2. Votes!Spec => []GateInv
  BY VoteInvariance
<1> QED  BY <1>1, <1>2, PTL

-----------------------------------------------------------------------------
(* The comparators of attacks on training.                                *)

\* A set of numbers that has 0 and the successor of each of its members has them all.
LEMMA AllNumbers ==
    ASSUME NEW T \in SUBSET Nat, 0 \in T, \A n \in T : n + 1 \in T
    PROVE  T = Nat
<1> DEFINE R == OpToRel(<, Nat)
<1>1. SUFFICES ASSUME Nat \ T # {} PROVE FALSE
  OBVIOUS
<1>2. PICK m \in Nat \ T : \A n \in Nat \ T : <<n, m>> \notin R
  <2>1. IsWellFoundedOn(R, Nat)
    BY NatLessThanWellFounded
  <2>2. Nat \ T \subseteq Nat
    OBVIOUS
  <2> HIDE DEF R
  <2> QED
    BY <1>1, <2>1, <2>2, WFMin
<1>3. m - 1 \in Nat /\ m - 1 \notin T
  OBVIOUS
<1>4. <<m - 1, m>> \in R
  BY <1>3 DEF OpToRel
<1> QED
  BY <1>2, <1>3, <1>4

\* What a row of evidence says of the update that was submitted.
Attacked(w, n) == w = "attacked" /\ n \in config.adversaries
Effect(row, i) ==
    CASE config.kind = "sign_flipping" ->
            row.submitted = -(row.before + row.genuine) /\ row.submitted # 0
      [] config.kind = "free_rider" -> row.steps = 0 /\ row.submitted = row.before
      [] config.kind = "collusion" ->
            row.submitted = row.before + config.direction[i] * Updates!Size(row.genuine)
      [] OTHER -> TRUE
RowIs(w, i, n) ==
    LET row == rounds[w][i].rows[n] IN
    /\ row.before \in Int /\ row.genuine \in Int /\ row.submitted \in Int
    /\ row.applied = IF Attacked(w, n) THEN 1 ELSE 0
    /\ Attacked(w, n) => Effect(row, i)
    /\ ~(Attacked(w, n) /\ config.kind = "free_rider") =>
          row.steps = IF n \in config.idle THEN 0 ELSE 1
    /\ row.steps = 0 => row.genuine = 0

UpdateTypes ==
    /\ config \in AttackConfigs
    /\ run \in {"clean", "attacked"} /\ global \in Int
    /\ verdict \in {"none", "no evidence", "proven", "refused"}
    /\ DOMAIN rounds = {"clean", "attacked"}
    /\ \A w \in {"clean", "attacked"} : \E S : rounds[w] \in Seq(S)
    /\ \A w \in {"clean", "attacked"} : Len(rounds[w]) <= LastRound + 1

UpdateRows ==
    \A w \in {"clean", "attacked"} : \A i \in 1..Len(rounds[w]) :
        \A n \in DOMAIN rounds[w][i].rows : n \in Trainer /\ RowIs(w, i, n)

UpdateVerdict ==
    verdict \in {"proven", "refused"} =>
        /\ run = "attacked" /\ Len(rounds["attacked"]) = LastRound + 1 /\ Updates!Complete
        /\ verdict = "proven" <=> Updates!Agrees

UpdateInv == UpdateTypes /\ UpdateRows /\ UpdateVerdict

-----------------------------------------------------------------------------
\* What a round sums up to.
Total(made, S) == Updates!MapThenSumSet(LAMBDA n : made[n].submitted, S)

\* What finitely many trainers submit sums up to an integer: by induction on how many.
LEMMA SumIsInteger ==
    ASSUME NEW S, IsFiniteSet(S), NEW made, \A n \in S : made[n].submitted \in Int
    PROVE  Total(made, S) \in Int
<1> DEFINE Pick(s) == CHOOSE x \in s : TRUE
           Upto(n) == {s \in SUBSET S : Cardinality(s) <= n}
           Iterates(g, D) == g = [s \in D |-> IF s = {} THEN 0 ELSE made[Pick(s)].submitted + g[s \ {Pick(s)}]]
           Solved == {n \in Nat : \E g \in [Upto(n) -> Int] : Iterates(g, Upto(n))}
<1>1. \A s \in SUBSET S : IsFiniteSet(s) /\ Cardinality(s) \in Nat /\ Cardinality(s) <= Cardinality(S)
  BY FS_Subset, FS_CardinalityType
<1>2. \A s \in SUBSET S : s # {} => Pick(s) \in s /\ Cardinality(s \ {Pick(s)}) = Cardinality(s) - 1
  <2> TAKE s \in SUBSET S
  <2> HAVE s # {}
  <2>1. Pick(s) \in s
    OBVIOUS
  <2> HIDE DEF Pick
  <2> QED
    BY <1>1, <2>1, FS_RemoveElement
<1> HIDE DEF Pick
<1>3. 0 \in Solved
  <2> DEFINE g == [s \in Upto(0) |-> 0]
  <2>1. \A s \in Upto(0) : s = {}
    BY <1>1, FS_EmptySet
  <2>2. g \in [Upto(0) -> Int] /\ Iterates(g, Upto(0))
    BY <2>1
  <2> QED
    BY <2>2
<1>4. ASSUME NEW n \in Solved PROVE n + 1 \in Solved
  <2>1. PICK g \in [Upto(n) -> Int] : Iterates(g, Upto(n))
    OBVIOUS
  <2> DEFINE h == [s \in Upto(n + 1) |-> IF s = {} THEN 0 ELSE made[Pick(s)].submitted + g[s \ {Pick(s)}]]
  <2>2. \A s \in Upto(n + 1) : s # {} => s \ {Pick(s)} \in Upto(n) /\ made[Pick(s)].submitted \in Int
    BY <1>1, <1>2
  <2>3. h \in [Upto(n + 1) -> Int]
    BY <2>2
  <2>4. \A s \in Upto(n) : s \in Upto(n + 1) /\ h[s] = g[s]
    <3> TAKE s \in Upto(n)
    <3>1. s \in Upto(n + 1)
      BY <1>1
    <3>2. g[s] = IF s = {} THEN 0 ELSE made[Pick(s)].submitted + g[s \ {Pick(s)}]
      <4> HIDE DEF Upto
      <4> QED  BY <2>1
    <3> HIDE DEF Upto
    <3> QED
      BY <3>1, <3>2
  <2>5. Iterates(h, Upto(n + 1))
    <3>1. \A s \in Upto(n + 1) : s # {} => h[s \ {Pick(s)}] = g[s \ {Pick(s)}]
      BY <2>2, <2>4
    <3> HIDE DEF Upto
    <3> QED
      BY <3>1
  <2> HIDE DEF h, Iterates, Upto
  <2> QED
    BY <2>3, <2>5
<1>5. Solved = Nat
  <2> HIDE DEF Solved
  <2>1. Solved \in SUBSET Nat
    BY DEF Solved
  <2> QED
    BY <1>3, <1>4, <2>1, AllNumbers
<1>6. PICK g \in [SUBSET S -> Int] : Iterates(g, SUBSET S)
  <2>1. Upto(Cardinality(S)) = SUBSET S
    BY <1>1
  <2>2. Cardinality(S) \in Solved
    BY <1>5, FS_CardinalityType
  <2> HIDE DEF Upto, Iterates
  <2> QED
    BY <2>1, <2>2
<1> DEFINE iter[s \in SUBSET S] == IF s = {} THEN 0 ELSE made[Pick(s)].submitted + iter[s \ {Pick(s)}]
<1>7. Total(made, S) = iter[S]
  BY DEF Total, Updates!MapThenSumSet, Updates!MapThenFoldSet, Pick
<1>8. Iterates(iter, SUBSET S)
  <2> DEFINE Solves(z) ==
               z = [s \in SUBSET S |->
                      IF s = {} THEN 0 ELSE made[Pick(s)].submitted + z[s \ {Pick(s)}]]
  <2>1. iter = CHOOSE z : Solves(z)
    OBVIOUS
  <2>2. \E z : Solves(z)
    BY <1>6
  <2> HIDE DEF iter
  <2>3. Solves(CHOOSE z : Solves(z))
    <3> HIDE DEF Solves
    <3> QED  BY <2>2
  <2> QED
    BY <2>1, <2>3
<1> HIDE DEF iter
<1> DEFINE Whole == {n \in Nat : \A s \in Upto(n) : iter[s] \in Int}
<1>9. Whole = Nat
  <2>1. 0 \in Whole
    <3>1. \A s \in Upto(0) : s = {}
      BY <1>1, FS_EmptySet
    <3> QED
      BY <1>8, <3>1
  <2>2. ASSUME NEW n \in Whole PROVE n + 1 \in Whole
    <3>1. ASSUME NEW s \in Upto(n + 1), s # {} PROVE iter[s] \in Int
      <4>1. s \ {Pick(s)} \in Upto(n) /\ made[Pick(s)].submitted \in Int
        BY <1>1, <1>2, <3>1
      <4>2. iter[s] = made[Pick(s)].submitted + iter[s \ {Pick(s)}]
        BY <1>8, <3>1
      <4> QED
        BY <4>1, <4>2
    <3>2. iter[{}] \in Int
      BY <1>8
    <3>3. n + 1 \in Nat
      OBVIOUS
    <3>4. \A s \in Upto(n + 1) : iter[s] \in Int
      BY <3>1, <3>2
    <3> HIDE DEF Upto
    <3> QED
      BY <3>3, <3>4
  <2> HIDE DEF Whole
  <2>3. Whole \in SUBSET Nat
    BY DEF Whole
  <2> QED
    BY <2>1, <2>2, <2>3, AllNumbers
<1> QED
  <2>1. Cardinality(S) \in Whole /\ S \in Upto(Cardinality(S))
    BY <1>9, FS_CardinalityType
  <2> QED
    BY <1>7, <2>1

LEMMA UpdateStart == ASSUME Updates!EvidenceAssumption PROVE Updates!Init => UpdateInv
<1> SUFFICES ASSUME Updates!Init PROVE UpdateInv
  OBVIOUS
<1>1. \A w \in {"clean", "attacked"} : rounds[w] = << >> /\ Len(rounds[w]) = 0 /\ rounds[w] \in Seq({})
  BY DEF Updates!Init, Updates!Run
<1>2. config.initial \in Int /\ Unit \in Int
  BY DEF Updates!Init, Updates!EvidenceAssumption
<1>3. UpdateTypes
  BY <1>1, <1>2 DEF UpdateTypes, Updates!Init, Updates!Run, Updates!EvidenceAssumption
<1> QED
  BY <1>1, <1>3 DEF UpdateInv, UpdateRows, UpdateVerdict, Updates!Init

\* A row that a trainer leaves, as the invariant says.
LEMMA SubmittedRow ==
    ASSUME Updates!EvidenceAssumption, UpdateTypes, Updates!Round <= LastRound,
           NEW n \in Trainer, NEW draw \in 0..1,
           ~Updates!Unflippable(Updates!Row(n, draw))
    PROVE  LET row == Updates!Row(n, draw) IN
           /\ row.before \in Int /\ row.genuine \in Int /\ row.submitted \in Int
           /\ row.applied = IF Attacked(run, n) THEN 1 ELSE 0
           /\ Attacked(run, n) => Effect(row, Updates!Round + 1)
           /\ ~(Attacked(run, n) /\ config.kind = "free_rider") =>
                 row.steps = IF n \in config.idle THEN 0 ELSE 1
           /\ row.steps = 0 => row.genuine = 0
<1> DEFINE row == Updates!Row(n, draw)
           trained == IF Updates!Skips(n) THEN global ELSE Updates!Trained(n, draw)
<1>1. config.moves[n] \in Int /\ config.lure \in Int /\ Unit \in Int /\ global \in Int
  BY DEF Updates!EvidenceAssumption, UpdateTypes
<1>2. Updates!Attacking(n) <=> Attacked(run, n)
  BY DEF Updates!Attacking, Updates!Adversary, Attacked
<1>3. Updates!Trained(n, draw) \in Int
  BY <1>1 DEF Updates!Trained
<1>4. trained \in Int
  BY <1>1, <1>3
<1>5. /\ row.before = global /\ row.genuine = trained - global
      /\ row.submitted = Updates!Submitted(n, trained)
      /\ row.steps = (IF Updates!Skips(n) THEN 0 ELSE Updates!Steps(n))
      /\ row.applied = (IF Updates!Attacking(n) THEN 1 ELSE 0)
  BY DEF Updates!Row
<1>6. Updates!Round + 1 \in 1..LastRound + 1
  <2>1. Len(rounds[run]) \in Nat /\ LastRound \in Nat
    BY LenProperties DEF UpdateTypes, Updates!EvidenceAssumption
  <2> QED
    BY <2>1 DEF Updates!Round
<1>7. Updates!Direction \in {1, -1} /\ Updates!Direction = config.direction[Updates!Round + 1]
  BY <1>6 DEF Updates!Direction, Updates!EvidenceAssumption, UpdateTypes
<1>8. config.kind \in {"sign_flipping", "free_rider", "collusion", "backdoor", "label_flipping"}
  BY DEF Updates!EvidenceAssumption, Updates!Kinds, UpdateTypes
<1> HIDE DEF row, trained
<1>9. row.submitted \in Int
  BY <1>1, <1>4, <1>5, <1>7, <1>8 DEF Updates!Submitted, Updates!Flipped, Updates!Displaced, Updates!Size
<1>10. row.steps = 0 => row.genuine = 0
  BY <1>1, <1>5 DEF trained, Updates!Trained, Updates!Steps
<1>11. ~(Attacked(run, n) /\ config.kind = "free_rider") =>
          row.steps = IF n \in config.idle THEN 0 ELSE 1
  BY <1>2, <1>5 DEF Updates!Skips, Updates!Steps
<1>12. ASSUME Attacked(run, n) PROVE Effect(row, Updates!Round + 1)
  <2>1. CASE config.kind = "sign_flipping"
    <3>1. row.submitted # 0
      BY <1>2, <1>5, <1>12, <2>1 DEF row, Updates!Unflippable
    <3>2. row.submitted = -trained
      BY <1>2, <1>5, <1>12, <2>1 DEF Updates!Submitted, Updates!Flipped
    <3> QED
      BY <1>1, <1>4, <1>5, <2>1, <3>1, <3>2 DEF Effect
  <2>2. CASE config.kind = "free_rider"
    BY <1>2, <1>5, <1>12, <2>2 DEF Effect, Updates!Submitted, Updates!Skips
  <2>3. CASE config.kind = "collusion"
    BY <1>1, <1>2, <1>4, <1>5, <1>7, <1>12, <2>3
       DEF Effect, Updates!Submitted, Updates!Displaced
  <2>4. CASE config.kind \in {"backdoor", "label_flipping"}
    BY <2>4 DEF Effect
  <2> QED
    BY <1>8, <2>1, <2>2, <2>3, <2>4
<1> QED
  BY <1>1, <1>2, <1>4, <1>5, <1>9, <1>10, <1>11, <1>12 DEF row

\* A row on record stays as it is.
LEMMA RowStays ==
    ASSUME config' = config, NEW w, NEW i, NEW n, rounds'[w][i] = rounds[w][i]
    PROVE  RowIs(w, i, n)' <=> RowIs(w, i, n)
  BY DEF RowIs, Attacked, Effect

LEMMA RowsStay ==
    ASSUME UNCHANGED <<config, rounds>>, UpdateRows
    PROVE  UpdateRows'
<1> SUFFICES ASSUME NEW w \in {"clean", "attacked"}, NEW i \in 1..Len(rounds[w]),
                    NEW n \in DOMAIN rounds[w][i].rows
             PROVE  n \in Trainer /\ RowIs(w, i, n)'
  BY DEF UpdateRows
<1> QED
  BY RowStays DEF UpdateRows

LEMMA VerdictStays ==
    ASSUME UNCHANGED <<config, run, rounds>>
    PROVE  (Updates!Agrees' <=> Updates!Agrees) /\ (Updates!Complete' <=> Updates!Complete)
  BY DEF Updates!Agrees, Updates!Complete, Updates!Audited, Updates!FlipsAgree,
         Updates!FreeRidesAgree, Updates!CollusionAgrees, Updates!SameParticipants,
         Updates!Participants, Updates!TookPart, Updates!Rows, Updates!MaliciousIn,
         Updates!ModelsDiffer, Updates!Final, Updates!AttackRow, Updates!Adversary, Updates!Unchanged

\* The invariant of the comparators of attacks is kept.
LEMMA UpdateKept ==
    ASSUME Updates!EvidenceAssumption, UpdateInv, [Updates!Next]_(Updates!vars)
    PROVE  UpdateInv'
<1> USE DEF UpdateInv
<1>1. CASE Updates!RunRound
  <2>1. PICK elected \in SUBSET Trainer, noisy \in SUBSET Trainer :
          LET new == [n \in elected |-> Updates!Row(n, IF n \in noisy THEN 1 ELSE 0)] IN
          /\ elected # {}
          /\ IF \E n \in elected : Updates!Unflippable(new[n])
             THEN verdict' = "no evidence" /\ UNCHANGED <<global, rounds>>
             ELSE /\ global' = Total(new, elected)
                                  \div Updates!Cardinality(elected)
                  /\ rounds' = [rounds EXCEPT ![run] =
                                  Append(@, [rows |-> new, installed |-> global'])]
                  /\ UNCHANGED verdict
    BY <1>1 DEF Updates!RunRound, Total
  <2> DEFINE new == [n \in elected |-> Updates!Row(n, IF n \in noisy THEN 1 ELSE 0)]
  <2>2. verdict = "none" /\ Updates!Round <= LastRound /\ UNCHANGED <<config, run>>
    BY <1>1 DEF Updates!RunRound
  <2>3. CASE \E n \in elected : Updates!Unflippable(new[n])
    <3>1. verdict' = "no evidence" /\ UNCHANGED <<global, rounds>>
      BY <2>1, <2>3
    <3> QED
      BY <2>2, <3>1, RowsStay DEF UpdateTypes, UpdateVerdict
  <2>4. CASE ~\E n \in elected : Updates!Unflippable(new[n])
    <3> DEFINE last == [rows |-> new, installed |-> global']
    <3>1. /\ global' = Total(new, elected)
                          \div Updates!Cardinality(elected)
          /\ rounds' = [rounds EXCEPT ![run] = Append(@, last)]
          /\ UNCHANGED verdict
      BY <2>1, <2>4
    <3>2. ASSUME NEW n \in elected
          PROVE  LET row == new[n] IN
                 /\ row.before \in Int /\ row.genuine \in Int /\ row.submitted \in Int
                 /\ row.applied = IF Attacked(run, n) THEN 1 ELSE 0
                 /\ Attacked(run, n) => Effect(row, Updates!Round + 1)
                 /\ ~(Attacked(run, n) /\ config.kind = "free_rider") =>
                       row.steps = IF n \in config.idle THEN 0 ELSE 1
                 /\ row.steps = 0 => row.genuine = 0
      <4> DEFINE draw == IF n \in noisy THEN 1 ELSE 0
      <4>1. new[n] = Updates!Row(n, draw) /\ draw \in 0..1 /\ n \in Trainer
        OBVIOUS
      <4>2. ~Updates!Unflippable(Updates!Row(n, draw))
        BY <2>4, <4>1
      <4> HIDE DEF draw, new
      <4> QED
        BY <2>2, <4>1, <4>2, SubmittedRow
    <3>3. DOMAIN new = elected
      OBVIOUS
    <3> HIDE DEF new
    <3>4. global' \in Int
      <4>1. IsFiniteSet(elected) /\ elected # {} /\ Cardinality(elected) \in Nat \ {0}
        <5>1. IsFiniteSet(Trainer)
          BY DEF Updates!EvidenceAssumption, Updates!IsFiniteSet, IsFiniteSet
        <5> QED
          BY <2>1, <5>1, FS_Subset, FS_CardinalityType, FS_EmptySet
      <4>2. Total(new, elected) \in Int
        <5>1. \A n \in elected : new[n].submitted \in Int
          BY <3>2
        <5> QED
          BY <4>1, <5>1, SumIsInteger
      <4>3. Updates!Cardinality(elected) = Cardinality(elected)
        BY DEF Updates!Cardinality, Cardinality
      <4>4. \A a \in Int, b \in Nat \ {0} : a \div b \in Int
        OBVIOUS
      <4> QED
        BY <3>1, <4>1, <4>2, <4>3, <4>4
    <3>5. run \in {"clean", "attacked"} /\ Updates!Round = Len(rounds[run])
      BY DEF Updates!Round, UpdateTypes
    <3>6. \E S : rounds[run] \in Seq(S)
      BY <3>5 DEF UpdateTypes
    <3>7. /\ rounds'[run] = Append(rounds[run], last)
          /\ \A w \in {"clean", "attacked"} : w # run => rounds'[w] = rounds[w]
          /\ DOMAIN rounds' = {"clean", "attacked"}
      BY <3>1, <3>5 DEF UpdateTypes
    <3> HIDE DEF last
    <3>8. /\ Len(rounds[run]) \in Nat
          /\ \E S : rounds'[run] \in Seq(S)
          /\ Len(rounds'[run]) = Len(rounds[run]) + 1
          /\ \A i \in 1..Len(rounds[run]) : rounds'[run][i] = rounds[run][i]
          /\ rounds'[run][Len(rounds[run]) + 1] = last
      <4>1. rounds'[run] = Append(rounds[run], last) /\ \E S : rounds[run] \in Seq(S)
        BY <3>6, <3>7
      <4>2. /\ \E S : Append(rounds[run], last) \in Seq(S)
            /\ Len(rounds[run]) \in Nat /\ Len(Append(rounds[run], last)) = Len(rounds[run]) + 1
            /\ \A i \in 1..Len(rounds[run]) : Append(rounds[run], last)[i] = rounds[run][i]
            /\ Append(rounds[run], last)[Len(rounds[run]) + 1] = last
        BY <3>6, Appended
      <4> QED
        BY <4>1, <4>2
    <3>9. UpdateTypes'
      <4>1. \A w \in {"clean", "attacked"} : (\E T : rounds'[w] \in Seq(T)) /\ Len(rounds'[w]) <= LastRound + 1
        <5> SUFFICES ASSUME NEW w \in {"clean", "attacked"}
                     PROVE  (\E T : rounds'[w] \in Seq(T)) /\ Len(rounds'[w]) <= LastRound + 1
          OBVIOUS
        <5>1. CASE w = run
          <6>1. Len(rounds[run]) + 1 <= LastRound + 1
            BY <2>2, <3>5, <3>8 DEF Updates!EvidenceAssumption
          <6> QED
            BY <3>8, <5>1, <6>1
        <5>2. CASE w # run
          BY <3>7, <5>2 DEF UpdateTypes
        <5> QED
          BY <5>1, <5>2
      <4> QED
        BY <2>2, <3>1, <3>4, <3>7, <4>1 DEF UpdateTypes
    <3>10. UpdateRows'
      <4> SUFFICES ASSUME NEW w \in {"clean", "attacked"}, NEW i \in 1..Len(rounds'[w]),
                          NEW n \in DOMAIN rounds'[w][i].rows
                   PROVE  n \in Trainer /\ RowIs(w, i, n)'
        BY DEF UpdateRows
      <4>1. CASE w # run \/ i # Len(rounds[run]) + 1
        <5>1. i \in 1..Len(rounds[w]) /\ rounds'[w][i] = rounds[w][i]
          BY <3>7, <3>8, <4>1
        <5> QED
          BY <2>2, <5>1, RowStays DEF UpdateRows
      <4>2. CASE w = run /\ i = Len(rounds[run]) + 1
        <5>1. rounds'[w][i].rows = new
          BY <3>8, <4>2 DEF last
        <5>2. n \in elected /\ n \in Trainer
          BY <3>3, <5>1
        <5>3. RowIs(w, i, n)'
          BY <2>2, <3>2, <3>5, <4>2, <5>1, <5>2 DEF RowIs, Attacked, Effect
        <5> QED
          BY <5>2, <5>3
      <4> QED
        BY <4>1, <4>2
    <3> QED
      BY <2>2, <3>1, <3>9, <3>10 DEF UpdateVerdict
  <2> QED
    BY <2>3, <2>4
<1>2. CASE Updates!EvidenceRefused
  BY <1>2, RowsStay DEF Updates!EvidenceRefused, UpdateTypes, UpdateVerdict
<1>3. CASE Updates!StartAttacked
  <2>1. config.initial * Unit \in Int
    <3>1. config.initial \in Int /\ Unit \in Int
      BY DEF UpdateTypes, Updates!EvidenceAssumption
    <3> QED
      BY <3>1
  <2> QED
    BY <1>3, <2>1, RowsStay DEF Updates!StartAttacked, UpdateTypes, UpdateVerdict
<1>4. CASE Updates!Compare
  <2>1. UNCHANGED <<config, run, rounds>>
    BY <1>4 DEF Updates!Compare
  <2>2. (Updates!Agrees' <=> Updates!Agrees) /\ (Updates!Complete' <=> Updates!Complete)
    BY <2>1, VerdictStays
  <2>3. Len(rounds["attacked"]) = LastRound + 1
    <3>1. \E S : rounds["attacked"] \in Seq(S)
      BY DEF UpdateTypes
    <3>2. Len(rounds["attacked"]) \in Nat
      BY <3>1, LenProperties
    <3> QED
      BY <1>4, <3>2 DEF Updates!Compare, Updates!Round, UpdateTypes, Updates!EvidenceAssumption
  <2> QED
    BY <1>4, <2>1, <2>2, <2>3, RowsStay DEF Updates!Compare, UpdateTypes, UpdateVerdict
<1>5. CASE UNCHANGED Updates!vars
  <2>1. UNCHANGED <<config, run, global, rounds, verdict>>
    BY <1>5 DEF Updates!vars
  <2>2. (Updates!Agrees' <=> Updates!Agrees) /\ (Updates!Complete' <=> Updates!Complete)
    BY <2>1, VerdictStays
  <2> QED
    BY <2>1, <2>2, RowsStay DEF UpdateTypes, UpdateVerdict
<1> QED
  BY <1>1, <1>2, <1>3, <1>4, <1>5 DEF Updates!Next

LEMMA UpdateInvariance ==
    ASSUME Updates!EvidenceAssumption
    PROVE  Updates!Spec => []UpdateInv
<1> QED
  BY UpdateStart, UpdateKept, PTL DEF Updates!Spec

\* Of the rows of an attacked run that was compared.
LEMMA ComparedRow ==
    ASSUME UpdateInv, verdict \in {"proven", "refused"}, NEW i \in Updates!Index,
           NEW n \in DOMAIN Updates!Rows("attacked", i)
    PROVE  n \in Trainer /\ RowIs("attacked", i, n) /\ Updates!AttackRow(i, n) = rounds["attacked"][i].rows[n]
  BY DEF UpdateInv, UpdateRows, UpdateVerdict, Updates!Index, Updates!Rows, Updates!AttackRow

\* Where every node was audited, no node was absent.
LEMMA NobodyAbsent ==
    ASSUME UpdateInv, verdict \in {"proven", "refused"}, NEW i \in Updates!Index,
           config.kind \in {"free_rider", "collusion"}
    PROVE  Trainer \subseteq DOMAIN Updates!Rows("attacked", i)
  BY DEF UpdateInv, UpdateVerdict, Updates!Index, Updates!Rows, Updates!Complete, Updates!Audited

LEMMA EffectOfAdversary ==
    ASSUME Updates!EvidenceAssumption, UpdateInv, verdict \in {"proven", "refused"},
           NEW i \in Updates!Index, NEW n \in config.adversaries, n \in DOMAIN Updates!Rows("attacked", i)
    PROVE  LET row == Updates!AttackRow(i, n) IN
           /\ row.before \in Int /\ row.genuine \in Int /\ row.submitted \in Int
           /\ row.applied = 1 /\ Effect(row, i)
           /\ config.kind # "free_rider" => row.steps = IF n \in config.idle THEN 0 ELSE 1
           /\ row.steps = 0 => row.genuine = 0
           /\ config.direction[i] \in {1, -1}
<1>1. Attacked("attacked", n)
  BY DEF Attacked
<1>2. config.direction[i] \in {1, -1}
  BY DEF Updates!EvidenceAssumption, Updates!Index, UpdateInv, UpdateTypes
<1> QED
  BY <1>1, <1>2, ComparedRow DEF RowIs

\* What was proven took effect.
LEMMA ProvenTookEffect ==
    ASSUME Updates!EvidenceAssumption, UpdateInv
    PROVE  Updates!AttackInEveryRound
<1> SUFFICES ASSUME verdict = "proven", config.kind \in {"sign_flipping", "free_rider", "collusion"},
                    NEW i \in Updates!Index, NEW n \in config.adversaries
             PROVE  /\ n \in DOMAIN Updates!Rows("attacked", i)
                    /\ LET row == Updates!AttackRow(i, n)
                           shift == row.submitted - row.before
                       IN  CASE config.kind = "sign_flipping" -> shift # row.genuine
                             [] config.kind = "free_rider" -> shift = 0
                             [] config.kind = "collusion" ->
                                  \A m \in config.adversaries :
                                     shift * (Updates!AttackRow(i, m).submitted
                                                - Updates!AttackRow(i, m).before) > 0
  BY DEF Updates!AttackInEveryRound, Updates!Adversary
<1>1. Updates!Agrees /\ config.adversaries \subseteq Trainer
  BY DEF UpdateInv, UpdateVerdict, UpdateTypes, Updates!EvidenceAssumption
<1> DEFINE row == Updates!AttackRow(i, n)
<1>2. CASE config.kind = "sign_flipping"
  <2>1. Updates!FlipsAgree
    BY <1>1, <1>2 DEF Updates!Agrees
  <2>2. n \in Updates!Participants("attacked", i)
    BY <2>1 DEF Updates!FlipsAgree, Updates!MaliciousIn, Updates!Adversary
  <2>3. n \in DOMAIN Updates!Rows("attacked", i)
    BY <1>2, <2>2 DEF Updates!Participants, Updates!TookPart, Updates!Adversary
  <2>4. /\ row.before \in Int /\ row.genuine \in Int /\ row.submitted \in Int
        /\ row.submitted = -(row.before + row.genuine) /\ row.submitted # 0
    BY <1>2, <2>3, EffectOfAdversary DEF Effect
  <2> HIDE DEF row
  <2>5. row.submitted - row.before # row.genuine
    BY <2>4
  <2> QED
    BY <1>2, <2>3, <2>5 DEF row
<1>3. CASE config.kind = "free_rider"
  <2>1. n \in DOMAIN Updates!Rows("attacked", i)
    BY <1>1, <1>3, NobodyAbsent
  <2>2. row.before \in Int /\ row.submitted = row.before
    BY <1>3, <2>1, EffectOfAdversary DEF Effect
  <2> QED
    BY <1>3, <2>1, <2>2
<1>4. CASE config.kind = "collusion"
  <2>1. \A m \in config.adversaries : m \in DOMAIN Updates!Rows("attacked", i)
    BY <1>1, <1>4, NobodyAbsent
  <2> DEFINE shift(m) == Updates!AttackRow(i, m).submitted - Updates!AttackRow(i, m).before
  <2>2. \A m \in config.adversaries : shift(m) \in Int
    BY <2>1, EffectOfAdversary
  <2>3. \A m, k \in config.adversaries : m # k => Updates!Cosine(shift(m), shift(k)) = 1
    BY <1>1, <1>4 DEF Updates!Agrees, Updates!CollusionAgrees, Updates!Adversary
  <2>4. PICK k \in config.adversaries : k # n
    <3>1. config.adversaries # {n}
      BY <1>4 DEF UpdateInv, UpdateTypes, Updates!EvidenceAssumption
    <3> QED
      BY <3>1
  <2> HIDE DEF shift
  <2>5. \A m, l \in config.adversaries : m # l =>
           \/ shift(m) > 0 /\ shift(l) > 0
           \/ shift(m) < 0 /\ shift(l) < 0
    BY <2>2, <2>3 DEF Updates!Cosine
  <2>6. \A a, b \in Int : (a > 0 /\ b > 0) \/ (a < 0 /\ b < 0) => a * b > 0
    OBVIOUS
  <2>7. ASSUME NEW m \in config.adversaries PROVE shift(n) * shift(m) > 0
    <3>1. (shift(n) > 0 /\ shift(m) > 0) \/ (shift(n) < 0 /\ shift(m) < 0)
      BY <2>4, <2>5
    <3> QED
      BY <2>2, <2>6, <3>1
  <2> QED
    BY <1>4, <2>1, <2>7 DEF shift
<1> QED
  BY <1>2, <1>3, <1>4

\* What was refused deserved it.
LEMMA RefusedForAReason ==
    ASSUME Updates!EvidenceAssumption, UpdateInv
    PROVE  Updates!RefusalIsDeserved
<1> SUFFICES ASSUME verdict = "refused"
             PROVE  \/ config.kind = "sign_flipping"
                          /\ \/ Updates!Final("clean") = Updates!Final("attacked")
                             \/ \E i \in Updates!Index :
                                   ~(config.adversaries \subseteq DOMAIN Updates!Rows("attacked", i))
                    \/ config.kind = "free_rider" /\ config.idle \ config.adversaries # {}
                    \/ config.kind = "collusion"
                          /\ \E i \in Updates!Index, n \in config.adversaries :
                                Updates!AttackRow(i, n).genuine = 0
  BY DEF Updates!RefusalIsDeserved, Updates!Adversary
<1>1. ~Updates!Agrees /\ config.adversaries \subseteq Trainer
  BY DEF UpdateInv, UpdateVerdict, UpdateTypes, Updates!EvidenceAssumption
<1>2. config.kind \in {"sign_flipping", "free_rider", "collusion", "backdoor", "label_flipping"}
  BY DEF UpdateInv, UpdateTypes, Updates!EvidenceAssumption, Updates!Kinds
<1>3. config.kind # "sign_flipping" => Updates!SameParticipants
  BY DEF Updates!SameParticipants, Updates!Participants
<1>4. CASE config.kind = "sign_flipping"
  <2>1. SUFFICES ASSUME Updates!ModelsDiffer,
                        \A i \in Updates!Index :
                           config.adversaries \subseteq DOMAIN Updates!Rows("attacked", i)
                 PROVE  FALSE
    BY <1>4 DEF Updates!ModelsDiffer
  <2>2. \A i \in Updates!Index : Updates!Participants("clean", i) = Trainer
                                  /\ Updates!Participants("attacked", i) = Trainer
    BY <2>1 DEF Updates!Participants, Updates!TookPart, Updates!Adversary
  <2>3. \A i \in Updates!Index : Updates!MaliciousIn(i) = config.adversaries
    BY <1>1, <2>2 DEF Updates!MaliciousIn, Updates!Adversary
  <2> QED
    BY <1>1, <1>4, <2>1, <2>2, <2>3
       DEF Updates!Agrees, Updates!FlipsAgree, Updates!SameParticipants, Updates!Adversary
<1>5. CASE config.kind = "free_rider"
  <2>1. SUFFICES ASSUME config.idle \ config.adversaries = {} PROVE FALSE
    BY <1>5
  <2>2. \A i \in Updates!Index : Updates!MaliciousIn(i) = config.adversaries
    BY <1>1, <1>5 DEF Updates!MaliciousIn, Updates!Participants, Updates!Adversary
  <2>3. ASSUME NEW i \in Updates!Index, NEW n \in config.adversaries
        PROVE  LET row == Updates!AttackRow(i, n) IN
               row.steps = 0 /\ Updates!Unchanged(row) /\ row.applied = 1
    <3>1. n \in DOMAIN Updates!Rows("attacked", i)
      BY <1>1, <1>5, NobodyAbsent
    <3> QED
      BY <1>5, <3>1, EffectOfAdversary DEF Effect, Updates!Unchanged
  <2>4. ASSUME NEW i \in Updates!Index, NEW n \in Trainer \ config.adversaries
        PROVE  Updates!AttackRow(i, n).steps > 0 /\ Updates!AttackRow(i, n).applied = 0
    <3>1. n \in DOMAIN Updates!Rows("attacked", i)
      BY <1>5, NobodyAbsent
    <3>2. ~Attacked("attacked", n) /\ n \notin config.idle
      BY <2>1 DEF Attacked
    <3> QED
      BY <3>1, <3>2, ComparedRow DEF RowIs
  <2> QED
    BY <1>1, <1>3, <1>5, <2>2, <2>3, <2>4
       DEF Updates!Agrees, Updates!FreeRidesAgree, Updates!Adversary
<1>6. CASE config.kind = "collusion"
  <2>1. SUFFICES ASSUME \A i \in Updates!Index, n \in config.adversaries :
                           Updates!AttackRow(i, n).genuine # 0
                 PROVE  FALSE
    BY <1>6
  <2>2. ASSUME NEW i \in Updates!Index, NEW n \in config.adversaries
        PROVE  LET row == Updates!AttackRow(i, n) IN
               /\ row.submitted \in Int /\ row.before \in Int /\ row.genuine \in Int
               /\ row.submitted - row.before = config.direction[i] * Updates!Size(row.genuine)
               /\ row.genuine # 0 /\ row.steps = 1 /\ row.applied = 1
               /\ config.direction[i] \in {1, -1}
    <3>1. n \in DOMAIN Updates!Rows("attacked", i)
      BY <1>1, <1>6, NobodyAbsent
    <3> DEFINE row == Updates!AttackRow(i, n)
    <3>2. /\ row.submitted \in Int /\ row.before \in Int /\ row.genuine \in Int
          /\ row.submitted = row.before + config.direction[i] * Updates!Size(row.genuine)
          /\ row.applied = 1 /\ config.direction[i] \in {1, -1}
      BY <1>6, <3>1, EffectOfAdversary DEF Effect
    <3>3. row.genuine # 0 /\ row.steps = 1
      BY <1>6, <2>1, <3>1, EffectOfAdversary
    <3> HIDE DEF row
    <3>4. row.submitted - row.before = config.direction[i] * Updates!Size(row.genuine)
      BY <3>2 DEF Updates!Size
    <3> QED
      BY <3>2, <3>3, <3>4 DEF row
  <2> DEFINE shift(i, n) == Updates!AttackRow(i, n).submitted - Updates!AttackRow(i, n).before
  <2>3. ASSUME NEW i \in Updates!Index, NEW n \in config.adversaries
        PROVE  /\ Updates!Size(shift(i, n)) = Updates!Size(Updates!AttackRow(i, n).genuine)
               /\ shift(i, n) # 0 /\ (shift(i, n) > 0 <=> config.direction[i] = 1)
    <3>1. \A g \in Int, d \in {1, -1} :
            g # 0 => /\ Updates!Size(d * Updates!Size(g)) = Updates!Size(g)
                     /\ d * Updates!Size(g) # 0 /\ (d * Updates!Size(g) > 0 <=> d = 1)
      BY DEF Updates!Size
    <3> QED
      BY <2>2, <3>1
  <2>4. ASSUME NEW i \in Updates!Index, NEW m \in config.adversaries, NEW n \in config.adversaries
        PROVE  Updates!Cosine(shift(i, m), shift(i, n)) = 1
    BY <2>3 DEF Updates!Cosine
  <2>5. ASSUME NEW i \in Updates!Index, NEW n \in Trainer \ config.adversaries
        PROVE  Updates!AttackRow(i, n).applied = 0
    <3>1. n \in DOMAIN Updates!Rows("attacked", i)
      BY <1>6, NobodyAbsent
    <3>2. ~Attacked("attacked", n)
      BY DEF Attacked
    <3> QED
      BY <3>1, <3>2, ComparedRow DEF RowIs
  <2> QED
    BY <1>1, <1>3, <1>6, <2>2, <2>3, <2>4, <2>5
       DEF Updates!Agrees, Updates!CollusionAgrees, Updates!Adversary
<1>7. CASE config.kind \in {"backdoor", "label_flipping"}
  BY <1>1, <1>3, <1>7 DEF Updates!Agrees
<1> QED
  BY <1>2, <1>4, <1>5, <1>6, <1>7

\* Of any trainers, configurations and rounds, with noise in the updates and absences: the
\* attack that an experiment calls proven took effect in every round, and one that it
\* refuses was void: the flipped updates cancel out or an adversary was left out, a benign
\* node has no batch, a colluder's training moved nothing (compare_collusion.py and its
\* siblings).
THEOREM AttacksAreJudged ==
    ASSUME Updates!EvidenceAssumption
    PROVE  Updates!Spec => [](Updates!AttackInEveryRound /\ Updates!RefusalIsDeserved)
<1> QED
  BY UpdateInvariance, ProvenTookEffect, RefusedForAReason, PTL

-----------------------------------------------------------------------------
(* The comparators together.                                                *)

ComparisonInv ==
    /\ compared \in {"votes", "cells", "updates"}
    /\ compared = "votes" => GateInv
    /\ compared = "cells" => PairInv
    /\ compared = "updates" => UpdateInv

\* Whatever is compared, of any nodes, policies, configurations and numbers of rounds,
\* and with at most one field told wrongly of a run under the gate: what a comparator
\* of brbfl/experiments calls proven is so, and what it refuses deserves it.
THEOREM ComparatorsAreRight ==
    ASSUME MaxLies <= 1
    PROVE  ComparisonSpec => []ComparisonsAreTrue
<1>1. ComparisonInit => ComparisonInv
  BY ComparatorAssumption, VoteStart, PairStart, UpdateStart DEF ComparisonInit, ComparisonInv
<1>2. ComparisonInv /\ [ComparisonNext]_comparisonVars => ComparisonInv'
  <2> SUFFICES ASSUME ComparisonInv, [ComparisonNext]_comparisonVars PROVE ComparisonInv'
    OBVIOUS
  <2>1. UNCHANGED compared
    BY DEF ComparisonNext, VotesStep, CellsStep, UpdatesStep, comparisonVars
  <2>2. ASSUME compared = "votes" PROVE GateInv'
    <3>1. [Votes!Next]_(Votes!vars)
      BY <2>2 DEF ComparisonNext, VotesStep, CellsStep, UpdatesStep, comparisonVars, votesOnly,
                  Votes!vars, Votes!truth
    <3> QED
      BY <2>2, <3>1, ComparatorAssumption, VoteKept DEF ComparisonInv
  <2>3. ASSUME compared = "cells" PROVE PairInv'
    <3>1. [PairNext]_pairVars
      BY <2>3 DEF ComparisonNext, VotesStep, CellsStep, UpdatesStep, comparisonVars, pairVars
    <3> QED
      BY <2>3, <3>1, ComparatorAssumption, PairKept DEF ComparisonInv
  <2>4. ASSUME compared = "updates" PROVE UpdateInv'
    <3>1. [Updates!Next]_(Updates!vars)
      BY <2>4 DEF ComparisonNext, VotesStep, CellsStep, UpdatesStep, comparisonVars, Updates!vars
    <3> QED
      BY <2>4, <3>1, ComparatorAssumption, UpdateKept DEF ComparisonInv
  <2> QED
    BY <2>1, <2>2, <2>3, <2>4 DEF ComparisonInv
<1>3. ComparisonInv => ComparisonsAreTrue
  <2>1. GateInv => Votes!ProvenIsCaused /\ Votes!GenuineIsProven /\ Votes!TrustIsTold
    BY ComparatorAssumption, CauseFromProof, ProofOfGenuine, TrustFromVotes
  <2>2. PairInv => ClaimHolds /\ AttackIsProven
    BY ComparatorAssumption, ExclusionFromPair, InterventionFromPair
  <2>3. UpdateInv => Updates!AttackInEveryRound /\ Updates!RefusalIsDeserved
    BY ComparatorAssumption, ProvenTookEffect, RefusedForAReason
  <2> QED
    BY <2>1, <2>2, <2>3 DEF ComparisonInv, ComparisonsAreTrue
<1> QED
  BY <1>1, <1>2, <1>3, PTL DEF ComparisonSpec
=============================================================================
