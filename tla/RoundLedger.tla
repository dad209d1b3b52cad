----------------------------- MODULE RoundLedger -----------------------------
(***************************************************************************)
(* The lifecycle ledger of one experiment: brbfl/ledger/memory.py,         *)
(* InMemoryLedger.  Every public operation that changes the ledger is an   *)
(* action; a call the code rejects (RuntimeError or ValueError before any  *)
(* assignment) and a call it answers from the log (_idempotent) change     *)
(* nothing and are stuttering steps.                                       *)
(*                                                                         *)
(* A dictionary is a function that yields None for an absent key.  Hashes, *)
(* votes (the admitted flag with its evidence) and CA payloads are opaque. *)
(* The hash links of the log are its order: the sequence number of an      *)
(* event is its position.                                                  *)
(***************************************************************************)
EXTENDS Naturals, Sequences, FiniteSets, SequencesExt

CONSTANTS
    Node,             \* identifiers of participants
    MaxRound,         \* BOUND: rounds 0..MaxRound are explored
    InstallerChoices, \* required_installers a caller may start with
    CapabilityChoices,\* capability sets a participant may register
    Assignments,      \* role assignments a selector may produce
    ParentHash, CandidateHash, AggregateHash,
    Vote,             \* payload of one validator decision
    CAPayload,        \* payload of a CA transition
    Closable,         \* BOUND: whether close() is explored
    None              \* "absent", Python's None

Role == {"contributor", "validator", "aggregator", "participant"}
Round == 0..MaxRound

\* RoundRoleAssignment: only known participants may be given a role
AssignmentType ==
    {a \in [network : SUBSET Node, contributors : SUBSET Node,
            validators : SUBSET Node, aggregators : SUBSET Node] :
        a.contributors \cup a.validators \cup a.aggregators \subseteq a.network}

ASSUME BoundAssumption == MaxRound \in Nat

ASSUME InputAssumption ==
    /\ InstallerChoices \subseteq SUBSET Node
    /\ CapabilityChoices \subseteq SUBSET Role
    /\ Assignments \subseteq AssignmentType

AdmissionMaps == UNION {[S -> BOOLEAN] : S \in SUBSET Node}
InputMaps == UNION {[S -> CandidateHash] : S \in SUBSET Node}
AggregateType == [inputs : InputMaps, hash : AggregateHash]
FinalizationType == [hash : AggregateHash, installers : SUBSET Node]

\* None is none of the values the ledger stores.
ASSUME NoneAssumption ==
    /\ None \notin ParentHash \cup CandidateHash \cup AggregateHash \cup Vote \cup CAPayload
    /\ \A S \in (SUBSET Node) \cup (SUBSET Role) : S # None
    /\ None \notin AssignmentType
    /\ None \notin AdmissionMaps
    /\ None \notin AggregateType
    /\ None \notin FinalizationType

VARIABLES
    required,     \* _Experiment.required_installers, None before the start
    participants, \* _Experiment.participants
    roles,        \* _Round.assignment, None when the round has no record
    parent,       \* _Round.parent_model_hash
    candidates,   \* _Round.candidates
    decisions,    \* _Round.decisions, keyed by <<validator, contributor>>
    admission,    \* _Round.admission
    aggregate,    \* _Round.aggregate
    installations,\* _Round.installations
    finalized,    \* _Round.finalized
    ca,           \* _Experiment.ca_transitions
    events,       \* _events
    closed        \* _closed

roundVars == <<roles, parent, candidates, decisions, admission, aggregate,
               installations, finalized>>
vars == <<required, participants, roundVars, ca, events, closed>>

-----------------------------------------------------------------------------

Event(type, r, n, payload) ==
    [type |-> type, round |-> r, participant |-> n, payload |-> payload]

\* _append: the callers assign their record first, so on a closed ledger the
\* assignment stays and only the event is refused.
AppendEvent(e) == events' = IF closed THEN events ELSE Append(events, e)

\* _round: the record exists and, for a mutation, is not final.  (Here and
\* below, the definition written just before a guard is a plausible wrong form
\* of it: ExistsOnly forgets finality.)
ExistsOnly(r) == roles[r] # None
Mutable(r) == roles[r] # None /\ ~finalized[r]

Registered == {n \in Node : participants[n] # None}
Committed(r) == {n \in Node : candidates[r][n] # None}
Installed(r) == {n \in Node : installations[r][n] # None}
Admitted(r) == {n \in DOMAIN admission[r] : admission[r][n]}

\* validate_capabilities
Capable(a) ==
    /\ \A n \in a.contributors : "contributor" \in participants[n]
    /\ \A n \in a.validators : "validator" \in participants[n]
    /\ \A n \in a.aggregators : "aggregator" \in participants[n]

-----------------------------------------------------------------------------

Init ==
    /\ required = None
    /\ participants = [n \in Node |-> None]
    /\ roles = [r \in Round |-> None]
    /\ parent = [r \in Round |-> None]
    /\ candidates = [r \in Round |-> [n \in Node |-> None]]
    /\ decisions = [r \in Round |-> [k \in Node \X Node |-> None]]
    /\ admission = [r \in Round |-> None]
    /\ aggregate = [r \in Round |-> None]
    /\ installations = [r \in Round |-> [n \in Node |-> None]]
    /\ finalized = [r \in Round |-> FALSE]
    /\ ca = [r \in Round |-> None]
    /\ events = <<>>
    /\ closed = FALSE

StartExperiment(installers) ==
    /\ required = None
    /\ required' = installers
    /\ AppendEvent(Event("ExperimentStarted", None, None, installers))
    /\ UNCHANGED <<participants, roundVars, ca, closed>>

RegisterParticipant(n, capabilities) ==
    /\ required # None
    /\ capabilities # {}
    /\ participants[n] = None
    /\ participants' = [participants EXCEPT ![n] = capabilities]
    /\ AppendEvent(Event("ParticipantRegistered", None, n, capabilities))
    /\ UNCHANGED <<required, roundVars, ca, closed>>

\* The guard of commit_round_roles on the previous round.
PreviousAny(r) == TRUE
PreviousFinal(r) == r > 0 => finalized[r - 1]

CommitRoundRoles(r, a) ==
    /\ required # None
    /\ a.network = Registered
    /\ Capable(a)
    /\ roles[r] = None
    /\ PreviousFinal(r)
    /\ roles' = [roles EXCEPT ![r] = a]
    /\ AppendEvent(Event("RoundRolesCommitted", r, None, a))
    /\ UNCHANGED <<required, participants, parent, candidates, decisions,
                   admission, aggregate, installations, finalized, ca, closed>>

OpenRound(r, h) ==
    /\ Mutable(r)
    /\ parent[r] = None
    /\ parent' = [parent EXCEPT ![r] = h]
    /\ AppendEvent(Event("RoundOpened", r, None, h))
    /\ UNCHANGED <<required, participants, roles, candidates, decisions,
                   admission, aggregate, installations, finalized, ca, closed>>

\* A submission names its parent model; only the parent of the round passes.
CommitCandidate(r, n, p, h) ==
    /\ Mutable(r)
    /\ parent[r] # None
    /\ n \in roles[r].contributors
    /\ p = parent[r]
    /\ candidates[r][n] = None
    /\ candidates' = [candidates EXCEPT ![r][n] = h]
    /\ AppendEvent(Event("CandidateCommitted", r, n, h))
    /\ UNCHANGED <<required, participants, roles, parent, decisions,
                   admission, aggregate, installations, finalized, ca, closed>>

RecordValidatorDecision(r, v, n, h, vote) ==
    /\ Mutable(r)
    /\ v \in roles[r].validators
    /\ candidates[r][n] # None
    /\ candidates[r][n] = h
    /\ decisions[r][<<v, n>>] = None
    /\ decisions' = [decisions EXCEPT ![r][<<v, n>>] = vote]
    /\ AppendEvent(Event("ValidatorDecisionCommitted", r, <<v, n>>, vote))
    /\ UNCHANGED <<required, participants, roles, parent, candidates,
                   admission, aggregate, installations, finalized, ca, closed>>

\* finalize_admission: the map decides the committed candidates and no other,
\* and each of them has the decision of every selected validator.  The map
\* itself is the caller's: it is not compared with the decisions.
JudgedOne(r) ==
    \A n \in Committed(r) : \E v \in roles[r].validators : decisions[r][<<v, n>>] # None
FullyJudged(r) ==
    \A v \in roles[r].validators, n \in Committed(r) : decisions[r][<<v, n>>] # None

FinalizeAdmission(r, map) ==
    /\ Mutable(r)
    /\ DOMAIN map = Committed(r)
    /\ FullyJudged(r)
    /\ admission[r] = None
    /\ admission' = [admission EXCEPT ![r] = map]
    /\ AppendEvent(Event("AdmissionFinalized", r, None, map))
    /\ UNCHANGED <<required, participants, roles, parent, candidates,
                   decisions, aggregate, installations, finalized, ca, closed>>

\* commit_aggregate: the inputs are exactly the admitted candidate hashes.
ExactInputs(r) == [n \in Admitted(r) |-> candidates[r][n]]
MatchesNames(r, inputs) == DOMAIN inputs = Admitted(r)
MatchesAdmission(r, inputs) == inputs = ExactInputs(r)

\* The commitment keeps the inputs next to the hash.
HashRecord(inputs, h) == h
AggregateRecord(inputs, h) == [inputs |-> inputs, hash |-> h]

CommitAggregate(r, inputs, h) ==
    /\ Mutable(r)
    /\ admission[r] # None
    /\ MatchesAdmission(r, inputs)
    /\ aggregate[r] = None
    /\ aggregate' = [aggregate EXCEPT ![r] = AggregateRecord(inputs, h)]
    /\ AppendEvent(Event("AggregateCommitted", r, None, AggregateRecord(inputs, h)))
    /\ UNCHANGED <<required, participants, roles, parent, candidates,
                   decisions, admission, installations, finalized, ca, closed>>

CanonicalAny(r, h) == aggregate[r] # None
Canonical(r, h) == aggregate[r] # None /\ aggregate[r].hash = h

ConfirmModelInstallation(r, n, h) ==
    /\ Mutable(r)
    /\ n \in Registered
    /\ Canonical(r, h)
    /\ installations[r][n] = None
    /\ installations' = [installations EXCEPT ![r][n] = h]
    /\ AppendEvent(Event("ModelInstallationConfirmed", r, n, h))
    /\ UNCHANGED <<required, participants, roles, parent, candidates,
                   decisions, admission, aggregate, finalized, ca, closed>>

RequiredInstalledNone(r) == TRUE
RequiredInstalled(r) == required \subseteq Installed(r)

FinalizeRound(r) ==
    /\ Mutable(r)
    /\ aggregate[r] # None
    /\ RequiredInstalled(r)
    /\ finalized' = [finalized EXCEPT ![r] = TRUE]
    /\ AppendEvent(Event("RoundFinalized", r, None,
                         [hash |-> aggregate[r].hash, installers |-> Installed(r)]))
    /\ UNCHANGED <<required, participants, roles, parent, candidates,
                   decisions, admission, aggregate, installations, ca, closed>>

CommitCATransition(r, payload) ==
    /\ finalized[r]
    /\ ca[r] = None
    /\ ca' = [ca EXCEPT ![r] = payload]
    /\ AppendEvent(Event("CATransitionCommitted", r, None, payload))
    /\ UNCHANGED <<required, participants, roundVars, closed>>

Close ==
    /\ Closable
    /\ ~closed
    /\ closed' = TRUE
    /\ UNCHANGED <<required, participants, roundVars, ca, events>>

-----------------------------------------------------------------------------

RoundStep(r) ==
    \/ \E a \in Assignments : CommitRoundRoles(r, a)
    \/ \E h \in ParentHash : OpenRound(r, h)
    \/ \E n \in Node, p \in ParentHash, h \in CandidateHash : CommitCandidate(r, n, p, h)
    \/ \E v, n \in Node, h \in CandidateHash, vote \in Vote :
          RecordValidatorDecision(r, v, n, h, vote)
    \/ \E map \in AdmissionMaps : FinalizeAdmission(r, map)
    \/ \E inputs \in InputMaps, h \in AggregateHash : CommitAggregate(r, inputs, h)
    \/ \E n \in Node, h \in AggregateHash : ConfirmModelInstallation(r, n, h)
    \/ FinalizeRound(r)
    \/ \E payload \in CAPayload : CommitCATransition(r, payload)

Next ==
    \/ \E installers \in InstallerChoices : StartExperiment(installers)
    \/ \E n \in Node, c \in CapabilityChoices : RegisterParticipant(n, c)
    \/ \E r \in Round : RoundStep(r)
    \/ Close

Spec == Init /\ [][Next]_vars

-----------------------------------------------------------------------------

\* Type invariant of the ledger's records.
TypeOK ==
    /\ required \in {None} \cup SUBSET Node
    /\ participants \in [Node -> {None} \cup SUBSET Role]
    /\ roles \in [Round -> {None} \cup AssignmentType]
    /\ parent \in [Round -> {None} \cup ParentHash]
    /\ candidates \in [Round -> [Node -> {None} \cup CandidateHash]]
    /\ decisions \in [Round -> [Node \X Node -> {None} \cup Vote]]
    /\ admission \in [Round -> {None} \cup AdmissionMaps]
    /\ aggregate \in [Round -> {None} \cup AggregateType]
    /\ installations \in [Round -> [Node -> {None} \cup AggregateHash]]
    /\ finalized \in [Round -> BOOLEAN]
    /\ ca \in [Round -> {None} \cup CAPayload]
    /\ closed \in BOOLEAN

-----------------------------------------------------------------------------

\* One event per fact of the records: the log the records call for.  A fact is
\* a record of its own, or an entry of a table.
SingleFact(type, r, value) ==
    IF value = None THEN {} ELSE {Event(type, r, None, value)}
TableFacts(type, r, table) ==
    {Event(type, r, k, table[k]) : k \in {k \in DOMAIN table : table[k] # None}}

FinalizationOrNone(r) ==
    IF finalized[r] THEN [hash |-> aggregate[r].hash, installers |-> Installed(r)] ELSE None

RoundFacts(r) ==
    SingleFact("RoundRolesCommitted", r, roles[r])
    \cup SingleFact("RoundOpened", r, parent[r])
    \cup TableFacts("CandidateCommitted", r, candidates[r])
    \cup TableFacts("ValidatorDecisionCommitted", r, decisions[r])
    \cup SingleFact("AdmissionFinalized", r, admission[r])
    \cup SingleFact("AggregateCommitted", r, aggregate[r])
    \cup TableFacts("ModelInstallationConfirmed", r, installations[r])
    \cup SingleFact("RoundFinalized", r, FinalizationOrNone(r))
    \cup SingleFact("CATransitionCommitted", r, ca[r])

Facts ==
    SingleFact("ExperimentStarted", None, required)
    \cup TableFacts("ParticipantRegistered", None, participants)
    \cup UNION {RoundFacts(r) : r \in Round}

\* An auditor who only has the log of an open ledger rebuilds every record of
\* it: each fact is logged exactly once, and nothing else is.  _idempotent
\* (memory.py:340-358) and validation_artifact rely on it.
LogIsExactAccount ==
    ~closed => /\ ToSet(events) = Facts
               /\ Len(events) = Cardinality(Facts)

\* The events of a type and round in a set of events.
Logged(log, type, r) == {e \in log : e.type = type /\ e.round = r}

\* What the log must already say when an event is appended to it.
Justified(e, log) ==
    LET r == e.round
        Earlier(type) == Logged(log, type, r)
    IN CASE e.type = "RoundRolesCommitted" ->
                r > 0 => Logged(log, "RoundFinalized", r - 1) # {}
         [] e.type = "CandidateCommitted" -> Earlier("RoundOpened") # {}
         [] e.type = "ValidatorDecisionCommitted" ->
                \E c \in Earlier("CandidateCommitted") : c.participant = e.participant[2]
         [] e.type = "AdmissionFinalized" ->
                \A n \in DOMAIN e.payload :
                    \A a \in Earlier("RoundRolesCommitted") : \A v \in a.payload.validators :
                        \E d \in Earlier("ValidatorDecisionCommitted") : d.participant = <<v, n>>
         [] e.type = "AggregateCommitted" ->
                \E a \in Earlier("AdmissionFinalized") :
                    /\ DOMAIN e.payload.inputs = {n \in DOMAIN a.payload : a.payload[n]}
                    /\ \A n \in DOMAIN e.payload.inputs :
                          \E c \in Earlier("CandidateCommitted") :
                              c.participant = n /\ c.payload = e.payload.inputs[n]
         [] e.type = "ModelInstallationConfirmed" ->
                \E g \in Earlier("AggregateCommitted") : g.payload.hash = e.payload
         [] e.type = "RoundFinalized" ->
                \A s \in Logged(log, "ExperimentStarted", None) : \A n \in s.payload :
                    \E i \in Earlier("ModelInstallationConfirmed") : i.participant = n
         [] e.type = "CATransitionCommitted" -> Earlier("RoundFinalized") # {}
         [] OTHER -> TRUE

\* Every event of the log was justified by the events before it: the order
\* docs/round-roles-and-ledger.md gives under "Event boundary".
EveryEventJustified ==
    \A j \in DOMAIN events : Justified(events[j], {events[i] : i \in 1..(j - 1)})

\* A finalized admission decides committed candidates only, and each of them
\* was judged by every validator selected for the round.
AdmissionJudged ==
    \A r \in Round : admission[r] # None =>
        \A n \in DOMAIN admission[r] :
            /\ candidates[r][n] # None
            /\ \A v \in roles[r].validators : decisions[r][<<v, n>>] # None

\* The aggregate's inputs stay the candidate hashes the admission admitted, and
\* every confirmed installation is of that aggregate.
AggregateOfAdmitted ==
    \A r \in Round : aggregate[r] # None =>
        /\ admission[r] # None
        /\ aggregate[r].inputs = ExactInputs(r)

\* All participants that confirmed a round's installation hold one model, the
\* committed aggregate: the "model consensus" of round-roles-and-ledger.md.
InstalledCanonical ==
    \A r \in Round : \A n \in Installed(r) :
        aggregate[r] # None /\ installations[r][n] = aggregate[r].hash

\* A round has a record only after its predecessor is final, and a final round
\* has the confirmation of every required installer.
RoundsChained ==
    \A r \in Round :
        /\ roles[r] # None /\ r > 0 => finalized[r - 1]
        /\ finalized[r] => /\ roles[r] # None
                           /\ aggregate[r] # None
                           /\ required \subseteq Installed(r)

\* finalized round cannot be mutated (memory.py:105): no call ever changes the
\* record of a finalized round again.
FrozenRound(r) ==
    finalized[r] =>
        /\ roles'[r] = roles[r]
        /\ parent'[r] = parent[r]
        /\ candidates'[r] = candidates[r]
        /\ decisions'[r] = decisions[r]
        /\ admission'[r] = admission[r]
        /\ aggregate'[r] = aggregate[r]
        /\ installations'[r] = installations[r]
        /\ finalized'[r]

FinalizedRoundFrozen == [][\A r \in Round : FrozenRound(r)]_vars

\* memory.py:270: admission must decide every and only committed candidate.
\* finalize_admission tests it when the map is frozen, and commit_candidate
\* still accepts a candidate of the round afterwards: a stated expectation that
\* the code does not meet (README, section 4).
AdmissionCoversCandidates ==
    \A r \in Round : admission[r] # None => DOMAIN admission[r] = Committed(r)

\* memory.py:358 calls a record without its event an error ("ledger state has
\* no matching event"); memory.py:61 refuses the event of an operation on a
\* closed ledger after the operation has changed the record: not met either.
EveryFactHasEvent == Facts \subseteq ToSet(events)

-----------------------------------------------------------------------------

AdmittedOrNone(r) == IF admission[r] = None THEN None ELSE Admitted(r)
HashOrNone(r) == IF aggregate[r] = None THEN None ELSE aggregate[r].hash

Contract == INSTANCE RoundContract WITH
    Hash <- AggregateHash,
    admitted <- [r \in Round |-> AdmittedOrNone(r)],
    model <- [r \in Round |-> HashOrNone(r)],
    holders <- [r \in Round |-> Installed(r)],
    done <- finalized

\* The ledger keeps the contract of the BlockchainLedger interface (base.py:54):
\* each record it accepts is a step of the contract or leaves it alone.
ImplementsContract == Contract!Spec

=============================================================================
