-------------------------- MODULE RoundLedgerProofs --------------------------
(***************************************************************************)
(* Theorems about RoundLedger, for every set of nodes, hashes, votes and   *)
(* assignments and every number of rounds.  IInv strengthens the safety    *)
(* invariants into an inductive one: a round without an assignment has no  *)
(* admission and is not final.  From it follow the refinement of            *)
(* RoundContract and, with the correspondence between records and events,  *)
(* what the log says.                                                      *)
(***************************************************************************)
EXTENDS RoundLedger, FiniteSetTheorems, TLAPS

\* Nothing is settled in a round that has no assignment, and no round has one
\* before the experiment starts.
SettledHasRoles ==
    \A r \in Round :
        /\ roles[r] # None => required # None
        /\ roles[r] = None => admission[r] = None /\ ~finalized[r]

IInv ==
    /\ TypeOK
    /\ SettledHasRoles
    /\ AdmissionJudged
    /\ AggregateOfAdmitted
    /\ InstalledCanonical
    /\ RoundsChained

-----------------------------------------------------------------------------

\* The initial state has the types.
LEMMA InitTypeOK == Init => TypeOK
<1> SUFFICES ASSUME Init PROVE TypeOK
  OBVIOUS
<1>1. decisions \in [Round -> [Node \X Node -> Vote \cup {None}]]
  BY DEF Init
<1> QED
  BY <1>1 DEF Init, TypeOK

\* Every operation keeps the types.
LEMMA NextTypeOK == TypeOK /\ [Next]_vars => TypeOK'
<1> SUFFICES ASSUME TypeOK, [Next]_vars PROVE TypeOK'
  OBVIOUS
<1> USE InputAssumption DEF TypeOK
<1>1. ASSUME NEW installers \in InstallerChoices, StartExperiment(installers)
      PROVE  TypeOK'
  BY <1>1 DEF StartExperiment, roundVars
<1>2. ASSUME NEW n \in Node, NEW c \in CapabilityChoices, RegisterParticipant(n, c)
      PROVE  TypeOK'
  BY <1>2 DEF RegisterParticipant, roundVars
<1>3. ASSUME NEW r \in Round, RoundStep(r)
      PROVE  TypeOK'
  <2>1. ASSUME NEW a \in Assignments, CommitRoundRoles(r, a) PROVE TypeOK'
    BY <2>1 DEF CommitRoundRoles
  <2>2. ASSUME NEW h \in ParentHash, OpenRound(r, h) PROVE TypeOK'
    BY <2>2 DEF OpenRound
  <2>3. ASSUME NEW n \in Node, NEW p \in ParentHash, NEW h \in CandidateHash,
               CommitCandidate(r, n, p, h)
        PROVE  TypeOK'
    BY <2>3 DEF CommitCandidate
  <2>4. ASSUME NEW v \in Node, NEW n \in Node, NEW h \in CandidateHash, NEW vote \in Vote,
               RecordValidatorDecision(r, v, n, h, vote)
        PROVE  TypeOK'
    BY <2>4 DEF RecordValidatorDecision
  <2>5. ASSUME NEW map \in AdmissionMaps, FinalizeAdmission(r, map) PROVE TypeOK'
    BY <2>5 DEF FinalizeAdmission
  <2>6. ASSUME NEW inputs \in InputMaps, NEW h \in AggregateHash, CommitAggregate(r, inputs, h)
        PROVE  TypeOK'
    BY <2>6 DEF CommitAggregate, AggregateRecord, AggregateType
  <2>7. ASSUME NEW n \in Node, NEW h \in AggregateHash, ConfirmModelInstallation(r, n, h)
        PROVE  TypeOK'
    BY <2>7 DEF ConfirmModelInstallation
  <2>8. CASE FinalizeRound(r)
    BY <2>8 DEF FinalizeRound
  <2>9. ASSUME NEW payload \in CAPayload, CommitCATransition(r, payload) PROVE TypeOK'
    BY <2>9 DEF CommitCATransition, roundVars
  <2> QED
    BY <1>3, <2>1, <2>2, <2>3, <2>4, <2>5, <2>6, <2>7, <2>8, <2>9 DEF RoundStep
<1>4. CASE Close
  BY <1>4 DEF Close, roundVars
<1>5. CASE UNCHANGED vars
  BY <1>5 DEF vars, roundVars
<1> QED
  BY <1>1, <1>2, <1>3, <1>4, <1>5 DEF Next

\* The records of the ledger have their types in every reachable state.
THEOREM TypeCorrect == Spec => []TypeOK
  BY InitTypeOK, NextTypeOK, PTL DEF Spec

-----------------------------------------------------------------------------

\* The aggregate inputs are a function of the admission map and the hashes of
\* the candidates it decides.
LEMMA SameInputs ==
    ASSUME NEW r \in Round, admission'[r] = admission[r],
           \A n \in DOMAIN admission[r] : candidates'[r][n] = candidates[r][n]
    PROVE  ExactInputs(r)' = ExactInputs(r)
<1>1. Admitted(r)' = Admitted(r)
  BY DEF Admitted
<1>2. \A n \in Admitted(r) : candidates'[r][n] = candidates[r][n]
  BY DEF Admitted
<1> QED
  BY <1>1, <1>2 DEF ExactInputs

\* The state functions of the safety invariants do not look at the log, the
\* CA transitions, the registrations or the closed flag.
safetyVars == <<required, roundVars>>

LEMMA SafetyStutter ==
    ASSUME IInv, TypeOK', UNCHANGED safetyVars
    PROVE  IInv'
  BY DEF IInv, safetyVars, roundVars, SettledHasRoles, AdmissionJudged,
         AggregateOfAdmitted, InstalledCanonical, RoundsChained, ExactInputs,
         Admitted, Installed

LEMMA InitIInv == Init => IInv
<1> SUFFICES ASSUME Init PROVE IInv
  OBVIOUS
<1>1. TypeOK
  BY InitTypeOK
<1>2. SettledHasRoles /\ AdmissionJudged /\ AggregateOfAdmitted /\ RoundsChained
  BY DEF Init, SettledHasRoles, AdmissionJudged, AggregateOfAdmitted, RoundsChained
<1>3. InstalledCanonical
  BY DEF Init, InstalledCanonical, Installed
<1> QED
  BY <1>1, <1>2, <1>3 DEF IInv

LEMMA CommitRoundRolesIInv ==
    ASSUME IInv, TypeOK', NEW r \in Round, NEW a \in Assignments, CommitRoundRoles(r, a)
    PROVE  IInv'
<1> USE DEF IInv, TypeOK, CommitRoundRoles
<1>1. SettledHasRoles'
  BY DEF SettledHasRoles
<1>2. AdmissionJudged'
  BY DEF SettledHasRoles, AdmissionJudged
<1>3. AggregateOfAdmitted' /\ InstalledCanonical'
  BY SameInputs DEF AggregateOfAdmitted, InstalledCanonical, Installed
<1>4. RoundsChained'
  BY DEF RoundsChained, SettledHasRoles, PreviousFinal, Installed
<1> QED
  BY <1>1, <1>2, <1>3, <1>4

LEMMA CommitCandidateIInv ==
    ASSUME IInv, TypeOK', NEW r \in Round, NEW n \in Node, NEW p \in ParentHash,
           NEW h \in CandidateHash, CommitCandidate(r, n, p, h)
    PROVE  IInv'
<1> USE NoneAssumption DEF IInv, TypeOK, CommitCandidate
<1>1. SettledHasRoles' /\ InstalledCanonical' /\ RoundsChained'
  BY DEF SettledHasRoles, InstalledCanonical, RoundsChained, Installed
<1>2. AdmissionJudged'
  BY DEF AdmissionJudged
<1>3. AggregateOfAdmitted'
  <2>1. ASSUME NEW s \in Round, aggregate[s] # None
        PROVE  ExactInputs(s)' = ExactInputs(s)
    BY <2>1, SameInputs DEF AdmissionJudged, AggregateOfAdmitted
  <2> QED
    BY <2>1 DEF AggregateOfAdmitted
<1> QED
  BY <1>1, <1>2, <1>3

LEMMA RecordValidatorDecisionIInv ==
    ASSUME IInv, TypeOK', NEW r \in Round, NEW v \in Node, NEW n \in Node,
           NEW h \in CandidateHash, NEW vote \in Vote,
           RecordValidatorDecision(r, v, n, h, vote)
    PROVE  IInv'
<1> USE NoneAssumption DEF IInv, TypeOK, RecordValidatorDecision
<1>1. SettledHasRoles' /\ InstalledCanonical' /\ RoundsChained'
  BY DEF SettledHasRoles, InstalledCanonical, RoundsChained, Installed
<1>2. AdmissionJudged'
  BY DEF AdmissionJudged
<1>3. AggregateOfAdmitted'
  BY SameInputs DEF AggregateOfAdmitted
<1> QED
  BY <1>1, <1>2, <1>3

LEMMA FinalizeAdmissionIInv ==
    ASSUME IInv, TypeOK', NEW r \in Round, NEW map \in AdmissionMaps,
           FinalizeAdmission(r, map)
    PROVE  IInv'
<1> USE DEF IInv, TypeOK, FinalizeAdmission
<1>1. SettledHasRoles'
  BY DEF SettledHasRoles, Mutable
<1>2. InstalledCanonical' /\ RoundsChained'
  BY DEF InstalledCanonical, RoundsChained, Installed
<1>3. AdmissionJudged'
  BY DEF AdmissionJudged, FullyJudged, Committed
<1>4. AggregateOfAdmitted'
  BY SameInputs DEF AggregateOfAdmitted
<1> QED
  BY <1>1, <1>2, <1>3, <1>4

LEMMA CommitAggregateIInv ==
    ASSUME IInv, TypeOK', NEW r \in Round, NEW inputs \in InputMaps,
           NEW h \in AggregateHash, CommitAggregate(r, inputs, h)
    PROVE  IInv'
<1> USE DEF IInv, TypeOK, CommitAggregate, AggregateRecord, MatchesAdmission
<1>1. SettledHasRoles' /\ AdmissionJudged'
  BY DEF SettledHasRoles, AdmissionJudged
<1>2. AggregateOfAdmitted'
  BY SameInputs DEF AggregateOfAdmitted
<1>3. InstalledCanonical'
  BY DEF InstalledCanonical, Installed
<1>4. RoundsChained'
  BY DEF RoundsChained, Installed, Mutable
<1> QED
  BY <1>1, <1>2, <1>3, <1>4

LEMMA ConfirmModelInstallationIInv ==
    ASSUME IInv, TypeOK', NEW r \in Round, NEW n \in Node, NEW h \in AggregateHash,
           ConfirmModelInstallation(r, n, h)
    PROVE  IInv'
<1> USE DEF IInv, TypeOK, ConfirmModelInstallation
<1>1. SettledHasRoles' /\ AdmissionJudged' /\ AggregateOfAdmitted'
  BY SameInputs DEF SettledHasRoles, AdmissionJudged, AggregateOfAdmitted
<1>2. InstalledCanonical'
  BY DEF InstalledCanonical, Installed, Canonical
<1>3. RoundsChained'
  BY DEF RoundsChained, Installed, Mutable
<1> QED
  BY <1>1, <1>2, <1>3

LEMMA FinalizeRoundIInv ==
    ASSUME IInv, TypeOK', NEW r \in Round, FinalizeRound(r)
    PROVE  IInv'
<1> USE DEF IInv, TypeOK, FinalizeRound
<1>1. SettledHasRoles'
  BY DEF SettledHasRoles, Mutable
<1>2. AdmissionJudged' /\ AggregateOfAdmitted' /\ InstalledCanonical'
  BY SameInputs DEF AdmissionJudged, AggregateOfAdmitted, InstalledCanonical, Installed
<1>3. RoundsChained'
  BY DEF RoundsChained, RequiredInstalled, Installed, Mutable
<1> QED
  BY <1>1, <1>2, <1>3

\* Every operation keeps the inductive invariant.
LEMMA NextIInv == IInv /\ [Next]_vars => IInv'
<1> SUFFICES ASSUME IInv, [Next]_vars PROVE IInv'
  OBVIOUS
<1>0. TypeOK'
  BY NextTypeOK DEF IInv
<1>1. ASSUME NEW installers \in InstallerChoices, StartExperiment(installers)
      PROVE  IInv'
  <2>1. \A r \in Round : roles[r] = None /\ ~finalized[r]
    BY <1>1 DEF IInv, SettledHasRoles, StartExperiment
  <2> QED
    BY <1>0, <1>1, <2>1 DEF IInv, StartExperiment, roundVars, SettledHasRoles,
       AdmissionJudged, AggregateOfAdmitted, InstalledCanonical, RoundsChained,
       ExactInputs, Admitted, Installed
<1>2. ASSUME NEW n \in Node, NEW c \in CapabilityChoices, RegisterParticipant(n, c)
      PROVE  IInv'
  BY <1>0, <1>2, SafetyStutter DEF RegisterParticipant, safetyVars
<1>3. ASSUME NEW r \in Round, RoundStep(r)
      PROVE  IInv'
  <2>1. ASSUME NEW h \in ParentHash, OpenRound(r, h) PROVE IInv'
    BY <1>0, <2>1 DEF OpenRound, IInv, SettledHasRoles, AdmissionJudged,
       AggregateOfAdmitted, InstalledCanonical, RoundsChained, ExactInputs,
       Admitted, Installed
  <2>2. ASSUME NEW payload \in CAPayload, CommitCATransition(r, payload) PROVE IInv'
    BY <1>0, <2>2, SafetyStutter DEF CommitCATransition, safetyVars
  <2> QED
    BY <1>0, <1>3, <2>1, <2>2, CommitRoundRolesIInv, CommitCandidateIInv,
       RecordValidatorDecisionIInv, FinalizeAdmissionIInv, CommitAggregateIInv,
       ConfirmModelInstallationIInv, FinalizeRoundIInv DEF RoundStep
<1>4. CASE Close
  BY <1>0, <1>4, SafetyStutter DEF Close, safetyVars
<1>5. CASE UNCHANGED vars
  BY <1>0, <1>5, SafetyStutter DEF vars, safetyVars
<1> QED
  BY <1>1, <1>2, <1>3, <1>4, <1>5 DEF Next

\* The inductive invariant holds in every reachable state.
THEOREM Invariance == Spec => []IInv
  BY InitIInv, NextIInv, PTL DEF Spec

\* Finalized admissions decide fully judged candidates only.
THEOREM AdmissionIsJudged == Spec => []AdmissionJudged
  BY Invariance, PTL DEF IInv

\* The committed aggregate keeps exactly the admitted candidates as inputs.
THEOREM AggregateIsOfAdmitted == Spec => []AggregateOfAdmitted
  BY Invariance, PTL DEF IInv

\* Confirmed installations agree on the committed aggregate.
THEOREM InstallationAgreement == Spec => []InstalledCanonical
  BY Invariance, PTL DEF IInv

\* Rounds follow each other and finish only when everyone required installed.
THEOREM RoundsAreChained == Spec => []RoundsChained
  BY Invariance, PTL DEF IInv

-----------------------------------------------------------------------------

\* A round that is final keeps its record: each operation on a round requires
\* it not to be final, or to have no assignment yet.
LEMMA StepKeepsFinal ==
    ASSUME IInv, Next, NEW s \in Round, finalized[s]
    PROVE  FrozenRound(s)
<1> USE DEF FrozenRound
<1>0. TypeOK /\ roles[s] # None
  BY DEF IInv, RoundsChained
<1>1. ASSUME NEW installers \in InstallerChoices, StartExperiment(installers)
      PROVE  FrozenRound(s)
  BY <1>1 DEF StartExperiment, roundVars
<1>2. ASSUME NEW n \in Node, NEW c \in CapabilityChoices, RegisterParticipant(n, c)
      PROVE  FrozenRound(s)
  BY <1>2 DEF RegisterParticipant, roundVars
<1>3. ASSUME NEW r \in Round, RoundStep(r)
      PROVE  FrozenRound(s)
  <2> USE <1>0 DEF TypeOK, Mutable
  <2>1. ASSUME NEW a \in Assignments, CommitRoundRoles(r, a) PROVE FrozenRound(s)
    BY <2>1 DEF CommitRoundRoles
  <2>2. ASSUME NEW h \in ParentHash, OpenRound(r, h) PROVE FrozenRound(s)
    BY <2>2 DEF OpenRound
  <2>3. ASSUME NEW n \in Node, NEW p \in ParentHash, NEW h \in CandidateHash,
               CommitCandidate(r, n, p, h)
        PROVE  FrozenRound(s)
    BY <2>3 DEF CommitCandidate
  <2>4. ASSUME NEW v \in Node, NEW n \in Node, NEW h \in CandidateHash, NEW vote \in Vote,
               RecordValidatorDecision(r, v, n, h, vote)
        PROVE  FrozenRound(s)
    BY <2>4 DEF RecordValidatorDecision
  <2>5. ASSUME NEW map \in AdmissionMaps, FinalizeAdmission(r, map) PROVE FrozenRound(s)
    BY <2>5 DEF FinalizeAdmission
  <2>6. ASSUME NEW inputs \in InputMaps, NEW h \in AggregateHash, CommitAggregate(r, inputs, h)
        PROVE  FrozenRound(s)
    BY <2>6 DEF CommitAggregate
  <2>7. ASSUME NEW n \in Node, NEW h \in AggregateHash, ConfirmModelInstallation(r, n, h)
        PROVE  FrozenRound(s)
    BY <2>7 DEF ConfirmModelInstallation
  <2>8. CASE FinalizeRound(r)
    BY <2>8 DEF FinalizeRound
  <2>9. ASSUME NEW payload \in CAPayload, CommitCATransition(r, payload) PROVE FrozenRound(s)
    BY <2>9 DEF CommitCATransition, roundVars
  <2> QED
    BY <1>3, <2>1, <2>2, <2>3, <2>4, <2>5, <2>6, <2>7, <2>8, <2>9 DEF RoundStep
<1>4. CASE Close
  BY <1>4 DEF Close, roundVars
<1> QED
  BY <1>1, <1>2, <1>3, <1>4 DEF Next

\* No call ever changes the record of a finalized round.
THEOREM FinalizedIsFrozen == Spec => FinalizedRoundFrozen
<1>1. IInv /\ [Next]_vars => [\A r \in Round : FrozenRound(r)]_vars
  BY StepKeepsFinal DEF FrozenRound
<1> QED
  BY <1>1, Invariance, PTL DEF Spec, FinalizedRoundFrozen

-----------------------------------------------------------------------------

\* Operations that neither settle a round's admission or aggregate, nor confirm
\* an installation, nor finish a round are no steps of the contract.
LEMMA ContractStutters ==
    ASSUME UNCHANGED <<required, admission, aggregate, installations, finalized>>
    PROVE  UNCHANGED Contract!contractVars
  BY DEF Contract!contractVars, AdmittedOrNone, Admitted, HashOrNone, Installed

\* A round whose record may still be changed is the contract's current round.
LEMMA MutableIsCurrent ==
    ASSUME RoundsChained, NEW r \in Round, Mutable(r)
    PROVE  Contract!Current(r)
  BY DEF RoundsChained, Mutable, Contract!Current

\* The first state of the ledger is a first state of the contract.
LEMMA InitContract == Init => Contract!Init
  BY DEF Init, Contract!Init, Contract!Round, Round, AdmittedOrNone, HashOrNone, Installed

\* The admission of a round is settled by FinalizeAdmission.
LEMMA AdmitStep ==
    ASSUME IInv, NEW r \in Round, NEW map \in AdmissionMaps, FinalizeAdmission(r, map)
    PROVE  Contract!Next
<1> DEFINE S == {n \in DOMAIN map : map[n]}
<1>1. S \in SUBSET Node
  BY DEF AdmissionMaps
<1>2. TypeOK /\ Contract!Current(r)
  BY MutableIsCurrent DEF IInv, FinalizeAdmission
<1>3. map # None
  BY NoneAssumption
<1>4. [s \in Round |-> AdmittedOrNone(s)]'
        = [[s \in Round |-> AdmittedOrNone(s)] EXCEPT ![r] = S]
  BY <1>2, <1>3 DEF FinalizeAdmission, AdmittedOrNone, Admitted, TypeOK
<1>5. Contract!Admit(r, S)
  BY <1>2, <1>4 DEF FinalizeAdmission, Contract!Admit, AdmittedOrNone, HashOrNone, Installed
<1> QED
  BY <1>1, <1>5 DEF Contract!Next, Contract!Round, Round

\* The model of a round is settled by CommitAggregate.
LEMMA AgreeStep ==
    ASSUME IInv, NEW r \in Round, NEW inputs \in InputMaps, NEW h \in AggregateHash,
           CommitAggregate(r, inputs, h)
    PROVE  Contract!Next
<1>1. TypeOK /\ Contract!Current(r)
  BY MutableIsCurrent DEF IInv, CommitAggregate
<1>2. AggregateRecord(inputs, h) # None
  BY NoneAssumption DEF AggregateRecord, AggregateType
<1>3. [s \in Round |-> HashOrNone(s)]' = [[s \in Round |-> HashOrNone(s)] EXCEPT ![r] = h]
  BY <1>1, <1>2 DEF CommitAggregate, HashOrNone, TypeOK, AggregateRecord
<1>4. AdmittedOrNone(r) # None
  <2>1. admission[r] # None /\ admission[r] \in AdmissionMaps
    BY <1>1 DEF CommitAggregate, TypeOK
  <2>2. Admitted(r) \in SUBSET Node
    BY <2>1 DEF AdmissionMaps, Admitted
  <2> QED
    BY <2>1, <2>2, NoneAssumption DEF AdmittedOrNone
<1>5. HashOrNone(r)' = h
  BY <1>3
<1>6. Contract!Settles(r)
  BY <1>3, <1>5 DEF Contract!Settles
<1>7. Contract!Agree(r)
  BY <1>1, <1>4, <1>6 DEF CommitAggregate, Contract!Agree, AdmittedOrNone, Admitted, HashOrNone, Installed
<1> QED
  BY <1>7 DEF Contract!Next, Contract!Round, Round

\* ConfirmModelInstallation adds a holder of the settled model.
LEMMA HoldStep ==
    ASSUME IInv, NEW r \in Round, NEW n \in Node, NEW h \in AggregateHash,
           ConfirmModelInstallation(r, n, h)
    PROVE  Contract!Next
<1>1. TypeOK /\ Contract!Current(r)
  BY MutableIsCurrent DEF IInv, ConfirmModelInstallation
<1>2. HashOrNone(r) = h
  BY DEF ConfirmModelInstallation, Canonical, HashOrNone
<1>3. [s \in Round |-> HashOrNone(s)]' = [[s \in Round |-> HashOrNone(s)] EXCEPT ![r] = h]
  BY <1>1, <1>2 DEF ConfirmModelInstallation, HashOrNone, TypeOK
<1>4. AdmittedOrNone(r) # None
  <2>1. admission[r] # None /\ admission[r] \in AdmissionMaps
    BY <1>1 DEF ConfirmModelInstallation, Canonical, TypeOK, IInv, AggregateOfAdmitted
  <2>2. Admitted(r) \in SUBSET Node
    BY <2>1 DEF AdmissionMaps, Admitted
  <2> QED
    BY <2>1, <2>2, NoneAssumption DEF AdmittedOrNone
<1>5. [s \in Round |-> Installed(s)]'
        = [[s \in Round |-> Installed(s)] EXCEPT ![r] = @ \cup {n}]
  <2>1. ASSUME NEW s \in Round PROVE Installed(s)' = IF s = r THEN Installed(r) \cup {n} ELSE Installed(s)
    BY <1>1, NoneAssumption DEF ConfirmModelInstallation, Installed, TypeOK
  <2> QED
    BY <2>1
<1>6. HashOrNone(r)' = h
  BY <1>3
<1>7. Contract!Settles(r)
  BY <1>3, <1>6 DEF Contract!Settles
<1>8. Contract!Hold(r, n)
  BY <1>1, <1>2, <1>4, <1>5, <1>6, <1>7 DEF ConfirmModelInstallation, Contract!Hold, AdmittedOrNone, Admitted
<1> QED
  BY <1>8 DEF Contract!Next, Contract!Round, Round

\* FinalizeRound finishes a round whose model everyone required holds.
LEMMA FinishStep ==
    ASSUME IInv, NEW r \in Round, FinalizeRound(r)
    PROVE  Contract!Next
<1>1. TypeOK /\ Contract!Current(r)
  BY MutableIsCurrent DEF IInv, FinalizeRound
<1>2. HashOrNone(r) # None
  BY <1>1, NoneAssumption DEF FinalizeRound, HashOrNone, TypeOK, AggregateType
<1>3. Contract!Finish(r)
  BY <1>1, <1>2 DEF FinalizeRound, Contract!Finish, RequiredInstalled, AdmittedOrNone,
     Admitted, HashOrNone, Installed
<1> QED
  BY <1>3 DEF Contract!Next, Contract!Round, Round

\* StartExperiment fixes who has to hold the models.
LEMMA StartStep ==
    ASSUME NEW installers \in InstallerChoices, StartExperiment(installers)
    PROVE  Contract!Next
<1>1. Contract!Start(installers)
  BY DEF StartExperiment, roundVars, Contract!Start, AdmittedOrNone, Admitted, HashOrNone, Installed
<1> QED
  BY <1>1, InputAssumption DEF Contract!Next

LEMMA ContractStep ==
    ASSUME IInv, [Next]_vars
    PROVE  Contract!Next \/ UNCHANGED Contract!contractVars
<1>1. ASSUME NEW r \in Round, RoundStep(r)
      PROVE  Contract!Next \/ UNCHANGED Contract!contractVars
  <2>1. ASSUME NEW a \in Assignments, CommitRoundRoles(r, a)
        PROVE  UNCHANGED Contract!contractVars
    BY <2>1, ContractStutters DEF CommitRoundRoles
  <2>2. ASSUME NEW h \in ParentHash, OpenRound(r, h)
        PROVE  UNCHANGED Contract!contractVars
    BY <2>2, ContractStutters DEF OpenRound
  <2>3. ASSUME NEW n \in Node, NEW p \in ParentHash, NEW h \in CandidateHash,
               CommitCandidate(r, n, p, h)
        PROVE  UNCHANGED Contract!contractVars
    BY <2>3, ContractStutters DEF CommitCandidate
  <2>4. ASSUME NEW v \in Node, NEW n \in Node, NEW h \in CandidateHash, NEW vote \in Vote,
               RecordValidatorDecision(r, v, n, h, vote)
        PROVE  UNCHANGED Contract!contractVars
    BY <2>4, ContractStutters DEF RecordValidatorDecision
  <2>5. ASSUME NEW payload \in CAPayload, CommitCATransition(r, payload)
        PROVE  UNCHANGED Contract!contractVars
    BY <2>5, ContractStutters DEF CommitCATransition, roundVars
  <2> QED
    BY <1>1, <2>1, <2>2, <2>3, <2>4, <2>5, AdmitStep, AgreeStep, HoldStep, FinishStep
       DEF RoundStep
<1>2. ASSUME NEW n \in Node, NEW c \in CapabilityChoices, RegisterParticipant(n, c)
      PROVE  UNCHANGED Contract!contractVars
  BY <1>2, ContractStutters DEF RegisterParticipant, roundVars
<1>3. CASE Close
  BY <1>3, ContractStutters DEF Close, roundVars
<1>4. CASE UNCHANGED vars
  BY <1>4, ContractStutters DEF vars, roundVars
<1> QED
  BY <1>1, <1>2, <1>3, <1>4, StartStep DEF Next

\* The ledger's records are an implementation of the contract of a backend.
THEOREM LedgerKeepsContract == Spec => ImplementsContract
<1>1. IInv /\ [Next]_vars => [Contract!Next]_(Contract!contractVars)
  BY ContractStep
<1> QED
  BY <1>1, InitContract, Invariance, PTL DEF Spec, ImplementsContract, Contract!Spec
-----------------------------------------------------------------------------

\* A fact tells its type and its round.
LEMMA SingleFactShape ==
    ASSUME NEW type, NEW r, NEW value, NEW e \in SingleFact(type, r, value)
    PROVE  e.type = type /\ e.round = r
  BY DEF SingleFact, Event

LEMMA TableFactShape ==
    ASSUME NEW type, NEW r, NEW table, NEW e \in TableFacts(type, r, table)
    PROVE  e.type = type /\ e.round = r /\ table[e.participant] # None
  BY DEF TableFacts, Event

\* Recording a value that was absent adds its event to the facts.
LEMMA SingleFactAdded ==
    ASSUME NEW type, NEW r, NEW value, value # None
    PROVE  /\ SingleFact(type, r, None) = {}
           /\ SingleFact(type, r, value) = {Event(type, r, None, value)}
  BY DEF SingleFact

LEMMA TableFactAdded ==
    ASSUME NEW type, NEW r, NEW table, NEW k \in DOMAIN table, NEW value,
           table[k] = None, value # None
    PROVE  /\ TableFacts(type, r, [table EXCEPT ![k] = value])
                = TableFacts(type, r, table) \cup {Event(type, r, k, value)}
           /\ Event(type, r, k, value) \notin TableFacts(type, r, table)
  BY DEF TableFacts, Event

LEMMA RoundFactShape ==
    ASSUME NEW r \in Round, NEW e \in RoundFacts(r)
    PROVE  /\ e.round = r
           /\ e.type \notin {"ExperimentStarted", "ParticipantRegistered"}
  BY SingleFactShape, TableFactShape DEF RoundFacts

\* An operation that adds one event to the facts of one round adds it to the
\* facts of the ledger.
LEMMA RoundFactAdded ==
    ASSUME NEW r \in Round, NEW e, e.round = r,
           e.type \notin {"ExperimentStarted", "ParticipantRegistered"},
           e \notin RoundFacts(r),
           RoundFacts(r)' = RoundFacts(r) \cup {e},
           \A s \in Round \ {r} : RoundFacts(s)' = RoundFacts(s),
           UNCHANGED <<required, participants>>
    PROVE  e \notin Facts /\ Facts' = Facts \cup {e}
<1>1. e \notin Facts
  BY SingleFactShape, TableFactShape, RoundFactShape DEF Facts
<1>2. \A x : (\E s \in Round : x \in RoundFacts(s)') <=> (\E s \in Round : x \in RoundFacts(s)) \/ x = e
  OBVIOUS
<1>3. Facts' = Facts \cup {e}
  BY <1>2 DEF Facts
<1> QED
  BY <1>1, <1>3

\* The facts of a round are those of its record and its transition.
LEMMA SameRoundFacts ==
    ASSUME NEW s \in Round,
           roles'[s] = roles[s], parent'[s] = parent[s], candidates'[s] = candidates[s],
           decisions'[s] = decisions[s], admission'[s] = admission[s],
           aggregate'[s] = aggregate[s], installations'[s] = installations[s],
           finalized'[s] = finalized[s], ca'[s] = ca[s]
    PROVE  RoundFacts(s)' = RoundFacts(s)
<1>1. FinalizationOrNone(s)' = FinalizationOrNone(s)
  BY DEF FinalizationOrNone, Installed
<1> QED
  BY <1>1 DEF RoundFacts

\* Each operation adds the one event it appends: a candidate.
\* Each operation adds the one event it appends: a candidate.
\* Each operation adds the one event it appends: a candidate.
\* Each operation adds the one event it appends: a candidate.
\* Each operation adds the one event it appends: a candidate.
LEMMA CommitCandidateFact ==
    ASSUME TypeOK, NEW r \in Round, NEW n \in Node, NEW p \in ParentHash,
           NEW h \in CandidateHash,
           CommitCandidate(r, n, p, h)
    PROVE  LET e == Event("CandidateCommitted", r, n, h)
           IN  e \notin Facts /\ Facts' = Facts \cup {e}
<1> DEFINE e == Event("CandidateCommitted", r, n, h)
<1> USE DEF TypeOK, CommitCandidate
<1>1. /\ h # None
      /\ n \in DOMAIN candidates[r]
      /\ candidates'[r] = [candidates[r] EXCEPT ![n] = h]
      /\ candidates[r][n] = None
  BY NoneAssumption
<1>2. /\ TableFacts("CandidateCommitted", r, [candidates[r] EXCEPT ![n] = h])
            = TableFacts("CandidateCommitted", r, candidates[r]) \cup {e}
      /\ e \notin TableFacts("CandidateCommitted", r, candidates[r])
  BY <1>1, TableFactAdded
<1>3. e.round = r /\ e.type = "CandidateCommitted"
  BY DEF Event
<1>4. e \notin RoundFacts(r)
  BY <1>2, <1>3, SingleFactShape, TableFactShape DEF RoundFacts
<1>5. RoundFacts(r)' = RoundFacts(r) \cup {e}
  <2>1. FinalizationOrNone(r)' = FinalizationOrNone(r)
    BY DEF FinalizationOrNone, Installed, Mutable
  <2> HIDE DEF e
  <2> QED
    BY <1>1, <1>2, <2>1 DEF RoundFacts
<1>6. \A s \in Round \ {r} : RoundFacts(s)' = RoundFacts(s)
  BY SameRoundFacts
<1> QED
  BY <1>3, <1>4, <1>5, <1>6, RoundFactAdded

\* A decision.
LEMMA RecordValidatorDecisionFact ==
    ASSUME TypeOK, NEW r \in Round, NEW v \in Node, NEW n \in Node,
           NEW h \in CandidateHash, NEW vote \in Vote,
           RecordValidatorDecision(r, v, n, h, vote)
    PROVE  LET e == Event("ValidatorDecisionCommitted", r, <<v, n>>, vote)
           IN  e \notin Facts /\ Facts' = Facts \cup {e}
<1> DEFINE e == Event("ValidatorDecisionCommitted", r, <<v, n>>, vote)
<1> USE DEF TypeOK, RecordValidatorDecision
<1>1. /\ vote # None
      /\ <<v, n>> \in DOMAIN decisions[r]
      /\ decisions'[r] = [decisions[r] EXCEPT ![<<v, n>>] = vote]
      /\ decisions[r][<<v, n>>] = None
  BY NoneAssumption
<1>2. /\ TableFacts("ValidatorDecisionCommitted", r, [decisions[r] EXCEPT ![<<v, n>>] = vote])
            = TableFacts("ValidatorDecisionCommitted", r, decisions[r]) \cup {e}
      /\ e \notin TableFacts("ValidatorDecisionCommitted", r, decisions[r])
  BY <1>1, TableFactAdded
<1>3. e.round = r /\ e.type = "ValidatorDecisionCommitted"
  BY DEF Event
<1>4. e \notin RoundFacts(r)
  BY <1>2, <1>3, SingleFactShape, TableFactShape DEF RoundFacts
<1>5. RoundFacts(r)' = RoundFacts(r) \cup {e}
  <2>1. FinalizationOrNone(r)' = FinalizationOrNone(r)
    BY DEF FinalizationOrNone, Installed, Mutable
  <2> HIDE DEF e
  <2> QED
    BY <1>1, <1>2, <2>1 DEF RoundFacts
<1>6. \A s \in Round \ {r} : RoundFacts(s)' = RoundFacts(s)
  BY SameRoundFacts
<1> QED
  BY <1>3, <1>4, <1>5, <1>6, RoundFactAdded

\* An installation.
LEMMA ConfirmModelInstallationFact ==
    ASSUME TypeOK, NEW r \in Round, NEW n \in Node, NEW h \in AggregateHash,
           ConfirmModelInstallation(r, n, h)
    PROVE  LET e == Event("ModelInstallationConfirmed", r, n, h)
           IN  e \notin Facts /\ Facts' = Facts \cup {e}
<1> DEFINE e == Event("ModelInstallationConfirmed", r, n, h)
<1> USE DEF TypeOK, ConfirmModelInstallation
<1>1. /\ h # None
      /\ n \in DOMAIN installations[r]
      /\ installations'[r] = [installations[r] EXCEPT ![n] = h]
      /\ installations[r][n] = None
  BY NoneAssumption
<1>2. /\ TableFacts("ModelInstallationConfirmed", r, [installations[r] EXCEPT ![n] = h])
            = TableFacts("ModelInstallationConfirmed", r, installations[r]) \cup {e}
      /\ e \notin TableFacts("ModelInstallationConfirmed", r, installations[r])
  BY <1>1, TableFactAdded
<1>3. e.round = r /\ e.type = "ModelInstallationConfirmed"
  BY DEF Event
<1>4. e \notin RoundFacts(r)
  BY <1>2, <1>3, SingleFactShape, TableFactShape DEF RoundFacts
<1>5. RoundFacts(r)' = RoundFacts(r) \cup {e}
  <2>1. FinalizationOrNone(r)' = FinalizationOrNone(r)
    BY DEF FinalizationOrNone, Installed, Mutable
  <2> HIDE DEF e
  <2> QED
    BY <1>1, <1>2, <2>1 DEF RoundFacts
<1>6. \A s \in Round \ {r} : RoundFacts(s)' = RoundFacts(s)
  BY SameRoundFacts
<1> QED
  BY <1>3, <1>4, <1>5, <1>6, RoundFactAdded

\* The parent model.
LEMMA OpenRoundFact ==
    ASSUME TypeOK, NEW r \in Round, NEW h \in ParentHash,
           OpenRound(r, h)
    PROVE  LET e == Event("RoundOpened", r, None, h)
           IN  e \notin Facts /\ Facts' = Facts \cup {e}
<1> DEFINE e == Event("RoundOpened", r, None, h)
<1> USE DEF TypeOK, OpenRound
<1>1. h # None /\ parent[r] = None /\ parent'[r] = h
  BY NoneAssumption, InputAssumption
<1>2. /\ SingleFact("RoundOpened", r, parent[r]) = {}
      /\ SingleFact("RoundOpened", r, parent'[r]) = {e}
  BY <1>1, SingleFactAdded
<1>3. e.round = r /\ e.type = "RoundOpened"
  BY DEF Event
<1>4. e \notin RoundFacts(r)
  BY <1>2, <1>3, SingleFactShape, TableFactShape DEF RoundFacts
<1>5. RoundFacts(r)' = RoundFacts(r) \cup {e}
  <2>1. FinalizationOrNone(r)' = FinalizationOrNone(r)
    BY DEF FinalizationOrNone, Installed, Mutable
  <2> HIDE DEF e
  <2> QED
    BY <1>2, <2>1 DEF RoundFacts
<1>6. \A s \in Round \ {r} : RoundFacts(s)' = RoundFacts(s)
  BY SameRoundFacts
<1> QED
  BY <1>3, <1>4, <1>5, <1>6, RoundFactAdded

\* An assignment.
LEMMA CommitRoundRolesFact ==
    ASSUME TypeOK, NEW r \in Round, NEW a \in Assignments,
           CommitRoundRoles(r, a)
    PROVE  LET e == Event("RoundRolesCommitted", r, None, a)
           IN  e \notin Facts /\ Facts' = Facts \cup {e}
<1> DEFINE e == Event("RoundRolesCommitted", r, None, a)
<1> USE DEF TypeOK, CommitRoundRoles
<1>1. a # None /\ roles[r] = None /\ roles'[r] = a
  BY NoneAssumption, InputAssumption
<1>2. /\ SingleFact("RoundRolesCommitted", r, roles[r]) = {}
      /\ SingleFact("RoundRolesCommitted", r, roles'[r]) = {e}
  BY <1>1, SingleFactAdded
<1>3. e.round = r /\ e.type = "RoundRolesCommitted"
  BY DEF Event
<1>4. e \notin RoundFacts(r)
  BY <1>2, <1>3, SingleFactShape, TableFactShape DEF RoundFacts
<1>5. RoundFacts(r)' = RoundFacts(r) \cup {e}
  <2>1. FinalizationOrNone(r)' = FinalizationOrNone(r)
    BY DEF FinalizationOrNone, Installed, Mutable
  <2> HIDE DEF e
  <2> QED
    BY <1>2, <2>1 DEF RoundFacts
<1>6. \A s \in Round \ {r} : RoundFacts(s)' = RoundFacts(s)
  BY SameRoundFacts
<1> QED
  BY <1>3, <1>4, <1>5, <1>6, RoundFactAdded

\* An admission map.
LEMMA FinalizeAdmissionFact ==
    ASSUME TypeOK, NEW r \in Round, NEW map \in AdmissionMaps,
           FinalizeAdmission(r, map)
    PROVE  LET e == Event("AdmissionFinalized", r, None, map)
           IN  e \notin Facts /\ Facts' = Facts \cup {e}
<1> DEFINE e == Event("AdmissionFinalized", r, None, map)
<1> USE DEF TypeOK, FinalizeAdmission
<1>1. map # None /\ admission[r] = None /\ admission'[r] = map
  BY NoneAssumption, InputAssumption
<1>2. /\ SingleFact("AdmissionFinalized", r, admission[r]) = {}
      /\ SingleFact("AdmissionFinalized", r, admission'[r]) = {e}
  BY <1>1, SingleFactAdded
<1>3. e.round = r /\ e.type = "AdmissionFinalized"
  BY DEF Event
<1>4. e \notin RoundFacts(r)
  BY <1>2, <1>3, SingleFactShape, TableFactShape DEF RoundFacts
<1>5. RoundFacts(r)' = RoundFacts(r) \cup {e}
  <2>1. FinalizationOrNone(r)' = FinalizationOrNone(r)
    BY DEF FinalizationOrNone, Installed, Mutable
  <2> HIDE DEF e
  <2> QED
    BY <1>2, <2>1 DEF RoundFacts
<1>6. \A s \in Round \ {r} : RoundFacts(s)' = RoundFacts(s)
  BY SameRoundFacts
<1> QED
  BY <1>3, <1>4, <1>5, <1>6, RoundFactAdded

\* An aggregate.
LEMMA CommitAggregateFact ==
    ASSUME TypeOK, NEW r \in Round, NEW inputs \in InputMaps,
           NEW h \in AggregateHash,
           CommitAggregate(r, inputs, h)
    PROVE  LET e == Event("AggregateCommitted", r, None, AggregateRecord(inputs, h))
           IN  e \notin Facts /\ Facts' = Facts \cup {e}
<1> DEFINE e == Event("AggregateCommitted", r, None, AggregateRecord(inputs, h))
<1> USE DEF TypeOK, CommitAggregate
<1>1. AggregateRecord(inputs, h) # None /\ aggregate[r] = None /\ aggregate'[r] = AggregateRecord(inputs, h)
  BY NoneAssumption, InputAssumption DEF AggregateRecord, AggregateType
<1>2. /\ SingleFact("AggregateCommitted", r, aggregate[r]) = {}
      /\ SingleFact("AggregateCommitted", r, aggregate'[r]) = {e}
  BY <1>1, SingleFactAdded
<1>3. e.round = r /\ e.type = "AggregateCommitted"
  BY DEF Event
<1>4. e \notin RoundFacts(r)
  BY <1>2, <1>3, SingleFactShape, TableFactShape DEF RoundFacts
<1>5. RoundFacts(r)' = RoundFacts(r) \cup {e}
  <2>1. FinalizationOrNone(r)' = FinalizationOrNone(r)
    BY DEF FinalizationOrNone, Installed, Mutable
  <2> HIDE DEF e
  <2> QED
    BY <1>2, <2>1 DEF RoundFacts
<1>6. \A s \in Round \ {r} : RoundFacts(s)' = RoundFacts(s)
  BY SameRoundFacts
<1> QED
  BY <1>3, <1>4, <1>5, <1>6, RoundFactAdded

\* A transition.
LEMMA CommitCATransitionFact ==
    ASSUME TypeOK, NEW r \in Round, NEW payload \in CAPayload,
           CommitCATransition(r, payload)
    PROVE  LET e == Event("CATransitionCommitted", r, None, payload)
           IN  e \notin Facts /\ Facts' = Facts \cup {e}
<1> DEFINE e == Event("CATransitionCommitted", r, None, payload)
<1> USE DEF TypeOK, CommitCATransition
<1>1. payload # None /\ ca[r] = None /\ ca'[r] = payload
  BY NoneAssumption, InputAssumption
<1>2. /\ SingleFact("CATransitionCommitted", r, ca[r]) = {}
      /\ SingleFact("CATransitionCommitted", r, ca'[r]) = {e}
  BY <1>1, SingleFactAdded
<1>3. e.round = r /\ e.type = "CATransitionCommitted"
  BY DEF Event
<1>4. e \notin RoundFacts(r)
  BY <1>2, <1>3, SingleFactShape, TableFactShape DEF RoundFacts
<1>5. RoundFacts(r)' = RoundFacts(r) \cup {e}
  <2>1. FinalizationOrNone(r)' = FinalizationOrNone(r)
    BY DEF FinalizationOrNone, Installed, roundVars
  <2> HIDE DEF e
  <2> QED
    BY <1>2, <2>1 DEF RoundFacts, roundVars
<1>6. \A s \in Round \ {r} : RoundFacts(s)' = RoundFacts(s)
  BY SameRoundFacts DEF roundVars
<1> QED
  BY <1>3, <1>4, <1>5, <1>6, RoundFactAdded DEF roundVars

\* The end of a round.
LEMMA FinalizeRoundFact ==
    ASSUME TypeOK, NEW r \in Round,
           FinalizeRound(r)
    PROVE  LET e == Event("RoundFinalized", r, None,
                            [hash |-> aggregate[r].hash, installers |-> Installed(r)])
           IN  e \notin Facts /\ Facts' = Facts \cup {e}
<1> DEFINE final == [hash |-> aggregate[r].hash, installers |-> Installed(r)]
<1> DEFINE e == Event("RoundFinalized", r, None, final)
<1> USE DEF TypeOK, FinalizeRound
<1>1. final # None /\ FinalizationOrNone(r) = None /\ FinalizationOrNone(r)' = final
  BY NoneAssumption, InputAssumption DEF Mutable, FinalizationOrNone, Installed, AggregateType, FinalizationType
<1>2. /\ SingleFact("RoundFinalized", r, FinalizationOrNone(r)) = {}
      /\ SingleFact("RoundFinalized", r, FinalizationOrNone(r)') = {e}
  BY <1>1 DEF SingleFact
<1>3. e.round = r /\ e.type = "RoundFinalized"
  BY DEF Event
<1>4. e \notin RoundFacts(r)
  BY <1>2, <1>3, SingleFactShape, TableFactShape DEF RoundFacts
<1>5. RoundFacts(r)' = RoundFacts(r) \cup {e}
  <2>1. UNCHANGED <<roles, parent, candidates, decisions, admission, aggregate, installations, ca>>
    OBVIOUS
  <2> HIDE DEF e
  <2> QED
    BY <1>2, <2>1 DEF RoundFacts
<1>6. \A s \in Round \ {r} : RoundFacts(s)' = RoundFacts(s)
  BY SameRoundFacts
<1> QED
  BY <1>3, <1>4, <1>5, <1>6, RoundFactAdded

\* The start of the experiment.
LEMMA StartExperimentFact ==
    ASSUME NEW installers \in InstallerChoices, StartExperiment(installers)
    PROVE  LET e == Event("ExperimentStarted", None, None, installers)
           IN  e \notin Facts /\ Facts' = Facts \cup {e}
<1> DEFINE e == Event("ExperimentStarted", None, None, installers)
<1> USE DEF StartExperiment
<1>1. installers # None
  BY NoneAssumption, InputAssumption
<1>2. /\ SingleFact("ExperimentStarted", None, required) = {}
      /\ SingleFact("ExperimentStarted", None, required') = {e}
  BY <1>1, SingleFactAdded
<1>3. e.type = "ExperimentStarted"
  BY DEF Event
<1>4. e \notin Facts
  BY <1>2, <1>3, TableFactShape, RoundFactShape DEF Facts
<1>5. \A s \in Round : RoundFacts(s)' = RoundFacts(s)
  BY SameRoundFacts DEF roundVars
<1>6. Facts' = Facts \cup {e}
  <2> HIDE DEF e
  <2> QED
    BY <1>2, <1>5 DEF Facts
<1> QED
  BY <1>4, <1>6

\* A participant.
LEMMA RegisterParticipantFact ==
    ASSUME TypeOK, NEW n \in Node, NEW c \in CapabilityChoices, RegisterParticipant(n, c)
    PROVE  LET e == Event("ParticipantRegistered", None, n, c)
           IN  e \notin Facts /\ Facts' = Facts \cup {e}
<1> DEFINE e == Event("ParticipantRegistered", None, n, c)
<1> USE DEF TypeOK, RegisterParticipant
<1>1. /\ c # None
      /\ n \in DOMAIN participants
      /\ participants' = [participants EXCEPT ![n] = c]
      /\ participants[n] = None
  BY NoneAssumption, InputAssumption
<1>2. /\ TableFacts("ParticipantRegistered", None, [participants EXCEPT ![n] = c])
            = TableFacts("ParticipantRegistered", None, participants) \cup {e}
      /\ e \notin TableFacts("ParticipantRegistered", None, participants)
  BY <1>1, TableFactAdded
<1>3. e.type = "ParticipantRegistered"
  BY DEF Event
<1>4. e \notin Facts
  BY <1>2, <1>3, SingleFactShape, RoundFactShape DEF Facts
<1>5. \A s \in Round : RoundFacts(s)' = RoundFacts(s)
  BY SameRoundFacts DEF roundVars
<1>6. Facts' = Facts \cup {e}
  <2> HIDE DEF e
  <2>1. /\ TableFacts("ParticipantRegistered", None, participants)'
              = TableFacts("ParticipantRegistered", None, participants) \cup {e}
        /\ required' = required
    BY <1>1, <1>2
  <2> QED
    BY ONLY <2>1, <1>5 DEF Facts
<1> QED
  BY <1>4, <1>6

-----------------------------------------------------------------------------

\* The log of an open ledger is a sequence of facts as long as there are facts.
LogInv ==
    ~closed => /\ events \in Seq(Facts)
               /\ ToSet(events) = Facts
               /\ IsFiniteSet(Facts)
               /\ Len(events) = Cardinality(Facts)

LEMMA InitLog == Init => LogInv
<1> SUFFICES ASSUME Init PROVE LogInv
  OBVIOUS
<1>1. SingleFact("ExperimentStarted", None, required) = {}
  BY DEF Init, SingleFact
<1>2. TableFacts("ParticipantRegistered", None, participants) = {}
  BY DEF Init, TableFacts
<1>3. ASSUME NEW r \in Round PROVE RoundFacts(r) = {}
  BY DEF Init, RoundFacts, SingleFact, TableFacts, FinalizationOrNone
<1>4. Facts = {}
  BY <1>1, <1>2, <1>3 DEF Facts
<1>5. ToSet(events) = {} /\ Len(events) = 0
  BY DEF Init, ToSet
<1> QED
  BY <1>4, <1>5, FS_EmptySet DEF Init, LogInv

\* An operation that appends the event of the fact it adds keeps the account.
LEMMA AppendFact ==
    ASSUME LogInv, NEW e, AppendEvent(e), closed' = closed,
           e \notin Facts /\ Facts' = Facts \cup {e}
    PROVE  LogInv'
<1> SUFFICES ASSUME ~closed
             PROVE  /\ events' \in Seq(Facts')
                    /\ ToSet(events') = Facts'
                    /\ IsFiniteSet(Facts')
                    /\ Len(events') = Cardinality(Facts')
  BY DEF LogInv
<1>1. events \in Seq(Facts \cup {e}) /\ events' = Append(events, e)
  BY DEF LogInv, AppendEvent
<1>2. events' \in Seq(Facts')
  BY <1>1
<1>3. ToSet(events') = ToSet(events) \cup {e}
  BY <1>1 DEF ToSet
<1>4. IsFiniteSet(Facts') /\ Cardinality(Facts') = Cardinality(Facts) + 1
  BY FS_AddElement DEF LogInv
<1>5. Len(events') = Len(events) + 1
  BY <1>1
<1> QED
  BY <1>2, <1>3, <1>4, <1>5 DEF LogInv

\* A step that changes neither records nor log.
LEMMA LogStutter ==
    ASSUME LogInv, UNCHANGED <<required, participants, roundVars, ca, events>>,
           closed' = closed \/ closed'
    PROVE  LogInv'
<1>1. \A s \in Round : RoundFacts(s)' = RoundFacts(s)
  BY SameRoundFacts DEF roundVars
<1>2. Facts' = Facts
  BY <1>1 DEF Facts
<1> QED
  BY <1>2 DEF LogInv

LEMMA NextLog ==
    ASSUME TypeOK, LogInv, [Next]_vars
    PROVE  LogInv'
<1>1. ASSUME NEW installers \in InstallerChoices, StartExperiment(installers)
      PROVE  LogInv'
  BY <1>1, StartExperimentFact, AppendFact DEF StartExperiment
<1>2. ASSUME NEW n \in Node, NEW c \in CapabilityChoices, RegisterParticipant(n, c)
      PROVE  LogInv'
  BY <1>2, RegisterParticipantFact, AppendFact DEF RegisterParticipant
<1>3. ASSUME NEW r \in Round, RoundStep(r)
      PROVE  LogInv'
  <2>1. ASSUME NEW a \in Assignments, CommitRoundRoles(r, a) PROVE LogInv'
    BY <2>1, CommitRoundRolesFact, AppendFact DEF CommitRoundRoles
  <2>2. ASSUME NEW h \in ParentHash, OpenRound(r, h) PROVE LogInv'
    BY <2>2, OpenRoundFact, AppendFact DEF OpenRound
  <2>3. ASSUME NEW n \in Node, NEW p \in ParentHash, NEW h \in CandidateHash,
               CommitCandidate(r, n, p, h)
        PROVE  LogInv'
    BY <2>3, CommitCandidateFact, AppendFact DEF CommitCandidate
  <2>4. ASSUME NEW v \in Node, NEW n \in Node, NEW h \in CandidateHash, NEW vote \in Vote,
               RecordValidatorDecision(r, v, n, h, vote)
        PROVE  LogInv'
    BY <2>4, RecordValidatorDecisionFact, AppendFact DEF RecordValidatorDecision
  <2>5. ASSUME NEW map \in AdmissionMaps, FinalizeAdmission(r, map) PROVE LogInv'
    BY <2>5, FinalizeAdmissionFact, AppendFact DEF FinalizeAdmission
  <2>6. ASSUME NEW inputs \in InputMaps, NEW h \in AggregateHash, CommitAggregate(r, inputs, h)
        PROVE  LogInv'
    BY <2>6, CommitAggregateFact, AppendFact DEF CommitAggregate
  <2>7. ASSUME NEW n \in Node, NEW h \in AggregateHash, ConfirmModelInstallation(r, n, h)
        PROVE  LogInv'
    BY <2>7, ConfirmModelInstallationFact, AppendFact DEF ConfirmModelInstallation
  <2>8. CASE FinalizeRound(r)
    BY <2>8, FinalizeRoundFact, AppendFact DEF FinalizeRound
  <2>9. ASSUME NEW payload \in CAPayload, CommitCATransition(r, payload) PROVE LogInv'
    BY <2>9, CommitCATransitionFact, AppendFact DEF CommitCATransition
  <2> QED
    BY <1>3, <2>1, <2>2, <2>3, <2>4, <2>5, <2>6, <2>7, <2>8, <2>9 DEF RoundStep
<1>4. CASE Close
  BY <1>4, LogStutter DEF Close
<1>5. CASE UNCHANGED vars
  BY <1>5, LogStutter DEF vars
<1> QED
  BY <1>1, <1>2, <1>3, <1>4, <1>5 DEF Next

\* The log of an open ledger says each fact of its records once and nothing
\* else, in every reachable state.
THEOREM LogAccounts == Spec => []LogIsExactAccount
<1>1. LogInv => LogIsExactAccount
  BY DEF LogInv, LogIsExactAccount
<1> QED
  BY <1>1, InitLog, NextLog, TypeCorrect, PTL DEF Spec

-----------------------------------------------------------------------------

\* An event that the facts there were justify may be appended to their log.
LEMMA JustifiedAppend ==
    ASSUME LogInv, EveryEventJustified, NEW e, AppendEvent(e), Justified(e, Facts) \/ closed
    PROVE  EveryEventJustified'
<1> SUFFICES ASSUME ~closed PROVE EveryEventJustified'
  BY DEF AppendEvent, EveryEventJustified
<1>1. events \in Seq(Facts) /\ ToSet(events) = Facts /\ events' = Append(events, e)
  BY DEF LogInv, AppendEvent
<1>2. \A i \in 1..Len(events) : events'[i] = events[i]
  BY <1>1
<1>3. ASSUME NEW j \in 1..Len(events) PROVE Justified(events'[j], {events'[i] : i \in 1..(j - 1)})
  <2>1. {events'[i] : i \in 1..(j - 1)} = {events[i] : i \in 1..(j - 1)}
    BY <1>1, <1>2
  <2> QED
    BY <1>1, <1>2, <2>1 DEF EveryEventJustified
<1>4. {events'[i] : i \in 1..((Len(events) + 1) - 1)} = Facts
  BY <1>1, <1>2 DEF ToSet
<1>5. events'[Len(events) + 1] = e /\ DOMAIN events' = 1..Len(events) \cup {Len(events) + 1}
  BY <1>1
<1> QED
  BY <1>3, <1>4, <1>5 DEF EveryEventJustified

\* Recorded values are facts.
LEMMA SingleLogged ==
    ASSUME NEW r \in Round
    PROVE  /\ parent[r] # None => Logged(Facts, "RoundOpened", r) # {}
           /\ \A a \in Logged(Facts, "RoundRolesCommitted", r) : a.payload = roles[r]
           /\ admission[r] # None =>
                \E a \in Logged(Facts, "AdmissionFinalized", r) : a.payload = admission[r]
           /\ aggregate[r] # None =>
                \E g \in Logged(Facts, "AggregateCommitted", r) : g.payload = aggregate[r]
           /\ FinalizationOrNone(r) # None => Logged(Facts, "RoundFinalized", r) # {}
<1>1. \A e \in RoundFacts(r) : e \in Facts
  BY DEF Facts
<1>2. ASSUME NEW type, NEW value, SingleFact(type, r, value) \subseteq RoundFacts(r), value # None
      PROVE  \E e \in Logged(Facts, type, r) : e.payload = value
  <2>1. Event(type, r, None, value) \in SingleFact(type, r, value)
    BY <1>2 DEF SingleFact
  <2> QED
    BY <1>1, <1>2, <2>1 DEF Event, Logged
<1>3. ASSUME NEW a \in Logged(Facts, "RoundRolesCommitted", r) PROVE a.payload = roles[r]
  <2>1. a \in RoundFacts(r)
    BY SingleFactShape, TableFactShape, RoundFactShape DEF Facts, Logged
  <2>2. a \in SingleFact("RoundRolesCommitted", r, roles[r])
    BY <2>1, SingleFactShape, TableFactShape DEF RoundFacts, Logged
  <2> QED
    BY <2>2 DEF SingleFact, Event
<1> QED
  BY <1>2, <1>3 DEF RoundFacts

\* Entries of the tables are facts.
LEMMA TableLogged ==
    ASSUME NEW r \in Round, TypeOK
    PROVE  /\ \A n \in Committed(r) : \E c \in Logged(Facts, "CandidateCommitted", r) :
                c.participant = n /\ c.payload = candidates[r][n]
           /\ \A k \in Node \X Node : decisions[r][k] # None =>
                \E d \in Logged(Facts, "ValidatorDecisionCommitted", r) : d.participant = k
           /\ \A n \in Installed(r) : \E i \in Logged(Facts, "ModelInstallationConfirmed", r) :
                i.participant = n
<1>1. \A e \in RoundFacts(r) : e \in Facts
  BY DEF Facts
<1>2. ASSUME NEW type, NEW table, TableFacts(type, r, table) \subseteq RoundFacts(r),
             NEW k \in DOMAIN table, table[k] # None
      PROVE  \E e \in Logged(Facts, type, r) : e.participant = k /\ e.payload = table[k]
  <2>1. Event(type, r, k, table[k]) \in TableFacts(type, r, table)
    BY <1>2 DEF TableFacts
  <2> QED
    BY <1>1, <1>2, <2>1 DEF Event, Logged
<1>3. /\ TableFacts("CandidateCommitted", r, candidates[r]) \subseteq RoundFacts(r)
      /\ TableFacts("ValidatorDecisionCommitted", r, decisions[r]) \subseteq RoundFacts(r)
      /\ TableFacts("ModelInstallationConfirmed", r, installations[r]) \subseteq RoundFacts(r)
  BY DEF RoundFacts
<1>4. /\ DOMAIN candidates[r] = Node
      /\ DOMAIN decisions[r] = Node \X Node
      /\ DOMAIN installations[r] = Node
  BY DEF TypeOK
<1>5. ASSUME NEW n \in Committed(r)
      PROVE  \E c \in Logged(Facts, "CandidateCommitted", r) :
                c.participant = n /\ c.payload = candidates[r][n]
  BY <1>2, <1>3, <1>4, <1>5 DEF Committed
<1>6. ASSUME NEW k \in Node \X Node, decisions[r][k] # None
      PROVE  \E d \in Logged(Facts, "ValidatorDecisionCommitted", r) : d.participant = k
  BY <1>2, <1>3, <1>4, <1>6
<1>7. ASSUME NEW n \in Installed(r)
      PROVE  \E i \in Logged(Facts, "ModelInstallationConfirmed", r) : i.participant = n
  BY <1>2, <1>3, <1>4, <1>7 DEF Installed
<1> QED
  BY <1>5, <1>6, <1>7

\* The start names the required installers.
LEMMA StartLogged ==
    ASSUME NEW s \in Logged(Facts, "ExperimentStarted", None)
    PROVE  s.payload = required
<1>1. s \in SingleFact("ExperimentStarted", None, required)
  BY TableFactShape, RoundFactShape DEF Facts, Logged
<1> QED
  BY <1>1 DEF SingleFact, Event

-----------------------------------------------------------------------------

\* What each operation appends is justified by the facts there were.
LEMMA StepJustified ==
    ASSUME IInv, NEW r \in Round
    PROVE  /\ \A a : CommitRoundRoles(r, a) =>
                Justified(Event("RoundRolesCommitted", r, None, a), Facts)
           /\ \A h : Justified(Event("RoundOpened", r, None, h), Facts)
           /\ \A n, p, h : CommitCandidate(r, n, p, h) =>
                Justified(Event("CandidateCommitted", r, n, h), Facts)
           /\ \A n, v \in Node : \A h, vote : RecordValidatorDecision(r, v, n, h, vote) =>
                Justified(Event("ValidatorDecisionCommitted", r, <<v, n>>, vote), Facts)
           /\ \A map \in AdmissionMaps : FinalizeAdmission(r, map) =>
                Justified(Event("AdmissionFinalized", r, None, map), Facts)
           /\ \A inputs, h : CommitAggregate(r, inputs, h) =>
                Justified(Event("AggregateCommitted", r, None, AggregateRecord(inputs, h)), Facts)
           /\ \A n, h : ConfirmModelInstallation(r, n, h) =>
                Justified(Event("ModelInstallationConfirmed", r, n, h), Facts)
           /\ \A final : FinalizeRound(r) =>
                Justified(Event("RoundFinalized", r, None, final), Facts)
           /\ \A payload : CommitCATransition(r, payload) =>
                Justified(Event("CATransitionCommitted", r, None, payload), Facts)
<1> USE DEF Event
<1>0. TypeOK
  BY DEF IInv
<1>1. ASSUME NEW a, CommitRoundRoles(r, a)
      PROVE  Justified(Event("RoundRolesCommitted", r, None, a), Facts)
  <2>1. ASSUME r > 0 PROVE Logged(Facts, "RoundFinalized", r - 1) # {}
    <3>1. r - 1 \in Round /\ finalized[r - 1] /\ aggregate[r - 1] # None
      BY <1>1, <2>1, BoundAssumption DEF CommitRoundRoles, PreviousFinal, IInv, RoundsChained, Round
    <3>2. FinalizationOrNone(r - 1) # None
      BY <1>0, <3>1, NoneAssumption DEF FinalizationOrNone, FinalizationType, TypeOK,
         AggregateType, Installed
    <3> QED
      BY <3>1, <3>2, SingleLogged
  <2> QED
    BY <2>1 DEF Justified
<1>2. ASSUME NEW h PROVE Justified(Event("RoundOpened", r, None, h), Facts)
  BY DEF Justified
<1>3. ASSUME NEW n, NEW p, NEW h, CommitCandidate(r, n, p, h)
      PROVE  Justified(Event("CandidateCommitted", r, n, h), Facts)
  BY <1>3, SingleLogged DEF CommitCandidate, Justified
<1>4. ASSUME NEW n \in Node, NEW v \in Node, NEW h, NEW vote,
             RecordValidatorDecision(r, v, n, h, vote)
      PROVE  Justified(Event("ValidatorDecisionCommitted", r, <<v, n>>, vote), Facts)
  <2>1. n \in Committed(r)
    BY <1>4 DEF RecordValidatorDecision, Committed
  <2> QED
    BY <1>0, <2>1, TableLogged DEF Justified
<1>5. ASSUME NEW map \in AdmissionMaps, FinalizeAdmission(r, map)
      PROVE  Justified(Event("AdmissionFinalized", r, None, map), Facts)
  <2>1. ASSUME NEW n \in DOMAIN map,
               NEW a \in Logged(Facts, "RoundRolesCommitted", r), NEW v \in a.payload.validators
        PROVE  \E d \in Logged(Facts, "ValidatorDecisionCommitted", r) : d.participant = <<v, n>>
    <3>1. v \in roles[r].validators /\ roles[r] # None
      BY <1>5, SingleLogged DEF FinalizeAdmission, Mutable
    <3>2. v \in Node /\ n \in Node
      BY <1>0, <3>1 DEF TypeOK, AssignmentType, AdmissionMaps
    <3>3. decisions[r][<<v, n>>] # None
      BY <1>5, <3>1 DEF FinalizeAdmission, FullyJudged
    <3> QED
      BY <1>0, <3>2, <3>3, TableLogged
  <2> QED
    BY <2>1 DEF Justified
<1>6. ASSUME NEW inputs, NEW h, CommitAggregate(r, inputs, h)
      PROVE  Justified(Event("AggregateCommitted", r, None, AggregateRecord(inputs, h)), Facts)
  <2>1. PICK a \in Logged(Facts, "AdmissionFinalized", r) : a.payload = admission[r]
    BY <1>6, SingleLogged DEF CommitAggregate
  <2>2. inputs = ExactInputs(r)
    BY <1>6 DEF CommitAggregate, MatchesAdmission
  <2>3. DOMAIN inputs = {n \in DOMAIN a.payload : a.payload[n]}
    BY <2>1, <2>2 DEF ExactInputs, Admitted
  <2>4. ASSUME NEW n \in DOMAIN inputs
        PROVE  \E c \in Logged(Facts, "CandidateCommitted", r) :
                  c.participant = n /\ c.payload = inputs[n]
    <3>1. n \in DOMAIN admission[r] /\ admission[r] # None /\ inputs[n] = candidates[r][n]
      BY <1>6, <2>2 DEF CommitAggregate, ExactInputs, Admitted
    <3>2. n \in Committed(r)
      BY <1>0, <3>1 DEF IInv, AdmissionJudged, Committed, TypeOK, AdmissionMaps
    <3> QED
      BY <1>0, <3>1, <3>2, TableLogged
  <2> QED
    BY <2>1, <2>3, <2>4 DEF Justified, AggregateRecord
<1>7. ASSUME NEW n, NEW h, ConfirmModelInstallation(r, n, h)
      PROVE  Justified(Event("ModelInstallationConfirmed", r, n, h), Facts)
  BY <1>7, SingleLogged DEF ConfirmModelInstallation, Canonical, Justified
<1>8. ASSUME NEW final, FinalizeRound(r)
      PROVE  Justified(Event("RoundFinalized", r, None, final), Facts)
  <2>1. ASSUME NEW s \in Logged(Facts, "ExperimentStarted", None), NEW n \in s.payload
        PROVE  \E i \in Logged(Facts, "ModelInstallationConfirmed", r) : i.participant = n
    BY <1>0, <1>8, StartLogged, TableLogged DEF FinalizeRound, RequiredInstalled
  <2> QED
    BY <2>1 DEF Justified
<1>9. ASSUME NEW payload, CommitCATransition(r, payload)
      PROVE  Justified(Event("CATransitionCommitted", r, None, payload), Facts)
  <2>1. finalized[r] /\ aggregate[r] # None
    BY <1>9 DEF CommitCATransition, IInv, RoundsChained
  <2>2. FinalizationOrNone(r) # None
    BY <1>0, <2>1, NoneAssumption DEF FinalizationOrNone, FinalizationType, TypeOK,
       AggregateType, Installed
  <2> QED
    BY <2>2, SingleLogged DEF Justified
<1> HIDE DEF Event
<1> QED
  BY <1>1, <1>2, <1>3, <1>4, <1>5, <1>6, <1>7, <1>8, <1>9
LEMMA NextJustified ==
    ASSUME IInv, LogInv, EveryEventJustified, [Next]_vars
    PROVE  EveryEventJustified'
<1>1. ASSUME NEW r \in Round, RoundStep(r)
      PROVE  EveryEventJustified'
  <2> USE JustifiedAppend, StepJustified
  <2>1. ASSUME NEW a \in Assignments, CommitRoundRoles(r, a) PROVE EveryEventJustified'
    BY <2>1 DEF CommitRoundRoles
  <2>2. ASSUME NEW h \in ParentHash, OpenRound(r, h) PROVE EveryEventJustified'
    BY <2>2 DEF OpenRound
  <2>3. ASSUME NEW n \in Node, NEW p \in ParentHash, NEW h \in CandidateHash,
               CommitCandidate(r, n, p, h)
        PROVE  EveryEventJustified'
    BY <2>3 DEF CommitCandidate
  <2>4. ASSUME NEW v \in Node, NEW n \in Node, NEW h \in CandidateHash, NEW vote \in Vote,
               RecordValidatorDecision(r, v, n, h, vote)
        PROVE  EveryEventJustified'
    BY <2>4 DEF RecordValidatorDecision
  <2>5. ASSUME NEW map \in AdmissionMaps, FinalizeAdmission(r, map) PROVE EveryEventJustified'
    BY <2>5 DEF FinalizeAdmission
  <2>6. ASSUME NEW inputs \in InputMaps, NEW h \in AggregateHash, CommitAggregate(r, inputs, h)
        PROVE  EveryEventJustified'
    BY <2>6 DEF CommitAggregate
  <2>7. ASSUME NEW n \in Node, NEW h \in AggregateHash, ConfirmModelInstallation(r, n, h)
        PROVE  EveryEventJustified'
    BY <2>7 DEF ConfirmModelInstallation
  <2>8. CASE FinalizeRound(r)
    BY <2>8 DEF FinalizeRound
  <2>9. ASSUME NEW payload \in CAPayload, CommitCATransition(r, payload)
        PROVE  EveryEventJustified'
    BY <2>9 DEF CommitCATransition
  <2> QED
    BY <1>1, <2>1, <2>2, <2>3, <2>4, <2>5, <2>6, <2>7, <2>8, <2>9 DEF RoundStep
<1>2. ASSUME NEW installers \in InstallerChoices, StartExperiment(installers)
      PROVE  EveryEventJustified'
  <2>1. Justified(Event("ExperimentStarted", None, None, installers), Facts)
    BY DEF Justified, Event
  <2> QED
    BY <1>2, <2>1, JustifiedAppend DEF StartExperiment
<1>3. ASSUME NEW n \in Node, NEW c \in CapabilityChoices, RegisterParticipant(n, c)
      PROVE  EveryEventJustified'
  <2>1. Justified(Event("ParticipantRegistered", None, n, c), Facts)
    BY DEF Justified, Event
  <2> QED
    BY <1>3, <2>1, JustifiedAppend DEF RegisterParticipant
<1>4. CASE Close \/ UNCHANGED vars
  BY <1>4 DEF Close, vars, EveryEventJustified
<1> QED
  BY <1>1, <1>2, <1>3, <1>4 DEF Next

\* Every event of the log, closed or not, was justified by the ones before it.
THEOREM EventsAreJustified == Spec => []EveryEventJustified
<1>1. Init => EveryEventJustified
  BY DEF Init, EveryEventJustified
<1>2. Spec => []LogInv
  BY InitLog, NextLog, TypeCorrect, PTL DEF Spec
<1> QED
  BY <1>1, <1>2, NextJustified, Invariance, PTL DEF Spec

=============================================================================
