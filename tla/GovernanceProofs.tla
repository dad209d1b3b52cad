-------------------------- MODULE GovernanceProofs --------------------------
(***************************************************************************)
(* What governs the rounds, for every set of participants, topology,       *)
(* policy, strategy, number of rounds and of refused calls.                *)
(*                                                                         *)
(* The engine of the automaton: cells stay well formed, a severe finding   *)
(* is backed by the history the class invariant asks for, suspicion with a *)
(* severe finding ends with the probation, exclusion is final without      *)
(* recovery, and a policy that asks for a trusted neighbour promotes       *)
(* nobody.  The adapter above a ledger that refuses calls: an admission    *)
(* decides every candidate, and a refusal is contained.  The selection of  *)
(* roles: trust is earned by votes, nobody that agrees throughout loses    *)
(* its standing, without recovery who disagrees escalates to exclusion and *)
(* is no validator again, majority dissenters are out, and selection gives *)
(* up only when it must.  And the comparators of roles claim proof exactly *)
(* of the runs in which the declared nodes dissented and lost their roles  *)
(* for it.                                                                 *)
(***************************************************************************)
EXTENDS Governance, CATransition, FiniteSetTheorems, SequenceTheorems, TLAPS

-----------------------------------------------------------------------------
\* One step of a cell.

LEMMA EvolvedFields ==
    ASSUME NEW c, NEW p, NEW e, NEW t, NEW r
    PROVE  /\ Evolved(c, p, e, t, r).state = NextState(c, p, e, t)
           /\ Evolved(c, p, e, t, r).positive = Positives(c[p], e)
           /\ Evolved(c, p, e, t, r).severe = Provenance(c[p], NextState(c, p, e, t), e, r)
           /\ Evolved(c, p, e, t, r).held =
                IF NextState(c, p, e, t) = c[p].state THEN c[p].held + 1 ELSE 0
           /\ Evolved(c, p, e, t, r).moved =
                IF NextState(c, p, e, t) = c[p].state THEN c[p].moved ELSE r
  BY DEF Evolved

\* Whatever the evidence and the trust, a cell stays well formed.
LEMMA EvolvedType ==
    ASSUME NEW c \in [Participant -> Cell], NEW p \in Participant, NEW e, NEW t, NEW r \in Nat
    PROVE  Evolved(c, p, e, t, r) \in Cell
<1> DEFINE next == NextState(c, p, e, t)
<1>1. /\ c[p].state \in ParticipantState
      /\ c[p].positive \in Nat /\ c[p].negative \in Nat /\ c[p].held \in Nat
      /\ c[p].moved \in RoundOrNone /\ c[p].severe \in RoundOrNone
  BY DEF Cell
<1>2. next \in ParticipantState
  <2>1. SevereTrustedTarget \in ParticipantState
    BY CAPolicyAssumption DEF ParticipantState
  <2> QED
    BY <1>1, <2>1 DEF NextState, ParticipantState
<1>3. /\ Positives(c[p], e) \in Nat /\ Negatives(c[p], e) \in Nat
      /\ Provenance(c[p], next, e, r) \in RoundOrNone
  BY <1>1 DEF Positives, Negatives, Provenance, RoundOrNone, NoRound
<1> HIDE DEF next
<1>4. /\ (IF next = c[p].state THEN c[p].held + 1 ELSE 0) \in Nat
      /\ (IF next = c[p].state THEN c[p].moved ELSE r) \in RoundOrNone
  BY <1>1 DEF RoundOrNone
<1> QED
  BY <1>2, <1>3, <1>4 DEF Evolved, Cell, next

(* A finite topology has a natural number of trusted neighbours, and a     *)
(* generation in which nobody is trusted gives nobody support when the     *)
(* policy asks for a trusted neighbour.                                    *)
LEMMA NoSupport ==
    ASSUME NEW c, NEW p \in Participant, MinTrusted > 0,
           \A q \in Participant : c[q].state # "trusted"
    PROVE  ~Supported(c, p)
  <1>1. TrustedNeighbors(c, p) = {}
    BY CAPolicyAssumption DEF TrustedNeighbors
  <1>2. Cardinality(TrustedNeighbors(c, p)) = 0
    BY <1>1, FS_EmptySet
  <1>3. MinTrusted \in Nat
    BY CAPolicyAssumption
  <1>. QED
    BY <1>2, <1>3 DEF Supported

-----------------------------------------------------------------------------
(* The engine: the well-formedness of snapshots and the fact that no recorded round is *)
(* later than the snapshot's source round.                                 *)
NoLaterThanSource == \A p \in Participant : cells[p].moved <= source

EngineInv ==
    /\ EngineTypeOK
    /\ NoLaterThanSource
    /\ ProvenanceBacked
    /\ ProbationIsBounded
    /\ NobodyIsTrustedFirst

LEMMA EngineInitEstablishes == EngineInit => EngineInv
  <1>. SUFFICES ASSUME EngineInit PROVE EngineInv
    OBVIOUS
  <1>1. EngineTypeOK
    BY DEF EngineInit, EngineTypeOK, FreshCell, Cell, ParticipantState, EvidenceCategory,
           RoundOrNone, NoRound
  <1>2. NoLaterThanSource
    BY DEF EngineInit, NoLaterThanSource, FreshCell, NoRound
  <1>3. ProvenanceBacked /\ ProbationIsBounded /\ NobodyIsTrustedFirst
    BY DEF EngineInit, ProvenanceBacked, ProbationIsBounded, NobodyIsTrustedFirst, FreshCell
  <1>. QED
    BY <1>1, <1>2, <1>3 DEF EngineInv

(* A transition preserves the conjunction.                                 *)
LEMMA TransitionPreserves ==
    ASSUME EngineInv, NEW r \in SourceRound, NEW e \in [Participant -> EvidenceCategory],
           NEW t \in [Participant -> TrustScore], Transition(r, e, t)
    PROVE  EngineInv'
  <1>1. r \in Nat /\ r > source /\ source \in Int
    BY EngineAssumption DEF EngineInv, EngineTypeOK, Transition, NoRound
  <1>2. cells \in [Participant -> Cell]
    BY DEF EngineInv, EngineTypeOK
  <1>3. \A p \in Participant : Evolved(cells, p, e[p], t[p], r) \in Cell
    BY <1>1, <1>2, EvolvedType
  <1>4. EngineTypeOK'
    BY <1>3 DEF EngineTypeOK, Transition
  <1>5. \A p \in Participant : cells'[p] = Evolved(cells, p, e[p], t[p], r)
    BY DEF Transition
  <1>6. \A p \in Participant : /\ cells[p].moved \in Int /\ cells[p].moved <= source
                               /\ cells[p].severe \in Int /\ cells[p].held \in Nat
                               /\ cells[p].state \in ParticipantState
    BY <1>2 DEF Cell, RoundOrNone, NoRound, EngineInv, NoLaterThanSource
  <1>7. NoLaterThanSource'
    BY <1>1, <1>5, <1>6, EvolvedFields DEF NoLaterThanSource, Transition
  <1>8. ProvenanceBacked'
    <2>. SUFFICES ASSUME NEW p \in Participant, cells'[p].severe # NoRound
                  PROVE  /\ cells'[p].state \in {"suspicious", "excluded"}
                         /\ cells'[p].severe <= cells'[p].moved
      BY DEF ProvenanceBacked
    <2>. DEFINE next == NextState(cells, p, e[p], t[p])
    <2>1. /\ cells'[p].state = next
          /\ cells'[p].severe = Provenance(cells[p], next, e[p], r)
          /\ cells'[p].moved = IF next = cells[p].state THEN cells[p].moved ELSE r
      BY <1>5, EvolvedFields
    <2>2. CASE /\ cells[p].state \in {"observation", "trusted"}
               /\ e[p] = "severe" /\ next = "suspicious"
      BY <1>1, <2>1, <2>2 DEF Provenance
    <2>3. CASE ~(/\ cells[p].state \in {"observation", "trusted"}
                 /\ e[p] = "severe" /\ next = "suspicious")
      <3>1. cells'[p].severe = cells[p].severe /\ cells[p].severe # NoRound
        BY <2>1, <2>3 DEF Provenance
      <3>2. /\ cells[p].state \in {"suspicious", "excluded"}
            /\ cells[p].severe <= cells[p].moved
        BY <3>1 DEF EngineInv, ProvenanceBacked
      <3>3. ~(cells[p].state = "suspicious" /\ next = "observation")
        BY <2>1, <3>1 DEF Provenance, NoRound
      <3>4. next \in {"suspicious", "excluded"}
        BY <3>2, <3>3 DEF NextState
      <3>. QED
        BY <1>1, <1>6, <2>1, <3>1, <3>2, <3>4
    <2>. QED
      BY <2>2, <2>3
  <1>9. ProbationIsBounded'
    <2>. SUFFICES ASSUME NEW p \in Participant, cells'[p].state = "suspicious",
                         cells'[p].severe # NoRound
                  PROVE  cells'[p].held = 0 \/ cells'[p].held < ProbationRounds
      BY DEF ProbationIsBounded
    <2>. DEFINE next == NextState(cells, p, e[p], t[p])
    <2>1. /\ next = "suspicious"
          /\ cells'[p].severe = Provenance(cells[p], next, e[p], r)
          /\ cells'[p].held = IF next = cells[p].state THEN cells[p].held + 1 ELSE 0
      BY <1>5, EvolvedFields
    <2>2. CASE cells[p].state # "suspicious"
      BY <2>1, <2>2
    <2>3. CASE cells[p].state = "suspicious"
      <3>1. cells[p].severe # NoRound
        BY <2>1, <2>3 DEF Provenance
      <3>2. ~ProbationExpired(cells[p])
        BY <2>1, <2>3 DEF NextState
      <3>3. ProbationRounds \in Nat
        BY CAPolicyAssumption
      <3>. QED
        BY <1>6, <2>1, <2>3, <3>1, <3>2, <3>3 DEF ProbationExpired
    <2>. QED
      BY <2>2, <2>3
  <1>10. NobodyIsTrustedFirst'
    <2>. SUFFICES ASSUME MinTrusted > 0, NEW p \in Participant
                  PROVE  cells'[p].state # "trusted"
      BY DEF NobodyIsTrustedFirst
    <2>1. \A q \in Participant : cells[q].state # "trusted"
      BY DEF EngineInv, NobodyIsTrustedFirst
    <2>2. ~Promoted(cells, p, e[p], t[p])
      BY <2>1, NoSupport DEF Promoted
    <2>3. NextState(cells, p, e[p], t[p]) # "trusted"
      BY <1>6, <2>1, <2>2 DEF NextState, ParticipantState
    <2>. QED
      BY <1>5, <2>3, EvolvedFields
  <1>. QED
    BY <1>4, <1>7, <1>8, <1>9, <1>10 DEF EngineInv

(* The conjunction holds in every reachable generation.                    *)
THEOREM EngineInvariance == EngineSpec => []EngineInv
  <1>1. EngineInv /\ [EngineNext]_engineVars => EngineInv'
    <2>. SUFFICES ASSUME EngineInv, [EngineNext]_engineVars PROVE EngineInv'
      OBVIOUS
    <2>1. CASE EngineNext
      BY <2>1, TransitionPreserves DEF EngineNext
    <2>2. CASE UNCHANGED engineVars
      BY <2>2 DEF engineVars, EngineInv, EngineTypeOK, NoLaterThanSource, ProvenanceBacked,
                  ProbationIsBounded, NobodyIsTrustedFirst
    <2>. QED
      BY <2>1, <2>2
  <1>. QED
    BY EngineInitEstablishes, <1>1, PTL DEF EngineSpec

(* Every snapshot is well formed (ParticipantCAState, model.py:44-68).     *)
THEOREM CellsWellFormed == EngineSpec => []EngineTypeOK
  BY EngineInvariance, PTL DEF EngineInv

(* No transition constructs a state whose severe provenance the class      *)
(* invariant of model.py:69-73 would refuse.                               *)
THEOREM ProvenanceNeverRefused == EngineSpec => []ProvenanceBacked
  BY EngineInvariance, PTL DEF EngineInv

(* A severe finding ends suspicion within the probation.                   *)
THEOREM ProbationEnds == EngineSpec => []ProbationIsBounded
  BY EngineInvariance, PTL DEF EngineInv

(* With a neighbour requirement nobody is ever trusted.                    *)
THEOREM TrustNeedsASeed == EngineSpec => []NobodyIsTrustedFirst
  BY EngineInvariance, PTL DEF EngineInv

(* Without recovery neither suspicion nor exclusion is ever lifted.        *)
THEOREM QuarantineIsFinal == EngineSpec => ExclusionIsFinal
  <1>. DEFINE Final ==
         ~RecoveryEnabled =>
           \A p \in Participant :
              /\ cells[p].state = "excluded" => cells'[p].state = "excluded"
              /\ cells[p].state = "suspicious" =>
                   cells'[p].state \in {"suspicious", "excluded"}
  <1>1. [EngineNext]_engineVars => [Final]_engineVars
    <2>. SUFFICES ASSUME EngineNext PROVE Final
      OBVIOUS
    <2>. SUFFICES ASSUME ~RecoveryEnabled, NEW p \in Participant
                  PROVE  /\ cells[p].state = "excluded" => cells'[p].state = "excluded"
                         /\ cells[p].state = "suspicious" =>
                              cells'[p].state \in {"suspicious", "excluded"}
      OBVIOUS
    <2>1. PICK r \in SourceRound, e \in [Participant -> EvidenceCategory],
               t \in [Participant -> TrustScore] : Transition(r, e, t)
      BY DEF EngineNext
    <2>2. cells'[p].state = NextState(cells, p, e[p], t[p])
      BY <2>1 DEF Transition, Evolved
    <2>3. ~Recovered(cells, p, e[p], t[p])
      BY DEF Recovered
    <2>. QED
      BY <2>2, <2>3 DEF NextState
  <1>. QED
    BY <1>1, PTL DEF EngineSpec, ExclusionIsFinal

-----------------------------------------------------------------------------
\* The adapter: its inductive invariant.

Ledgers == [Adapter!Round -> Adapter!RoundRecord]

\* Only a trainer publishes, and once in a round.
TrainersPublish ==
    /\ \A n \in Members : pc[n] \in {"train", "record", "publish"} => n \in Owners
    /\ \A n \in Members, r \in Adapter!Round :
          n \in decided[r] =>
              \/ r < round[n]
              \/ r = round[n] /\ pc[n] \notin {"train", "record", "publish"}

\* The admission is that of the last decision, when all candidates are committed.
AdmissionIsLast ==
    \A r \in Adapter!Round :
        ledger[r].admission # None =>
            ledger[r].admission = ledger[r].candidates /\ decided[r] = Owners

FinalIsInstalled == \A r \in Adapter!Round : ledger[r].final => ledger[r].holders = Members

\* An observer's cache of candidates holds whatever was decided.
ObserverKnows ==
    ~setting.failClosed =>
        /\ \A r \in Adapter!Round : decided[r] \subseteq hashes[r]
        /\ \A n \in Members : pc[n] = "publish" => n \in hashes[round[n]]
        /\ \A r \in Adapter!Round : admissions[r] # None => admissions[r] \subseteq hashes[r]

AdapterInv ==
    /\ Adapter!TypeOK
    /\ TrainersPublish /\ AdmissionIsLast /\ FinalIsInstalled /\ ObserverKnows
    /\ Adapter!CachesBacked /\ Adapter!LeavesAccounted /\ Adapter!ObserverNeverStops

-----------------------------------------------------------------------------
\* The calls of the ledger.

LEMMA Assumed ==
    /\ Owners \subseteq Members /\ Judges # {} /\ MaxRound \in Nat /\ MaxFaults \in Nat
    /\ \A s \in Settings : s.ca => s.trust
    /\ Settings \subseteq [failClosed : BOOLEAN, trust : BOOLEAN, ca : BOOLEAN, odd : BOOLEAN]
    /\ None \notin Adapter!Hash /\ None \notin SUBSET Owners
  <1>1. Adapter!Hash \subseteq Int \X {"agreed", "odd"}
    BY LedgerAdapterAssumption DEF Adapter!Hash, Adapter!Aggregate, Adapter!AdapterAssumption
  <1> QED BY <1>1, LedgerAdapterAssumption DEF Adapter!AdapterAssumption

LEMMA RolesCall ==
    ASSUME NEW l \in Ledgers, NEW r \in Adapter!Round
    PROVE  LET call == [op |-> "roles", round |-> r] IN
           /\ Adapter!Accepts(l, call) <=> (r > 0 => l[r - 1].final)
           /\ Adapter!Applied(l, call) = [l EXCEPT ![r] = [l[r] EXCEPT !.roles = TRUE]]
           /\ Adapter!Applied(l, call) \in Ledgers
  <1>1. l[r] \in Adapter!RoundRecord
    BY DEF Ledgers
  <1>2. [l[r] EXCEPT !.roles = TRUE] \in Adapter!RoundRecord
    BY <1>1 DEF Adapter!RoundRecord, Adapter!HashOrNone, Adapter!Decision
  <1> QED BY <1>2 DEF Adapter!Accepts, Adapter!Applied, Ledgers

LEMMA OpenCall ==
    ASSUME NEW l \in Ledgers, NEW r \in Adapter!Round, NEW h \in Adapter!Hash
    PROVE  LET call == [op |-> "open", round |-> r, parent |-> h] IN
           /\ Adapter!Accepts(l, call) <=> (l[r].roles /\ ~l[r].final /\ l[r].parent \in {None, h})
           /\ Adapter!Applied(l, call) = [l EXCEPT ![r] = [l[r] EXCEPT !.parent = h]]
           /\ Adapter!Applied(l, call) \in Ledgers
  <1>1. l[r] \in Adapter!RoundRecord
    BY DEF Ledgers
  <1>2. [l[r] EXCEPT !.parent = h] \in Adapter!RoundRecord
    BY <1>1 DEF Adapter!RoundRecord, Adapter!HashOrNone, Adapter!Decision
  <1> QED BY <1>2 DEF Adapter!Accepts, Adapter!Applied, Ledgers

LEMMA CandidateCall ==
    ASSUME NEW l \in Ledgers, NEW r \in Adapter!Round, NEW h \in Adapter!Hash, NEW n \in Owners
    PROVE  LET call == [op |-> "candidate", round |-> r, of |-> n, parent |-> h] IN
           /\ Adapter!Accepts(l, call) <=> (l[r].roles /\ ~l[r].final /\ l[r].parent = h)
           /\ Adapter!Applied(l, call) =
                 [l EXCEPT ![r] = [l[r] EXCEPT !.candidates = l[r].candidates \cup {n}]]
           /\ Adapter!Applied(l, call) \in Ledgers
  <1>1. l[r] \in Adapter!RoundRecord
    BY DEF Ledgers
  <1>2. [l[r] EXCEPT !.candidates = l[r].candidates \cup {n}] \in Adapter!RoundRecord
    BY <1>1 DEF Adapter!RoundRecord, Adapter!HashOrNone, Adapter!Decision
  <1> QED BY <1>2 DEF Adapter!Accepts, Adapter!Applied, Ledgers

LEMMA AdmissionCall ==
    ASSUME NEW l \in Ledgers, NEW r \in Adapter!Round, NEW d \in SUBSET Owners
    PROVE  LET call == [op |-> "admission", round |-> r, of |-> d] IN
           /\ Adapter!Accepts(l, call) <=>
                 (/\ l[r].roles /\ ~l[r].final /\ d = l[r].candidates
                  /\ Judges \X d \subseteq l[r].votes /\ l[r].admission \in {None, d})
           /\ Adapter!Applied(l, call) = [l EXCEPT ![r] = [l[r] EXCEPT !.admission = d]]
           /\ Adapter!Applied(l, call) \in Ledgers
  <1>1. l[r] \in Adapter!RoundRecord
    BY DEF Ledgers
  <1>2. [l[r] EXCEPT !.admission = d] \in Adapter!RoundRecord
    BY <1>1 DEF Adapter!RoundRecord, Adapter!HashOrNone, Adapter!Decision
  <1> QED BY <1>2 DEF Adapter!Accepts, Adapter!Applied, Ledgers

LEMMA AggregateCall ==
    ASSUME NEW l \in Ledgers, NEW r \in Adapter!Round, NEW d \in SUBSET Owners,
           NEW h \in Adapter!Hash
    PROVE  LET call == [op |-> "aggregate", round |-> r, of |-> d, model |-> h] IN
           /\ Adapter!Accepts(l, call) <=>
                 (/\ ~l[r].final /\ l[r].admission # None
                  /\ d = l[r].admission /\ l[r].aggregate \in {None, h})
           /\ Adapter!Applied(l, call) = [l EXCEPT ![r] = [l[r] EXCEPT !.aggregate = h]]
           /\ Adapter!Applied(l, call) \in Ledgers
  <1>1. l[r] \in Adapter!RoundRecord
    BY DEF Ledgers
  <1>2. [l[r] EXCEPT !.aggregate = h] \in Adapter!RoundRecord
    BY <1>1 DEF Adapter!RoundRecord, Adapter!HashOrNone, Adapter!Decision
  <1> QED BY <1>2 DEF Adapter!Accepts, Adapter!Applied, Ledgers

LEMMA InstallCall ==
    ASSUME NEW l \in Ledgers, NEW r \in Adapter!Round, NEW n \in Members, NEW h \in Adapter!Hash
    PROVE  LET call == [op |-> "install", round |-> r, by |-> n, model |-> h] IN
           /\ Adapter!Accepts(l, call) <=> (~l[r].final /\ l[r].aggregate = h)
           /\ Adapter!Applied(l, call) =
                 [l EXCEPT ![r] = [l[r] EXCEPT !.holders = l[r].holders \cup {n}]]
           /\ Adapter!Applied(l, call) \in Ledgers
  <1>1. l[r] \in Adapter!RoundRecord
    BY DEF Ledgers
  <1>2. [l[r] EXCEPT !.holders = l[r].holders \cup {n}] \in Adapter!RoundRecord
    BY <1>1 DEF Adapter!RoundRecord, Adapter!HashOrNone, Adapter!Decision
  <1> QED BY <1>2 DEF Adapter!Accepts, Adapter!Applied, Ledgers

LEMMA FinalizeCall ==
    ASSUME NEW l \in Ledgers, NEW r \in Adapter!Round
    PROVE  LET call == [op |-> "finalize", round |-> r] IN
           /\ Adapter!Accepts(l, call) <=>
                 (l[r].final \/ (l[r].aggregate # None /\ l[r].holders = Members))
           /\ Adapter!Applied(l, call) = [l EXCEPT ![r] = [l[r] EXCEPT !.final = TRUE]]
           /\ Adapter!Applied(l, call) \in Ledgers
  <1>1. l[r] \in Adapter!RoundRecord
    BY DEF Ledgers
  <1>2. [l[r] EXCEPT !.final = TRUE] \in Adapter!RoundRecord
    BY <1>1 DEF Adapter!RoundRecord, Adapter!HashOrNone, Adapter!Decision
  <1> QED BY <1>2 DEF Adapter!Accepts, Adapter!Applied, Ledgers

LEMMA VerifyCall ==
    ASSUME NEW l \in Ledgers, NEW r \in Adapter!Round
    PROVE  LET call == [op |-> "verify", round |-> r] IN
           /\ Adapter!Accepts(l, call) <=> (l[r].roles)
           /\ Adapter!Applied(l, call) = l
           /\ Adapter!Applied(l, call) \in Ledgers
  <1>1. l[r] \in Adapter!RoundRecord
    BY DEF Ledgers
  <1> QED BY <1>1 DEF Adapter!Accepts, Adapter!Applied, Ledgers

LEMMA CACall ==
    ASSUME NEW l \in Ledgers, NEW r \in Adapter!Round
    PROVE  LET call == [op |-> "ca", round |-> r] IN
           /\ Adapter!Accepts(l, call) <=> (l[r].final)
           /\ Adapter!Applied(l, call) = [l EXCEPT ![r] = [l[r] EXCEPT !.ca = TRUE]]
           /\ Adapter!Applied(l, call) \in Ledgers
  <1>1. l[r] \in Adapter!RoundRecord
    BY DEF Ledgers
  <1>2. [l[r] EXCEPT !.ca = TRUE] \in Adapter!RoundRecord
    BY <1>1 DEF Adapter!RoundRecord, Adapter!HashOrNone, Adapter!Decision
  <1> QED BY <1>2 DEF Adapter!Accepts, Adapter!Applied, Ledgers

\* _invoke: the call is made and taken, or it is not.
LEMMA Invoked ==
    ASSUME NEW l, NEW b \in BOOLEAN, NEW call, NEW fails
    PROVE  LET done == [ledger |-> l, raised |-> b]
               after == Adapter!Invoke(done, call, fails)
           IN  \/ b /\ after = done
               \/ ~b /\ Adapter!Accepts(l, call) /\ ~fails
                  /\ after = [ledger |-> Adapter!Applied(l, call), raised |-> FALSE]
               \/ ~b /\ after = [ledger |-> l, raised |-> setting.failClosed]
  BY DEF Adapter!Invoke

-----------------------------------------------------------------------------
\* What a step does to the ledger, the caches and the threads.

Phases == {"train", "record", "publish", "admission", "install", "barrier", "done", "failed"}

LEMMA Here ==
    ASSUME Adapter!TypeOK, NEW n \in Members
    PROVE  /\ setting \in Settings /\ setting.failClosed \in BOOLEAN
           /\ setting.trust \in BOOLEAN /\ setting.ca \in BOOLEAN
           /\ setting.ca => setting.trust
           /\ ledger \in Ledgers /\ round[n] \in Adapter!Round /\ model[n] \in Adapter!Hash
           /\ round \in [Members -> Adapter!Round] /\ pc \in [Members -> Phases]
           /\ model \in [Members -> Adapter!Hash]
           /\ decided \in [Adapter!Round -> SUBSET Owners]
           /\ hashes \in [Adapter!Round -> SUBSET Owners]
           /\ parents \in [Adapter!Round -> Adapter!HashOrNone]
           /\ admissions \in [Adapter!Round -> Adapter!Decision]
           /\ aggregates \in [Adapter!Round -> Adapter!HashOrNone]
  <1>1. /\ setting \in Settings /\ setting.failClosed \in BOOLEAN
        /\ setting.trust \in BOOLEAN /\ setting.ca \in BOOLEAN
        /\ setting.ca => setting.trust
    BY Assumed DEF Adapter!TypeOK
  <1>2. ledger \in Ledgers
    BY DEF Adapter!TypeOK, Ledgers
  <1> QED BY <1>1, <1>2 DEF Adapter!TypeOK, Phases

\* A thread goes on, and nobody else's does.
Moves(n, where) == pc' = [pc EXCEPT ![n] = where]

\* The first call of an operation.
LEMMA FirstCall ==
    ASSUME NEW call, NEW fails
    PROVE  \/ /\ Adapter!Invoke(Adapter!Start, call, fails)
                    = [ledger |-> Adapter!Applied(ledger, call), raised |-> FALSE]
              /\ Adapter!Accepts(ledger, call)
           \/ Adapter!Invoke(Adapter!Start, call, fails)
                = [ledger |-> ledger, raised |-> setting.failClosed]
  <1>1. Adapter!Start = [ledger |-> ledger, raised |-> FALSE]
    BY DEF Adapter!Start
  <1>2. \/ /\ Adapter!Invoke([ledger |-> ledger, raised |-> FALSE], call, fails)
                 = [ledger |-> Adapter!Applied(ledger, call), raised |-> FALSE]
           /\ Adapter!Accepts(ledger, call)
        \/ Adapter!Invoke([ledger |-> ledger, raised |-> FALSE], call, fails)
             = [ledger |-> ledger, raised |-> setting.failClosed]
    BY Invoked
  <1> QED BY <1>1, <1>2, Zenon

LEMMA OpenEffect ==
    ASSUME Adapter!TypeOK, NEW n \in Members, Adapter!OpenRound(n)
    PROVE  /\ pc[n] = "train" /\ ledger' \in Ledgers
           /\ parents' \in [Adapter!Round -> Adapter!HashOrNone]
           /\ \E where \in {"record", "failed"} :
                 /\ Moves(n, where)
                 /\ ~setting.failClosed /\ ~setting.trust => where = "record"
           /\ \A s \in Adapter!Round :
                 /\ ledger'[s].candidates = ledger[s].candidates
                 /\ ledger'[s].admission = ledger[s].admission
                 /\ ledger'[s].aggregate = ledger[s].aggregate
                 /\ ledger'[s].holders = ledger[s].holders
                 /\ ledger'[s].final = ledger[s].final
                 /\ ledger'[s].ca = ledger[s].ca
                 /\ setting.failClosed /\ parents[s] \in {None, ledger[s].parent} =>
                       parents'[s] \in {None, ledger'[s].parent}
           /\ UNCHANGED <<setting, hashes, admissions, aggregates, counted, generation,
                          round, model, decided, arrived>>
           /\ faults' \in 0 .. MaxFaults
  <1> DEFINE r == round[n]
             h == model[n]
             roles == [op |-> "roles", round |-> r]
             open == [op |-> "open", round |-> r, parent |-> h]
  <1>0. /\ r \in Adapter!Round /\ h \in Adapter!Hash /\ ledger \in Ledgers
        /\ setting.failClosed \in BOOLEAN
        /\ setting.ca => setting.trust
        /\ parents \in [Adapter!Round -> Adapter!HashOrNone]
    BY Here
  <1>f. faults \in 0 .. MaxFaults /\ MaxFaults \in Nat
    BY Assumed DEF Adapter!TypeOK
  <1>1. /\ pc[n] = "train"
        /\ UNCHANGED <<setting, hashes, admissions, aggregates, counted, generation,
                       round, model, decided, arrived>>
    BY DEF Adapter!OpenRound, Adapter!follow
  <1>2. \/ UNCHANGED <<ledger, parents, faults>>
           /\ \E where \in {"record", "failed"} :
                 /\ Moves(n, where)
                 /\ ~setting.failClosed /\ ~setting.trust => where = "record"
        \/ parents[r] = None /\ \E lost \in Adapter!MayLose(2) :
              LET done == Adapter!Invoke(Adapter!Invoke(Adapter!Start, roles, lost = 1),
                                         open, lost = 2) IN
              /\ ledger' = done.ledger
              /\ parents' = IF done.raised THEN parents ELSE [parents EXCEPT ![r] = h]
              /\ Moves(n, IF done.raised THEN "failed" ELSE "record")
              /\ Adapter!Costs(lost)
    BY <1>0 DEF Adapter!OpenRound, Adapter!GotoUnless, Adapter!Goto, Adapter!ConflictRaises, Moves
  <1>3. CASE /\ UNCHANGED <<ledger, parents, faults>>
             /\ \E where \in {"record", "failed"} :
                 /\ Moves(n, where)
                 /\ ~setting.failClosed /\ ~setting.trust => where = "record"
    BY <1>0, <1>1, <1>3, <1>f
  <1>4. CASE parents[r] = None /\ \E lost \in Adapter!MayLose(2) :
              LET done == Adapter!Invoke(Adapter!Invoke(Adapter!Start, roles, lost = 1),
                                         open, lost = 2) IN
              /\ ledger' = done.ledger
              /\ parents' = IF done.raised THEN parents ELSE [parents EXCEPT ![r] = h]
              /\ Moves(n, IF done.raised THEN "failed" ELSE "record")
              /\ Adapter!Costs(lost)
    <2>1. PICK lost \in Adapter!MayLose(2) :
              LET done == Adapter!Invoke(Adapter!Invoke(Adapter!Start, roles, lost = 1),
                                         open, lost = 2) IN
              /\ ledger' = done.ledger
              /\ parents' = IF done.raised THEN parents ELSE [parents EXCEPT ![r] = h]
              /\ Moves(n, IF done.raised THEN "failed" ELSE "record")
              /\ Adapter!Costs(lost)
      BY <1>4
    <2> DEFINE first == Adapter!Invoke(Adapter!Start, roles, lost = 1)
               done == Adapter!Invoke(first, open, lost = 2)
    <2>2. \E l \in Ledgers, b \in BOOLEAN :
             /\ first = [ledger |-> l, raised |-> b] /\ (b => setting.failClosed)
             /\ \/ l = ledger
                \/ l = [ledger EXCEPT ![r] = [ledger[r] EXCEPT !.roles = TRUE]]
      <3>1. /\ Adapter!Applied(ledger, roles)
                 = [ledger EXCEPT ![r] = [ledger[r] EXCEPT !.roles = TRUE]]
            /\ Adapter!Applied(ledger, roles) \in Ledgers
        BY <1>0, RolesCall
      <3> HIDE DEF roles
      <3>2. \/ first = [ledger |-> Adapter!Applied(ledger, roles), raised |-> FALSE]
            \/ first = [ledger |-> ledger, raised |-> setting.failClosed]
        BY FirstCall, Zenon
      <3> HIDE DEF first
      <3> QED BY <1>0, <3>1, <3>2
    <2>3. PICK l \in Ledgers, b \in BOOLEAN :
             /\ first = [ledger |-> l, raised |-> b] /\ (b => setting.failClosed)
             /\ \/ l = ledger
                \/ l = [ledger EXCEPT ![r] = [ledger[r] EXCEPT !.roles = TRUE]]
      BY <2>2
    <2>8. /\ Adapter!Applied(l, open) = [l EXCEPT ![r] = [l[r] EXCEPT !.parent = h]]
          /\ [l EXCEPT ![r] = [l[r] EXCEPT !.parent = h]] \in Ledgers
      BY <1>0, OpenCall
    <2>4. \/ done = [ledger |-> l, raised |-> TRUE] /\ setting.failClosed
          \/ done = [ledger |-> l, raised |-> FALSE] /\ ~setting.failClosed
          \/ done = [ledger |-> [l EXCEPT ![r] = [l[r] EXCEPT !.parent = h]], raised |-> FALSE]
      <3>1. done = Adapter!Invoke([ledger |-> l, raised |-> b], open, lost = 2)
        <4>1. first = [ledger |-> l, raised |-> b]
          BY <2>3
        <4> HIDE DEF first
        <4> QED BY <4>1, Zenon
      <3> HIDE DEF done
      <3>2. \/ b /\ done = [ledger |-> l, raised |-> b]
            \/ /\ ~b
               /\ done = [ledger |-> Adapter!Applied(l, open), raised |-> FALSE]
            \/ ~b /\ done = [ledger |-> l, raised |-> setting.failClosed]
        BY <3>1, Invoked
      <3>3. b => setting.failClosed
        BY <2>3
      <3> HIDE DEF open
      <3> QED BY <1>0, <3>3, <2>8, <3>2
    <2>5. \A s \in Adapter!Round :
             /\ l[s].candidates = ledger[s].candidates
             /\ l[s].admission = ledger[s].admission
             /\ l[s].aggregate = ledger[s].aggregate
             /\ l[s].holders = ledger[s].holders
             /\ l[s].final = ledger[s].final
             /\ l[s].ca = ledger[s].ca
             /\ l[s].parent = ledger[s].parent
      BY <2>3, <1>0 DEF Ledgers, Adapter!RoundRecord
    <2>6. \A s \in Adapter!Round : s # r => parents'[s] = parents[s]
      BY <2>1, <1>0
    <2>7. /\ ledger' = done.ledger
          /\ parents' = IF done.raised THEN parents ELSE [parents EXCEPT ![r] = h]
          /\ Moves(n, IF done.raised THEN "failed" ELSE "record")
          /\ Adapter!Costs(lost)
      BY <2>1
    <2>c. faults' \in 0 .. MaxFaults
      BY <2>1, <1>f DEF Adapter!Costs, Adapter!MayLose
    <2> HIDE DEF done
    <2>9. /\ ledger' \in Ledgers
          /\ \A s \in Adapter!Round :
                 /\ ledger'[s].candidates = ledger[s].candidates
                 /\ ledger'[s].admission = ledger[s].admission
                 /\ ledger'[s].aggregate = ledger[s].aggregate
                 /\ ledger'[s].holders = ledger[s].holders
                 /\ ledger'[s].final = ledger[s].final
                 /\ ledger'[s].ca = ledger[s].ca
      <3>1. CASE ledger' = l
        BY <3>1, <2>5
      <3>2. CASE ledger' = [l EXCEPT ![r] = [l[r] EXCEPT !.parent = h]]
        <4>1. ledger' \in Ledgers
          BY <2>8, <3>2
        <4>2. \A s \in Adapter!Round :
                 /\ ledger'[s].candidates = l[s].candidates
                 /\ ledger'[s].admission = l[s].admission
                 /\ ledger'[s].aggregate = l[s].aggregate
                 /\ ledger'[s].holders = l[s].holders
                 /\ ledger'[s].final = l[s].final
                 /\ ledger'[s].ca = l[s].ca
          BY <3>2, <1>0 DEF Ledgers, Adapter!RoundRecord
        <4> QED BY <2>5, <4>1, <4>2
      <3> QED BY <2>4, <2>7, <3>1, <3>2
    <2>10. ASSUME NEW s \in Adapter!Round, setting.failClosed,
                  parents[s] \in {None, ledger[s].parent}
           PROVE  parents'[s] \in {None, ledger'[s].parent}
      <3>1. CASE done = [ledger |-> l, raised |-> TRUE]
        BY <3>1, <2>5, <2>7, <2>10
      <3>2. CASE done = [ledger |-> [l EXCEPT ![r] = [l[r] EXCEPT !.parent = h]],
                         raised |-> FALSE]
        <4>1. ledger'[r].parent = h /\ parents'[r] = h
          BY <3>2, <2>7, <2>3, <1>0 DEF Ledgers, Adapter!RoundRecord
        <4>2. s # r => ledger'[s].parent = ledger[s].parent /\ parents'[s] = parents[s]
          BY <3>2, <2>7, <2>3, <2>5, <2>6, <1>0 DEF Ledgers, Adapter!RoundRecord
        <4> QED BY <4>1, <4>2, <2>10
      <3> QED BY <2>4, <2>10, <3>1, <3>2
    <2>11. /\ parents' \in [Adapter!Round -> Adapter!HashOrNone]
           /\ \E where \in {"record", "failed"} :
                 /\ Moves(n, where)
                 /\ ~setting.failClosed /\ ~setting.trust => where = "record"
      BY <2>4, <2>7, <1>0 DEF Adapter!HashOrNone
    <2> QED BY <1>1, <2>9, <2>10, <2>11, <2>c
  <1> QED BY <1>2, <1>3, <1>4

LEMMA RecordEffect ==
    ASSUME Adapter!TypeOK, NEW n \in Owners, Adapter!RecordCandidate(n)
    PROVE  LET r == round[n] IN
           /\ pc[n] = "record" /\ ledger' \in Ledgers
           /\ \E where \in {"publish", "failed"} :
                 /\ Moves(n, where)
                 /\ ~setting.failClosed => where = "publish"
           /\ \A s \in Adapter!Round :
                 /\ ledger'[s].parent = ledger[s].parent
                 /\ ledger[s].candidates \subseteq ledger'[s].candidates
                 /\ s # r => ledger'[s].candidates = ledger[s].candidates
                 /\ ledger'[s].admission = ledger[s].admission
                 /\ ledger'[s].aggregate = ledger[s].aggregate
                 /\ ledger'[s].holders = ledger[s].holders
                 /\ ledger'[s].final = ledger[s].final
                 /\ ledger'[s].ca = ledger[s].ca
           /\ \/ hashes' = hashes /\ setting.failClosed
              \/ /\ hashes' = [hashes EXCEPT ![r] = hashes[r] \cup {n}]
                 /\ setting.failClosed => n \in ledger'[r].candidates
           /\ UNCHANGED <<setting, parents, admissions, aggregates, counted, generation,
                          round, model, decided, arrived>>
           /\ faults' \in 0 .. MaxFaults
  <1> DEFINE r == round[n]
             h == model[n]
             candidate == [op |-> "candidate", round |-> r, of |-> n, parent |-> h]
  <1>0. /\ r \in Adapter!Round /\ h \in Adapter!Hash /\ ledger \in Ledgers
        /\ setting.failClosed \in BOOLEAN
        /\ hashes \in [Adapter!Round -> SUBSET Owners]
    BY Here, Assumed
  <1>f. faults \in 0 .. MaxFaults /\ MaxFaults \in Nat
    BY Assumed DEF Adapter!TypeOK
  <1>1. /\ pc[n] = "record"
        /\ UNCHANGED <<setting, parents, admissions, aggregates, counted, generation,
                       round, model, decided, arrived>>
    BY DEF Adapter!RecordCandidate, Adapter!follow
  <1>2. PICK lost \in Adapter!MayLose(2) :
          LET done == Adapter!Invoke(Adapter!Start, candidate, lost = 1) IN
          /\ \E by \in Adapter!CastVotes(done, r, n, lost = 2) :
                /\ ledger' = [done.ledger EXCEPT ![r].votes = @ \cup (by \X {n})]
                /\ Moves(n, IF setting.failClosed /\ by # Judges THEN "failed" ELSE "publish")
          /\ hashes' = IF done.raised THEN hashes ELSE [hashes EXCEPT ![r] = @ \cup {n}]
          /\ Adapter!Costs(lost)
    BY DEF Adapter!RecordCandidate, Adapter!GotoUnless, Adapter!Goto, Moves
  <1>3. faults' \in 0 .. MaxFaults
    BY <1>2, <1>f DEF Adapter!Costs, Adapter!MayLose
  <1>4. /\ Adapter!Applied(ledger, candidate)
             = [ledger EXCEPT ![r] =
                   [ledger[r] EXCEPT !.candidates = ledger[r].candidates \cup {n}]]
        /\ Adapter!Applied(ledger, candidate) \in Ledgers
    BY <1>0, CandidateCall
  <1> DEFINE done == Adapter!Invoke(Adapter!Start, candidate, lost = 1)
  <1>5. PICK l \in Ledgers, b \in BOOLEAN :
           /\ done = [ledger |-> l, raised |-> b] /\ (b => setting.failClosed)
           /\ l = ledger \/ l = Adapter!Applied(ledger, candidate)
           /\ setting.failClosed /\ ~b => l = Adapter!Applied(ledger, candidate)
    <2> HIDE DEF candidate
    <2>1. \/ done = [ledger |-> Adapter!Applied(ledger, candidate), raised |-> FALSE]
          \/ done = [ledger |-> ledger, raised |-> setting.failClosed]
      BY FirstCall, Zenon
    <2> HIDE DEF done
    <2> QED BY <1>0, <1>4, <2>1
  <1>6. PICK by \in Adapter!CastVotes(done, r, n, lost = 2) :
           /\ ledger' = [done.ledger EXCEPT ![r].votes = @ \cup (by \X {n})]
           /\ Moves(n, IF setting.failClosed /\ by # Judges THEN "failed" ELSE "publish")
    BY <1>2
  <1>7. by \subseteq Judges
    BY <1>6, Assumed DEF Adapter!CastVotes
  <1>8. /\ ledger' = [l EXCEPT ![r] = [l[r] EXCEPT !.votes = l[r].votes \cup (by \X {n})]]
        /\ hashes' = IF b THEN hashes ELSE [hashes EXCEPT ![r] = hashes[r] \cup {n}]
    <2>1. done.ledger = l /\ done.raised = b
      BY <1>5
    <2>2. /\ ledger' = [done.ledger EXCEPT ![r].votes = @ \cup (by \X {n})]
          /\ hashes' = IF done.raised THEN hashes ELSE [hashes EXCEPT ![r] = @ \cup {n}]
      BY <1>2, <1>6
    <2> HIDE DEF done
    <2> QED BY <2>1, <2>2
  <1> HIDE DEF done, candidate
  <1>9. [l[r] EXCEPT !.votes = l[r].votes \cup (by \X {n})] \in Adapter!RoundRecord
    <2>1. l[r] \in Adapter!RoundRecord
      BY <1>0, <1>5 DEF Ledgers
    <2>2. l[r].votes \cup (by \X {n}) \in SUBSET (Judges \X Owners)
      BY <1>7, <2>1 DEF Adapter!RoundRecord
    <2> QED BY <2>1, <2>2 DEF Adapter!RoundRecord, Adapter!HashOrNone, Adapter!Decision
  <1>10. ledger' \in Ledgers
    BY <1>0, <1>5, <1>8, <1>9 DEF Ledgers
  <1>11. /\ \A s \in Adapter!Round :
                 /\ l[s].parent = ledger[s].parent
                 /\ ledger[s].candidates \subseteq l[s].candidates
                 /\ s # r => l[s].candidates = ledger[s].candidates
                 /\ l[s].admission = ledger[s].admission
                 /\ l[s].aggregate = ledger[s].aggregate
                 /\ l[s].holders = ledger[s].holders
                 /\ l[s].final = ledger[s].final
                 /\ l[s].ca = ledger[s].ca
         /\ setting.failClosed /\ ~b => n \in l[r].candidates
    BY <1>0, <1>4, <1>5 DEF Ledgers, Adapter!RoundRecord
  <1>12. \A s \in Adapter!Round :
                 /\ ledger'[s].parent = l[s].parent
                 /\ ledger'[s].candidates = l[s].candidates
                 /\ ledger'[s].admission = l[s].admission
                 /\ ledger'[s].aggregate = l[s].aggregate
                 /\ ledger'[s].holders = l[s].holders
                 /\ ledger'[s].final = l[s].final
                 /\ ledger'[s].ca = l[s].ca
    BY <1>0, <1>5, <1>8 DEF Ledgers, Adapter!RoundRecord
  <1>13. \/ hashes' = hashes /\ setting.failClosed
         \/ /\ hashes' = [hashes EXCEPT ![r] = hashes[r] \cup {n}]
            /\ setting.failClosed => n \in ledger'[r].candidates
    BY <1>0, <1>5, <1>8, <1>11, <1>12
  <1>14. \E where \in {"publish", "failed"} :
            /\ Moves(n, where)
            /\ ~setting.failClosed => where = "publish"
    BY <1>6
  <1> QED BY <1>1, <1>3, <1>10, <1>11, <1>12, <1>13, <1>14

LEMMA PublishEffect ==
    ASSUME Adapter!TypeOK, NEW n \in Owners, Adapter!PublishDecision(n)
    PROVE  LET r == round[n] IN
           /\ pc[n] = "publish" /\ ledger' \in Ledgers
           /\ decided' = [decided EXCEPT ![r] = decided[r] \cup {n}]
           /\ \E where \in {"admission", "failed"} :
                 /\ Moves(n, where)
                 /\ ~setting.failClosed => where = "admission"
           /\ admissions' \in [Adapter!Round -> Adapter!Decision]
           /\ \A s \in Adapter!Round :
                 /\ ledger'[s].parent = ledger[s].parent
                 /\ ledger'[s].candidates = ledger[s].candidates
                 /\ ledger'[s].aggregate = ledger[s].aggregate
                 /\ ledger'[s].holders = ledger[s].holders
                 /\ ledger'[s].final = ledger[s].final
                 /\ ledger'[s].ca = ledger[s].ca
                 /\ s # r => ledger'[s].admission = ledger[s].admission
                 /\ s # r => admissions'[s] = admissions[s]
           /\ \/ ledger'[r].admission = ledger[r].admission
              \/ /\ ledger'[r].admission = ledger[r].candidates
                 /\ decided'[r] = Owners
           /\ \/ admissions' = admissions /\ ledger'[r].admission = ledger[r].admission
              \/ /\ admissions'[r] = decided'[r]
                 /\ setting.failClosed => ledger'[r].admission = decided'[r]
           /\ UNCHANGED <<setting, parents, hashes, aggregates, counted, generation,
                          round, model, arrived>>
           /\ faults' \in 0 .. MaxFaults
  <1> DEFINE r == round[n]
             after == decided[r] \cup {n}
             admission == [op |-> "admission", round |-> r, of |-> after]
  <1>0. /\ r \in Adapter!Round /\ ledger \in Ledgers
        /\ setting.failClosed \in BOOLEAN
        /\ decided \in [Adapter!Round -> SUBSET Owners]
        /\ admissions \in [Adapter!Round -> Adapter!Decision]
    BY Here, Assumed
  <1>a. after \in SUBSET Owners
    BY <1>0
  <1>f. faults \in 0 .. MaxFaults /\ MaxFaults \in Nat
    BY Assumed DEF Adapter!TypeOK
  <1>1. /\ pc[n] = "publish" /\ decided' = [decided EXCEPT ![r] = after]
        /\ UNCHANGED <<setting, parents, hashes, aggregates, counted, generation,
                       round, model, arrived>>
    BY DEF Adapter!PublishDecision, Adapter!follow
  <1>b. decided'[r] = after
    BY <1>0, <1>1
  <1>2. \/ Moves(n, "admission") /\ UNCHANGED <<ledger, admissions, faults>>
        \/ /\ after = Owners
           /\ \E lost \in Adapter!MayLose(1) :
               LET done == Adapter!Invoke(Adapter!Start, admission, lost = 1) IN
               /\ ledger' = done.ledger
               /\ admissions' = IF done.raised THEN admissions
                                ELSE [admissions EXCEPT ![r] = after]
               /\ Moves(n, IF done.raised THEN "failed" ELSE "admission")
               /\ Adapter!Costs(lost)
    BY DEF Adapter!PublishDecision, Adapter!GotoUnless, Adapter!Goto, Moves, Adapter!AllDecided
  <1>3. CASE Moves(n, "admission") /\ UNCHANGED <<ledger, admissions, faults>>
    BY <1>0, <1>1, <1>3, <1>f
  <1>4. CASE /\ after = Owners
             /\ \E lost \in Adapter!MayLose(1) :
               LET done == Adapter!Invoke(Adapter!Start, admission, lost = 1) IN
               /\ ledger' = done.ledger
               /\ admissions' = IF done.raised THEN admissions
                                ELSE [admissions EXCEPT ![r] = after]
               /\ Moves(n, IF done.raised THEN "failed" ELSE "admission")
               /\ Adapter!Costs(lost)
    <2>1. PICK lost \in Adapter!MayLose(1) :
               LET done == Adapter!Invoke(Adapter!Start, admission, lost = 1) IN
               /\ ledger' = done.ledger
               /\ admissions' = IF done.raised THEN admissions
                                ELSE [admissions EXCEPT ![r] = after]
               /\ Moves(n, IF done.raised THEN "failed" ELSE "admission")
               /\ Adapter!Costs(lost)
      BY <1>4
    <2>2. faults' \in 0 .. MaxFaults
      BY <2>1, <1>f DEF Adapter!Costs, Adapter!MayLose
    <2>3. /\ Adapter!Applied(ledger, admission)
               = [ledger EXCEPT ![r] = [ledger[r] EXCEPT !.admission = after]]
          /\ Adapter!Applied(ledger, admission) \in Ledgers
          /\ Adapter!Accepts(ledger, admission) => after = ledger[r].candidates
      <3>1. /\ Adapter!Applied(ledger, admission)
                 = [ledger EXCEPT ![r] = [ledger[r] EXCEPT !.admission = after]]
            /\ Adapter!Applied(ledger, admission) \in Ledgers
        <4> HIDE DEF after
        <4> QED BY <1>0, <1>a, AdmissionCall
      <3>2. Adapter!Accepts(ledger, admission) => after = ledger[r].candidates
        BY DEF Adapter!Accepts
      <3> QED BY <3>1, <3>2
    <2> DEFINE done == Adapter!Invoke(Adapter!Start, admission, lost = 1)
    <2>4. PICK l \in Ledgers, b \in BOOLEAN :
             /\ done = [ledger |-> l, raised |-> b] /\ (b => setting.failClosed)
             /\ \/ l = ledger
                \/ /\ Adapter!Accepts(ledger, admission) /\ ~b
                   /\ l = Adapter!Applied(ledger, admission)
             /\ setting.failClosed /\ ~b => l = Adapter!Applied(ledger, admission)
      <3> HIDE DEF admission
      <3>1. \/ /\ done = [ledger |-> Adapter!Applied(ledger, admission), raised |-> FALSE]
               /\ Adapter!Accepts(ledger, admission)
            \/ done = [ledger |-> ledger, raised |-> setting.failClosed]
        BY FirstCall, Zenon
      <3> HIDE DEF done
      <3> QED BY <1>0, <2>3, <3>1
    <2>5. /\ ledger' = l
          /\ admissions' = IF b THEN admissions ELSE [admissions EXCEPT ![r] = after]
          /\ Moves(n, IF b THEN "failed" ELSE "admission")
      BY <2>1, <2>4
    <2> HIDE DEF done, admission
    <2>6. \A s \in Adapter!Round :
                 /\ ledger'[s].parent = ledger[s].parent
                 /\ ledger'[s].candidates = ledger[s].candidates
                 /\ ledger'[s].aggregate = ledger[s].aggregate
                 /\ ledger'[s].holders = ledger[s].holders
                 /\ ledger'[s].final = ledger[s].final
                 /\ ledger'[s].ca = ledger[s].ca
                 /\ s # r => ledger'[s].admission = ledger[s].admission
      BY <1>0, <2>3, <2>4, <2>5 DEF Ledgers, Adapter!RoundRecord
    <2>7. /\ admissions' \in [Adapter!Round -> Adapter!Decision]
          /\ \A s \in Adapter!Round : s # r => admissions'[s] = admissions[s]
      BY <1>0, <1>a, <2>5 DEF Adapter!Decision
    <2>8. \/ ledger'[r].admission = ledger[r].admission /\ l = ledger
          \/ /\ ledger'[r].admission = after /\ after = ledger[r].candidates
             /\ ~b
      BY <1>0, <2>3, <2>4, <2>5 DEF Ledgers, Adapter!RoundRecord
    <2>9. \/ ledger'[r].admission = ledger[r].admission
          \/ /\ ledger'[r].admission = ledger[r].candidates
             /\ decided'[r] = Owners
      BY <2>8, <1>4, <1>b
    <2>10. setting.failClosed /\ ~b => ledger'[r].admission = after
      BY <1>0, <2>3, <2>4, <2>5 DEF Ledgers, Adapter!RoundRecord
    <2>11. \/ admissions' = admissions /\ ledger'[r].admission = ledger[r].admission
           \/ /\ admissions'[r] = decided'[r]
              /\ setting.failClosed => ledger'[r].admission = decided'[r]
      BY <1>0, <1>b, <2>5, <2>8, <2>10
    <2>12. \E where \in {"admission", "failed"} :
              /\ Moves(n, where)
              /\ ~setting.failClosed => where = "admission"
      BY <2>4, <2>5
    <2> QED BY <1>1, <2>2, <2>5, <2>6, <2>7, <2>9, <2>11, <2>12
  <1> QED BY <1>2, <1>3, <1>4

LEMMA ConfirmEffect ==
    ASSUME Adapter!TypeOK, NEW n \in Members, NEW h \in Adapter!Hash,
           Adapter!Confirm(n, h, "barrier")
    PROVE  LET r == round[n] IN
           /\ ledger' \in Ledgers
           /\ aggregates' \in [Adapter!Round -> Adapter!HashOrNone]
           /\ \E where \in {"barrier", "failed"} :
                 /\ Moves(n, where)
                 /\ /\ ~setting.failClosed
                    /\ admissions[r] # None => admissions[r] \subseteq hashes[r]
                    => where = "barrier"
           /\ \A s \in Adapter!Round :
                 /\ ledger'[s].parent = ledger[s].parent
                 /\ ledger'[s].candidates = ledger[s].candidates
                 /\ ledger'[s].admission = ledger[s].admission
                 /\ ledger[s].holders \subseteq ledger'[s].holders
                 /\ ledger'[s].final = ledger[s].final
                 /\ ledger'[s].ca = ledger[s].ca
                 /\ setting.failClosed /\ aggregates[s] \in {None, ledger[s].aggregate} =>
                       aggregates'[s] \in {None, ledger'[s].aggregate}
           /\ faults' \in 0 .. MaxFaults
  <1> DEFINE r == round[n]
             first == aggregates[r] = None
             last == IF first THEN 2 ELSE 1
             aggregate == [op |-> "aggregate", round |-> r, of |-> admissions[r], model |-> h]
             install == [op |-> "install", round |-> r, by |-> n, model |-> h]
  <1>0. /\ r \in Adapter!Round /\ ledger \in Ledgers
        /\ setting.failClosed \in BOOLEAN
        /\ admissions \in [Adapter!Round -> Adapter!Decision]
        /\ aggregates \in [Adapter!Round -> Adapter!HashOrNone]
    BY Here
  <1>f. faults \in 0 .. MaxFaults /\ MaxFaults \in Nat
    BY Assumed DEF Adapter!TypeOK
  <1>2. \/ /\ UNCHANGED <<ledger, aggregates, faults>>
           /\ \E where \in {"barrier", "failed"} :
                 /\ Moves(n, where)
                 /\ /\ ~setting.failClosed
                    /\ admissions[r] # None => admissions[r] \subseteq hashes[r]
                    => where = "barrier"
        \/ /\ first => admissions[r] # None
           /\ ~first => aggregates[r] = h
           /\ \E lost \in Adapter!MayLose(last) :
               LET kept == IF first THEN Adapter!Invoke(Adapter!Start, aggregate, lost = 1)
                           ELSE Adapter!Start
                   done == Adapter!Invoke(kept, install, lost = last)
               IN
               /\ ledger' = done.ledger
               /\ aggregates' = IF first /\ ~kept.raised THEN [aggregates EXCEPT ![r] = h]
                                ELSE aggregates
               /\ Moves(n, IF done.raised THEN "failed" ELSE "barrier")
               /\ Adapter!Costs(lost)
    BY <1>0 DEF Adapter!Confirm, Adapter!GotoUnless, Adapter!Goto, Moves, Adapter!ConflictRaises
  <1>3. CASE /\ UNCHANGED <<ledger, aggregates, faults>>
             /\ \E where \in {"barrier", "failed"} :
                 /\ Moves(n, where)
                 /\ /\ ~setting.failClosed
                    /\ admissions[r] # None => admissions[r] \subseteq hashes[r]
                    => where = "barrier"
    BY <1>0, <1>3, <1>f
  <1>4. CASE /\ first => admissions[r] # None
             /\ ~first => aggregates[r] = h
             /\ \E lost \in Adapter!MayLose(last) :
               LET kept == IF first THEN Adapter!Invoke(Adapter!Start, aggregate, lost = 1)
                           ELSE Adapter!Start
                   done == Adapter!Invoke(kept, install, lost = last)
               IN
               /\ ledger' = done.ledger
               /\ aggregates' = IF first /\ ~kept.raised THEN [aggregates EXCEPT ![r] = h]
                                ELSE aggregates
               /\ Moves(n, IF done.raised THEN "failed" ELSE "barrier")
               /\ Adapter!Costs(lost)
    <2>1. PICK lost \in Adapter!MayLose(last) :
               LET kept == IF first THEN Adapter!Invoke(Adapter!Start, aggregate, lost = 1)
                           ELSE Adapter!Start
                   done == Adapter!Invoke(kept, install, lost = last)
               IN
               /\ ledger' = done.ledger
               /\ aggregates' = IF first /\ ~kept.raised THEN [aggregates EXCEPT ![r] = h]
                                ELSE aggregates
               /\ Moves(n, IF done.raised THEN "failed" ELSE "barrier")
               /\ Adapter!Costs(lost)
      BY <1>4
    <2>2. faults' \in 0 .. MaxFaults
      BY <2>1, <1>f DEF Adapter!Costs, Adapter!MayLose
    <2> DEFINE opened == IF first THEN Adapter!Invoke(Adapter!Start, aggregate, lost = 1)
                         ELSE Adapter!Start
               done == Adapter!Invoke(opened, install, lost = last)
    <2>3. /\ ledger' = done.ledger
          /\ aggregates' = IF first /\ ~opened.raised THEN [aggregates EXCEPT ![r] = h]
                           ELSE aggregates
          /\ Moves(n, IF done.raised THEN "failed" ELSE "barrier")
      BY <2>1
    <2>4. PICK k \in Ledgers, c \in BOOLEAN :
             /\ opened = [ledger |-> k, raised |-> c] /\ (c => setting.failClosed)
             /\ \/ k = ledger
                \/ first /\ k = [ledger EXCEPT ![r] = [ledger[r] EXCEPT !.aggregate = h]]
             /\ first /\ setting.failClosed /\ ~c =>
                   k = [ledger EXCEPT ![r] = [ledger[r] EXCEPT !.aggregate = h]]
      <3>1. CASE first
        <4>1. admissions[r] \in SUBSET Owners
          <5>1. admissions[r] # None
            <6> HIDE DEF first, last, aggregate, install
            <6> QED BY <1>4, <3>1, Zenon
          <5> QED BY <1>0, <5>1 DEF Adapter!Decision
        <4>2. /\ Adapter!Applied(ledger, aggregate)
                   = [ledger EXCEPT ![r] = [ledger[r] EXCEPT !.aggregate = h]]
              /\ Adapter!Applied(ledger, aggregate) \in Ledgers
          BY <1>0, <4>1, AggregateCall
        <4>3. opened = Adapter!Invoke(Adapter!Start, aggregate, lost = 1)
          BY <3>1
        <4> HIDE DEF aggregate, opened, first
        <4>4. \/ opened = [ledger |-> Adapter!Applied(ledger, aggregate), raised |-> FALSE]
              \/ opened = [ledger |-> ledger, raised |-> setting.failClosed]
          BY <4>3, FirstCall, Zenon
        <4> QED BY <1>0, <3>1, <4>2, <4>4
      <3>2. CASE ~first
        <4>1. opened = [ledger |-> ledger, raised |-> FALSE]
          BY <3>2 DEF Adapter!Start
        <4> HIDE DEF opened, first
        <4> QED BY <1>0, <3>2, <4>1
      <3> QED BY <3>1, <3>2
    <2>5. /\ Adapter!Applied(k, install)
               = [k EXCEPT ![r] = [k[r] EXCEPT !.holders = k[r].holders \cup {n}]]
          /\ Adapter!Applied(k, install) \in Ledgers
      BY <1>0, InstallCall
    <2>6. PICK l \in Ledgers, b \in BOOLEAN :
             /\ done = [ledger |-> l, raised |-> b] /\ (b => setting.failClosed)
             /\ \/ l = k
                \/ l = [k EXCEPT ![r] = [k[r] EXCEPT !.holders = k[r].holders \cup {n}]]
      <3> DEFINE fails == lost = last
      <3>1. done = Adapter!Invoke([ledger |-> k, raised |-> c], install, fails)
        <4>1. opened = [ledger |-> k, raised |-> c]
          BY <2>4
        <4> HIDE DEF opened
        <4> QED BY <4>1, Zenon
      <3>2. c => setting.failClosed
        BY <2>4
      <3> HIDE DEF install, done, fails
      <3>3. \/ c /\ done = [ledger |-> k, raised |-> c]
            \/ ~c /\ done = [ledger |-> Adapter!Applied(k, install), raised |-> FALSE]
            \/ ~c /\ done = [ledger |-> k, raised |-> setting.failClosed]
        BY <3>1, Invoked
      <3> QED BY <1>0, <2>5, <3>2, <3>3
    <2> HIDE DEF install, aggregate
    <2>7. /\ ledger' = l
          /\ aggregates' = IF first /\ ~c THEN [aggregates EXCEPT ![r] = h] ELSE aggregates
          /\ Moves(n, IF b THEN "failed" ELSE "barrier")
      <3>1. done.ledger = l /\ done.raised = b /\ opened.raised = c
        BY <2>4, <2>6
      <3> HIDE DEF done, opened
      <3> QED BY <2>3, <3>1
    <2> HIDE DEF opened, done
    <2>8. \A s \in Adapter!Round :
             /\ k[s].parent = ledger[s].parent
             /\ k[s].candidates = ledger[s].candidates
             /\ k[s].admission = ledger[s].admission
             /\ k[s].holders = ledger[s].holders
             /\ k[s].final = ledger[s].final
             /\ k[s].ca = ledger[s].ca
             /\ s # r \/ ~first => k[s].aggregate = ledger[s].aggregate
      BY <1>0, <2>4 DEF Ledgers, Adapter!RoundRecord
    <2>9. \A s \in Adapter!Round :
             /\ l[s].parent = k[s].parent
             /\ l[s].candidates = k[s].candidates
             /\ l[s].admission = k[s].admission
             /\ k[s].holders \subseteq l[s].holders
             /\ l[s].final = k[s].final
             /\ l[s].ca = k[s].ca
             /\ l[s].aggregate = k[s].aggregate
      BY <1>0, <2>6 DEF Ledgers, Adapter!RoundRecord
    <2>10. first /\ setting.failClosed /\ ~c => k[r].aggregate = h
      BY <1>0, <2>4 DEF Ledgers, Adapter!RoundRecord
    <2>11. ASSUME NEW s \in Adapter!Round, setting.failClosed,
                  aggregates[s] \in {None, ledger[s].aggregate}
           PROVE  aggregates'[s] \in {None, ledger'[s].aggregate}
      <3>1. CASE s # r \/ ~first
        BY <1>0, <2>7, <2>8, <2>9, <2>11, <3>1
      <3>2. CASE s = r /\ first
        <4>1. CASE c
          BY <2>7, <3>2, <4>1
        <4>2. CASE ~c
          <5>1. aggregates'[r] = h
            BY <1>0, <2>7, <3>2, <4>2
          <5>2. ledger'[r].aggregate = h
            <6> HIDE DEF first
            <6> QED BY <1>0, <2>7, <2>9, <2>10, <2>11, <3>2, <4>2
          <5> QED BY <5>1, <5>2, <3>2
        <4> QED BY <4>1, <4>2
      <3> QED BY <3>1, <3>2
    <2>12. aggregates' \in [Adapter!Round -> Adapter!HashOrNone]
      BY <1>0, <2>7 DEF Adapter!HashOrNone
    <2>13. \E where \in {"barrier", "failed"} :
              Moves(n, where) /\ (~setting.failClosed => where = "barrier")
      BY <2>6, <2>7
    <2> QED BY <2>2, <2>7, <2>8, <2>9, <2>11, <2>12, <2>13
  <1> QED BY <1>2, <1>3, <1>4

\* finalize_round: what it leaves, whichever of its calls is refused.
LEMMA FinalizeEffect ==
    ASSUME Adapter!TypeOK, NEW n \in Members, NEW lost \in 0 .. 4, Adapter!Finalize(n, lost)
    PROVE  LET r == round[n] IN
           /\ ledger' \in Ledgers
           /\ counted' \subseteq Adapter!Round /\ generation' \in 0 .. MaxRound + 1
           /\ \A s \in Adapter!Round :
                 /\ ledger'[s].parent = ledger[s].parent
                 /\ ledger'[s].candidates = ledger[s].candidates
                 /\ ledger'[s].admission = ledger[s].admission
                 /\ ledger'[s].aggregate = ledger[s].aggregate
                 /\ ledger'[s].holders = ledger[s].holders
                 /\ ledger[s].final => ledger'[s].final
                 /\ ledger[s].ca => ledger'[s].ca
                 /\ ledger'[s].final => ledger[s].final \/ ledger[s].holders = Members
           /\ \/ counted' = counted
              \/ counted' = counted \cup {r} /\ (setting.failClosed => ledger'[r].final)
           /\ \/ generation' = generation
              \/ generation = r /\ generation' = r + 1 /\ (setting.failClosed => ledger'[r].ca)
           /\ \/ /\ Moves(n, "failed") /\ round' = round
                 /\ setting.failClosed \/ setting.trust
              \/ /\ Moves(n, Adapter!After(n))
                 /\ round' = IF r = MaxRound THEN round ELSE [round EXCEPT ![n] = r + 1]
                 /\ setting.failClosed => ledger'[r].final
                 /\ setting.trust => r \in counted'
                 /\ setting.ca => generation' > r
  <1> DEFINE r == round[n]
             finalize == [op |-> "finalize", round |-> r]
             verify == [op |-> "verify", round |-> r]
             commit == [op |-> "ca", round |-> r]
             finalized == Adapter!Invoke(Adapter!Start, finalize, lost = 1)
             checked == Adapter!Invoke(finalized, verify, lost = 2)
             verified == lost # 2 /\ checked.ledger[r].roles
             consumes == ~checked.raised /\ (setting.ca => verified)
             counts == consumes /\ Adapter!Counts(r)
             steps == /\ consumes /\ (counts => Adapter!Countable(checked.ledger, r))
                      /\ Adapter!Steps(r) /\ generation = r /\ lost # 3
             accepted == steps /\ lost # 4 /\ Adapter!Accepts(checked.ledger, commit)
             stepped == steps /\ (accepted \/ ~setting.failClosed)
             raised == \/ ~consumes
                       \/ counts /\ ~Adapter!Countable(checked.ledger, r)
                       \/ Adapter!Steps(r) /\ ~stepped
  <1>0. /\ r \in Adapter!Round /\ ledger \in Ledgers
        /\ setting.failClosed \in BOOLEAN /\ setting.trust \in BOOLEAN
        /\ setting.ca \in BOOLEAN
        /\ setting.ca => setting.trust
    BY Here
  <1>t. /\ counted \subseteq Adapter!Round /\ generation \in 0 .. MaxRound + 1
        /\ MaxRound \in Nat /\ Adapter!Round = 0 .. MaxRound
    BY Assumed DEF Adapter!TypeOK, Adapter!Round
  <1>1. /\ ledger' = IF accepted THEN Adapter!Applied(checked.ledger, commit) ELSE checked.ledger
        /\ counted' = IF counts /\ Adapter!Countable(checked.ledger, r)
                      THEN counted \cup {r} ELSE counted
        /\ generation' = IF stepped THEN r + 1 ELSE generation
        /\ Moves(n, IF raised THEN "failed" ELSE Adapter!After(n))
        /\ round' = IF raised \/ r = MaxRound THEN round ELSE [round EXCEPT ![n] = r + 1]
    BY DEF Adapter!Finalize, Adapter!GotoUnless, Adapter!Goto, Moves
  <1>2. PICK l \in Ledgers, b \in BOOLEAN :
           /\ finalized = [ledger |-> l, raised |-> b] /\ (b => setting.failClosed)
           /\ \/ l = ledger
              \/ /\ ledger[r].final \/ ledger[r].holders = Members
                 /\ l = [ledger EXCEPT ![r] = [ledger[r] EXCEPT !.final = TRUE]]
           /\ setting.failClosed /\ ~b =>
                 l = [ledger EXCEPT ![r] = [ledger[r] EXCEPT !.final = TRUE]]
    <2>1. /\ Adapter!Applied(ledger, finalize)
               = [ledger EXCEPT ![r] = [ledger[r] EXCEPT !.final = TRUE]]
          /\ Adapter!Applied(ledger, finalize) \in Ledgers
      BY <1>0, FinalizeCall
    <2>2. Adapter!Accepts(ledger, finalize) => ledger[r].final \/ ledger[r].holders = Members
      BY DEF Adapter!Accepts
    <2> HIDE DEF finalize
    <2>3. \/ /\ finalized = [ledger |-> Adapter!Applied(ledger, finalize), raised |-> FALSE]
             /\ Adapter!Accepts(ledger, finalize)
          \/ finalized = [ledger |-> ledger, raised |-> setting.failClosed]
      BY FirstCall, Zenon
    <2> HIDE DEF finalized
    <2> QED BY <1>0, <2>1, <2>2, <2>3
  <1>3. PICK c \in BOOLEAN :
           checked = [ledger |-> l, raised |-> c] /\ (c => setting.failClosed) /\ (b => c)
    <2>1. Adapter!Applied(l, verify) = l
      BY <1>0, VerifyCall
    <2> DEFINE fails == lost = 2
    <2>2. checked = Adapter!Invoke([ledger |-> l, raised |-> b], verify, fails)
      <3>1. finalized = [ledger |-> l, raised |-> b]
        BY <1>2
      <3> HIDE DEF finalized
      <3> QED BY <3>1, Zenon
    <2>3. b => setting.failClosed
      BY <1>2
    <2> HIDE DEF checked, verify, fails
    <2>4. \/ b /\ checked = [ledger |-> l, raised |-> b]
          \/ ~b /\ checked = [ledger |-> Adapter!Applied(l, verify), raised |-> FALSE]
          \/ ~b /\ checked = [ledger |-> l, raised |-> setting.failClosed]
      BY <2>2, Invoked
    <2> QED BY <1>0, <2>1, <2>3, <2>4
  <1>4. /\ Adapter!Applied(l, commit) = [l EXCEPT ![r] = [l[r] EXCEPT !.ca = TRUE]]
        /\ Adapter!Applied(l, commit) \in Ledgers
    BY <1>0, CACall
  <1>5. checked.ledger = l /\ checked.raised = c
    BY <1>3
  <1> HIDE DEF finalized, checked, finalize, verify, commit
  <1>6. ledger' = l \/ ledger' = [l EXCEPT ![r] = [l[r] EXCEPT !.ca = TRUE]]
    BY <1>1, <1>4, <1>5
  <1>7. accepted => ledger' = [l EXCEPT ![r] = [l[r] EXCEPT !.ca = TRUE]]
    BY <1>1, <1>4, <1>5
  <1>8. ledger' \in Ledgers
    BY <1>4, <1>6
  <1>9. \A s \in Adapter!Round :
             /\ l[s].parent = ledger[s].parent
             /\ l[s].candidates = ledger[s].candidates
             /\ l[s].admission = ledger[s].admission
             /\ l[s].aggregate = ledger[s].aggregate
             /\ l[s].holders = ledger[s].holders
             /\ ledger[s].final => l[s].final
             /\ l[s].ca = ledger[s].ca
             /\ l[s].final => ledger[s].final \/ ledger[s].holders = Members
    BY <1>0, <1>2 DEF Ledgers, Adapter!RoundRecord
  <1>10. \A s \in Adapter!Round :
             /\ ledger'[s].parent = l[s].parent
             /\ ledger'[s].candidates = l[s].candidates
             /\ ledger'[s].admission = l[s].admission
             /\ ledger'[s].aggregate = l[s].aggregate
             /\ ledger'[s].holders = l[s].holders
             /\ ledger'[s].final = l[s].final
             /\ l[s].ca => ledger'[s].ca
    BY <1>0, <1>6 DEF Ledgers, Adapter!RoundRecord
  <1>11. setting.failClosed /\ ~c => ledger'[r].final
    <2>1. setting.failClosed /\ ~c => l[r].final
      BY <1>0, <1>2, <1>3 DEF Ledgers, Adapter!RoundRecord
    <2> QED BY <1>0, <1>10, <2>1
  <1>12. accepted => ledger'[r].ca
    BY <1>0, <1>7 DEF Ledgers, Adapter!RoundRecord
  <1>13. \/ counted' = counted
         \/ counted' = counted \cup {r} /\ (setting.failClosed => ledger'[r].final)
    BY <1>1, <1>5, <1>11
  <1>14. \/ generation' = generation
         \/ generation = r /\ generation' = r + 1 /\ (setting.failClosed => ledger'[r].ca)
    BY <1>1, <1>12
  <1>15. counted' \subseteq Adapter!Round /\ generation' \in 0 .. MaxRound + 1
    <2>1. counted' \subseteq Adapter!Round
      BY <1>0, <1>t, <1>13
    <2>2. generation' \in 0 .. MaxRound + 1
      <3>1. r \in 0 .. MaxRound
        BY <1>0, <1>t
      <3> HIDE DEF r
      <3> QED BY <3>1, <1>t, <1>14
    <2> QED BY <2>1, <2>2
  <1>16. CASE raised
    <2>1. Moves(n, "failed") /\ round' = round
      <3> HIDE DEF raised
      <3> QED BY <1>1, <1>16
    <2>2. setting.failClosed \/ setting.trust
      <3> SUFFICES ASSUME ~setting.failClosed, ~setting.trust PROVE FALSE
        OBVIOUS
      <3>1. ~setting.ca /\ ~checked.raised
        BY <1>0, <1>3, <1>5
      <3>2. ~counts /\ ~Adapter!Steps(r) /\ consumes
        <4> HIDE DEF verified, r
        <4> QED BY <3>1 DEF Adapter!Counts, Adapter!Steps
      <3> HIDE DEF counts, consumes, stepped
      <3> QED BY <1>16, <3>2
    <2> QED BY <1>8, <1>9, <1>10, <1>13, <1>14, <1>15, <2>1, <2>2
  <1>17. CASE ~raised
    <2>1. /\ Moves(n, Adapter!After(n))
          /\ round' = IF r = MaxRound THEN round ELSE [round EXCEPT ![n] = r + 1]
      <3> HIDE DEF raised
      <3> QED BY <1>1, <1>17
    <2>2. setting.failClosed => ledger'[r].final
      BY <1>5, <1>11, <1>17
    <2>3. setting.trust => r \in counted'
      BY <1>0, <1>1, <1>17 DEF Adapter!Counts
    <2>4. setting.ca => generation' > r
      <3>0. r \in 0 .. MaxRound
        BY <1>0, <1>t
      <3>1. Adapter!Steps(r) => stepped
        <4> HIDE DEF consumes, counts, stepped
        <4> QED BY <1>17
      <3>2. stepped => generation' = r + 1
        BY <1>1
      <3>3. setting.ca => generation <= r \/ generation > r
        BY <1>t, <3>0
      <3>4. generation' = generation \/ generation' = r + 1
        BY <1>14
      <3> HIDE DEF stepped, r
      <3> QED BY <1>t, <3>0, <3>1, <3>2, <3>3, <3>4 DEF Adapter!Steps
    <2> QED BY <1>8, <1>9, <1>10, <1>13, <1>14, <1>15, <2>1, <2>2, <2>3, <2>4
  <1> QED BY <1>16, <1>17

-----------------------------------------------------------------------------
\* The invariant holds, step by step.

LEMMA Moved ==
    ASSUME pc \in [Members -> Phases], NEW n \in Members, NEW where \in Phases, Moves(n, where)
    PROVE  /\ pc' \in [Members -> Phases] /\ pc'[n] = where
           /\ \A m \in Members : m # n => pc'[m] = pc[m]
  BY DEF Moves

LEMMA OpenKeeps ==
    ASSUME AdapterInv, NEW n \in Members, Adapter!OpenRound(n)
    PROVE  AdapterInv'
  <1> DEFINE r == round[n]
  <1>0. Adapter!TypeOK /\ n \in Owners
    BY OpenEffect DEF AdapterInv, TrainersPublish
  <1>1. /\ round[n] \in Adapter!Round /\ pc \in [Members -> Phases]
        /\ setting.failClosed \in BOOLEAN
    BY <1>0, Here
  <1>2. PICK where \in {"record", "failed"} :
           /\ Moves(n, where)
           /\ ~setting.failClosed /\ ~setting.trust => where = "record"
    BY <1>0, OpenEffect
  <1>3. /\ pc' \in [Members -> Phases] /\ pc'[n] = where /\ pc[n] = "train"
        /\ \A m \in Members : m # n => pc'[m] = pc[m]
    <2>1. pc[n] = "train"
      BY <1>0, OpenEffect
    <2>2. where \in Phases
      BY DEF Phases
    <2> QED BY <1>1, <1>2, <2>1, <2>2, Moved
  <1>4. /\ ledger' \in Ledgers /\ parents' \in [Adapter!Round -> Adapter!HashOrNone]
        /\ UNCHANGED <<setting, hashes, admissions, aggregates, counted, generation,
                       round, model, decided, arrived>>
        /\ faults' \in 0 .. MaxFaults
    BY <1>0, OpenEffect
  <1>5. \A s \in Adapter!Round :
           /\ ledger'[s].candidates = ledger[s].candidates
           /\ ledger'[s].admission = ledger[s].admission
           /\ ledger'[s].aggregate = ledger[s].aggregate
           /\ ledger'[s].holders = ledger[s].holders
           /\ ledger'[s].final = ledger[s].final
           /\ ledger'[s].ca = ledger[s].ca
           /\ setting.failClosed /\ parents[s] \in {None, ledger[s].parent} =>
                 parents'[s] \in {None, ledger'[s].parent}
    BY <1>0, OpenEffect
  <1>6. Adapter!TypeOK'
    BY <1>0, <1>3, <1>4 DEF Adapter!TypeOK, Ledgers, Phases
  <1>7. TrainersPublish'
    BY <1>0, <1>3, <1>4 DEF AdapterInv, TrainersPublish
  <1>8. AdmissionIsLast' /\ FinalIsInstalled'
    BY <1>4, <1>5 DEF AdapterInv, AdmissionIsLast, FinalIsInstalled
  <1>9. ObserverKnows'
    BY <1>3, <1>4 DEF AdapterInv, ObserverKnows
  <1>10. Adapter!CachesBacked'
    BY <1>1, <1>4, <1>5 DEF AdapterInv, Adapter!CachesBacked
  <1>11. Adapter!LeavesAccounted'
    BY <1>3, <1>4, <1>5 DEF AdapterInv, Adapter!LeavesAccounted
  <1>12. Adapter!ObserverNeverStops'
    BY <1>2, <1>3, <1>4 DEF AdapterInv, Adapter!ObserverNeverStops
  <1> QED BY <1>6, <1>7, <1>8, <1>9, <1>10, <1>11, <1>12 DEF AdapterInv

LEMMA RecordKeeps ==
    ASSUME AdapterInv, NEW n \in Members, Adapter!RecordCandidate(n)
    PROVE  AdapterInv'
  <1> DEFINE r == round[n]
  <1>0. Adapter!TypeOK /\ n \in Owners /\ pc[n] = "record"
    <2>1. pc[n] = "record"
      BY DEF Adapter!RecordCandidate
    <2> QED BY <2>1 DEF AdapterInv, TrainersPublish
  <1>1. /\ r \in Adapter!Round /\ pc \in [Members -> Phases]
        /\ setting.failClosed \in BOOLEAN
        /\ hashes \in [Adapter!Round -> SUBSET Owners]
    BY <1>0, Here
  <1>2. PICK where \in {"publish", "failed"} :
           Moves(n, where) /\ (~setting.failClosed => where = "publish")
    BY <1>0, RecordEffect
  <1>3. /\ pc' \in [Members -> Phases] /\ pc'[n] = where
        /\ \A m \in Members : m # n => pc'[m] = pc[m]
    <2>1. where \in Phases
      BY DEF Phases
    <2> QED BY <1>1, <1>2, <2>1, Moved
  <1>4. /\ ledger' \in Ledgers
        /\ UNCHANGED <<setting, parents, admissions, aggregates, counted, generation,
                       round, model, decided, arrived>>
        /\ faults' \in 0 .. MaxFaults
    BY <1>0, RecordEffect
  <1>5. \A s \in Adapter!Round :
           /\ ledger'[s].parent = ledger[s].parent
           /\ ledger[s].candidates \subseteq ledger'[s].candidates
           /\ s # r => ledger'[s].candidates = ledger[s].candidates
           /\ ledger'[s].admission = ledger[s].admission
           /\ ledger'[s].aggregate = ledger[s].aggregate
           /\ ledger'[s].holders = ledger[s].holders
           /\ ledger'[s].final = ledger[s].final
           /\ ledger'[s].ca = ledger[s].ca
    BY <1>0, RecordEffect
  <1>6. \/ hashes' = hashes /\ setting.failClosed
        \/ /\ hashes' = [hashes EXCEPT ![r] = hashes[r] \cup {n}]
           /\ setting.failClosed => n \in ledger'[r].candidates
    BY <1>0, RecordEffect
  <1>7. /\ hashes' \in [Adapter!Round -> SUBSET Owners]
        /\ \A s \in Adapter!Round : hashes[s] \subseteq hashes'[s]
        /\ \A s \in Adapter!Round : s # r => hashes'[s] = hashes[s]
        /\ ~setting.failClosed => n \in hashes'[r]
        /\ setting.failClosed => hashes'[r] \subseteq hashes[r] \cup ledger'[r].candidates
    BY <1>0, <1>1, <1>6
  <1>8. Adapter!TypeOK'
    BY <1>0, <1>3, <1>4, <1>7 DEF Adapter!TypeOK, Ledgers, Phases
  <1>9. TrainersPublish'
    BY <1>0, <1>3, <1>4 DEF AdapterInv, TrainersPublish
  <1>10. AdmissionIsLast'
    <2>1. ledger[r].admission = None
      <3>1. n \notin decided[r]
        <4>1. r \in Int
          BY <1>1, Assumed DEF Adapter!Round
        <4> QED BY <1>0, <1>1, <4>1 DEF AdapterInv, TrainersPublish
      <3> QED BY <1>0, <1>1, <3>1 DEF AdapterInv, AdmissionIsLast
    <2> QED BY <1>4, <1>5, <2>1 DEF AdapterInv, AdmissionIsLast
  <1>11. FinalIsInstalled'
    BY <1>5 DEF AdapterInv, FinalIsInstalled
  <1>12. ObserverKnows'
    <2> SUFFICES ASSUME ~setting.failClosed
                 PROVE  /\ \A s \in Adapter!Round : decided[s] \subseteq hashes'[s]
                        /\ \A m \in Members : pc'[m] = "publish" => m \in hashes'[round[m]]
                        /\ \A s \in Adapter!Round :
                              admissions[s] # None => admissions[s] \subseteq hashes'[s]
      BY <1>4 DEF ObserverKnows
    <2>1. \A m \in Members : round[m] \in Adapter!Round
      BY <1>0 DEF Adapter!TypeOK
    <2>2. /\ \A s \in Adapter!Round : decided[s] \subseteq hashes[s]
          /\ \A m \in Members : pc[m] = "publish" => m \in hashes[round[m]]
          /\ \A s \in Adapter!Round : admissions[s] # None => admissions[s] \subseteq hashes[s]
      BY DEF AdapterInv, ObserverKnows
    <2> QED BY <1>3, <1>7, <2>1, <2>2
  <1>13. Adapter!CachesBacked'
    <2> SUFFICES ASSUME setting.failClosed, NEW s \in Adapter!Round
                 PROVE  /\ parents[s] \in {None, ledger'[s].parent}
                        /\ hashes'[s] \subseteq ledger'[s].candidates
                        /\ admissions[s] \in {None, ledger'[s].admission}
                        /\ aggregates[s] \in {None, ledger'[s].aggregate}
                        /\ s \in counted => ledger'[s].final
                        /\ s < generation => ledger'[s].ca
      BY <1>4 DEF Adapter!CachesBacked
    <2>1. /\ parents[s] \in {None, ledger[s].parent}
          /\ hashes[s] \subseteq ledger[s].candidates
          /\ admissions[s] \in {None, ledger[s].admission}
          /\ aggregates[s] \in {None, ledger[s].aggregate}
          /\ s \in counted => ledger[s].final
          /\ s < generation => ledger[s].ca
      BY DEF AdapterInv, Adapter!CachesBacked
    <2>2. hashes'[s] \subseteq ledger'[s].candidates
      BY <1>5, <1>7, <2>1
    <2> QED BY <1>5, <2>1, <2>2
  <1>14. Adapter!LeavesAccounted'
    BY <1>0, <1>3, <1>4, <1>5 DEF AdapterInv, Adapter!LeavesAccounted
  <1>15. Adapter!ObserverNeverStops'
    BY <1>2, <1>3, <1>4 DEF AdapterInv, Adapter!ObserverNeverStops
  <1> QED BY <1>8, <1>9, <1>10, <1>11, <1>12, <1>13, <1>14, <1>15 DEF AdapterInv

LEMMA PublishKeeps ==
    ASSUME AdapterInv, NEW n \in Members, Adapter!PublishDecision(n)
    PROVE  AdapterInv'
  <1> DEFINE r == round[n]
  <1>0. Adapter!TypeOK /\ n \in Owners /\ pc[n] = "publish"
    <2>1. pc[n] = "publish"
      BY DEF Adapter!PublishDecision
    <2> QED BY <2>1 DEF AdapterInv, TrainersPublish
  <1>1. /\ r \in Adapter!Round /\ pc \in [Members -> Phases]
        /\ setting.failClosed \in BOOLEAN
        /\ decided \in [Adapter!Round -> SUBSET Owners]
        /\ admissions \in [Adapter!Round -> Adapter!Decision]
    BY <1>0, Here
  <1>2. PICK where \in {"admission", "failed"} :
           Moves(n, where) /\ (~setting.failClosed => where = "admission")
    BY <1>0, PublishEffect
  <1>3. /\ pc' \in [Members -> Phases] /\ pc'[n] = where
        /\ \A m \in Members : m # n => pc'[m] = pc[m]
    <2>1. where \in Phases
      BY DEF Phases
    <2> QED BY <1>1, <1>2, <2>1, Moved
  <1>4. /\ ledger' \in Ledgers /\ admissions' \in [Adapter!Round -> Adapter!Decision]
        /\ decided' = [decided EXCEPT ![r] = decided[r] \cup {n}]
        /\ UNCHANGED <<setting, parents, hashes, aggregates, counted, generation,
                       round, model, arrived>>
        /\ faults' \in 0 .. MaxFaults
    BY <1>0, PublishEffect
  <1>5. \A s \in Adapter!Round :
           /\ ledger'[s].parent = ledger[s].parent
           /\ ledger'[s].candidates = ledger[s].candidates
           /\ ledger'[s].aggregate = ledger[s].aggregate
           /\ ledger'[s].holders = ledger[s].holders
           /\ ledger'[s].final = ledger[s].final
           /\ ledger'[s].ca = ledger[s].ca
           /\ s # r => ledger'[s].admission = ledger[s].admission
           /\ s # r => admissions'[s] = admissions[s]
    BY <1>0, PublishEffect
  <1>6. /\ \/ ledger'[r].admission = ledger[r].admission
           \/ /\ ledger'[r].admission = ledger[r].candidates
              /\ decided'[r] = Owners
        /\ \/ admissions' = admissions /\ ledger'[r].admission = ledger[r].admission
           \/ /\ admissions'[r] = decided'[r]
              /\ setting.failClosed => ledger'[r].admission = decided'[r]
    BY <1>0, PublishEffect
  <1>7. /\ decided' \in [Adapter!Round -> SUBSET Owners]
        /\ decided'[r] = decided[r] \cup {n}
        /\ \A s \in Adapter!Round : s # r => decided'[s] = decided[s]
    BY <1>0, <1>1, <1>4
  <1>8. Adapter!TypeOK'
    BY <1>0, <1>3, <1>4, <1>7 DEF Adapter!TypeOK, Ledgers, Phases
  <1>9. TrainersPublish'
    BY <1>0, <1>1, <1>3, <1>4, <1>7 DEF AdapterInv, TrainersPublish
  <1>10. AdmissionIsLast'
    <2> SUFFICES ASSUME NEW s \in Adapter!Round, ledger'[s].admission # None
                 PROVE  ledger'[s].admission = ledger'[s].candidates /\ decided'[s] = Owners
      BY DEF AdmissionIsLast
    <2>1. ledger[s].admission # None =>
             ledger[s].admission = ledger[s].candidates /\ decided[s] = Owners
      BY DEF AdapterInv, AdmissionIsLast
    <2>2. CASE s # r
      BY <1>5, <1>7, <2>1, <2>2
    <2>3. CASE s = r
      BY <1>0, <1>5, <1>6, <1>7, <2>1, <2>3
    <2> QED BY <2>2, <2>3
  <1>11. FinalIsInstalled'
    BY <1>5 DEF AdapterInv, FinalIsInstalled
  <1>12. ObserverKnows'
    <2> SUFFICES ASSUME ~setting.failClosed
                 PROVE  /\ \A s \in Adapter!Round : decided'[s] \subseteq hashes[s]
                        /\ \A m \in Members : pc'[m] = "publish" => m \in hashes[round[m]]
                        /\ \A s \in Adapter!Round :
                              admissions'[s] # None => admissions'[s] \subseteq hashes[s]
      BY <1>4 DEF ObserverKnows
    <2>1. /\ \A s \in Adapter!Round : decided[s] \subseteq hashes[s]
          /\ \A m \in Members : pc[m] = "publish" => m \in hashes[round[m]]
          /\ \A s \in Adapter!Round : admissions[s] # None => admissions[s] \subseteq hashes[s]
      BY DEF AdapterInv, ObserverKnows
    <2>2. \A s \in Adapter!Round : decided'[s] \subseteq hashes[s]
      BY <1>0, <1>7, <2>1
    <2>3. \A m \in Members : pc'[m] = "publish" => m \in hashes[round[m]]
      BY <1>3, <2>1
    <2>4. \A s \in Adapter!Round : admissions'[s] # None => admissions'[s] \subseteq hashes[s]
      BY <1>1, <1>5, <1>6, <2>1, <2>2
    <2> QED BY <2>2, <2>3, <2>4
  <1>13. Adapter!CachesBacked'
    <2> SUFFICES ASSUME setting.failClosed, NEW s \in Adapter!Round
                 PROVE  /\ parents[s] \in {None, ledger'[s].parent}
                        /\ hashes[s] \subseteq ledger'[s].candidates
                        /\ admissions'[s] \in {None, ledger'[s].admission}
                        /\ aggregates[s] \in {None, ledger'[s].aggregate}
                        /\ s \in counted => ledger'[s].final
                        /\ s < generation => ledger'[s].ca
      BY <1>4 DEF Adapter!CachesBacked
    <2>1. /\ parents[s] \in {None, ledger[s].parent}
          /\ hashes[s] \subseteq ledger[s].candidates
          /\ admissions[s] \in {None, ledger[s].admission}
          /\ aggregates[s] \in {None, ledger[s].aggregate}
          /\ s \in counted => ledger[s].final
          /\ s < generation => ledger[s].ca
      BY DEF AdapterInv, Adapter!CachesBacked
    <2>2. admissions'[s] \in {None, ledger'[s].admission}
      BY <1>5, <1>6, <2>1
    <2> QED BY <1>5, <2>1, <2>2
  <1>14. Adapter!LeavesAccounted'
    BY <1>0, <1>3, <1>4, <1>5 DEF AdapterInv, Adapter!LeavesAccounted
  <1>15. Adapter!ObserverNeverStops'
    BY <1>2, <1>3, <1>4 DEF AdapterInv, Adapter!ObserverNeverStops
  <1> QED BY <1>8, <1>9, <1>10, <1>11, <1>12, <1>13, <1>14, <1>15 DEF AdapterInv

LEMMA SeeKeeps ==
    ASSUME AdapterInv, NEW n \in Members, Adapter!SeeAdmission(n)
    PROVE  AdapterInv'
  <1>0. Adapter!TypeOK
    BY DEF AdapterInv
  <1>1. /\ pc \in [Members -> Phases] /\ Owners \subseteq Members
        /\ UNCHANGED <<setting, ledger, parents, hashes, admissions, aggregates, counted,
                       generation, round, model, decided, arrived, faults>>
    BY <1>0, Here, Assumed DEF Adapter!SeeAdmission, Adapter!caches, Adapter!follow
  <1>2. PICK where \in {"install", "failed"} :
           /\ Moves(n, where)
           /\ where = "failed" => \E m \in Members : pc[m] = "failed"
    BY <1>1 DEF Adapter!SeeAdmission, Adapter!Goto, Moves
  <1>3. /\ pc' \in [Members -> Phases] /\ pc'[n] = where /\ pc[n] = "admission"
        /\ \A m \in Members : m # n => pc'[m] = pc[m]
    <2>1. where \in Phases /\ pc[n] = "admission"
      BY DEF Phases, Adapter!SeeAdmission
    <2> QED BY <1>1, <1>2, <2>1, Moved
  <1>4. Adapter!TypeOK'
    BY <1>0, <1>1, <1>3 DEF Adapter!TypeOK, Phases
  <1>5. TrainersPublish'
    BY <1>1, <1>3 DEF AdapterInv, TrainersPublish
  <1>6. AdmissionIsLast' /\ FinalIsInstalled'
    BY <1>1 DEF AdapterInv, AdmissionIsLast, FinalIsInstalled
  <1>7. ObserverKnows'
    BY <1>1, <1>3 DEF AdapterInv, ObserverKnows
  <1>8. Adapter!CachesBacked'
    BY <1>1 DEF AdapterInv, Adapter!CachesBacked
  <1>9. Adapter!LeavesAccounted'
    BY <1>1, <1>3 DEF AdapterInv, Adapter!LeavesAccounted
  <1>10. Adapter!ObserverNeverStops'
    BY <1>1, <1>2, <1>3 DEF AdapterInv, Adapter!ObserverNeverStops
  <1> QED BY <1>4, <1>5, <1>6, <1>7, <1>8, <1>9, <1>10 DEF AdapterInv

\* A confirmed installation, the first or a repeated one.
LEMMA ConfirmKeeps ==
    ASSUME AdapterInv, NEW n \in Members, NEW h \in Adapter!Hash,
           Adapter!Confirm(n, h, "barrier"), pc[n] \in {"install", "barrier"},
           UNCHANGED <<setting, parents, hashes, admissions, counted, generation,
                       round, decided, arrived>>,
           model' \in [Members -> Adapter!Hash]
    PROVE  AdapterInv'
  <1> DEFINE r == round[n]
  <1>0. Adapter!TypeOK
    BY DEF AdapterInv
  <1>1. /\ r \in Adapter!Round /\ pc \in [Members -> Phases]
        /\ setting.failClosed \in BOOLEAN
    BY <1>0, Here
  <1>2. PICK where \in {"barrier", "failed"} :
           Moves(n, where) /\ (~setting.failClosed => where = "barrier")
    <2>1. ~setting.failClosed =>
             (admissions[r] # None => admissions[r] \subseteq hashes[r])
      BY <1>1 DEF AdapterInv, ObserverKnows
    <2> QED BY <1>0, <2>1, ConfirmEffect
  <1>3. /\ pc' \in [Members -> Phases] /\ pc'[n] = where
        /\ \A m \in Members : m # n => pc'[m] = pc[m]
    <2>1. where \in Phases
      BY DEF Phases
    <2> QED BY <1>1, <1>2, <2>1, Moved
  <1>4. /\ ledger' \in Ledgers /\ aggregates' \in [Adapter!Round -> Adapter!HashOrNone]
        /\ faults' \in 0 .. MaxFaults
    BY <1>0, ConfirmEffect
  <1>5. \A s \in Adapter!Round :
           /\ ledger'[s].parent = ledger[s].parent
           /\ ledger'[s].candidates = ledger[s].candidates
           /\ ledger'[s].admission = ledger[s].admission
           /\ ledger[s].holders \subseteq ledger'[s].holders
           /\ ledger'[s].final = ledger[s].final
           /\ ledger'[s].ca = ledger[s].ca
           /\ setting.failClosed /\ aggregates[s] \in {None, ledger[s].aggregate} =>
                 aggregates'[s] \in {None, ledger'[s].aggregate}
    BY <1>0, ConfirmEffect
  <1>6. \A s \in Adapter!Round : ledger[s].holders = Members => ledger'[s].holders = Members
    <2> SUFFICES ASSUME NEW s \in Adapter!Round, ledger[s].holders = Members
                 PROVE  ledger'[s].holders = Members
      OBVIOUS
    <2>1. ledger'[s].holders \subseteq Members
      BY <1>4 DEF Ledgers, Adapter!RoundRecord
    <2> QED BY <1>5, <2>1
  <1>7. Adapter!TypeOK'
    BY <1>0, <1>3, <1>4 DEF Adapter!TypeOK, Ledgers, Phases
  <1>8. TrainersPublish'
    BY <1>3 DEF AdapterInv, TrainersPublish
  <1>9. AdmissionIsLast'
    BY <1>5 DEF AdapterInv, AdmissionIsLast
  <1>10. FinalIsInstalled'
    BY <1>5, <1>6 DEF AdapterInv, FinalIsInstalled
  <1>11. ObserverKnows'
    BY <1>3 DEF AdapterInv, ObserverKnows
  <1>12. Adapter!CachesBacked'
    BY <1>1, <1>5 DEF AdapterInv, Adapter!CachesBacked
  <1>13. Adapter!LeavesAccounted'
    BY <1>3, <1>5, <1>6 DEF AdapterInv, Adapter!LeavesAccounted
  <1>14. Adapter!ObserverNeverStops'
    BY <1>2, <1>3 DEF AdapterInv, Adapter!ObserverNeverStops
  <1> QED BY <1>7, <1>8, <1>9, <1>10, <1>11, <1>12, <1>13, <1>14 DEF AdapterInv

LEMMA InstallKeeps ==
    ASSUME AdapterInv, NEW n \in Members, Adapter!Install(n)
    PROVE  AdapterInv'
  <1>0. Adapter!TypeOK /\ round[n] \in Adapter!Round /\ model \in [Members -> Adapter!Hash]
    BY Here DEF AdapterInv
  <1>1. PICK h \in Adapter!Aggregate :
           /\ model' = [model EXCEPT ![n] = <<round[n], h>>]
           /\ Adapter!Confirm(n, <<round[n], h>>, "barrier")
    BY DEF Adapter!Install
  <1>2. <<round[n], h>> \in Adapter!Hash
    BY <1>0, Assumed DEF Adapter!Hash, Adapter!Round
  <1>3. model' \in [Members -> Adapter!Hash]
    BY <1>0, <1>1, <1>2
  <1>4. /\ pc[n] = "install"
        /\ UNCHANGED <<setting, parents, hashes, admissions, counted, generation,
                       round, decided, arrived>>
    BY DEF Adapter!Install, Adapter!follow
  <1> QED BY <1>1, <1>2, <1>3, <1>4, ConfirmKeeps

LEMMA InstallAgainKeeps ==
    ASSUME AdapterInv, NEW n \in Members, Adapter!InstallAgain(n)
    PROVE  AdapterInv'
  <1>0. Adapter!TypeOK /\ model[n] \in Adapter!Hash /\ model \in [Members -> Adapter!Hash]
    BY Here DEF AdapterInv
  <1>1. /\ pc[n] = "barrier" /\ Adapter!Confirm(n, model[n], "barrier")
        /\ UNCHANGED <<setting, parents, hashes, admissions, counted, generation,
                       round, model, decided, arrived>>
    BY DEF Adapter!InstallAgain, Adapter!follow
  <1> QED BY <1>0, <1>1, ConfirmKeeps

LEMMA ArriveKeeps ==
    ASSUME AdapterInv, NEW n \in Members, Adapter!Arrive(n)
    PROVE  AdapterInv'
  <1>1. UNCHANGED <<setting, ledger, parents, hashes, admissions, aggregates, counted,
                    generation, pc, round, model, decided, faults>>
    BY DEF Adapter!Arrive, Adapter!caches, Adapter!follow
  <1>2. Adapter!TypeOK'
    <2>1. arrived' \in [Adapter!Round -> SUBSET Members]
      BY DEF AdapterInv, Adapter!TypeOK, Adapter!Arrive
    <2> QED BY <1>1, <2>1 DEF AdapterInv, Adapter!TypeOK
  <1> QED BY <1>1, <1>2 DEF AdapterInv, TrainersPublish, AdmissionIsLast, FinalIsInstalled,
                           ObserverKnows, Adapter!CachesBacked, Adapter!LeavesAccounted,
                           Adapter!ObserverNeverStops

\* The barrier is open: the round is finalized, or its thread ends.
LEMMA FinalizeKeeps ==
    ASSUME AdapterInv, NEW n \in Members, NEW lost \in 0 .. 4, pc[n] = "barrier",
           Adapter!Finalize(n, lost), faults' \in 0 .. MaxFaults,
           UNCHANGED <<setting, parents, hashes, admissions, aggregates, model, decided, arrived>>
    PROVE  AdapterInv'
  <1> DEFINE r == round[n]
  <1>0. Adapter!TypeOK
    BY DEF AdapterInv
  <1>1. /\ r \in Adapter!Round /\ pc \in [Members -> Phases]
        /\ round \in [Members -> Adapter!Round]
        /\ setting.failClosed \in BOOLEAN /\ setting.trust \in BOOLEAN
        /\ setting.ca \in BOOLEAN /\ ledger \in Ledgers
    BY <1>0, Here
  <1>2. /\ generation \in Int /\ MaxRound \in Nat /\ Adapter!Round = 0 .. MaxRound
        /\ r \in 0 .. MaxRound
    BY <1>0, <1>1, Assumed DEF Adapter!TypeOK, Adapter!Round
  <1>3. /\ ledger' \in Ledgers
        /\ counted' \subseteq Adapter!Round /\ generation' \in 0 .. MaxRound + 1
        /\ \A s \in Adapter!Round :
              /\ ledger'[s].parent = ledger[s].parent
              /\ ledger'[s].candidates = ledger[s].candidates
              /\ ledger'[s].admission = ledger[s].admission
              /\ ledger'[s].aggregate = ledger[s].aggregate
              /\ ledger'[s].holders = ledger[s].holders
              /\ ledger[s].final => ledger'[s].final
              /\ ledger[s].ca => ledger'[s].ca
              /\ ledger'[s].final => ledger[s].final \/ ledger[s].holders = Members
    BY <1>0, FinalizeEffect
  <1>4. /\ \/ counted' = counted
           \/ counted' = counted \cup {r} /\ (setting.failClosed => ledger'[r].final)
        /\ \/ generation' = generation
           \/ generation = r /\ generation' = r + 1 /\ (setting.failClosed => ledger'[r].ca)
    BY <1>0, FinalizeEffect
  <1>5. \/ /\ Moves(n, "failed") /\ round' = round
           /\ setting.failClosed \/ setting.trust
        \/ /\ Moves(n, Adapter!After(n))
           /\ round' = IF r = MaxRound THEN round ELSE [round EXCEPT ![n] = r + 1]
           /\ setting.failClosed => ledger'[r].final
           /\ setting.trust => r \in counted'
           /\ setting.ca => generation' > r
    BY <1>0, FinalizeEffect
  <1>6. \E where \in Phases :
           /\ Moves(n, where)
           /\ \/ /\ where = "failed" /\ round' = round
                 /\ setting.failClosed \/ setting.trust
              \/ /\ where = Adapter!After(n)
                 /\ round' = IF r = MaxRound THEN round ELSE [round EXCEPT ![n] = r + 1]
                 /\ setting.failClosed => ledger'[r].final
                 /\ setting.trust => r \in counted'
                 /\ setting.ca => generation' > r
    <2>1. "failed" \in Phases /\ Adapter!After(n) \in Phases
      BY DEF Phases, Adapter!After
    <2> QED BY <1>5, <2>1
  <1>7. PICK where \in Phases :
           /\ Moves(n, where)
           /\ \/ /\ where = "failed" /\ round' = round
                 /\ setting.failClosed \/ setting.trust
              \/ /\ where = Adapter!After(n)
                 /\ round' = IF r = MaxRound THEN round ELSE [round EXCEPT ![n] = r + 1]
                 /\ setting.failClosed => ledger'[r].final
                 /\ setting.trust => r \in counted'
                 /\ setting.ca => generation' > r
    BY <1>6
  <1>8. /\ pc' \in [Members -> Phases] /\ pc'[n] = where
        /\ \A m \in Members : m # n => pc'[m] = pc[m]
    BY <1>1, <1>7, Moved
  <1>9. /\ round' \in [Members -> Adapter!Round]
        /\ \A m \in Members : m # n => round'[m] = round[m]
        /\ round'[n] \in {r, r + 1}
    <2>1. r # MaxRound => r + 1 \in Adapter!Round
      <3> HIDE DEF r
      <3> QED BY <1>2
    <2> QED BY <1>1, <1>2, <1>7, <2>1
  <1>10. /\ where \in {"train", "record", "publish"} => n \in Owners /\ round'[n] = r + 1
         /\ where # "publish" /\ (where = "done" => round'[n] = r)
    <2>1. Adapter!After(n) = IF r = MaxRound THEN "done"
                             ELSE IF n \in Owners THEN "train" ELSE "admission"
      BY DEF Adapter!After
    <2> QED BY <1>1, <1>7, <2>1
  <1>11. Adapter!TypeOK'
    BY <1>0, <1>3, <1>8, <1>9 DEF Adapter!TypeOK, Ledgers, Phases
  <1>12. TrainersPublish'
    <2> SUFFICES ASSUME NEW m \in Members
                 PROVE  /\ pc'[m] \in {"train", "record", "publish"} => m \in Owners
                        /\ \A s \in Adapter!Round : m \in decided[s] =>
                              \/ s < round'[m]
                              \/ s = round'[m] /\ pc'[m] \notin {"train", "record", "publish"}
      BY DEF TrainersPublish
    <2>1. /\ pc[m] \in {"train", "record", "publish"} => m \in Owners
          /\ \A s \in Adapter!Round : m \in decided[s] =>
                \/ s < round[m]
                \/ s = round[m] /\ pc[m] \notin {"train", "record", "publish"}
      BY DEF AdapterInv, TrainersPublish
    <2>2. CASE m # n
      BY <1>8, <1>9, <2>1, <2>2
    <2>3. CASE m = n
      <3>1. \A s \in Adapter!Round : m \in decided[s] =>
                \/ s < round'[m]
                \/ s = round'[m] /\ pc'[m] \notin {"train", "record", "publish"}
        <4> SUFFICES ASSUME NEW s \in Adapter!Round, m \in decided[s]
                     PROVE  \/ s < round'[m]
                            \/ /\ s = round'[m]
                               /\ pc'[m] \notin {"train", "record", "publish"}
          OBVIOUS
        <4>1. s \in Int /\ (s < r \/ s = r)
          BY <1>2, <2>1, <2>3
        <4> HIDE DEF r
        <4> QED BY <1>2, <1>8, <1>9, <1>10, <2>3, <4>1
      <3> QED BY <1>8, <1>10, <2>3, <3>1
    <2> QED BY <2>2, <2>3
  <1>13. AdmissionIsLast'
    BY <1>3 DEF AdapterInv, AdmissionIsLast
  <1>14. FinalIsInstalled'
    BY <1>3 DEF AdapterInv, FinalIsInstalled
  <1>15. ObserverKnows'
    <2> SUFFICES ASSUME ~setting.failClosed
                 PROVE  /\ \A s \in Adapter!Round : decided[s] \subseteq hashes[s]
                        /\ \A m \in Members : pc'[m] = "publish" => m \in hashes[round'[m]]
                        /\ \A s \in Adapter!Round :
                              admissions[s] # None => admissions[s] \subseteq hashes[s]
      BY DEF ObserverKnows
    <2> QED BY <1>8, <1>9, <1>10 DEF AdapterInv, ObserverKnows
  <1>16. Adapter!CachesBacked'
    <2> SUFFICES ASSUME setting.failClosed, NEW s \in Adapter!Round
                 PROVE  /\ parents[s] \in {None, ledger'[s].parent}
                        /\ hashes[s] \subseteq ledger'[s].candidates
                        /\ admissions[s] \in {None, ledger'[s].admission}
                        /\ aggregates[s] \in {None, ledger'[s].aggregate}
                        /\ s \in counted' => ledger'[s].final
                        /\ s < generation' => ledger'[s].ca
      BY DEF Adapter!CachesBacked
    <2>1. /\ parents[s] \in {None, ledger[s].parent}
          /\ hashes[s] \subseteq ledger[s].candidates
          /\ admissions[s] \in {None, ledger[s].admission}
          /\ aggregates[s] \in {None, ledger[s].aggregate}
          /\ s \in counted => ledger[s].final
          /\ s < generation => ledger[s].ca
      BY DEF AdapterInv, Adapter!CachesBacked
    <2>2. s \in counted' => ledger'[s].final
      BY <1>3, <1>4, <2>1
    <2>3. s < generation' => ledger'[s].ca
      <3>1. s \in Int
        BY <1>2
      <3>2. ledger[s].ca => ledger'[s].ca
        BY <1>3
      <3> HIDE DEF r
      <3> QED BY <1>2, <1>4, <2>1, <3>1, <3>2
    <2> QED BY <1>3, <2>1, <2>2, <2>3
  <1>17. Adapter!LeavesAccounted'
    <2> SUFFICES ASSUME setting.failClosed, NEW m \in Members, NEW s \in Adapter!Round,
                        s < round'[m] \/ (s = round'[m] /\ pc'[m] = "done")
                 PROVE  /\ ledger'[s].final /\ ledger'[s].holders = Members
                        /\ setting.trust => s \in counted'
                        /\ setting.ca => generation' > s /\ ledger'[s].ca
      BY DEF Adapter!LeavesAccounted
    <2>1. s \in Int /\ counted \subseteq counted' /\ generation' >= generation
      <3> HIDE DEF r
      <3> QED BY <1>2, <1>4
    <2>2. CASE s < round[m] \/ (s = round[m] /\ pc[m] = "done")
      <3>1. /\ ledger[s].final /\ ledger[s].holders = Members
            /\ setting.trust => s \in counted
            /\ setting.ca => generation > s /\ ledger[s].ca
        BY <2>2 DEF AdapterInv, Adapter!LeavesAccounted
      <3>2. setting.ca => generation' > s
        BY <1>2, <1>3, <2>1, <3>1
      <3> QED BY <1>3, <2>1, <3>1, <3>2
    <2>3. CASE ~(s < round[m] \/ (s = round[m] /\ pc[m] = "done"))
      <3>1. m = n
        BY <1>8, <1>9, <2>3
      <3>2. s = r
        <4> HIDE DEF r
        <4>1. round[m] = r
          BY <3>1 DEF r
        <4> QED BY <1>2, <1>8, <1>9, <1>10, <2>1, <2>3, <3>1, <4>1
      <3>3. where # "failed" \/ round' # round
        BY <1>8, <2>3, <3>1, <3>2
      <3>4. /\ ledger'[r].final
            /\ setting.trust => r \in counted'
            /\ setting.ca => generation' > r
        BY <1>7, <3>3
      <3>5. ledger'[r].holders = Members
        BY <1>1, <1>14, <3>4 DEF FinalIsInstalled
      <3>6. setting.ca => ledger'[r].ca
        BY <1>1, <1>2, <1>3, <1>16, <3>4 DEF Adapter!CachesBacked
      <3> QED BY <3>2, <3>4, <3>5, <3>6
    <2> QED BY <2>2, <2>3
  <1>18. Adapter!ObserverNeverStops'
    <2>1. Adapter!After(n) # "failed"
      BY DEF Adapter!After
    <2> QED BY <1>1, <1>7, <1>8, <2>1 DEF AdapterInv, Adapter!ObserverNeverStops
  <1> QED BY <1>11, <1>12, <1>13, <1>14, <1>15, <1>16, <1>17, <1>18 DEF AdapterInv

LEMMA LeaveKeeps ==
    ASSUME AdapterInv, NEW n \in Members, Adapter!LeaveBarrier(n)
    PROVE  AdapterInv'
  <1>0. Adapter!TypeOK /\ faults \in 0 .. MaxFaults /\ MaxFaults \in Nat
        /\ pc \in [Members -> Phases]
    BY Assumed, Here DEF AdapterInv, Adapter!TypeOK, Phases
  <1>1. /\ pc[n] = "barrier"
        /\ UNCHANGED <<setting, parents, hashes, admissions, aggregates, model, decided, arrived>>
    BY DEF Adapter!LeaveBarrier, Adapter!caches
  <1>2. \/ \E lost \in 0 .. 4 :
              Adapter!Finalize(n, lost) /\ faults' \in 0 .. MaxFaults
        \/ /\ Moves(n, "failed") /\ \E m \in Members : pc[m] = "failed"
           /\ UNCHANGED <<ledger, counted, generation, round, faults>>
    <2>1. CASE \E lost \in IF faults < MaxFaults THEN 0 .. 4 ELSE {0} :
                  Adapter!Finalize(n, lost) /\ Adapter!Costs(lost)
      <3>1. PICK lost \in IF faults < MaxFaults THEN 0 .. 4 ELSE {0} :
                  Adapter!Finalize(n, lost) /\ Adapter!Costs(lost)
        BY <2>1
      <3>2. lost \in 0 .. 4 /\ faults' \in 0 .. MaxFaults
        BY <1>0, <3>1 DEF Adapter!Costs
      <3> QED BY <3>1, <3>2
    <2>2. CASE /\ Adapter!Goto(n, "failed") /\ \E m \in Members : pc[m] = "failed"
               /\ UNCHANGED <<ledger, Adapter!follow, round, faults>>
      BY <2>2 DEF Adapter!Goto, Moves, Adapter!follow
    <2> QED BY <2>1, <2>2 DEF Adapter!LeaveBarrier
  <1>3. CASE \E lost \in 0 .. 4 : Adapter!Finalize(n, lost) /\ faults' \in 0 .. MaxFaults
    BY <1>1, <1>3, FinalizeKeeps
  <1>4. CASE /\ Moves(n, "failed") /\ \E m \in Members : pc[m] = "failed"
             /\ UNCHANGED <<ledger, counted, generation, round, faults>>
    <2>1. /\ pc' \in [Members -> Phases] /\ pc'[n] = "failed"
          /\ \A m \in Members : m # n => pc'[m] = pc[m]
      <3>1. "failed" \in Phases
        BY DEF Phases
      <3> QED BY <1>0, <1>4, <3>1, Moved
    <2>2. Adapter!TypeOK'
      BY <1>0, <1>1, <1>4, <2>1 DEF Adapter!TypeOK, Phases
    <2>3. TrainersPublish'
      BY <1>1, <1>4, <2>1 DEF AdapterInv, TrainersPublish
    <2>4. AdmissionIsLast' /\ FinalIsInstalled'
      BY <1>1, <1>4 DEF AdapterInv, AdmissionIsLast, FinalIsInstalled
    <2>5. ObserverKnows'
      BY <1>1, <1>4, <2>1 DEF AdapterInv, ObserverKnows
    <2>6. Adapter!CachesBacked'
      BY <1>1, <1>4 DEF AdapterInv, Adapter!CachesBacked
    <2>7. Adapter!LeavesAccounted'
      BY <1>1, <1>4, <2>1 DEF AdapterInv, Adapter!LeavesAccounted
    <2>8. Adapter!ObserverNeverStops'
      BY <1>1, <1>4, <2>1 DEF AdapterInv, Adapter!ObserverNeverStops
    <2> QED BY <2>2, <2>3, <2>4, <2>5, <2>6, <2>7, <2>8 DEF AdapterInv
  <1> QED BY <1>2, <1>3, <1>4

LEMMA AdapterStart == Adapter!Init => AdapterInv
  <1> SUFFICES ASSUME Adapter!Init PROVE AdapterInv
    OBVIOUS
  <1>1. /\ setting \in Settings /\ ledger = [r \in Adapter!Round |-> Adapter!Record]
        /\ parents = [r \in Adapter!Round |-> None]
        /\ hashes = [r \in Adapter!Round |-> {}]
        /\ admissions = [r \in Adapter!Round |-> None]
        /\ aggregates = [r \in Adapter!Round |-> None]
        /\ counted = {} /\ generation = 0
        /\ pc = [n \in Members |-> IF n \in Owners THEN "train" ELSE "admission"]
        /\ round = [n \in Members |-> 0] /\ model = [n \in Members |-> <<-1, "agreed">>]
        /\ decided = [r \in Adapter!Round |-> {}] /\ arrived = [r \in Adapter!Round |-> {}]
        /\ faults = 0
    BY DEF Adapter!Init
  <1>2. /\ Adapter!Record \in Adapter!RoundRecord /\ Adapter!Record.admission = None
        /\ Adapter!Record.final = FALSE
    BY DEF Adapter!Record, Adapter!RoundRecord, Adapter!HashOrNone, Adapter!Decision
  <1>3. <<-1, "agreed">> \in Adapter!Hash /\ 0 \in Adapter!Round /\ 0 \in 0 .. MaxRound + 1
    BY Assumed DEF Adapter!Hash, Adapter!Aggregate, Adapter!Round
  <1>4. \A r \in Adapter!Round : ~(r < 0)
    BY Assumed DEF Adapter!Round
  <1>5. Adapter!TypeOK
    BY <1>1, <1>2, <1>3, Assumed
       DEF Adapter!TypeOK, Adapter!HashOrNone, Adapter!Decision
  <1>6. TrainersPublish /\ ObserverKnows /\ Adapter!ObserverNeverStops
    BY <1>1 DEF TrainersPublish, ObserverKnows, Adapter!ObserverNeverStops
  <1>7. AdmissionIsLast /\ FinalIsInstalled
    BY <1>1, <1>2 DEF AdmissionIsLast, FinalIsInstalled
  <1>8. Adapter!CachesBacked /\ Adapter!LeavesAccounted
    BY <1>1, <1>2, <1>4 DEF Adapter!CachesBacked, Adapter!LeavesAccounted
  <1> QED BY <1>5, <1>6, <1>7, <1>8 DEF AdapterInv

LEMMA AdapterStep == AdapterInv /\ [Adapter!Next]_(Adapter!vars) => AdapterInv'
  <1> SUFFICES ASSUME AdapterInv, [Adapter!Next]_(Adapter!vars) PROVE AdapterInv'
    OBVIOUS
  <1>1. CASE UNCHANGED Adapter!vars
    <2>1. UNCHANGED <<setting, ledger, parents, hashes, admissions, aggregates, counted,
                      generation, pc, round, model, decided, arrived, faults>>
      BY <1>1 DEF Adapter!vars, Adapter!caches, Adapter!follow
    <2> QED BY <2>1 DEF AdapterInv, TrainersPublish, AdmissionIsLast, FinalIsInstalled,
                       ObserverKnows, Adapter!CachesBacked, Adapter!LeavesAccounted,
                       Adapter!ObserverNeverStops, Adapter!TypeOK
  <1>2. ASSUME NEW n \in Members, Adapter!OpenRound(n) PROVE AdapterInv'
    BY <1>2, OpenKeeps
  <1>3. ASSUME NEW n \in Members, Adapter!RecordCandidate(n) PROVE AdapterInv'
    BY <1>3, RecordKeeps
  <1>4. ASSUME NEW n \in Members, Adapter!PublishDecision(n) PROVE AdapterInv'
    BY <1>4, PublishKeeps
  <1>5. ASSUME NEW n \in Members, Adapter!SeeAdmission(n) PROVE AdapterInv'
    BY <1>5, SeeKeeps
  <1>6. ASSUME NEW n \in Members, Adapter!Install(n) PROVE AdapterInv'
    BY <1>6, InstallKeeps
  <1>7. ASSUME NEW n \in Members, Adapter!InstallAgain(n) PROVE AdapterInv'
    BY <1>7, InstallAgainKeeps
  <1>8. ASSUME NEW n \in Members, Adapter!Arrive(n) PROVE AdapterInv'
    BY <1>8, ArriveKeeps
  <1>9. ASSUME NEW n \in Members, Adapter!LeaveBarrier(n) PROVE AdapterInv'
    BY <1>9, LeaveKeeps
  <1> QED BY <1>1, <1>2, <1>3, <1>4, <1>5, <1>6, <1>7, <1>8, <1>9 DEF Adapter!Next

\* Whatever call of the ledger is refused or fails, the adapter's invariant holds.
THEOREM AdapterInvariance == Adapter!Spec => []AdapterInv
  <1> QED BY AdapterStart, AdapterStep, PTL DEF Adapter!Spec

\* memory.py:270: the admission a ledger records decides every and only committed
\* candidate, for every set of participants and every refusal.
THEOREM AdmissionsCover == Adapter!Spec => []AdmissionCoversCandidates
  <1>1. AdapterInv => AdmissionCoversCandidates
    BY DEF AdapterInv, AdmissionIsLast, AdmissionCoversCandidates,
           Adapter!AdmissionCoversCandidates
  <1> QED BY <1>1, AdapterInvariance, PTL

\* runtime.py:161-169, 322-352: a refusal in the middle of a call leaves no cache
\* ahead of the ledger, no round left unaccounted and no observer stopped.
THEOREM RefusalsStayContained == Adapter!Spec => []RefusalsAreContained
  <1>1. AdapterInv => RefusalsAreContained
    BY DEF AdapterInv, RefusalsAreContained
  <1> QED BY <1>1, AdapterInvariance, PTL

-----------------------------------------------------------------------------
\* The selection of roles: its inductive invariant.

\* Votes of participants that are not Byzantine agree.
HonestAgree == \A r \in DidFinalize, p \in Participant \ Byzantine : ~ Disagreed(p, r)

\* A participant's counter of positive evidence is the length of its streak of
\* agreement.
Streaks ==
    \A g \in 0..Finalized, p \in Participant :
        /\ Generation(g)[p].positive <= g
        /\ \A r \in g - Generation(g)[p].positive..g - 1 : Agreed(p, r)

\* Without recovery nobody comes back from a disagreement.
Quarantined ==
    ~RecoveryEnabled /\ SevereTrustedTarget = "suspicious" =>
        \A r \in DidFinalize : \A g \in r + 1..Finalized, p \in Participant :
            Disagreed(p, r) => Generation(g)[p].state \in {"suspicious", "excluded"}

\* A disagreement makes a participant in good standing suspicious, with the finding on
\* its record.
Found ==
    SevereTrustedTarget = "suspicious" =>
        \A r \in DidFinalize, p \in Participant :
            /\ Disagreed(p, r)
            /\ Generation(r)[p].state \in {"trusted", "observation"}
            => /\ Generation(r + 1)[p].state = "suspicious"
               /\ Generation(r + 1)[p].severe # NoRound

IInv ==
    /\ TypeOK
    /\ HonestAgree
    /\ Streaks
    /\ Quarantined
    /\ Found
    /\ DisagreementEndsValidation
    /\ SevereEscalates
    /\ HonestNeverSuspected
    /\ TrustIsEarned

-----------------------------------------------------------------------------
\* What the proofs need of the step from a cell to the next one on the evidence e.
Follows(cell, e, next) ==
    /\ next.positive = Positives(cell, e)
    /\ next.state = "trusted" =>
          \/ cell.state = "trusted" /\ e # "severe"
          \/ e = "positive" /\ next.positive >= PromotionRounds
    /\ cell.state \in {"trusted", "observation"} /\ e \in {"positive", "neutral"}
          => next.state \in {"trusted", "observation"}
    /\ cell.state \in {"trusted", "observation"} /\ e = "severe"
       /\ SevereTrustedTarget = "suspicious"
          => next.state = "suspicious" /\ next.severe # NoRound
    /\ ~RecoveryEnabled =>
          /\ cell.state \in {"suspicious", "excluded"} => next.state \in {"suspicious", "excluded"}
          /\ cell.state = "excluded" => next.state = "excluded"
          /\ cell.state = "suspicious" /\ cell.severe # NoRound /\ ProbationRounds <= 1
                => next.state = "excluded"

LEMMA EvolvedFollows ==
    ASSUME NEW c \in [Participant -> Cell], NEW p \in Participant,
           NEW e \in {"positive", "neutral", "severe"}, NEW t, NEW r \in Nat
    PROVE  Follows(c[p], e, Evolved(c, p, e, t, r))
<1> DEFINE next == NextState(c, p, e, t)
<1>1. /\ c[p].state \in ParticipantState /\ c[p].held \in Nat
      /\ PromotionRounds \in Nat /\ ProbationRounds \in Nat
      /\ SevereTrustedTarget \in {"observation", "suspicious"}
  BY CAPolicyAssumption DEF Cell
<1>2. next = "trusted" =>
        \/ c[p].state = "trusted" /\ e # "severe"
        \/ e = "positive" /\ Positives(c[p], e) >= PromotionRounds
  BY <1>1 DEF NextState, Promoted, ParticipantState
<1>3. c[p].state \in {"trusted", "observation"} /\ e \in {"positive", "neutral"}
        => next \in {"trusted", "observation"}
  BY <1>1 DEF NextState, ParticipantState
<1>4. ASSUME c[p].state \in {"trusted", "observation"}, e = "severe",
             SevereTrustedTarget = "suspicious"
      PROVE  next = "suspicious" /\ Provenance(c[p], next, e, r) # NoRound
  <2>1. next = "suspicious"
    BY <1>1, <1>4 DEF NextState, ParticipantState
  <2> QED
    BY <1>4, <2>1 DEF Provenance, NoRound
<1>5. ASSUME ~RecoveryEnabled
      PROVE  /\ c[p].state \in {"suspicious", "excluded"} => next \in {"suspicious", "excluded"}
             /\ c[p].state = "excluded" => next = "excluded"
  BY <1>1, <1>5 DEF NextState, Recovered, ParticipantState
<1>6. ASSUME ~RecoveryEnabled, c[p].state = "suspicious", c[p].severe # NoRound,
             ProbationRounds <= 1
      PROVE  next = "excluded"
  <2>1. ProbationExpired(c[p])
    BY <1>1, <1>6 DEF ProbationExpired
  <2> QED
    BY <1>6, <2>1 DEF NextState, Recovered
<1> HIDE DEF next
<1>7. /\ Evolved(c, p, e, t, r).state = next
      /\ Evolved(c, p, e, t, r).positive = Positives(c[p], e)
      /\ Evolved(c, p, e, t, r).severe = Provenance(c[p], next, e, r)
  BY EvolvedFields DEF next
<1> QED
  BY <1>2, <1>3, <1>4, <1>5, <1>6, <1>7 DEF Follows

-----------------------------------------------------------------------------
\* Types.

USE GovernanceAssumption

LEMMA CandidatesType == Candidates \in Nat
  BY FS_Subset, FS_CardinalityType DEF Candidates

\* The selected validators are participants; under ca_state, after the bootstrap
\* rounds, they are trusted or under observation.
LEMMA SelectedType ==
    ASSUME TypeOK
    PROVE  /\ SelectedValidators \in SUBSET Participant
           /\ strategy = "ca_state" /\ ~Bootstrapping => SelectedValidators \subseteq ValidatorPool
<1>1. strategy \in {"static", "trust_ranked", "ca_state"}
  BY DEF TypeOK
<1>2. /\ ValidatorPool \subseteq Participant
      /\ \A k : Foremost(k, ValidatorPool) \subseteq ValidatorPool
  BY DEF ValidatorPool, InState, Foremost
<1>3. \A k : MostTrusted(k, RankedPool) \subseteq Participant
  BY DEF MostTrusted, RankedPool
<1> QED
  BY <1>1, <1>2, <1>3 DEF SelectedValidators

LEMMA SequenceTypes ==
    ASSUME TypeOK
    PROVE  /\ Finalized \in Nat
           /\ Len(snapshots) = Finalized + 1
           /\ Len(validators) = Finalized + (IF phase = "open" THEN 1 ELSE 0)
           /\ \A r \in DidFinalize : /\ SelectedIn(r) \in SUBSET Participant
                                     /\ DissentIn(r) \in [SelectedIn(r) -> 0..Candidates]
           /\ \A g \in 0..Finalized : Generation(g) \in [Participant -> Cell]
<1>1. /\ validators \in Seq(SUBSET Participant)
      /\ dissent \in Seq(Dissent)
      /\ snapshots \in Seq([Participant -> Cell])
      /\ Len(snapshots) = Finalized + 1
      /\ Len(validators) = Finalized + (IF phase = "open" THEN 1 ELSE 0)
      /\ \A i \in DOMAIN dissent : DOMAIN dissent[i] = validators[i]
  BY DEF TypeOK
<1>2. Finalized \in Nat /\ DOMAIN dissent = 1..Finalized
  BY <1>1, LenProperties DEF Finalized
<1>3. ASSUME NEW r \in DidFinalize
      PROVE  /\ SelectedIn(r) \in SUBSET Participant
             /\ DissentIn(r) \in [SelectedIn(r) -> 0..Candidates]
  <2>1. r + 1 \in 1..Finalized /\ r + 1 \in 1..Len(validators)
    BY <1>1, <1>2 DEF DidFinalize
  <2>2. validators[r + 1] \in SUBSET Participant
    BY <1>1, <2>1, ElementOfSeq
  <2>3. dissent[r + 1] \in Dissent
    BY <1>1, <2>1, ElementOfSeq DEF Finalized
  <2>4. DOMAIN dissent[r + 1] = validators[r + 1]
    BY <1>1, <1>2, <2>1
  <2>5. dissent[r + 1] \in [DOMAIN dissent[r + 1] -> 0..Candidates]
    BY <2>3 DEF Dissent
  <2> QED
    BY <2>2, <2>4, <2>5 DEF SelectedIn, DissentIn
<1>4. ASSUME NEW g \in 0..Finalized PROVE Generation(g) \in [Participant -> Cell]
  <2>1. g + 1 \in 1..Len(snapshots)
    BY <1>1, <1>2
  <2> QED
    BY <1>1, <2>1, ElementOfSeq DEF Generation
<1> QED
  BY <1>1, <1>2, <1>3, <1>4

-----------------------------------------------------------------------------
\* What finalizing a round adds to the history, and that it changes nothing in it.

\* The category of p in the round that ends with the given disagreements.
Evidence(p, last, disagreed) == Category(p, SelectedIn(last), disagreed)

Extends(last, disagreed) ==
    /\ Finalized' = last + 1
    /\ \A r \in 0..last - 1, p \in Participant :
          /\ Disagreed(p, r)' <=> Disagreed(p, r)
          /\ Agreed(p, r)' <=> Agreed(p, r)
    /\ \A p \in Participant :
          /\ Disagreed(p, last)' <=> Evidence(p, last, disagreed) = "severe"
          /\ Agreed(p, last)' <=> Evidence(p, last, disagreed) = "positive"
    /\ \A g \in 0..last : Generation(g)' = Generation(g)
    /\ \A p \in Participant :
          Follows(Generation(last)[p], Evidence(p, last, disagreed), Generation(last + 1)'[p])

LEMMA FinalizeRoundEffect ==
    ASSUME TypeOK, NEW last, last = Finalized, NEW disagreed, FinalizeRound(disagreed)
    PROVE  TypeOK' /\ Extends(last, disagreed)
<1>1. /\ strategy \in Strategies
      /\ validators \in Seq(SUBSET Participant)
      /\ dissent \in Seq(Dissent)
      /\ snapshots \in Seq([Participant -> Cell])
      /\ trust \in [Eligible -> Count]
      /\ \A i \in DOMAIN dissent : DOMAIN dissent[i] = validators[i]
  BY DEF TypeOK
<1>2. /\ last \in Nat /\ Len(dissent) = last
      /\ Len(snapshots) = last + 1 /\ Len(validators) = last + 1
      /\ Generation(last) \in [Participant -> Cell]
      /\ DOMAIN dissent = 1..last
  BY <1>1, SequenceTypes, LenProperties DEF FinalizeRound, Finalized
<1>3. /\ SelectedIn(last) \in SUBSET Participant
      /\ disagreed \in [SelectedIn(last) -> 0..Candidates]
  <2>1. last + 1 \in 1..Len(validators)
    BY <1>2
  <2>2. validators[last + 1] \in SUBSET Participant
    BY <1>1, <2>1, ElementOfSeq
  <2> QED
    BY <2>2 DEF SelectedIn, FinalizeRound
<1>4. /\ phase' = "closed" /\ validators' = validators /\ strategy' = strategy
      /\ dissent' = Append(dissent, disagreed)
      /\ trust' = Counted(SelectedIn(last), disagreed)
  BY DEF FinalizeRound
<1>5. PICK t : snapshots' = Append(snapshots,
                 [p \in Participant |->
                    Evolved(Generation(last), p, Evidence(p, last, disagreed), t[p], last)])
  <2> DEFINE scored == Counted(SelectedIn(last), disagreed)
             t == [p \in Participant |-> IF p \in Eligible THEN scored[p] ELSE Prior]
             stepped == [p \in Participant |->
                         Evolved(Generation(last), p, Evidence(p, last, disagreed), t[p], last)]
             code == [p \in Participant |->
                         Evolved(Generation(last), p, Category(p, SelectedIn(last), disagreed),
                                 IF p \in Eligible THEN scored[p] ELSE Prior, last)]
  <2>1. snapshots' = Append(snapshots, code)
    BY DEF FinalizeRound
  <2>2. \A p \in Participant : t[p] = IF p \in Eligible THEN scored[p] ELSE Prior
    OBVIOUS
  <2>3. stepped = code
    <3> HIDE DEF t, scored
    <3> QED
      BY <2>2 DEF Evidence
  <2> HIDE DEF t, scored, code
  <2> QED
    BY <2>1, <2>3
<1> DEFINE stepped == [p \in Participant |->
                       Evolved(Generation(last), p, Evidence(p, last, disagreed), t[p], last)]
<1>6. snapshots' = Append(snapshots, stepped)
  BY <1>5
<1>7. \A p \in Participant : Evidence(p, last, disagreed) \in {"positive", "neutral", "severe"}
  BY DEF Evidence, Category
<1>8. ASSUME NEW p \in Participant
      PROVE  /\ stepped[p] \in Cell
             /\ Follows(Generation(last)[p], Evidence(p, last, disagreed), stepped[p])
  <2>1. stepped[p] = Evolved(Generation(last), p, Evidence(p, last, disagreed), t[p], last)
    OBVIOUS
  <2> HIDE DEF stepped
  <2>2. /\ Generation(last) \in [Participant -> Cell] /\ last \in Nat
        /\ Evidence(p, last, disagreed) \in {"positive", "neutral", "severe"}
    BY <1>2, <1>7
  <2>3. ASSUME NEW c \in [Participant -> Cell], NEW e \in {"positive", "neutral", "severe"},
               NEW score
        PROVE  /\ Evolved(c, p, e, score, last) \in Cell
               /\ Follows(c[p], e, Evolved(c, p, e, score, last))
    <3>1. Evolved(c, p, e, score, last) \in Cell
      BY <2>2, EvolvedType
    <3> QED
      BY <2>2, <3>1, EvolvedFollows
  <2> QED
    BY <2>1, <2>2, <2>3
<1>9. stepped \in [Participant -> Cell]
  BY <1>8
<1> HIDE DEF stepped
<1>10. disagreed \in Dissent
  BY <1>3 DEF Dissent
<1>11. /\ dissent' \in Seq(Dissent) /\ Len(dissent') = last + 1
       /\ \A i \in 1..last : dissent'[i] = dissent[i]
       /\ dissent'[last + 1] = disagreed
  BY <1>1, <1>2, <1>4, <1>10, AppendProperties
<1>12. /\ snapshots' \in Seq([Participant -> Cell]) /\ Len(snapshots') = last + 2
       /\ \A i \in 1..last + 1 : snapshots'[i] = snapshots[i]
       /\ snapshots'[last + 2] = stepped
  <2>1. /\ snapshots' \in Seq([Participant -> Cell])
        /\ Len(snapshots') = last + 1 + 1
        /\ \A i \in 1..last + 1 : snapshots'[i] = snapshots[i]
        /\ snapshots'[last + 1 + 1] = stepped
    BY <1>1, <1>2, <1>6, <1>9, AppendProperties
  <2>2. last + 1 + 1 = last + 2
    BY <1>2
  <2> QED
    BY <2>1, <2>2
<1>13. Finalized' = last + 1
  BY <1>11 DEF Finalized
<1>14. TypeOK'
  <2>1. trust' \in [Eligible -> Count]
    <3>1. ASSUME NEW p \in Eligible
          PROVE  /\ trust[p].alpha \in Nat /\ trust[p].beta \in Nat
                 /\ p \in SelectedIn(last) => disagreed[p] \in 0..Candidates
      BY <1>1, <1>3 DEF Count
    <3>2. ASSUME NEW p \in Eligible
          PROVE  (IF p \in SelectedIn(last)
                  THEN [alpha |-> trust[p].alpha + Candidates - disagreed[p],
                        beta |-> trust[p].beta + disagreed[p]]
                  ELSE trust[p]) \in Count
      <4>1. CASE p \in SelectedIn(last)
        <5>1. /\ trust[p].alpha + Candidates - disagreed[p] \in Nat
              /\ trust[p].beta + disagreed[p] \in Nat
          BY <3>1, <4>1, CandidatesType
        <5> QED
          BY <4>1, <5>1 DEF Count
      <4>2. CASE p \notin SelectedIn(last)
        BY <1>1, <4>2
      <4> QED
        BY <4>1, <4>2
    <3> QED
      BY <1>4, <3>2 DEF Counted
  <2>2. \A i \in DOMAIN dissent' : DOMAIN dissent'[i] = validators'[i]
    <3>1. DOMAIN dissent' = 1..last + 1
      BY <1>11, LenProperties
    <3>2. DOMAIN disagreed = validators[last + 1]
      BY <1>3 DEF SelectedIn
    <3> QED
      BY <1>1, <1>2, <1>4, <1>11, <3>1, <3>2
  <2>3. /\ phase' \in {"closed", "open", "failed"}
        /\ Len(validators') = Finalized' + (IF phase' = "open" THEN 1 ELSE 0)
        /\ Len(snapshots') = Finalized' + 1
    BY <1>2, <1>4, <1>12, <1>13
  <2> QED
    BY <1>1, <1>4, <1>11, <1>12, <2>1, <2>2, <2>3 DEF TypeOK
<1>15. ASSUME NEW r \in 0..last - 1, NEW p \in Participant
       PROVE  /\ Disagreed(p, r)' <=> Disagreed(p, r)
              /\ Agreed(p, r)' <=> Agreed(p, r)
  <2>1. dissent'[r + 1] = dissent[r + 1] /\ validators' = validators
    BY <1>2, <1>4, <1>11
  <2> QED
    BY <2>1 DEF Disagreed, Agreed, SelectedIn, DissentIn
<1>16. ASSUME NEW p \in Participant
       PROVE  /\ Disagreed(p, last)' <=> Evidence(p, last, disagreed) = "severe"
              /\ Agreed(p, last)' <=> Evidence(p, last, disagreed) = "positive"
  <2>1. dissent'[last + 1] = disagreed /\ validators' = validators
    BY <1>4, <1>11
  <2>2. p \in SelectedIn(last) => disagreed[p] \in Nat
    BY <1>3, CandidatesType
  <2> QED
    BY <2>1, <2>2 DEF Disagreed, Agreed, SelectedIn, DissentIn, Evidence, Category
<1>17. ASSUME NEW g \in 0..last PROVE Generation(g)' = Generation(g)
  <2>1. g + 1 \in 1..last + 1
    BY <1>2
  <2> QED
    BY <1>12, <2>1 DEF Generation
<1>18. ASSUME NEW p \in Participant
       PROVE  Follows(Generation(last)[p], Evidence(p, last, disagreed), Generation(last + 1)'[p])
  <2>1. Generation(last + 1)' = stepped
    <3>1. last + 1 + 1 = last + 2
      BY <1>2
    <3> QED
      BY <1>12, <3>1 DEF Generation
  <2> QED
    BY <1>8, <2>1
<1> QED
  BY <1>13, <1>14, <1>15, <1>16, <1>17, <1>18 DEF Extends

-----------------------------------------------------------------------------
\* Every part of the invariant is kept when a round is finalized.

LEMMA HistoryStep ==
    ASSUME TypeOK, NEW last, last = Finalized, NEW disagreed, FinalizeRound(disagreed),
           HonestAgree, Streaks, HonestNeverSuspected
    PROVE  HonestAgree' /\ Streaks' /\ HonestNeverSuspected'
<1>1. Extends(last, disagreed) /\ last \in Nat /\ DidFinalize = 0..last - 1
  BY FinalizeRoundEffect, SequenceTypes DEF DidFinalize
<1>2. /\ Finalized' = last + 1
      /\ DidFinalize' = 0..last
  BY <1>1 DEF Extends, DidFinalize
<1>3. ASSUME NEW p \in Participant \ Byzantine
      PROVE  Evidence(p, last, disagreed) \in {"positive", "neutral"}
  BY DEF FinalizeRound, Evidence, Category
<1>4. HonestAgree'
  <2>1. ASSUME NEW r \in 0..last, NEW p \in Participant \ Byzantine PROVE ~ Disagreed(p, r)'
    <3>1. CASE r = last
      BY <1>1, <1>3, <3>1 DEF Extends
    <3>2. CASE r # last
      <4>1. r \in 0..last - 1
        BY <1>1, <3>2
      <4> QED
        BY <1>1, <4>1 DEF Extends, HonestAgree
    <3> QED
      BY <3>1, <3>2
  <2> QED
    BY <1>2, <2>1 DEF HonestAgree
<1>5. \A p \in Participant : Generation(last)[p].positive \in Nat
  <2>1. last \in 0..Finalized
    BY <1>1
  <2>2. Generation(last) \in [Participant -> Cell]
    BY <2>1, SequenceTypes
  <2> QED
    BY <2>2 DEF Cell
<1>6. Streaks'
  <2>1. ASSUME NEW g \in 0..last + 1, NEW p \in Participant
        PROVE  /\ Generation(g)'[p].positive <= g
               /\ \A r \in g - Generation(g)'[p].positive..g - 1 : Agreed(p, r)'
    <3>1. CASE g \in 0..last
      <4>1. Generation(g)' = Generation(g)
        BY <1>1, <3>1 DEF Extends
      <4>2. /\ Generation(g)[p].positive <= g
            /\ \A r \in g - Generation(g)[p].positive..g - 1 : Agreed(p, r)
        BY <1>1, <3>1 DEF Streaks
      <4>3. Generation(g)[p].positive \in Nat
        <5>1. g \in 0..Finalized
          BY <3>1
        <5>2. Generation(g) \in [Participant -> Cell]
          BY <5>1, SequenceTypes
        <5> QED
          BY <5>2 DEF Cell
      <4>4. \A r \in g - Generation(g)[p].positive..g - 1 : r \in 0..last - 1
        BY <1>1, <3>1, <4>2, <4>3
      <4> QED
        BY <1>1, <4>1, <4>2, <4>4 DEF Extends
    <3>2. CASE g = last + 1
      <4>1. Generation(g)'[p].positive =
                Positives(Generation(last)[p], Evidence(p, last, disagreed))
        BY <1>1, <3>2 DEF Extends, Follows
      <4>2. CASE Evidence(p, last, disagreed) = "positive"
        <5>1. Generation(g)'[p].positive = Generation(last)[p].positive + 1
          BY <4>1, <4>2 DEF Positives
        <5>2. /\ Generation(last)[p].positive <= last
              /\ \A r \in last - Generation(last)[p].positive..last - 1 : Agreed(p, r)
          BY <1>1 DEF Streaks
        <5>3. Agreed(p, last)'
          BY <1>1, <4>2 DEF Extends
        <5>4. ASSUME NEW r \in g - Generation(g)'[p].positive..g - 1, r # last
              PROVE  Agreed(p, r)'
          <6>1. /\ r \in last - Generation(last)[p].positive..last - 1
                /\ r \in 0..last - 1
            <7>1. /\ last \in Nat /\ g = last + 1 /\ Generation(last)[p].positive \in Nat
                  /\ Generation(last)[p].positive <= last
              BY <1>1, <1>5, <3>2, <5>2
            <7>2. /\ g - Generation(g)'[p].positive = last - Generation(last)[p].positive
                  /\ g - 1 = last
              BY <5>1, <7>1
            <7>3. r \in last - Generation(last)[p].positive..last
              BY <5>4, <7>2
            <7> QED
              BY <5>4, <7>1, <7>3
          <6> QED
            BY <1>1, <5>2, <6>1 DEF Extends
        <5>5. Generation(g)'[p].positive <= g
          BY <1>1, <1>5, <3>2, <5>1, <5>2
        <5>6. \A r \in g - Generation(g)'[p].positive..g - 1 : Agreed(p, r)'
          BY <5>3, <5>4
        <5> QED
          BY <5>5, <5>6
      <4>3. CASE Evidence(p, last, disagreed) # "positive"
        <5>1. Generation(g)'[p].positive = 0
          BY <4>1, <4>3 DEF Positives
        <5> QED
          BY <1>1, <3>2, <5>1
      <4> QED
        BY <4>2, <4>3
    <3> QED
      BY <1>1, <3>1, <3>2
  <2> QED
    BY <1>2, <2>1 DEF Streaks
<1>7. HonestNeverSuspected'
  <2>1. ASSUME NEW g \in 0..last + 1, NEW p \in Participant \ Byzantine
        PROVE  Generation(g)'[p].state \in {"trusted", "observation"}
    <3>1. CASE g \in 0..last
      BY <1>1, <3>1 DEF Extends, HonestNeverSuspected
    <3>2. CASE g = last + 1
      <4>1. Generation(last)[p].state \in {"trusted", "observation"}
        BY <1>1 DEF HonestNeverSuspected
      <4> QED
        BY <1>1, <1>3, <3>2, <4>1 DEF Extends, Follows
    <3> QED
      BY <1>1, <3>1, <3>2
  <2> QED
    BY <1>2, <2>1 DEF HonestNeverSuspected
<1> QED
  BY <1>4, <1>6, <1>7

LEMMA TrustStep ==
    ASSUME TypeOK, NEW last, last = Finalized, NEW disagreed, FinalizeRound(disagreed),
           Streaks', TrustIsEarned
    PROVE  TrustIsEarned'
<1>1. /\ Extends(last, disagreed) /\ last \in Nat /\ Finalized' = last + 1
      /\ PromotionRounds \in Nat
  BY FinalizeRoundEffect, SequenceTypes, CAPolicyAssumption DEF Extends
<1>2. ASSUME NEW g \in 0..last + 1, NEW p \in Participant, Generation(g)'[p].state = "trusted"
      PROVE  \E end \in PromotionRounds - 1..g - 1 :
                 /\ \A r \in end - PromotionRounds + 1..end : Agreed(p, r)'
                 /\ \A r \in end + 1..g - 1 : ~Disagreed(p, r)'
  <2>1. ASSUME NEW h \in 0..last, Generation(h)[p].state = "trusted"
        PROVE  \E end \in PromotionRounds - 1..h - 1 :
                   /\ \A r \in end - PromotionRounds + 1..end : Agreed(p, r)'
                   /\ \A r \in end + 1..h - 1 : ~Disagreed(p, r)'
    <3>1. PICK end \in PromotionRounds - 1..h - 1 :
            /\ \A r \in end - PromotionRounds + 1..end : Agreed(p, r)
            /\ \A r \in end + 1..h - 1 : ~Disagreed(p, r)
      BY <2>1 DEF TrustIsEarned
    <3>2. /\ \A r \in end - PromotionRounds + 1..end : r \in 0..last - 1
          /\ \A r \in end + 1..h - 1 : r \in 0..last - 1
      BY <1>1
    <3>3. /\ \A r \in end - PromotionRounds + 1..end : Agreed(p, r)'
          /\ \A r \in end + 1..h - 1 : ~Disagreed(p, r)'
      BY <1>1, <3>1, <3>2 DEF Extends
    <3> QED
      BY <3>3
  <2>2. CASE g \in 0..last
    <3>1. Generation(g)[p].state = "trusted"
      BY <1>1, <1>2, <2>2 DEF Extends
    <3> QED
      BY <2>1, <2>2, <3>1
  <2>3. CASE g = last + 1
    <3>1. \/ Generation(last)[p].state = "trusted" /\ Evidence(p, last, disagreed) # "severe"
          \/ Generation(g)'[p].positive >= PromotionRounds
      BY <1>1, <1>2, <2>3 DEF Extends, Follows
    <3>2. CASE Generation(last)[p].state = "trusted" /\ Evidence(p, last, disagreed) # "severe"
      <4>1. PICK end \in PromotionRounds - 1..last - 1 :
              /\ \A r \in end - PromotionRounds + 1..end : Agreed(p, r)'
              /\ \A r \in end + 1..last - 1 : ~Disagreed(p, r)'
        <5>1. last \in 0..last
          BY <1>1
        <5> QED
          BY <2>1, <3>2, <5>1
      <4>2. ~ Disagreed(p, last)'
        BY <1>1, <3>2 DEF Extends
      <4>3. \A r \in end + 1..g - 1 : r = last \/ r \in end + 1..last - 1
        BY <1>1, <2>3
      <4>4. end \in PromotionRounds - 1..g - 1
        BY <1>1, <2>3
      <4> QED
        BY <4>1, <4>2, <4>3, <4>4
    <3>3. CASE Generation(g)'[p].positive >= PromotionRounds
      <4>1. /\ Generation(g)'[p].positive <= g
            /\ \A r \in g - Generation(g)'[p].positive..g - 1 : Agreed(p, r)'
        BY <1>1 DEF Streaks
      <4>2. Generation(g)'[p].positive \in Nat
        <5>1. TypeOK'
          BY FinalizeRoundEffect
        <5>2. g \in 1..Len(snapshots') + 1 /\ snapshots' \in Seq([Participant -> Cell])
              /\ Len(snapshots') = last + 2
          BY <1>1, <2>3, <5>1 DEF TypeOK
        <5>3. g + 1 \in 1..Len(snapshots')
          BY <1>1, <2>3, <5>2
        <5>4. snapshots'[g + 1] \in [Participant -> Cell]
          BY <5>2, <5>3, ElementOfSeq
        <5> QED
          BY <5>4 DEF Generation, Cell
      <4>3. last \in PromotionRounds - 1..g - 1
        BY <1>1, <2>3, <3>3, <4>1, <4>2
      <4>4. \A r \in last - PromotionRounds + 1..last : r \in g - Generation(g)'[p].positive..g - 1
        BY <1>1, <2>3, <3>3, <4>1, <4>2
      <4>5. \A r \in last + 1..g - 1 : ~Disagreed(p, r)'
        BY <1>1, <2>3
      <4> QED
        BY <4>1, <4>3, <4>4, <4>5
    <3> QED
      BY <3>1, <3>2, <3>3
  <2> QED
    BY <1>1, <2>2, <2>3
<1> QED
  BY <1>1, <1>2 DEF TrustIsEarned

LEMMA DissentStep ==
    ASSUME TypeOK, NEW last, last = Finalized, NEW disagreed, FinalizeRound(disagreed),
           Quarantined, Found, SevereEscalates
    PROVE  Quarantined' /\ Found' /\ SevereEscalates'
<1>1. Extends(last, disagreed) /\ last \in Nat /\ DidFinalize = 0..last - 1
  BY FinalizeRoundEffect, SequenceTypes DEF DidFinalize
<1>2. /\ Finalized' = last + 1
      /\ DidFinalize' = 0..last
  BY <1>1 DEF Extends, DidFinalize
<1>3. ASSUME NEW p \in Participant PROVE Generation(last)[p].state \in ParticipantState
  <2>1. last \in 0..Finalized
    BY <1>1
  <2>2. Generation(last) \in [Participant -> Cell]
    BY <2>1, SequenceTypes
  <2> QED
    BY <2>2 DEF Cell
<1>4. Quarantined'
  <2> SUFFICES ASSUME ~RecoveryEnabled, SevereTrustedTarget = "suspicious",
                      NEW r \in 0..last, NEW g \in r + 1..last + 1, NEW p \in Participant,
                      Disagreed(p, r)'
               PROVE  Generation(g)'[p].state \in {"suspicious", "excluded"}
    BY <1>2 DEF Quarantined
  <2>1. ASSUME r # last, NEW h \in r + 1..last
        PROVE  Generation(h)[p].state \in {"suspicious", "excluded"}
    <3>1. r \in 0..last - 1
      BY <1>1, <2>1
    <3>2. Disagreed(p, r)
      BY <1>1, <3>1 DEF Extends
    <3> QED
      BY <1>1, <2>1, <3>1, <3>2 DEF Quarantined
  <2>2. CASE g \in r + 1..last
    <3>1. g \in 0..last /\ r # last
      BY <1>1, <2>2
    <3> QED
      BY <1>1, <2>1, <2>2, <3>1 DEF Extends
  <2>3. CASE g = last + 1 /\ r = last
    <3>1. Evidence(p, last, disagreed) = "severe"
      BY <1>1, <2>3 DEF Extends
    <3> QED
      BY <1>1, <1>3, <2>3, <3>1 DEF Extends, Follows, ParticipantState
  <2>4. CASE g = last + 1 /\ r # last
    <3>1. last \in r + 1..last
      BY <1>1, <2>4
    <3>2. Generation(last)[p].state \in {"suspicious", "excluded"}
      BY <2>1, <2>4, <3>1
    <3> QED
      BY <1>1, <2>4, <3>2 DEF Extends, Follows
  <2> QED
    BY <1>1, <2>2, <2>3, <2>4
<1>5. Found'
  <2> SUFFICES ASSUME SevereTrustedTarget = "suspicious",
                      NEW r \in 0..last, NEW p \in Participant, Disagreed(p, r)',
                      Generation(r)'[p].state \in {"trusted", "observation"}
               PROVE  /\ Generation(r + 1)'[p].state = "suspicious"
                      /\ Generation(r + 1)'[p].severe # NoRound
    BY <1>2 DEF Found
  <2>1. Generation(r)[p].state \in {"trusted", "observation"}
    BY <1>1 DEF Extends
  <2>2. CASE r = last
    <3>1. Evidence(p, last, disagreed) = "severe"
      BY <1>1, <2>2 DEF Extends
    <3> QED
      BY <1>1, <2>1, <2>2, <3>1 DEF Extends, Follows
  <2>3. CASE r # last
    <3>1. r \in 0..last - 1 /\ r + 1 \in 0..last
      BY <1>1, <2>3
    <3>2. Disagreed(p, r)
      BY <1>1, <3>1 DEF Extends
    <3>3. /\ Generation(r + 1)[p].state = "suspicious"
          /\ Generation(r + 1)[p].severe # NoRound
      BY <1>1, <2>1, <3>1, <3>2 DEF Found
    <3> QED
      BY <1>1, <3>1, <3>3 DEF Extends
  <2> QED
    BY <2>2, <2>3
<1>6. SevereEscalates'
  <2> SUFFICES ASSUME ProbationRounds <= 1, ~RecoveryEnabled, SevereTrustedTarget = "suspicious",
                      NEW r \in 0..last, NEW p \in Participant, Disagreed(p, r)',
                      Generation(r)'[p].state \in {"trusted", "observation"}
               PROVE  /\ Generation(r + 1)'[p].state = "suspicious"
                      /\ \A g \in r + 2..last + 1 : Generation(g)'[p].state = "excluded"
    BY <1>2 DEF SevereEscalates
  <2>1. Generation(r + 1)'[p].state = "suspicious"
    BY <1>2, <1>5 DEF Found
  <2>2. ASSUME NEW g \in r + 2..last + 1 PROVE Generation(g)'[p].state = "excluded"
    <3>1. r \in 0..last - 1 /\ r + 1 \in 0..last
      BY <1>1, <2>2
    <3>2. Disagreed(p, r) /\ Generation(r)[p].state \in {"trusted", "observation"}
      BY <1>1, <3>1 DEF Extends
    <3>3. \A h \in r + 2..last : Generation(h)[p].state = "excluded"
      BY <1>1, <3>1, <3>2 DEF SevereEscalates
    <3>4. CASE g \in r + 2..last
      BY <1>1, <3>3, <3>4 DEF Extends
    <3>5. CASE g = last + 1 /\ last \in r + 2..last
      BY <1>1, <3>3, <3>5 DEF Extends, Follows
    <3>6. CASE g = last + 1 /\ last = r + 1
      <4>1. /\ Generation(last)[p].state = "suspicious"
            /\ Generation(last)[p].severe # NoRound
        BY <1>1, <3>1, <3>2, <3>6 DEF Found
      <4> QED
        BY <1>1, <3>6, <4>1 DEF Extends, Follows
    <3> QED
      BY <1>1, <2>2, <3>4, <3>5, <3>6
  <2> QED
    BY <2>1, <2>2
<1> QED
  BY <1>4, <1>5, <1>6

LEMMA FinalizeKeepsSelection ==
    ASSUME TypeOK, NEW last, last = Finalized, NEW disagreed, FinalizeRound(disagreed),
           DisagreementEndsValidation
    PROVE  DisagreementEndsValidation'
<1>1. Extends(last, disagreed) /\ last \in Nat /\ DidFinalize = 0..last - 1
  BY FinalizeRoundEffect, SequenceTypes DEF DidFinalize
<1>2. /\ DidFinalize' = 0..last /\ validators' = validators /\ strategy' = strategy
      /\ DOMAIN validators = 1..last + 1
  <2>1. Len(validators) = last + 1 /\ validators \in Seq(SUBSET Participant)
    BY SequenceTypes DEF FinalizeRound, TypeOK
  <2> QED
    BY <1>1, <2>1, LenProperties DEF Extends, DidFinalize, FinalizeRound
<1> SUFFICES ASSUME strategy = "ca_state", ~RecoveryEnabled, SevereTrustedTarget = "suspicious",
                    NEW i \in 1..last + 1, NEW r \in 0..last, r < i - 1, i - 1 >= BootstrapRounds,
                    NEW p \in Participant, Disagreed(p, r)'
             PROVE  p \notin validators[i]
  BY <1>2 DEF DisagreementEndsValidation
<1>3. r \in 0..last - 1
  BY <1>1
<1>4. Disagreed(p, r)
  BY <1>1, <1>3 DEF Extends
<1> QED
  BY <1>1, <1>2, <1>3, <1>4 DEF DisagreementEndsValidation

-----------------------------------------------------------------------------
\* Opening a round, and the steps that leave the history alone.

\* The parts of the invariant that speak of finalized rounds and of cells only.
History ==
    /\ HonestAgree
    /\ Streaks
    /\ Quarantined
    /\ Found
    /\ SevereEscalates
    /\ HonestNeverSuspected
    /\ TrustIsEarned

LEMMA OpenStep ==
    ASSUME TypeOK, History, DisagreementEndsValidation, OpenRound
    PROVE  TypeOK' /\ History' /\ DisagreementEndsValidation'
<1>1. /\ validators \in Seq(SUBSET Participant) /\ dissent \in Seq(Dissent)
      /\ phase = "closed" /\ phase' = "open"
      /\ validators' = Append(validators, SelectedValidators)
      /\ UNCHANGED <<strategy, dissent, trust, snapshots>>
  BY DEF TypeOK, OpenRound
<1>2. /\ Finalized \in Nat /\ Len(validators) = Finalized
      /\ SelectedValidators \in SUBSET Participant
      /\ DOMAIN dissent = 1..Finalized
  BY <1>1, SequenceTypes, SelectedType, LenProperties DEF Finalized
<1>3. /\ validators' \in Seq(SUBSET Participant) /\ Len(validators') = Finalized + 1
      /\ \A i \in 1..Finalized : validators'[i] = validators[i]
      /\ validators'[Finalized + 1] = SelectedValidators
  BY <1>1, <1>2, AppendProperties
<1>4. Finalized' = Finalized /\ DidFinalize' = DidFinalize
  BY <1>1 DEF Finalized, DidFinalize
<1>5. TypeOK'
  <2>1. \A i \in DOMAIN dissent' : DOMAIN dissent'[i] = validators'[i]
    BY <1>1, <1>2, <1>3 DEF TypeOK
  <2>2. Len(validators') = Finalized' + (IF phase' = "open" THEN 1 ELSE 0)
    BY <1>1, <1>3, <1>4
  <2> QED
    BY <1>1, <1>3, <1>4, <2>1, <2>2 DEF TypeOK
<1>6. ASSUME NEW r \in DidFinalize, NEW p \in Participant
      PROVE  /\ Disagreed(p, r)' <=> Disagreed(p, r)
             /\ Agreed(p, r)' <=> Agreed(p, r)
  <2>1. r + 1 \in 1..Finalized
    BY <1>2 DEF DidFinalize
  <2>2. validators'[r + 1] = validators[r + 1] /\ dissent' = dissent
    BY <1>1, <1>3, <2>1
  <2> QED
    BY <2>2 DEF Disagreed, Agreed, SelectedIn, DissentIn
<1>7. \A g : Generation(g)' = Generation(g)
  BY <1>1 DEF Generation
<1>8. HonestAgree' /\ Quarantined' /\ Found' /\ SevereEscalates' /\ HonestNeverSuspected'
  <2>1. HonestAgree'
    BY <1>4, <1>6 DEF History, HonestAgree
  <2>2. Quarantined'
    BY <1>4, <1>6, <1>7 DEF History, Quarantined
  <2>3. Found'
    BY <1>4, <1>6, <1>7 DEF History, Found
  <2>4. SevereEscalates'
    BY <1>4, <1>6, <1>7 DEF History, SevereEscalates
  <2>5. HonestNeverSuspected'
    BY <1>4, <1>7 DEF History, HonestNeverSuspected
  <2> QED
    BY <2>1, <2>2, <2>3, <2>4, <2>5
<1>9. \A g \in 0..Finalized : Generation(g) \in [Participant -> Cell]
  BY SequenceTypes
<1>10. Streaks'
  <2> SUFFICES ASSUME NEW g \in 0..Finalized, NEW p \in Participant
               PROVE  /\ Generation(g)[p].positive <= g
                      /\ \A r \in g - Generation(g)[p].positive..g - 1 : Agreed(p, r)'
    BY <1>4, <1>7 DEF Streaks
  <2>1. /\ Generation(g)[p].positive <= g
        /\ \A r \in g - Generation(g)[p].positive..g - 1 : Agreed(p, r)
    BY DEF History, Streaks
  <2>2. Generation(g)[p].positive \in Nat
    BY <1>9 DEF Cell
  <2>3. \A r \in g - Generation(g)[p].positive..g - 1 : r \in DidFinalize
    BY <1>2, <2>1, <2>2 DEF DidFinalize
  <2> QED
    BY <1>6, <2>1, <2>3
<1>11. TrustIsEarned'
  <2> SUFFICES ASSUME NEW g \in 0..Finalized, NEW p \in Participant,
                      Generation(g)[p].state = "trusted"
               PROVE  \E end \in PromotionRounds - 1..g - 1 :
                          /\ \A r \in end - PromotionRounds + 1..end : Agreed(p, r)'
                          /\ \A r \in end + 1..g - 1 : ~Disagreed(p, r)'
    BY <1>4, <1>7 DEF TrustIsEarned
  <2>1. PICK end \in PromotionRounds - 1..g - 1 :
          /\ \A r \in end - PromotionRounds + 1..end : Agreed(p, r)
          /\ \A r \in end + 1..g - 1 : ~Disagreed(p, r)
    BY DEF History, TrustIsEarned
  <2>2. /\ \A r \in end - PromotionRounds + 1..end : r \in DidFinalize
        /\ \A r \in end + 1..g - 1 : r \in DidFinalize
    <3>1. PromotionRounds \in Nat
      BY CAPolicyAssumption
    <3> QED
      BY <1>2, <3>1 DEF DidFinalize
  <2> QED
    BY <1>6, <2>1, <2>2
<1>12. DisagreementEndsValidation'
  <2> SUFFICES ASSUME strategy = "ca_state", ~RecoveryEnabled, SevereTrustedTarget = "suspicious",
                      NEW i \in DOMAIN validators', NEW r \in DidFinalize, r < i - 1,
                      i - 1 >= BootstrapRounds, NEW p \in Participant, Disagreed(p, r)
               PROVE  p \notin validators'[i]
    BY <1>1, <1>4, <1>6 DEF DisagreementEndsValidation
  <2>1. i \in 1..Finalized + 1
    BY <1>3, LenProperties
  <2>2. CASE i \in 1..Finalized
    <3>1. i \in DOMAIN validators
      BY <1>1, <1>2, <2>2, LenProperties
    <3> QED
      BY <1>3, <2>2, <3>1 DEF DisagreementEndsValidation
  <2>3. CASE i = Finalized + 1
    <3>1. ~Bootstrapping /\ Finalized \in r + 1..Finalized
      BY <1>2, <2>3 DEF Bootstrapping, DidFinalize
    <3>2. Generation(Finalized)[p].state \in {"suspicious", "excluded"}
      BY <3>1 DEF History, Quarantined
    <3>3. p \notin ValidatorPool
      BY <3>2 DEF ValidatorPool, InState
    <3> QED
      BY <1>3, <2>3, <3>1, <3>3, SelectedType
  <2> QED
    BY <1>2, <2>1, <2>2, <2>3
<1> QED
  BY <1>5, <1>8, <1>10, <1>11, <1>12 DEF History

\* A step that at most closes the experiment changes nothing the invariant speaks of.
LEMMA IdleStep ==
    ASSUME IInv, UNCHANGED <<strategy, validators, dissent, trust, snapshots>>,
           \/ phase = "closed" /\ phase' = "failed"
           \/ phase' = phase
    PROVE  IInv'
<1>1. TypeOK'
  BY DEF IInv, TypeOK, Finalized
<1>2. /\ Finalized' = Finalized /\ DidFinalize' = DidFinalize
      /\ \A p, r : (Disagreed(p, r)' <=> Disagreed(p, r)) /\ (Agreed(p, r)' <=> Agreed(p, r))
      /\ \A g : Generation(g)' = Generation(g)
  BY DEF Finalized, DidFinalize, Disagreed, Agreed, SelectedIn, DissentIn, Generation
<1>3. HonestAgree' /\ Streaks' /\ HonestNeverSuspected' /\ TrustIsEarned'
  BY <1>2 DEF IInv, HonestAgree, Streaks, HonestNeverSuspected, TrustIsEarned
<1>4. Quarantined' /\ Found'
  BY <1>2 DEF IInv, Quarantined, Found
<1>5. SevereEscalates'
  BY <1>2 DEF IInv, SevereEscalates
<1>6. DisagreementEndsValidation'
  BY <1>2 DEF IInv, DisagreementEndsValidation
<1> QED
  BY <1>1, <1>3, <1>4, <1>5, <1>6 DEF IInv

-----------------------------------------------------------------------------
\* Sums of votes.  SumOf is a recursive function; that it exists for every history is
\* part of the invariant (Summable), and what it is worth is shown for every function
\* that satisfies its equation.

Sums(f, votes, n) == f = [k \in 0..n |-> IF k = 0 THEN 0 ELSE f[k - 1] + votes[k - 1]]

LEMMA SumIsASum ==
    ASSUME NEW votes, NEW n \in Nat, \E f : Sums(f, votes, n)
    PROVE  \E f : Sums(f, votes, n) /\ SumOf(votes, n) = f[n]
<1> DEFINE sum[k \in 0..n] == IF k = 0 THEN 0 ELSE sum[k - 1] + votes[k - 1]
<1>1. PICK f : f = [k \in 0..n |-> IF k = 0 THEN 0 ELSE f[k - 1] + votes[k - 1]]
  BY DEF Sums
<1>2. sum = [k \in 0..n |-> IF k = 0 THEN 0 ELSE sum[k - 1] + votes[k - 1]]
  BY <1>1
<1>3. SumOf(votes, n) = sum[n]
  BY DEF SumOf
<1> HIDE DEF sum
<1> QED
  BY <1>2, <1>3 DEF Sums

\* The sum of votes that agree in the first n rounds is the same.
LEMMA SumOfSame ==
    ASSUME NEW f, NEW v, NEW w, NEW n \in Nat, Sums(f, v, n), \A k \in 0..n - 1 : w[k] = v[k]
    PROVE  Sums(f, w, n)
<1>1. f = [k \in 0..n |-> IF k = 0 THEN 0 ELSE f[k - 1] + v[k - 1]]
  BY DEF Sums
<1>2. \A k \in 0..n : k # 0 => k - 1 \in 0..n - 1
  OBVIOUS
<1>3. f = [k \in 0..n |-> IF k = 0 THEN 0 ELSE f[k - 1] + w[k - 1]]
  BY <1>1, <1>2
<1> QED
  BY <1>3 DEF Sums

\* A sum over n rounds goes on to one over n + 1.
LEMMA SumGoesOn ==
    ASSUME NEW f, NEW v, NEW n \in Nat, Sums(f, v, n)
    PROVE  \E g : Sums(g, v, n + 1)
<1> DEFINE g == [k \in 0..n + 1 |-> IF k = 0 THEN 0 ELSE f[k - 1] + v[k - 1]]
<1>1. f = [k \in 0..n |-> IF k = 0 THEN 0 ELSE f[k - 1] + v[k - 1]]
  BY DEF Sums
<1>2. ASSUME NEW k \in 0..n PROVE g[k] = f[k]
  BY <1>1
<1>3. ASSUME NEW k \in 0..n + 1 PROVE g[k] = IF k = 0 THEN 0 ELSE g[k - 1] + v[k - 1]
  <2>1. CASE k = 0
    BY <2>1
  <2>2. CASE k # 0
    <3>1. k - 1 \in 0..n
      BY <2>2
    <3>2. g[k - 1] = f[k - 1]
      BY <1>2, <3>1
    <3>3. g[k] = f[k - 1] + v[k - 1]
      BY <2>2
    <3> QED
      BY <2>2, <3>2, <3>3
  <2> QED
    BY <2>1, <2>2
<1>4. g = [k \in 0..n + 1 |-> g[k]]
  OBVIOUS
<1> HIDE DEF g
<1>5. g = [k \in 0..n + 1 |-> IF k = 0 THEN 0 ELSE g[k - 1] + v[k - 1]]
  BY <1>3, <1>4
<1> QED
  BY <1>5 DEF Sums

\* And is what its last round adds to a sum over the rounds before.
EndsWith(f, v, n) == \E g : Sums(g, v, n) /\ f[n + 1] = g[n] + v[n]

LEMMA SumOfLast ==
    ASSUME NEW f, NEW v, NEW n \in Nat, Sums(f, v, n + 1)
    PROVE  EndsWith(f, v, n)
<1> DEFINE g == [k \in 0..n |-> f[k]]
<1>1. f = [k \in 0..n + 1 |-> IF k = 0 THEN 0 ELSE f[k - 1] + v[k - 1]]
  BY DEF Sums
<1>2. ASSUME NEW k \in 0..n PROVE g[k] = IF k = 0 THEN 0 ELSE g[k - 1] + v[k - 1]
  <2>1. f[k] = IF k = 0 THEN 0 ELSE f[k - 1] + v[k - 1]
    BY <1>1
  <2>2. k # 0 => k - 1 \in 0..n
    OBVIOUS
  <2> QED
    BY <2>1, <2>2
<1>3. f[n + 1] = f[n] + v[n]
  <2>1. n + 1 \in 0..n + 1 /\ n + 1 # 0 /\ n + 1 - 1 = n
    OBVIOUS
  <2> QED
    BY <1>1, <2>1
<1>4. g[n] = f[n] /\ g = [k \in 0..n |-> g[k]]
  OBVIOUS
<1> HIDE DEF g
<1> QED
  BY <1>2, <1>3, <1>4 DEF Sums, EndsWith

\* A sum over no rounds.
LEMMA SumOfNone ==
    ASSUME NEW votes
    PROVE  /\ \E f : Sums(f, votes, 0)
           /\ \A f : Sums(f, votes, 0) => f[0] = 0
<1> DEFINE g == [k \in 0..0 |-> 0]
<1>1. \A f : Sums(f, votes, 0) => f[0] = 0
  BY DEF Sums
<1>2. Sums(g, votes, 0)
  BY DEF Sums
<1> QED
  BY <1>1, <1>2

-----------------------------------------------------------------------------
\* Trust is the sum of the votes, and what follows for the selection.

\* The sums of the finalized rounds exist.
Summable ==
    \A p \in Participant, n \in 0..Finalized :
        /\ \E f : Sums(f, Agreeing(p), n)
        /\ \E f : Sums(f, Dissenting(p), n)

\* Beyond its prior, a participant's trust counts its votes of all finalized rounds.
Accounted ==
    \A p \in Eligible :
        /\ \A f : Sums(f, Agreeing(p), Finalized) => f[Finalized] = trust[p].alpha - 1
        /\ \A f : Sums(f, Dissenting(p), Finalized) => f[Finalized] = trust[p].beta - 1

\* MajorityDissenterOut, of any functions that satisfy the equations of the sums.
Ranked ==
    strategy = "trust_ranked" /\ MinTrustPercent = 50 =>
        \A i \in DOMAIN validators : i - 1 >= BootstrapRounds =>
            \A p \in validators[i] : \A f, h :
                Sums(f, Agreeing(p), i - 1) /\ Sums(h, Dissenting(p), i - 1) => f[i - 1] >= h[i - 1]

\* Nobody is suspected who has not disagreed, and nobody loses trust either.
Suspected ==
    \A g \in 0..Finalized, p \in Participant :
        Generation(g)[p].state \in {"suspicious", "excluded"} =>
            \E r \in 0..g - 1 : Disagreed(p, r)
Unblamed ==
    \A p \in Eligible :
        /\ trust[p].alpha >= 1
        /\ (\A r \in DidFinalize : ~Disagreed(p, r)) => trust[p].beta = 1

\* What finalizing a round adds to the votes and to the trust.
Pays(last) ==
    /\ Finalized' = last + 1
    /\ \A p \in Participant, r \in 0..last - 1 :
          /\ Agreeing(p)'[r] = Agreeing(p)[r]
          /\ Dissenting(p)'[r] = Dissenting(p)[r]
    /\ \A p \in Eligible :
          /\ Agreeing(p)'[last] \in Nat /\ Dissenting(p)'[last] \in Nat
          /\ trust'[p].alpha = trust[p].alpha + Agreeing(p)'[last]
          /\ trust'[p].beta = trust[p].beta + Dissenting(p)'[last]
          /\ ~Disagreed(p, last)' => Dissenting(p)'[last] = 0

LEMMA FinalizePays ==
    ASSUME TypeOK, NEW last, last = Finalized, NEW disagreed, FinalizeRound(disagreed)
    PROVE  Pays(last)
<1>1. /\ TypeOK' /\ Finalized' = last + 1 /\ last \in Nat
      /\ DidFinalize = 0..last - 1 /\ DidFinalize' = 0..last
  BY FinalizeRoundEffect, SequenceTypes DEF Extends, DidFinalize
<1>2. /\ validators' = validators /\ dissent' = Append(dissent, disagreed)
      /\ trust' = Counted(SelectedIn(last), disagreed)
      /\ disagreed \in [SelectedIn(last) -> 0..Candidates]
  BY DEF FinalizeRound
<1>3. SelectedIn(last) \in SUBSET Participant
  <2>1. last + 1 \in 1..Len(validators) /\ validators \in Seq(SUBSET Participant)
    BY <1>1, SequenceTypes DEF FinalizeRound, TypeOK
  <2>2. validators[last + 1] \in SUBSET Participant
    BY <2>1, ElementOfSeq
  <2> QED
    BY <2>2 DEF SelectedIn
<1>4. /\ \A i \in 1..last : dissent'[i] = dissent[i]
      /\ dissent'[last + 1] = disagreed
  <2>1. disagreed \in Dissent
    BY <1>2, <1>3 DEF Dissent
  <2> QED
    BY <1>2, <2>1, AppendProperties DEF TypeOK, Finalized
<1>5. ASSUME NEW p \in Participant, NEW r \in 0..last - 1
      PROVE  /\ Agreeing(p)'[r] = Agreeing(p)[r]
             /\ Dissenting(p)'[r] = Dissenting(p)[r]
  <2>1. r \in DidFinalize /\ r \in 0..last /\ r + 1 \in 1..last
    BY <1>1
  <2>2. SelectedIn(r)' = SelectedIn(r) /\ DissentIn(r)' = DissentIn(r)
    BY <1>2, <1>4, <2>1 DEF SelectedIn, DissentIn
  <2> QED
    BY <1>1, <2>1, <2>2 DEF Agreeing, Dissenting, Candidates
<1>6. ASSUME NEW p \in Participant
      PROVE  /\ Agreeing(p)'[last] = IF p \in SelectedIn(last) THEN Candidates - disagreed[p] ELSE 0
             /\ Dissenting(p)'[last] = IF p \in SelectedIn(last) THEN disagreed[p] ELSE 0
  <2>1. SelectedIn(last)' = SelectedIn(last) /\ DissentIn(last)' = disagreed
    BY <1>2, <1>4 DEF SelectedIn, DissentIn
  <2>2. last \in 0..last
    BY <1>1
  <2> QED
    BY <1>1, <2>1, <2>2 DEF Agreeing, Dissenting, Candidates
<1>7. ASSUME NEW p \in Eligible
      PROVE  /\ Agreeing(p)'[last] \in Nat /\ Dissenting(p)'[last] \in Nat
             /\ trust'[p].alpha = trust[p].alpha + Agreeing(p)'[last]
             /\ trust'[p].beta = trust[p].beta + Dissenting(p)'[last]
             /\ ~Disagreed(p, last)' => Dissenting(p)'[last] = 0
  <2>1. p \in Participant /\ trust[p].alpha \in Nat /\ trust[p].beta \in Nat
    BY DEF TypeOK, Count
  <2>2. SelectedIn(last)' = SelectedIn(last) /\ DissentIn(last)' = disagreed
    BY <1>2, <1>4 DEF SelectedIn, DissentIn
  <2>3. CASE p \in SelectedIn(last)
    <3>1. disagreed[p] \in Nat /\ Candidates - disagreed[p] \in Nat /\ Candidates \in Nat
      BY <1>2, <2>3, CandidatesType
    <3>2. /\ trust'[p].alpha = trust[p].alpha + Candidates - disagreed[p]
          /\ trust'[p].beta = trust[p].beta + disagreed[p]
      BY <1>2, <2>3 DEF Counted
    <3>3. Agreeing(p)'[last] = Candidates - disagreed[p] /\ Dissenting(p)'[last] = disagreed[p]
      BY <1>6, <2>1, <2>3
    <3>4. ~Disagreed(p, last)' => disagreed[p] = 0
      BY <2>2, <2>3, <3>1 DEF Disagreed
    <3> QED
      BY <2>1, <3>1, <3>2, <3>3, <3>4
  <2>4. CASE p \notin SelectedIn(last)
    <3>1. trust'[p] = trust[p]
      BY <1>2, <2>4 DEF Counted
    <3>2. Agreeing(p)'[last] = 0 /\ Dissenting(p)'[last] = 0
      BY <1>6, <2>1, <2>4
    <3> QED
      BY <2>1, <3>1, <3>2
  <2> QED
    BY <2>3, <2>4 DEF EndsWith
<1> QED
  BY <1>1, <1>5, <1>7 DEF Pays

LEMMA SumsStep ==
    ASSUME TypeOK, NEW last, last = Finalized, NEW disagreed, FinalizeRound(disagreed),
           Summable, Accounted, Ranked
    PROVE  Summable' /\ Accounted' /\ Ranked'
<1>1. Pays(last) /\ last \in Nat /\ Finalized' = last + 1
  BY FinalizePays, SequenceTypes DEF Pays
<1>2. ASSUME NEW p \in Participant, NEW n \in 0..last
      PROVE  /\ n \in Nat
             /\ \A k \in 0..n - 1 : Agreeing(p)'[k] = Agreeing(p)[k]
                                    /\ Agreeing(p)[k] = Agreeing(p)'[k]
             /\ \A k \in 0..n - 1 : Dissenting(p)'[k] = Dissenting(p)[k]
                                    /\ Dissenting(p)[k] = Dissenting(p)'[k]
  BY <1>1 DEF Pays
<1>3. ASSUME NEW p \in Participant, NEW n \in 0..last, NEW f
      PROVE  /\ Sums(f, Agreeing(p), n) <=> Sums(f, Agreeing(p)', n)
             /\ Sums(f, Dissenting(p), n) <=> Sums(f, Dissenting(p)', n)
  <2>1. n \in Nat
    OBVIOUS
  <2>2. \A k \in 0..n - 1 : Agreeing(p)'[k] = Agreeing(p)[k] /\ Dissenting(p)'[k] = Dissenting(p)[k]
    BY <1>2
  <2>3. Sums(f, Agreeing(p), n) => Sums(f, Agreeing(p)', n)
    BY <2>1, <2>2, SumOfSame
  <2>4. Sums(f, Agreeing(p)', n) => Sums(f, Agreeing(p), n)
    BY <2>1, <2>2, SumOfSame
  <2>5. Sums(f, Dissenting(p), n) => Sums(f, Dissenting(p)', n)
    BY <2>1, <2>2, SumOfSame
  <2>6. Sums(f, Dissenting(p)', n) => Sums(f, Dissenting(p), n)
    BY <2>1, <2>2, SumOfSame
  <2> QED
    BY <2>3, <2>4, <2>5, <2>6
<1>4. Summable'
  <2>1. ASSUME NEW p \in Participant, NEW n \in 0..last
        PROVE  /\ \E f : Sums(f, Agreeing(p)', n)
               /\ \E f : Sums(f, Dissenting(p)', n)
    BY <1>1, <1>3 DEF Summable
  <2>2. ASSUME NEW p \in Participant
        PROVE  /\ \E f : Sums(f, Agreeing(p)', last + 1)
               /\ \E f : Sums(f, Dissenting(p)', last + 1)
    <3>1. last \in 0..last
      BY <1>1
    <3> QED
      BY <1>1, <2>1, <3>1, SumGoesOn
  <2>3. \A n \in 0..last + 1 : n \in 0..last \/ n = last + 1
    BY <1>1
  <2> QED
    BY <1>1, <2>1, <2>2, <2>3 DEF Summable
<1>5. Accounted'
  <2>1. last \in 0..last
    BY <1>1
  <2>4. ASSUME NEW f, NEW v, Sums(f, v, last + 1)
        PROVE  EndsWith(f, v, last)
    <3>1. last \in Nat
      BY <1>1
    <3> QED
      BY <2>4, <3>1, SumOfLast
  <2>2. ASSUME NEW p \in Eligible, NEW f, Sums(f, Agreeing(p)', last + 1)
        PROVE  f[last + 1] = trust'[p].alpha - 1
    <3>1. PICK g : Sums(g, Agreeing(p)', last) /\ f[last + 1] = g[last] + Agreeing(p)'[last]
      BY <2>2, <2>4 DEF EndsWith
    <3>2. Sums(g, Agreeing(p), last)
      BY <1>3, <2>1, <3>1
    <3>3. g[last] = trust[p].alpha - 1
      BY <1>1, <3>2 DEF Accounted
    <3>4. trust[p].alpha \in Nat /\ Agreeing(p)'[last] \in Nat
          /\ trust'[p].alpha = trust[p].alpha + Agreeing(p)'[last]
      BY <1>1 DEF TypeOK, Count, Pays
    <3> QED
      BY <3>1, <3>3, <3>4
  <2>3. ASSUME NEW p \in Eligible, NEW f, Sums(f, Dissenting(p)', last + 1)
        PROVE  f[last + 1] = trust'[p].beta - 1
    <3>1. PICK g : Sums(g, Dissenting(p)', last) /\ f[last + 1] = g[last] + Dissenting(p)'[last]
      BY <2>3, <2>4 DEF EndsWith
    <3>2. Sums(g, Dissenting(p), last)
      BY <1>3, <2>1, <3>1
    <3>3. g[last] = trust[p].beta - 1
      BY <1>1, <3>2 DEF Accounted
    <3>4. trust[p].beta \in Nat /\ Dissenting(p)'[last] \in Nat
          /\ trust'[p].beta = trust[p].beta + Dissenting(p)'[last]
      BY <1>1 DEF TypeOK, Count, Pays
    <3> QED
      BY <3>1, <3>3, <3>4
  <2> QED
    BY <1>1, <2>2, <2>3 DEF Accounted
<1>6. Ranked'
  <2>1. /\ validators' = validators /\ strategy' = strategy
        /\ DOMAIN validators = 1..last + 1
        /\ \A i \in 1..last + 1 : validators[i] \in SUBSET Participant
    <3>1. Len(validators) = last + 1 /\ validators \in Seq(SUBSET Participant)
      BY SequenceTypes DEF FinalizeRound, TypeOK
    <3> QED
      BY <3>1, LenProperties, ElementOfSeq DEF FinalizeRound
  <2> SUFFICES ASSUME strategy = "trust_ranked", MinTrustPercent = 50,
                      NEW i \in 1..last + 1, i - 1 >= BootstrapRounds, NEW p \in validators[i],
                      NEW f, NEW h, Sums(f, Agreeing(p)', i - 1), Sums(h, Dissenting(p)', i - 1)
               PROVE  f[i - 1] >= h[i - 1]
    BY <2>1 DEF Ranked
  <2>2. i - 1 \in 0..last /\ p \in Participant
    BY <1>1, <2>1
  <2>3. Sums(f, Agreeing(p), i - 1) /\ Sums(h, Dissenting(p), i - 1)
    BY <1>3, <2>2
  <2> QED
    BY <2>1, <2>3 DEF Ranked
<1> QED
  BY <1>4, <1>5, <1>6

LEMMA BlameStep ==
    ASSUME TypeOK, NEW last, last = Finalized, NEW disagreed, FinalizeRound(disagreed),
           Suspected, Unblamed
    PROVE  Suspected' /\ Unblamed'
<1>1. /\ Extends(last, disagreed) /\ Pays(last) /\ last \in Nat /\ Finalized' = last + 1
      /\ DidFinalize = 0..last - 1 /\ DidFinalize' = 0..last
  BY FinalizeRoundEffect, FinalizePays, SequenceTypes DEF Extends, DidFinalize
<1>2. ASSUME NEW g \in 0..last, NEW p \in Participant,
             Generation(g)[p].state \in {"suspicious", "excluded"}
      PROVE  \E r \in 0..g - 1 : Disagreed(p, r)'
  <2>1. PICK r \in 0..g - 1 : Disagreed(p, r)
    BY <1>1, <1>2 DEF Suspected
  <2>2. r \in 0..last - 1
    BY <1>1
  <2> QED
    BY <1>1, <2>1, <2>2 DEF Extends
<1>3. ASSUME NEW g \in 0..last + 1, NEW p \in Participant,
             Generation(g)'[p].state \in {"suspicious", "excluded"}
      PROVE  \E r \in 0..g - 1 : Disagreed(p, r)'
  <2>1. CASE g \in 0..last
    <3>1. Generation(g)' = Generation(g)
      BY <1>1, <2>1 DEF Extends
    <3> QED
      BY <1>2, <1>3, <2>1, <3>1
  <2>2. CASE g = last + 1
    <3>1. Generation(last)[p].state \in ParticipantState
      <4>1. last \in 0..Finalized
        BY <1>1
      <4>2. Generation(last) \in [Participant -> Cell]
        BY <4>1, SequenceTypes
      <4> QED
        BY <4>2 DEF Cell
    <3>2. CASE Evidence(p, last, disagreed) = "severe"
      BY <1>1, <2>2, <3>2 DEF Extends
    <3>3. CASE Evidence(p, last, disagreed) # "severe"
      <4>1. Evidence(p, last, disagreed) \in {"positive", "neutral"}
        BY <3>3 DEF Evidence, Category
      <4>2. Generation(last)[p].state \in {"suspicious", "excluded"}
        BY <1>1, <1>3, <2>2, <3>1, <4>1 DEF Extends, Follows, ParticipantState
      <4>3. PICK r \in 0..last - 1 : Disagreed(p, r)'
        <5>1. last \in 0..last
          BY <1>1
        <5> QED
          BY <5>1, <1>2, <4>2, Zenon
      <4> QED
        BY <1>1, <2>2, <4>3
    <3> QED
      BY <3>2, <3>3
  <2> QED
    BY <1>1, <2>1, <2>2
<1>4. ASSUME NEW p \in Eligible
      PROVE  /\ trust'[p].alpha >= 1
             /\ (\A r \in 0..last : ~Disagreed(p, r)') => trust'[p].beta = 1
  <2>1. /\ trust[p].alpha \in Nat /\ trust[p].beta \in Nat
        /\ Agreeing(p)'[last] \in Nat /\ Dissenting(p)'[last] \in Nat
        /\ trust'[p].alpha = trust[p].alpha + Agreeing(p)'[last]
        /\ trust'[p].beta = trust[p].beta + Dissenting(p)'[last]
    BY <1>1 DEF TypeOK, Count, Pays
  <2>2. ASSUME \A r \in 0..last : ~Disagreed(p, r)' PROVE trust'[p].beta = 1
    <3>1. \A r \in 0..last - 1 : ~Disagreed(p, r)
      BY <1>1, <2>2 DEF Extends
    <3>2. trust[p].beta = 1
      BY <1>1, <3>1 DEF Unblamed
    <3>3. Dissenting(p)'[last] = 0
      BY <1>1, <2>2 DEF Pays
    <3> QED
      BY <2>1, <3>2, <3>3
  <2> QED
    BY <2>1, <2>2 DEF Unblamed
<1> QED
  BY <1>1, <1>3, <1>4 DEF Suspected, Unblamed

\* The votes of finalized rounds as long as no round is finalized.
LEMMA SameVotes ==
    ASSUME TypeOK, OpenRound \/ UNCHANGED <<validators, dissent>>
    PROVE  /\ Finalized' = Finalized /\ DidFinalize' = DidFinalize
           /\ \A p \in Participant :
                 Agreeing(p)' = Agreeing(p) /\ Dissenting(p)' = Dissenting(p)
           /\ \A p \in Participant, r \in DidFinalize : Disagreed(p, r)' <=> Disagreed(p, r)
<1>1. dissent' = dissent
  BY DEF OpenRound
<1>2. Finalized' = Finalized /\ DidFinalize' = DidFinalize /\ Finalized \in Nat
  BY <1>1, SequenceTypes DEF Finalized, DidFinalize
<1>3. ASSUME NEW r \in DidFinalize PROVE validators'[r + 1] = validators[r + 1]
  <2>1. CASE OpenRound
    <3>1. /\ validators \in Seq(SUBSET Participant) /\ Len(validators) = Finalized
          /\ validators' = Append(validators, SelectedValidators)
      BY <2>1, SequenceTypes DEF OpenRound, TypeOK
    <3>2. r + 1 \in 1..Len(validators)
      BY <1>2, <3>1 DEF DidFinalize
    <3> QED
      BY <3>1, <3>2, SelectedType, AppendProperties
  <2>2. CASE UNCHANGED <<validators, dissent>>
    BY <2>2
  <2> QED
    BY <2>1, <2>2
<1>4. \A r \in DidFinalize : SelectedIn(r)' = SelectedIn(r) /\ DissentIn(r)' = DissentIn(r)
  BY <1>1, <1>3 DEF SelectedIn, DissentIn
<1>5. ASSUME NEW p \in Participant
      PROVE  Agreeing(p)' = Agreeing(p) /\ Dissenting(p)' = Dissenting(p)
  BY <1>2, <1>4 DEF Agreeing, Dissenting, Candidates
<1> QED
  BY <1>2, <1>4, <1>5 DEF Disagreed

LEMMA SameSums ==
    ASSUME TypeOK, OpenRound \/ UNCHANGED <<validators, dissent>>,
           UNCHANGED <<strategy, trust, snapshots>>,
           Summable, Accounted, Ranked, Suspected, Unblamed
    PROVE  Summable' /\ Accounted' /\ Ranked' /\ Suspected' /\ Unblamed'
<1>1. /\ Finalized' = Finalized /\ DidFinalize' = DidFinalize /\ Finalized \in Nat
      /\ \A p \in Participant : Agreeing(p)' = Agreeing(p) /\ Dissenting(p)' = Dissenting(p)
      /\ \A p \in Participant, r \in DidFinalize : Disagreed(p, r)' <=> Disagreed(p, r)
  BY SameVotes, SequenceTypes
<1>2. \A g : Generation(g)' = Generation(g)
  BY DEF Generation
<1>3. Summable' /\ Accounted'
  BY <1>1 DEF Summable, Accounted
<1>4. Unblamed'
  BY <1>1 DEF Unblamed
<1>5. Suspected'
  <2> SUFFICES ASSUME NEW g \in 0..Finalized, NEW p \in Participant,
                      Generation(g)[p].state \in {"suspicious", "excluded"}
               PROVE  \E r \in 0..g - 1 : Disagreed(p, r)'
    BY <1>1, <1>2 DEF Suspected
  <2>1. PICK r \in 0..g - 1 : Disagreed(p, r)
    BY DEF Suspected
  <2>2. r \in DidFinalize
    BY <1>1 DEF DidFinalize
  <2> QED
    BY <1>1, <2>1, <2>2
<1>6. Ranked'
  <2>1. CASE OpenRound
    <3>1. /\ validators \in Seq(SUBSET Participant) /\ Len(validators) = Finalized
          /\ SelectedValidators \in SUBSET Participant
          /\ validators' = Append(validators, SelectedValidators)
      BY <2>1, SequenceTypes, SelectedType DEF OpenRound, TypeOK
    <3>2. /\ validators' \in Seq(SUBSET Participant)
          /\ Len(validators') = Finalized + 1
          /\ \A i \in 1..Finalized : validators'[i] = validators[i]
          /\ validators'[Finalized + 1] = SelectedValidators
      BY <3>1, AppendProperties
    <3>3. /\ DOMAIN validators = 1..Finalized /\ DOMAIN validators' = 1..Finalized + 1
          /\ \A i \in 1..Finalized + 1 : validators'[i] \in SUBSET Participant
      BY <3>1, <3>2, LenProperties, ElementOfSeq
    <3> SUFFICES ASSUME strategy = "trust_ranked", MinTrustPercent = 50,
                        NEW i \in 1..Finalized + 1, i - 1 >= BootstrapRounds,
                        NEW p \in validators'[i], NEW f, NEW h,
                        Sums(f, Agreeing(p), i - 1), Sums(h, Dissenting(p), i - 1)
                 PROVE  f[i - 1] >= h[i - 1]
      <4>1. \A i \in 1..Finalized + 1 : \A p \in validators'[i] :
                Agreeing(p)' = Agreeing(p) /\ Dissenting(p)' = Dissenting(p)
        BY <1>1, <3>3
      <4> QED
        BY <3>3, <4>1 DEF Ranked
    <3>4. CASE i \in 1..Finalized
      BY <3>2, <3>3, <3>4 DEF Ranked
    <3>5. CASE i = Finalized + 1
      <4>1. i - 1 = Finalized /\ p \in SelectedValidators
        BY <1>1, <3>2, <3>5
      <4>2. p \in RankedPool
        BY <4>1 DEF SelectedValidators, Bootstrapping, MostTrusted
      <4>3. /\ p \in Eligible /\ trust[p].alpha \in Nat /\ trust[p].beta \in Nat
            /\ 100 * trust[p].alpha >= 50 * (trust[p].alpha + trust[p].beta)
        BY <4>2 DEF RankedPool, Meets, TypeOK, Count
      <4>4. f[i - 1] = trust[p].alpha - 1 /\ h[i - 1] = trust[p].beta - 1
        BY <4>1, <4>3 DEF Accounted
      <4> QED
        BY <4>3, <4>4
    <3> QED
      BY <1>1, <3>4, <3>5
  <2>2. CASE UNCHANGED <<validators, dissent>>
    <3>1. \A i \in DOMAIN validators : validators[i] \in SUBSET Participant
      <4>1. validators \in Seq(SUBSET Participant)
        BY DEF TypeOK
      <4> QED
        BY <4>1, LenProperties, ElementOfSeq
    <3>2. /\ DOMAIN validators' = DOMAIN validators /\ validators' = validators
          /\ strategy' = strategy
      BY <2>2
    <3>3. ASSUME NEW i \in DOMAIN validators, NEW p \in validators[i], NEW f, NEW h
          PROVE  /\ Sums(f, Agreeing(p)', i - 1) <=> Sums(f, Agreeing(p), i - 1)
                 /\ Sums(h, Dissenting(p)', i - 1) <=> Sums(h, Dissenting(p), i - 1)
      <4>1. p \in Participant
        BY <3>1
      <4>2. Agreeing(p)' = Agreeing(p) /\ Dissenting(p)' = Dissenting(p)
        BY <1>1, <4>1
      <4> QED
        BY <4>2
    <3> QED
      BY <3>2, <3>3 DEF Ranked
  <2> QED
    BY <2>1, <2>2
<1> QED
  BY <1>3, <1>4, <1>5, <1>6

-----------------------------------------------------------------------------
\* Selection gives up only when it must.

\* Who never disagreed is in good standing and has at least even trust.
NeverDisagreed == {p \in Eligible : \A r \in DidFinalize : ~Disagreed(p, r)}

LEMMA GoodStanding ==
    ASSUME TypeOK, Suspected, NEW p \in Participant, \A r \in DidFinalize : ~Disagreed(p, r)
    PROVE  Generation(Finalized)[p].state \in {"trusted", "observation"}
<1>1. Finalized \in 0..Finalized /\ Generation(Finalized) \in [Participant -> Cell]
  BY SequenceTypes
<1>2. Generation(Finalized)[p].state \in ParticipantState
  BY <1>1 DEF Cell
<1>3. Generation(Finalized)[p].state \notin {"suspicious", "excluded"}
  BY <1>1 DEF Suspected, DidFinalize
<1> QED
  BY <1>2, <1>3 DEF ParticipantState

LEMMA EvenTrust ==
    ASSUME NEW a \in Nat, a >= 1, NEW m \in 0..50
    PROVE  100 * a >= m * (a + 1)
<1>1. (50 - m) * (a + 1) >= 0
  OBVIOUS
<1>2. (50 - m) * (a + 1) = 50 * (a + 1) - m * (a + 1)
  OBVIOUS
<1>3. m * (a + 1) \in Int
  OBVIOUS
<1> QED
  BY <1>1, <1>2, <1>3

\* The order in which ca_state ranks a pool puts nobody before itself.
LEMMA NobodyBeforeItself ==
    ASSUME TypeOK, NEW p \in Participant
    PROVE  ~StateBefore(p, p)
<1>1. Priority(p) \in {0, 1, 2}
  BY DEF Priority
<1>2. Score(p).alpha \in Nat /\ Score(p).beta \in Nat
  BY DEF Score, Prior, TypeOK, Count
<1>3. Score(p).alpha * (Score(p).alpha + Score(p).beta) \in Nat
  BY <1>2
<1>4. p \in Nat
  BY GovernanceAssumption
<1> QED
  BY <1>1, <1>3, <1>4 DEF StateBefore, TrustedBefore, ScoresHigher

\* Ranking a whole pool leaves nobody out.
LEMMA EveryoneIsForemost ==
    ASSUME TypeOK, NEW pool \in SUBSET Participant
    PROVE  Foremost(Cardinality(pool), pool) = pool
<1>1. ASSUME NEW p \in pool PROVE Cardinality({q \in pool : StateBefore(q, p)}) < Cardinality(pool)
  <2>1. IsFiniteSet(pool)
    BY GovernanceAssumption, FS_Subset
  <2>2. {q \in pool : StateBefore(q, p)} \subseteq pool
    OBVIOUS
  <2>3. {q \in pool : StateBefore(q, p)} # pool
    BY NobodyBeforeItself
  <2>4. IsFiniteSet({q \in pool : StateBefore(q, p)})
    BY <2>1, <2>2, FS_Subset
  <2>5. /\ Cardinality(pool) \in Nat /\ Cardinality({q \in pool : StateBefore(q, p)}) \in Nat
        /\ Cardinality({q \in pool : StateBefore(q, p)}) <= Cardinality(pool)
        /\ Cardinality({q \in pool : StateBefore(q, p)}) # Cardinality(pool)
    BY <2>1, <2>2, <2>3, <2>4, FS_Subset, FS_CardinalityType
  <2> QED
    BY <2>5
<1> QED
  BY <1>1 DEF Foremost

\* The proportions under which an experiment is set up to run: every participant may
\* validate, as many are selected as were configured, and even trust suffices.
Proportioned ==
    /\ Eligible = Participant
    /\ TargetCount = Cardinality(Validators)
    /\ MinTrustPercent <= 50

LEMMA RaisesForAReason ==
    ASSUME TypeOK, Suspected, Unblamed, Proportioned, ~Selectable
    PROVE  \/ \E p \in Contributors, r \in DidFinalize : Disagreed(p, r)
           \/ Cardinality(NeverDisagreed) < Cardinality(Validators)
<1> SUFFICES ASSUME \A p \in Contributors, r \in DidFinalize : ~Disagreed(p, r),
                    ~(Cardinality(NeverDisagreed) < Cardinality(Validators))
             PROVE  Selectable
  OBVIOUS
<1>1. /\ IsFiniteSet(Eligible) /\ IsFiniteSet(Validators) /\ IsFiniteSet(NeverDisagreed)
      /\ Cardinality(Validators) \in Nat /\ Cardinality(NeverDisagreed) \in Nat
  <2>1. /\ Eligible \subseteq Participant /\ Validators \subseteq Participant
        /\ NeverDisagreed \subseteq Participant
    BY GovernanceAssumption DEF NeverDisagreed
  <2> QED
    BY <2>1, GovernanceAssumption, FS_Subset, FS_CardinalityType
<1>2. \A pool : pool \subseteq Eligible /\ NeverDisagreed \subseteq pool =>
                   Cardinality(pool) >= Cardinality(Validators)
  <2> SUFFICES ASSUME NEW pool, pool \subseteq Eligible, NeverDisagreed \subseteq pool
               PROVE  Cardinality(pool) >= Cardinality(Validators)
    OBVIOUS
  <2>1. IsFiniteSet(pool)
    BY <1>1, FS_Subset
  <2>2. Cardinality(NeverDisagreed) <= Cardinality(pool) /\ Cardinality(pool) \in Nat
    BY <2>1, FS_Subset, FS_CardinalityType
  <2> QED
    BY <1>1, <2>2
<1>3. RankedSelectable
  <2>1. CASE Bootstrapping
    BY <2>1 DEF RankedSelectable, Proportioned
  <2>2. CASE ~Bootstrapping
    <3>1. ScoreDomain = Eligible
      BY DEF ScoreDomain, Proportioned
    <3>2. RankedPool \subseteq Eligible
      BY DEF RankedPool
    <3>3. ASSUME NEW p \in NeverDisagreed PROVE p \in RankedPool
      <4>1. /\ p \in Eligible /\ trust[p].alpha \in Nat /\ trust[p].alpha >= 1
            /\ trust[p].beta = 1
        BY DEF NeverDisagreed, Unblamed, TypeOK, Count
      <4>2. MinTrustPercent \in 0..50
        BY GovernanceAssumption DEF Proportioned
      <4>3. 100 * trust[p].alpha >= MinTrustPercent * (trust[p].alpha + 1)
        BY <4>1, <4>2, EvenTrust
      <4> QED
        BY <4>1, <4>3 DEF RankedPool, Meets
    <3>4. Cardinality(RankedPool) >= TargetCount
      BY <1>2, <3>2, <3>3 DEF Proportioned
    <3> QED
      BY <2>2, <3>1, <3>4 DEF RankedSelectable
  <2> QED
    BY <2>1, <2>2
<1>4. StateSelectable
  <2>1. ContributorPool = Contributors
    <3>1. ContributorPool \subseteq Contributors
      BY DEF ContributorPool, InState
    <3>2. ASSUME NEW p \in Contributors
          PROVE  Generation(Finalized)[p].state \in {"trusted", "observation"}
      <4>1. p \in Participant
        BY GovernanceAssumption
      <4> QED
        BY <4>1, GoodStanding
    <3> QED
      BY <3>1, <3>2 DEF ContributorPool, InState
  <2>2. Contributors \subseteq Foremost(Cardinality(Contributors), ContributorPool)
    BY <2>1, EveryoneIsForemost, GovernanceAssumption
  <2>3. Cardinality(ContributorPool) >= Cardinality(Contributors)
    <3>1. IsFiniteSet(Contributors)
      BY GovernanceAssumption, FS_Subset
    <3>2. Cardinality(Contributors) \in Nat
      BY <3>1, FS_CardinalityType
    <3> QED
      BY <2>1, <3>2
  <2>4. Cardinality(ValidatorPool) >= Cardinality(Validators)
    <3>1. ValidatorPool \subseteq Eligible
      BY DEF ValidatorPool, InState
    <3>2. ASSUME NEW p \in NeverDisagreed PROVE p \in ValidatorPool
      <4>1. p \in Eligible /\ p \in Participant /\ \A r \in DidFinalize : ~Disagreed(p, r)
        BY GovernanceAssumption DEF NeverDisagreed
      <4>2. Generation(Finalized)[p].state \in {"trusted", "observation"}
        BY <4>1, GoodStanding
      <4> QED
        BY <4>1, <4>2 DEF ValidatorPool, InState
    <3> QED
      BY <1>2, <3>1, <3>2
  <2> QED
    BY <2>2, <2>3, <2>4 DEF StateSelectable
<1>5. strategy \in {"static", "trust_ranked", "ca_state"}
  BY GovernanceAssumption DEF TypeOK
<1> QED
  BY <1>3, <1>4, <1>5 DEF Selectable

-----------------------------------------------------------------------------
\* The theorems.

LEMMA InitIsGood == Init => IInv
<1> SUFFICES ASSUME Init PROVE IInv
  OBVIOUS
<1>1. /\ phase = "closed" /\ validators = << >> /\ dissent = << >>
      /\ snapshots = <<[p \in Participant |-> FreshCell]>>
      /\ trust = [p \in Eligible |-> Prior] /\ strategy \in Strategies
  BY DEF Init
<1>2. [p \in Participant |-> FreshCell] \in [Participant -> Cell]
  BY DEF FreshCell, Cell, ParticipantState, RoundOrNone, NoRound
<1>3. Finalized = 0 /\ DidFinalize = {} /\ DOMAIN validators = {} /\ DOMAIN dissent = {}
  BY <1>1 DEF Finalized, DidFinalize
<1>4. TypeOK
  <2>1. snapshots \in Seq([Participant -> Cell]) /\ Len(snapshots) = 1
    BY <1>1, <1>2
  <2>2. trust \in [Eligible -> Count]
    BY <1>1 DEF Prior, Count
  <2>3. validators \in Seq(SUBSET Participant) /\ dissent \in Seq(Dissent) /\ Len(validators) = 0
    BY <1>1, EmptySeq
  <2> QED
    BY <1>1, <1>3, <2>1, <2>2, <2>3 DEF TypeOK
<1>5. \A g \in 0..Finalized, p \in Participant : g = 0 /\ Generation(g)[p] = FreshCell
  BY <1>1, <1>3 DEF Generation
<1>6. Streaks /\ HonestNeverSuspected /\ TrustIsEarned
  BY <1>5 DEF Streaks, HonestNeverSuspected, TrustIsEarned, FreshCell
<1>7. HonestAgree /\ Quarantined /\ Found /\ SevereEscalates /\ DisagreementEndsValidation
  BY <1>3 DEF HonestAgree, Quarantined, Found, SevereEscalates, DisagreementEndsValidation
<1> QED
  BY <1>4, <1>6, <1>7 DEF IInv

LEMMA StepIsGood == IInv /\ [Next]_vars => IInv'
<1> SUFFICES ASSUME IInv, [Next]_vars PROVE IInv'
  OBVIOUS
<1>1. CASE OpenRound
  BY <1>1, OpenStep DEF IInv, History
<1>2. CASE SelectionRaises
  BY <1>2, IdleStep DEF SelectionRaises
<1>3. ASSUME NEW disagreed, FinalizeRound(disagreed) PROVE IInv'
  <2>1. PICK last : last = Finalized
    OBVIOUS
  <2>2. TypeOK'
    BY <1>3, <2>1, FinalizeRoundEffect DEF IInv
  <2>3. HonestAgree' /\ Streaks' /\ HonestNeverSuspected'
    BY <1>3, <2>1, HistoryStep DEF IInv
  <2>4. TrustIsEarned'
    BY <1>3, <2>1, <2>3, TrustStep DEF IInv
  <2>5. Quarantined' /\ Found' /\ SevereEscalates'
    BY <1>3, <2>1, DissentStep DEF IInv
  <2>6. DisagreementEndsValidation'
    BY <1>3, <2>1, FinalizeKeepsSelection DEF IInv
  <2> QED
    BY <2>2, <2>3, <2>4, <2>5, <2>6 DEF IInv
<1>4. CASE UNCHANGED vars
  BY <1>4, IdleStep DEF vars
<1> QED
  BY <1>1, <1>2, <1>3, <1>4 DEF Next

\* The inductive invariant: counters of positive evidence are streaks of agreement, a
\* disagreement is on record as an unresolved finding, and without recovery nobody comes
\* back from one.
THEOREM GovernanceInvariance == Spec => []IInv
  BY InitIsGood, StepIsGood, PTL DEF Spec

\* Histories, trust and cells keep their types, and a generation of cells follows every
\* finalized round.
THEOREM GovernanceTypeCorrect == Spec => []TypeOK
<1>1. IInv => TypeOK
  BY DEF IInv
<1> QED
  BY <1>1, GovernanceInvariance, PTL

\* A trusted participant agreed, as a selected validator, in as many rounds running as
\* promotion asks, and has not disagreed since: brbfl/ca/model.py and brbfl/ca/runtime.py.
THEOREM TrustIsByVotes == Spec => []TrustIsEarned
<1>1. IInv => TrustIsEarned
  BY DEF IInv
<1> QED
  BY <1>1, GovernanceInvariance, PTL

\* Who agrees throughout is never suspected, whoever it votes with; without recovery who
\* disagrees is suspicious, then excluded for good after a probation of at most one
\* round, and under ca_state never a validator again.
THEOREM OnlyDissentersArePunished == Spec => []OnlyDissentIsPunished
<1>1. IInv => OnlyDissentIsPunished
  BY DEF IInv, OnlyDissentIsPunished
<1> QED
  BY <1>1, GovernanceInvariance, PTL

\* Trust accounts for every vote, and nobody is ranked or suspected but by its votes.
Votes ==
    /\ Summable
    /\ Accounted
    /\ Ranked
    /\ Suspected
    /\ Unblamed

LEMMA InitialVotes == Init => Votes
<1> SUFFICES ASSUME Init PROVE Votes
  OBVIOUS
<1>1. /\ validators = << >> /\ dissent = << >>
      /\ snapshots = <<[p \in Participant |-> FreshCell]>>
      /\ trust = [p \in Eligible |-> Prior]
  BY DEF Init
<1>2. Finalized = 0 /\ DidFinalize = {} /\ DOMAIN validators = {}
  BY <1>1 DEF Finalized, DidFinalize
<1>3. Summable
  BY <1>2, SumOfNone DEF Summable
<1>4. Accounted
  BY <1>1, <1>2, SumOfNone DEF Accounted, Prior
<1>5. Ranked
  BY <1>2 DEF Ranked
<1>6. Suspected
  <2>1. \A g \in 0..Finalized, p \in Participant : Generation(g)[p] = FreshCell
    BY <1>1, <1>2 DEF Generation
  <2> QED
    BY <2>1 DEF Suspected, FreshCell
<1>7. Unblamed
  BY <1>1 DEF Unblamed, Prior
<1> QED
  BY <1>3, <1>4, <1>5, <1>6, <1>7 DEF Votes

LEMMA VotesStep == TypeOK /\ Votes /\ [Next]_vars => Votes'
<1> SUFFICES ASSUME TypeOK, Votes, [Next]_vars PROVE Votes'
  OBVIOUS
<1>1. Summable /\ Accounted /\ Ranked /\ Suspected /\ Unblamed
  BY DEF Votes
<1>2. CASE OpenRound
  <2>1. UNCHANGED <<strategy, trust, snapshots>>
    BY <1>2 DEF OpenRound
  <2> QED
    BY <1>1, <1>2, <2>1, SameSums DEF Votes
<1>3. CASE SelectionRaises \/ UNCHANGED vars
  <2>1. UNCHANGED <<validators, dissent>> /\ UNCHANGED <<strategy, trust, snapshots>>
    BY <1>3 DEF SelectionRaises, vars
  <2> QED
    BY <1>1, <2>1, SameSums DEF Votes
<1>4. ASSUME NEW disagreed, FinalizeRound(disagreed) PROVE Votes'
  <2>1. PICK last : last = Finalized
    OBVIOUS
  <2>2. Summable' /\ Accounted' /\ Ranked'
    BY <1>1, <1>4, <2>1, SumsStep
  <2>3. Suspected' /\ Unblamed'
    BY <1>1, <1>4, <2>1, BlameStep
  <2> QED
    BY <2>2, <2>3 DEF Votes
<1> QED
  BY <1>2, <1>3, <1>4 DEF Next

LEMMA VotesInvariance == Spec => []Votes
<1>1. IInv => TypeOK
  BY DEF IInv
<1> QED
  BY <1>1, InitialVotes, VotesStep, GovernanceInvariance, PTL DEF Spec

\* Under trust_ranked with minimum trust one half, who disagreed more often than it
\* agreed in all rounds finalized before a round is no validator of it, for every number
\* of participants, candidates and rounds (roles.py:205-210).
THEOREM MajorityDissentersAreOut == Spec => []MajorityDissenterOut
<1>1. TypeOK /\ Votes => MajorityDissenterOut
  <2> SUFFICES ASSUME TypeOK, Votes, strategy = "trust_ranked", MinTrustPercent = 50,
                      NEW i \in DOMAIN validators, i - 1 >= BootstrapRounds,
                      NEW p \in validators[i]
               PROVE  Agreements(p, i - 1) >= Disagreements(p, i - 1)
    BY DEF MajorityDissenterOut
  <2>1. /\ validators \in Seq(SUBSET Participant) /\ Finalized \in Nat
        /\ Len(validators) <= Finalized + 1 /\ Len(validators) \in Nat
    BY SequenceTypes DEF TypeOK
  <2>2. i - 1 \in 0..Finalized /\ i - 1 \in Nat /\ p \in Participant
    BY <2>1, LenProperties, ElementOfSeq
  <2>3. (\E f : Sums(f, Agreeing(p), i - 1)) /\ (\E h : Sums(h, Dissenting(p), i - 1))
    BY <2>2 DEF Votes, Summable
  <2>4. PICK f : Sums(f, Agreeing(p), i - 1) /\ Agreements(p, i - 1) = f[i - 1]
    BY <2>2, <2>3, SumIsASum DEF Agreements
  <2>5. PICK h : Sums(h, Dissenting(p), i - 1) /\ Disagreements(p, i - 1) = h[i - 1]
    BY <2>2, <2>3, SumIsASum DEF Disagreements
  <2> QED
    BY <2>4, <2>5 DEF Votes, Ranked
<1> QED
  BY <1>1, VotesInvariance, GovernanceTypeCorrect, PTL

\* Role selection gives an experiment up only when a contributor disagreed as a validator
\* or fewer participants never disagreed than validators are needed, provided everyone
\* may validate, the numbers configured agree and even trust suffices (roles.py:180-210,
\* 320-360).  A smaller eligible pool makes trust_ranked raise whatever the votes.
THEOREM SelectionFollowsVotes ==
    ASSUME Proportioned
    PROVE  Spec => []SelectionIsDeserved
<1>1. Init => FailureIsDeserved
  BY DEF Init, FailureIsDeserved
<1>2. TypeOK /\ Votes /\ FailureIsDeserved /\ [Next]_vars => FailureIsDeserved'
  <2> SUFFICES ASSUME TypeOK, Votes, FailureIsDeserved, [Next]_vars, phase' = "failed"
               PROVE  \/ (\E p \in Contributors, r \in DidFinalize : Disagreed(p, r))'
                      \/ (Cardinality(NeverDisagreed) < Cardinality(Validators))'
    BY DEF FailureIsDeserved, NeverDisagreed
  <2>1. SelectionRaises \/ UNCHANGED vars
    BY DEF Next, OpenRound, FinalizeRound
  <2>2. /\ \/ \E p \in Contributors, r \in DidFinalize : Disagreed(p, r)
           \/ Cardinality(NeverDisagreed) < Cardinality(Validators)
    <3>1. CASE SelectionRaises
      BY <3>1, RaisesForAReason DEF SelectionRaises, Votes
    <3>2. CASE UNCHANGED vars
      BY <3>2 DEF vars, FailureIsDeserved, NeverDisagreed
    <3> QED
      BY <2>1, <3>1, <3>2
  <2>3. UNCHANGED <<validators, dissent>>
    BY <2>1 DEF SelectionRaises, vars
  <2>4. DidFinalize' = DidFinalize /\ \A p, r : Disagreed(p, r)' <=> Disagreed(p, r)
    BY <2>3 DEF DidFinalize, Finalized, Disagreed, SelectedIn, DissentIn
  <2>5. NeverDisagreed' = NeverDisagreed
    BY <2>4 DEF NeverDisagreed
  <2> QED
    BY <2>2, <2>4, <2>5
<1>3. MajorityDissenterOut /\ FailureIsDeserved => SelectionIsDeserved
  BY DEF SelectionIsDeserved
<1> QED
  BY <1>1, <1>2, <1>3, VotesInvariance, GovernanceTypeCorrect, MajorityDissentersAreOut, PTL
     DEF Spec

-----------------------------------------------------------------------------
\* What the comparators of roles read: the first generation is fresh, each later one
\* follows from the votes of its round, the first validators are those configured, and
\* later ones come from the pool of their round.

\* The transitions that the votes of a round can cause.
Answers(cell, e, next) ==
    /\ cell.state = "observation" =>
          \/ e = "severe" /\ next.state = "suspicious"
          \/ e = "positive" /\ next.state = "trusted"
          \/ e # "severe" /\ next.state = "observation"
    /\ cell.state = "trusted" => next.state = IF e = "severe" THEN SevereTrustedTarget ELSE "trusted"
    /\ ~RecoveryEnabled =>
          /\ cell.state = "suspicious" => next.state \in {"suspicious", "excluded"}
          /\ cell.state = "excluded" => next.state = "excluded"

Answered ==
    /\ \A p \in Participant : Generation(0)[p].state = "observation"
    /\ \A g \in DidFinalize, p \in Participant :
          Answers(Generation(g)[p], Category(p, SelectedIn(g), DissentIn(g)), Generation(g + 1)[p])

FirstConfigured == Len(validators) > 0 => SelectedIn(0) = Validators

FromPool ==
    strategy = "ca_state" /\ BootstrapRounds = 1 =>
        \A r \in 1..Len(validators) - 1 : \A p \in SelectedIn(r) :
            Generation(r)[p].state \in {"trusted", "observation"}

LEMMA EvolvedAnswers ==
    ASSUME NEW c \in [Participant -> Cell], NEW p \in Participant,
           NEW e \in {"positive", "neutral", "severe"}, NEW t, NEW r
    PROVE  Answers(c[p], e, Evolved(c, p, e, t, r))
<1> DEFINE next == NextState(c, p, e, t)
<1>1. c[p].state \in ParticipantState
  BY DEF Cell
<1>2. c[p].state = "observation" =>
          \/ e = "severe" /\ next = "suspicious"
          \/ e = "positive" /\ next = "trusted"
          \/ e # "severe" /\ next = "observation"
  BY <1>1 DEF NextState, Promoted, ParticipantState
<1>3. c[p].state = "trusted" => next = IF e = "severe" THEN SevereTrustedTarget ELSE "trusted"
  BY <1>1 DEF NextState, ParticipantState
<1>4. ~RecoveryEnabled =>
          /\ c[p].state = "suspicious" => next \in {"suspicious", "excluded"}
          /\ c[p].state = "excluded" => next = "excluded"
  BY <1>1 DEF NextState, Recovered, ParticipantState
<1> HIDE DEF next
<1>5. Evolved(c, p, e, t, r).state = next
  BY EvolvedFields DEF next
<1> QED
  BY <1>2, <1>3, <1>4, <1>5 DEF Answers

\* A round that is finalized adds a generation that answers its votes.
LEMMA FinalizeAnswers ==
    ASSUME TypeOK, NEW last, last = Finalized, NEW disagreed, FinalizeRound(disagreed)
    PROVE  /\ Len(validators) = last + 1 /\ validators' = validators /\ strategy' = strategy
           /\ Finalized' = last + 1 /\ last \in Nat
           /\ \A r : r \in 0..last - 1 => DissentIn(r)' = DissentIn(r)
           /\ DissentIn(last)' = disagreed
           /\ \A g : g \in 0..last => Generation(g)' = Generation(g)
           /\ \A p \in Participant :
                 Answers(Generation(last)[p], Evidence(p, last, disagreed), Generation(last + 1)'[p])
<1>1. /\ dissent \in Seq(Dissent) /\ snapshots \in Seq([Participant -> Cell])
      /\ last \in Nat /\ Len(dissent) = last /\ Len(snapshots) = last + 1
      /\ Len(validators) = last + 1 /\ Generation(last) \in [Participant -> Cell]
  BY SequenceTypes DEF TypeOK, FinalizeRound, Finalized
<1>2. /\ validators' = validators /\ strategy' = strategy
      /\ dissent' = Append(dissent, disagreed)
  BY DEF FinalizeRound
<1>3. SelectedIn(last) \in SUBSET Participant /\ disagreed \in [SelectedIn(last) -> 0..Candidates]
  <2>1. validators \in Seq(SUBSET Participant) /\ last + 1 \in 1..Len(validators)
    BY <1>1 DEF TypeOK
  <2>2. validators[last + 1] \in SUBSET Participant
    BY <2>1, ElementOfSeq
  <2> QED
    BY <2>2 DEF SelectedIn, FinalizeRound
<1>4. disagreed \in Dissent
  BY <1>3 DEF Dissent
<1>5. /\ Len(dissent') = last + 1 /\ dissent'[last + 1] = disagreed
      /\ \A i \in 1..last : dissent'[i] = dissent[i]
  BY <1>1, <1>2, <1>4, AppendProperties
<1>6. /\ Finalized' = last + 1 /\ DissentIn(last)' = disagreed
      /\ \A r : r \in 0..last - 1 => DissentIn(r)' = DissentIn(r)
  <2>1. ASSUME NEW r \in 0..last - 1 PROVE dissent'[r + 1] = dissent[r + 1]
    BY <1>1, <1>5
  <2> QED
    BY <1>5, <2>1 DEF Finalized, DissentIn
<1> DEFINE scored == Counted(SelectedIn(last), disagreed)
           stepped == [p \in Participant |->
                         Evolved(Generation(last), p, Category(p, SelectedIn(last), disagreed),
                                 IF p \in Eligible THEN scored[p] ELSE Prior, last)]
<1>7. snapshots' = Append(snapshots, stepped)
  BY DEF FinalizeRound
<1>8. ASSUME NEW p \in Participant
      PROVE  /\ stepped[p] \in Cell
             /\ Answers(Generation(last)[p], Evidence(p, last, disagreed), stepped[p])
  <2> DEFINE t == IF p \in Eligible THEN scored[p] ELSE Prior
             e == Evidence(p, last, disagreed)
  <2>1. stepped[p] = Evolved(Generation(last), p, e, t, last)
    BY DEF Evidence
  <2>2. e \in {"positive", "neutral", "severe"}
    BY DEF Evidence, Category
  <2> HIDE DEF t, e, stepped
  <2>3. Evolved(Generation(last), p, e, t, last) \in Cell
    BY <1>1, <2>2, EvolvedType
  <2>4. Answers(Generation(last)[p], e, Evolved(Generation(last), p, e, t, last))
    BY <1>1, <2>2, EvolvedAnswers
  <2> QED
    BY <2>1, <2>3, <2>4 DEF e
<1>9. stepped \in [Participant -> Cell]
  BY <1>8
<1> HIDE DEF stepped
<1>10. /\ \A i \in 1..last + 1 : snapshots'[i] = snapshots[i]
       /\ snapshots'[last + 1 + 1] = stepped
  BY <1>1, <1>7, <1>9, AppendProperties
<1>11. Generation(last + 1)' = stepped /\ \A g : g \in 0..last => Generation(g)' = Generation(g)
  <2>1. ASSUME NEW g \in 0..last PROVE snapshots'[g + 1] = snapshots[g + 1]
    BY <1>1, <1>10
  <2> QED
    BY <1>10, <2>1 DEF Generation
<1> QED
  BY <1>1, <1>2, <1>6, <1>8, <1>11

\* A round that is opened adds validators from its pool.
LEMMA OpenAdds ==
    ASSUME TypeOK, OpenRound
    PROVE  /\ Finalized \in Nat /\ Len(validators) = Finalized /\ Len(validators') = Finalized + 1
           /\ \A r : r \in 0..Finalized - 1 => SelectedIn(r)' = SelectedIn(r)
           /\ SelectedIn(Finalized)' = SelectedValidators
<1>1. /\ validators \in Seq(SUBSET Participant) /\ Len(validators) = Finalized
      /\ Finalized \in Nat /\ SelectedValidators \in SUBSET Participant
      /\ validators' = Append(validators, SelectedValidators) /\ UNCHANGED <<dissent, snapshots>>
  BY SequenceTypes, SelectedType DEF TypeOK, OpenRound
<1>2. /\ Len(validators') = Finalized + 1 /\ validators'[Finalized + 1] = SelectedValidators
      /\ \A i \in 1..Finalized : validators'[i] = validators[i]
  BY <1>1, AppendProperties
<1>3. ASSUME NEW r \in 0..Finalized - 1 PROVE validators'[r + 1] = validators[r + 1]
  BY <1>1, <1>2
<1>4. SelectedIn(Finalized)' = validators'[Finalized + 1]
  BY <1>1 DEF SelectedIn, Finalized
<1> QED
  BY <1>1, <1>2, <1>3, <1>4 DEF SelectedIn

RoleHistory == Answered /\ FirstConfigured /\ FromPool

LEMMA HistoryStart == Init => RoleHistory
<1> SUFFICES ASSUME Init PROVE RoleHistory
  OBVIOUS
<1>1. /\ validators = << >> /\ dissent = << >>
      /\ snapshots = <<[p \in Participant |-> FreshCell]>>
  BY DEF Init
<1>2. Finalized = 0 /\ DidFinalize = {} /\ Len(validators) = 0
  BY <1>1 DEF Finalized, DidFinalize
<1>3. \A p \in Participant : Generation(0)[p].state = "observation"
  BY <1>1 DEF Generation, FreshCell
<1> QED
  BY <1>2, <1>3 DEF RoleHistory, Answered, FirstConfigured, FromPool

LEMMA HistoryKept == TypeOK /\ RoleHistory /\ [Next]_vars => RoleHistory'
<1> SUFFICES ASSUME TypeOK, RoleHistory, [Next]_vars PROVE RoleHistory'
  OBVIOUS
<1>0. Answered /\ FirstConfigured /\ FromPool /\ Finalized \in Nat
  BY SequenceTypes DEF RoleHistory
<1>1. CASE OpenRound
  <2>1. /\ Len(validators) = Finalized /\ Len(validators') = Finalized + 1
        /\ \A r : r \in 0..Finalized - 1 => SelectedIn(r)' = SelectedIn(r)
        /\ SelectedIn(Finalized)' = SelectedValidators
    BY <1>1, OpenAdds
  <2>2. /\ Finalized' = Finalized /\ DidFinalize' = DidFinalize /\ strategy' = strategy
        /\ \A g : Generation(g)' = Generation(g) /\ \A r : DissentIn(r)' = DissentIn(r)
    BY <1>1 DEF OpenRound, Finalized, DidFinalize, Generation, DissentIn
  <2>3. Answered'
    BY <1>0, <2>1, <2>2 DEF Answered, DidFinalize
  <2>4. FirstConfigured'
    <3>1. CASE Finalized = 0
      <4>1. Bootstrapping /\ SelectedValidators = Validators
        <5>1. Bootstrapping
          BY <3>1 DEF Bootstrapping
        <5>2. strategy \in {"static", "trust_ranked", "ca_state"}
          BY DEF TypeOK
        <5> QED
          BY <5>1, <5>2 DEF SelectedValidators
      <4> QED
        BY <2>1, <2>2, <3>1, <4>1 DEF FirstConfigured
    <3>2. CASE Finalized > 0
      BY <1>0, <2>1, <3>2 DEF FirstConfigured
    <3> QED
      BY <1>0, <3>1, <3>2
  <2>5. FromPool'
    <3> SUFFICES ASSUME strategy = "ca_state", BootstrapRounds = 1, NEW r \in 1..Finalized,
                        NEW p \in SelectedIn(r)'
                 PROVE  Generation(r)[p].state \in {"trusted", "observation"}
      BY <1>0, <2>1, <2>2 DEF FromPool
    <3>1. CASE r < Finalized
      BY <1>0, <2>1, <3>1 DEF FromPool
    <3>2. CASE r = Finalized
      <4>1. ~Bootstrapping
        BY <3>2 DEF Bootstrapping
      <4>2. p \in ValidatorPool
        BY <2>1, <2>2, <3>2, <4>1, SelectedType
      <4> QED
        BY <3>2, <4>2 DEF ValidatorPool, InState
    <3> QED
      BY <1>0, <3>1, <3>2
  <2> QED
    BY <2>3, <2>4, <2>5 DEF RoleHistory
<1>2. CASE SelectionRaises \/ UNCHANGED vars
  <2>1. /\ Finalized' = Finalized /\ DidFinalize' = DidFinalize /\ strategy' = strategy
        /\ validators' = validators /\ \A r : SelectedIn(r)' = SelectedIn(r)
        /\ \A g : Generation(g)' = Generation(g) /\ \A r : DissentIn(r)' = DissentIn(r)
    BY <1>2 DEF SelectionRaises, vars, Finalized, DidFinalize, Generation, DissentIn, SelectedIn
  <2> QED
    BY <1>0, <2>1 DEF RoleHistory, Answered, FirstConfigured, FromPool
<1>3. ASSUME NEW disagreed, FinalizeRound(disagreed) PROVE RoleHistory'
  <2>0. PICK last : last = Finalized
    OBVIOUS
  <2>1. /\ Len(validators) = last + 1 /\ validators' = validators /\ strategy' = strategy
        /\ Finalized' = last + 1 /\ last \in Nat
        /\ \A r : r \in 0..last - 1 => DissentIn(r)' = DissentIn(r)
        /\ DissentIn(last)' = disagreed
        /\ \A g : g \in 0..last => Generation(g)' = Generation(g)
        /\ \A p \in Participant :
              Answers(Generation(last)[p], Evidence(p, last, disagreed), Generation(last + 1)'[p])
    BY <1>3, <2>0, FinalizeAnswers
  <2>2. \A r : SelectedIn(r)' = SelectedIn(r)
    BY <2>1 DEF SelectedIn
  <2>3. Answered'
    <3>1. ASSUME NEW g \in 0..last, NEW p \in Participant
          PROVE  Answers(Generation(g)'[p], Category(p, SelectedIn(g)', DissentIn(g)'), Generation(g + 1)'[p])
      <4>1. CASE g = last
        BY <2>1, <2>2, <4>1 DEF Evidence
      <4>2. CASE g < last
        <5>1. g \in DidFinalize /\ g + 1 \in 0..last /\ g \in 0..last - 1
          BY <2>0, <2>1, <4>2 DEF DidFinalize
        <5> QED
          BY <1>0, <2>1, <2>2, <5>1 DEF Answered
      <4> QED
        BY <2>1, <4>1, <4>2
    <3>2. DidFinalize' = 0..last
      BY <2>1 DEF DidFinalize
    <3>3. Generation(0)' = Generation(0)
      BY <2>1
    <3> QED
      BY <1>0, <3>1, <3>2, <3>3 DEF Answered
  <2>4. FirstConfigured' /\ FromPool'
    <3>1. ASSUME NEW r \in 1..Len(validators) - 1 PROVE Generation(r)' = Generation(r)
      BY <2>1
    <3> QED
      BY <1>0, <2>1, <2>2, <3>1 DEF FirstConfigured, FromPool
  <2> QED
    BY <2>3, <2>4 DEF RoleHistory
<1> QED
  BY <1>1, <1>2, <1>3 DEF Next

LEMMA HistoryInvariance == Spec => []RoleHistory
<1>1. IInv => TypeOK
  BY DEF IInv
<1> QED
  BY <1>1, HistoryStart, HistoryKept, GovernanceInvariance, PTL DEF Spec

\* A disagreement is severe evidence, as the mapper sees it.
LEMMA SevereIsDissent ==
    ASSUME TypeOK, NEW p \in Participant, NEW r \in DidFinalize
    PROVE  /\ Category(p, SelectedIn(r), DissentIn(r)) = "severe" <=> Disagreed(p, r)
           /\ p \notin SelectedIn(r) => Category(p, SelectedIn(r), DissentIn(r)) = "neutral"
           /\ DissentIn(r) \in [SelectedIn(r) -> 0..Candidates]
<1>1. DissentIn(r) \in [SelectedIn(r) -> 0..Candidates]
  BY SequenceTypes
<1>2. p \in SelectedIn(r) => DissentIn(r)[p] \in Nat
  BY <1>1, CandidatesType
<1> QED
  BY <1>1, <1>2 DEF Category, Disagreed

\* The configuration compare_ca_runtime accepts ("static" roles in round 0 only, six
\* rounds) under the policy of the experiment: no recovery, a probation of at most one
\* round.  Three rounds suffice.
Quarantining ==
    /\ BootstrapRounds = 1 /\ Rounds >= 3
    /\ ~RecoveryEnabled /\ SevereTrustedTarget = "suspicious" /\ ProbationRounds <= 1

LEMMA ProvenIsAttack ==
    ASSUME IInv, RoleHistory, Quarantining, NEW malicious \in SUBSET Eligible, RuntimeProven(malicious)
    PROVE  /\ malicious \cap Contributors = {}
           /\ \A p \in malicious : Disagreed(p, 0)
           /\ \A p \in Participant, r \in DidFinalize :
                 Disagreed(p, r) => Generation(r)[p].state # "trusted"
<1>1. TypeOK /\ Answered /\ Rounds \in Nat /\ Finalized = Rounds /\ DidFinalize = 0..Rounds - 1
  BY DEF IInv, RoleHistory, RuntimeProven, DidFinalize
<1>2. malicious \cap Contributors = {}
  <2>1. 2 \in 1..Rounds - 1
    BY <1>1 DEF Quarantining
  <2> QED
    BY <2>1 DEF RuntimeProven
<1>3. ASSUME NEW p \in malicious PROVE Disagreed(p, 0)
  <2>1. p \in Participant /\ 0 \in DidFinalize
    BY <1>1 DEF Quarantining
  <2>2. Generation(0)[p].state = "observation" /\ Generation(0 + 1)[p].state = "suspicious"
    BY <1>1, <2>1 DEF Answered, RuntimeProven
  <2>3. Answers(Generation(0)[p], Category(p, SelectedIn(0), DissentIn(0)), Generation(0 + 1)[p])
    BY <1>1, <2>1 DEF Answered
  <2>4. Category(p, SelectedIn(0), DissentIn(0)) = "severe"
    BY <2>2, <2>3 DEF Answers
  <2> QED
    BY <1>1, <2>1, <2>4, SevereIsDissent
<1>4. ASSUME NEW p \in Participant, NEW r \in DidFinalize, Disagreed(p, r),
             Generation(r)[p].state = "trusted"
      PROVE  FALSE
  <2>1. Category(p, SelectedIn(r), DissentIn(r)) = "severe"
    BY <1>1, <1>4, SevereIsDissent
  <2>2. Answers(Generation(r)[p], Category(p, SelectedIn(r), DissentIn(r)), Generation(r + 1)[p])
    BY <1>1 DEF Answered
  <2>3. Generation(r + 1)[p].state = "suspicious"
    BY <1>4, <2>1, <2>2 DEF Answers, Quarantining
  <2>4. Known(p, r)
    BY <1>1 DEF RuntimeProven
  <2> QED
    BY <1>4, <2>1, <2>3, <2>4 DEF Known
<1> QED
  BY <1>2, <1>3, <1>4

LEMMA AttackIsProven ==
    ASSUME IInv, RoleHistory, Quarantining, NEW malicious \in SUBSET Eligible,
           strategy = "ca_state", Finalized = Rounds,
           malicious # {}, malicious \cap Contributors = {},
           \A p \in malicious : Disagreed(p, 0),
           \A p \in Participant, r \in DidFinalize :
               Disagreed(p, r) => Generation(r)[p].state # "trusted"
    PROVE  RuntimeProven(malicious)
<1>1. /\ TypeOK /\ Answered /\ FromPool /\ SevereEscalates
      /\ Rounds \in Nat /\ Rounds >= 3 /\ DidFinalize = 0..Rounds - 1
  BY DEF IInv, RoleHistory, DidFinalize, Quarantining
<1>2. ASSUME NEW p \in Participant, NEW r \in 1..Rounds - 1, p \in SelectedIn(r)
      PROVE  Generation(r)[p].state \in {"trusted", "observation"}
  <2>1. Len(validators) \in Nat /\ Len(validators) >= Rounds
    BY SequenceTypes, <1>1
  <2>2. r \in 1..Len(validators) - 1
    BY <1>1, <2>1
  <2> QED
    BY <1>1, <1>2, <2>2 DEF FromPool, Quarantining
<1>3. ASSUME NEW p \in Participant, NEW g \in 0..Rounds - 1 PROVE Known(p, g)
  <2> DEFINE e == Category(p, SelectedIn(g), DissentIn(g))
             was == Generation(g)[p]
             is == Generation(g + 1)[p]
  <2>1. was.state \in ParticipantState
    <3>1. g \in 0..Finalized
      BY <1>1
    <3>2. Generation(g) \in [Participant -> Cell]
      BY <1>1, <3>1, SequenceTypes
    <3> QED
      BY <3>2 DEF Cell
  <2>2. Answers(was, e, is)
    BY <1>1 DEF Answered
  <2>3. e = "severe" => was.state # "trusted"
    BY <1>1, SevereIsDissent
  <2>4. was.state \in {"suspicious", "excluded"} => e = "neutral"
    <3>1. SUFFICES ASSUME was.state \in {"suspicious", "excluded"} PROVE p \notin SelectedIn(g)
      BY <1>1, SevereIsDissent
    <3>2. CASE g = 0
      BY <1>1, <3>1, <3>2 DEF Answered
    <3>3. CASE g # 0
      BY <1>2, <3>1, <3>3
    <3> QED
      BY <3>2, <3>3
  <2>5. Known(p, g) <=>
           \/ is.state = was.state
           \/ <<was.state, is.state, e>> \in
                 {<<"observation", "suspicious", "severe">>, <<"suspicious", "excluded", "neutral">>,
                  <<"observation", "trusted", "positive">>}
           \/ <<was.state, is.state, e>> = <<"suspicious", "excluded", "severe">>
                 /\ RepeatedNegative(was, e)
    BY DEF Known
  <2> HIDE DEF e, was, is
  <2>6. ~RecoveryEnabled
    BY DEF Quarantining
  <2>7. CASE was.state = "observation"
    BY <2>2, <2>5, <2>7 DEF Answers
  <2>8. CASE was.state = "trusted"
    BY <2>2, <2>3, <2>5, <2>8 DEF Answers
  <2>9. CASE was.state \in {"suspicious", "excluded"}
    BY <2>2, <2>4, <2>5, <2>6, <2>9 DEF Answers
  <2> QED
    BY <2>1, <2>7, <2>8, <2>9 DEF ParticipantState
<1>4. ASSUME NEW p \in malicious
      PROVE  /\ Generation(1)[p].state = "suspicious"
             /\ \A g \in 2..Rounds : Generation(g)[p].state = "excluded"
  <2>1. p \in Participant /\ 0 \in DidFinalize /\ Disagreed(p, 0)
    BY <1>1
  <2>2. Generation(0)[p].state = "observation"
    BY <1>1, <2>1 DEF Answered
  <2>3. /\ Generation(0 + 1)[p].state = "suspicious"
        /\ \A g \in 0 + 2..Finalized : Generation(g)[p].state = "excluded"
    BY <1>1, <2>1, <2>2 DEF SevereEscalates, Quarantining
  <2> QED
    BY <2>3
<1>5. ASSUME NEW p \in malicious, NEW r \in 1..Rounds - 1 PROVE p \notin SelectedIn(r)
  <2>1. Generation(r)[p].state \in {"suspicious", "excluded"}
    <3>1. CASE r = 1
      BY <1>4, <3>1
    <3>2. CASE r # 1
      <4>1. r \in 2..Rounds
        BY <1>1, <3>2
      <4> QED
        BY <1>4, <4>1
    <3> QED
      BY <3>1, <3>2
  <2>2. p \in Participant
    OBVIOUS
  <2> QED
    BY <1>2, <2>1, <2>2
<1>6. \A p \in malicious : p \notin Contributors
  OBVIOUS
<1> QED
  BY <1>3, <1>4, <1>5, <1>6 DEF RuntimeProven

\* Without recovery and with a short probation, compare_ca_runtime claims proof exactly
\* of runs in which the declared nodes, none of them a contributor, all disagreed in the
\* first round, and no trusted participant ever did: for any topology, numbers of
\* participants and rounds, and votes (compare_ca_runtime.py:72-100).
THEOREM RuntimeClaimIsTrue ==
    ASSUME Quarantining
    PROVE  Spec => []RuntimeProofIsAttack
<1>1. IInv /\ RoleHistory => RuntimeProofIsAttack
  <2> SUFFICES ASSUME IInv, RoleHistory, NEW malicious \in SUBSET Eligible
               PROVE  RuntimeProven(malicious) <=>
                        /\ strategy = "ca_state" /\ Finalized = Rounds
                        /\ malicious # {} /\ malicious \cap Contributors = {}
                        /\ \A p \in malicious : Disagreed(p, 0)
                        /\ \A p \in Participant, r \in DidFinalize :
                              Disagreed(p, r) => Generation(r)[p].state # "trusted"
    BY DEF RuntimeProofIsAttack
  <2>1. RuntimeProven(malicious) =>
            strategy = "ca_state" /\ Finalized = Rounds /\ malicious # {}
    BY DEF RuntimeProven
  <2> QED
    BY <2>1, ProvenIsAttack, AttackIsProven
<1> QED
  BY <1>1, GovernanceInvariance, HistoryInvariance, PTL

-----------------------------------------------------------------------------
\* The rotation of validators by the trust of the first round.

\* What the votes of the first round make of a participant's trust.
AfterFirst(p) == [alpha |-> 1 + Agreeing(p)[0], beta |-> 1 + Dissenting(p)[0]]

TrustedFirst == {p \in Eligible : Meets(AfterFirst(p), MinTrustPercent)}

\* The validators of round 1 have the minimum of trust, and are all who have it when
\* there are no more than seats.
Rotated ==
    strategy = "trust_ranked" /\ BootstrapRounds = 1 /\ Len(validators) > 1 =>
        /\ SelectedIn(1) \subseteq TrustedFirst
        /\ Cardinality(TrustedFirst) = TargetCount => SelectedIn(1) = TrustedFirst

LEMMA EveryoneIsMostTrusted ==
    ASSUME TypeOK, NEW pool \in SUBSET Participant
    PROVE  MostTrusted(Cardinality(pool), pool) = pool
<1>1. ASSUME NEW p \in Participant PROVE ~TrustedBefore(p, p)
  <2>1. Score(p).alpha \in Nat /\ Score(p).beta \in Nat
    BY DEF Score, Prior, TypeOK, Count
  <2>2. Score(p).alpha * (Score(p).alpha + Score(p).beta) \in Nat
    BY <2>1
  <2>3. p \in Nat
    BY GovernanceAssumption
  <2> QED
    BY <2>2, <2>3 DEF TrustedBefore, ScoresHigher
<1>2. ASSUME NEW p \in pool PROVE Cardinality({q \in pool : TrustedBefore(q, p)}) < Cardinality(pool)
  <2>1. IsFiniteSet(pool)
    BY GovernanceAssumption, FS_Subset
  <2>2. {q \in pool : TrustedBefore(q, p)} \subseteq pool
    OBVIOUS
  <2>3. {q \in pool : TrustedBefore(q, p)} # pool
    BY <1>1
  <2>4. IsFiniteSet({q \in pool : TrustedBefore(q, p)})
    BY <2>1, <2>2, FS_Subset
  <2>5. /\ Cardinality(pool) \in Nat /\ Cardinality({q \in pool : TrustedBefore(q, p)}) \in Nat
        /\ Cardinality({q \in pool : TrustedBefore(q, p)}) <= Cardinality(pool)
        /\ Cardinality({q \in pool : TrustedBefore(q, p)}) # Cardinality(pool)
    BY <2>1, <2>2, <2>3, <2>4, FS_Subset, FS_CardinalityType
  <2> QED
    BY <2>5
<1> QED
  BY <1>2 DEF MostTrusted

\* The votes of a round are numbers.
LEMMA VotesAreNumbers ==
    ASSUME TypeOK, NEW p, NEW r \in DidFinalize
    PROVE  /\ Agreeing(p)[r] \in Nat /\ Dissenting(p)[r] \in Nat
           /\ p \notin SelectedIn(r) => Agreeing(p)[r] = 0 /\ Dissenting(p)[r] = 0
           /\ p \in SelectedIn(r) => /\ Dissenting(p)[r] = DissentIn(r)[p]
                                     /\ Agreeing(p)[r] = Candidates - Dissenting(p)[r]
           /\ Disagreed(p, r) <=> p \in SelectedIn(r) /\ Dissenting(p)[r] > 0
<1>1. /\ DissentIn(r) \in [SelectedIn(r) -> 0..Candidates] /\ Candidates \in Nat
  BY SequenceTypes, CandidatesType
<1>2. /\ Agreeing(p)[r] = IF p \in SelectedIn(r) THEN Candidates - DissentIn(r)[p] ELSE 0
      /\ Dissenting(p)[r] = IF p \in SelectedIn(r) THEN DissentIn(r)[p] ELSE 0
  BY DEF Agreeing, Dissenting
<1> QED
  BY <1>1, <1>2 DEF Disagreed

\* Sums over one and two rounds.
LEMMA SumOfFew ==
    ASSUME NEW f, NEW v, v[0] \in Nat, v[1] \in Nat
    PROVE  /\ Sums(f, v, 1) => f[1] = v[0]
           /\ Sums(f, v, 2) => f[2] = v[0] + v[1]
<1>1. ASSUME NEW n \in {1, 2}, Sums(f, v, n)
      PROVE  f[0] = 0 /\ f[1] = f[0] + v[0] /\ (n = 2 => f[2] = f[1] + v[1])
  <2>1. f = [k \in 0..n |-> IF k = 0 THEN 0 ELSE f[k - 1] + v[k - 1]]
    BY <1>1 DEF Sums
  <2>2. 0 \in 0..n /\ 1 \in 0..n /\ (n = 2 => 2 \in 0..n)
    OBVIOUS
  <2>3. \A k \in 0..n : f[k] = IF k = 0 THEN 0 ELSE f[k - 1] + v[k - 1]
    BY <2>1
  <2>4. f[0] = 0 /\ f[1] = f[1 - 1] + v[1 - 1] /\ (n = 2 => f[2] = f[2 - 1] + v[2 - 1])
    BY <2>2, <2>3
  <2> QED
    BY <2>4
<1> QED
  BY <1>1

LEMMA TrustOfFew ==
    ASSUME TypeOK, Votes, NEW p \in Eligible
    PROVE  /\ Finalized = 1 => trust[p] = AfterFirst(p)
           /\ Finalized = 2 => /\ trust[p].alpha = 1 + Agreeing(p)[0] + Agreeing(p)[1]
                               /\ trust[p].beta = 1 + Dissenting(p)[0] + Dissenting(p)[1]
<1>1. trust[p] \in Count /\ p \in Participant
  BY DEF TypeOK
<1>2. ASSUME Finalized \in {1, 2}
      PROVE  /\ \E f : Sums(f, Agreeing(p), Finalized) /\ f[Finalized] = trust[p].alpha - 1
             /\ \E f : Sums(f, Dissenting(p), Finalized) /\ f[Finalized] = trust[p].beta - 1
  <2>1. Finalized \in 0..Finalized
    BY <1>2
  <2> QED
    BY <1>1, <2>1 DEF Votes, Summable, Accounted
<1>3. ASSUME NEW r \in DidFinalize PROVE Agreeing(p)[r] \in Nat /\ Dissenting(p)[r] \in Nat
  BY VotesAreNumbers
<1>4. trust[p].alpha \in Nat /\ trust[p].beta \in Nat
      /\ trust[p] = [alpha |-> trust[p].alpha, beta |-> trust[p].beta]
  BY <1>1 DEF Count
<1>5. ASSUME Finalized = 1 PROVE trust[p] = AfterFirst(p)
  <2>1. 0 \in DidFinalize
    BY <1>5 DEF DidFinalize
  <2>2. \A f, v : Sums(f, v, 1) => f[1] = f[0] + v[0] /\ f[0] = 0
    <3>1. ASSUME NEW f, NEW v, Sums(f, v, 1) PROVE f[1] = f[0] + v[0] /\ f[0] = 0
      <4>1. f = [k \in 0..1 |-> IF k = 0 THEN 0 ELSE f[k - 1] + v[k - 1]]
        BY <3>1 DEF Sums
      <4>2. f[1] = f[1 - 1] + v[1 - 1] /\ f[0] = 0
        BY <4>1
      <4> QED
        BY <4>2
    <3> QED
      BY <3>1
  <2>3. trust[p].alpha - 1 = 0 + Agreeing(p)[0] /\ trust[p].beta - 1 = 0 + Dissenting(p)[0]
    BY <1>2, <1>5, <2>2
  <2>4. trust[p].alpha = 1 + Agreeing(p)[0] /\ trust[p].beta = 1 + Dissenting(p)[0]
    BY <1>3, <1>4, <2>1, <2>3
  <2> QED
    BY <1>4, <2>4 DEF AfterFirst
<1>6. ASSUME Finalized = 2
      PROVE  /\ trust[p].alpha = 1 + Agreeing(p)[0] + Agreeing(p)[1]
             /\ trust[p].beta = 1 + Dissenting(p)[0] + Dissenting(p)[1]
  <2>1. 0 \in DidFinalize /\ 1 \in DidFinalize
    BY <1>6 DEF DidFinalize
  <2>2. /\ trust[p].alpha - 1 = Agreeing(p)[0] + Agreeing(p)[1]
        /\ trust[p].beta - 1 = Dissenting(p)[0] + Dissenting(p)[1]
    BY <1>2, <1>3, <1>6, <2>1, SumOfFew
  <2>3. /\ Agreeing(p)[0] \in Nat /\ Agreeing(p)[1] \in Nat
        /\ Dissenting(p)[0] \in Nat /\ Dissenting(p)[1] \in Nat
    BY <1>3, <2>1
  <2> QED
    BY <1>4, <2>2, <2>3
<1> QED
  BY <1>5, <1>6

LEMMA RotationKept == TypeOK /\ Votes /\ Rotated /\ [Next]_vars => Rotated'
<1> SUFFICES ASSUME TypeOK, Votes, Rotated, [Next]_vars, strategy' = "trust_ranked",
                    BootstrapRounds = 1, Len(validators') > 1
             PROVE  /\ SelectedIn(1)' \subseteq TrustedFirst'
                    /\ Cardinality(TrustedFirst') = TargetCount => SelectedIn(1)' = TrustedFirst'
  BY DEF Rotated
<1>0. Finalized \in Nat
  BY SequenceTypes
<1>1. CASE OpenRound
  <2>1. /\ Len(validators) = Finalized /\ Len(validators') = Finalized + 1
        /\ \A r : r \in 0..Finalized - 1 => SelectedIn(r)' = SelectedIn(r)
        /\ SelectedIn(Finalized)' = SelectedValidators
    BY <1>1, OpenAdds
  <2>2. /\ Finalized' = Finalized /\ strategy' = strategy /\ DidFinalize' = DidFinalize
        /\ \A r : DissentIn(r)' = DissentIn(r)
    BY <1>1 DEF OpenRound, Finalized, DissentIn, DidFinalize
  <2>3. Finalized >= 1 /\ 0 \in DidFinalize
    BY <1>0, <2>1 DEF DidFinalize
  <2>4. TrustedFirst' = TrustedFirst
    <3>1. SelectedIn(0)' = SelectedIn(0) /\ DissentIn(0)' = DissentIn(0)
      BY <1>0, <2>1, <2>2, <2>3
    <3>2. ASSUME NEW p
          PROVE  /\ Agreeing(p)[0]' = Agreeing(p)[0] /\ Dissenting(p)[0]' = Dissenting(p)[0]
      BY <2>2, <2>3, <3>1 DEF Agreeing, Dissenting
    <3>3. \A p : AfterFirst(p)' = AfterFirst(p)
      BY <3>2 DEF AfterFirst
    <3> QED
      BY <3>3 DEF TrustedFirst, Meets
  <2>5. CASE Finalized = 1
    <3>1. ~Bootstrapping /\ strategy = "trust_ranked"
      BY <2>2, <2>5 DEF Bootstrapping
    <3>2. SelectedValidators = MostTrusted(TargetCount, RankedPool)
      BY <3>1 DEF SelectedValidators
    <3>3. RankedPool = TrustedFirst
      BY <2>5, TrustOfFew DEF RankedPool, TrustedFirst
    <3>4. RankedPool \subseteq Participant /\ MostTrusted(TargetCount, RankedPool) \subseteq RankedPool
      BY GovernanceAssumption DEF RankedPool, MostTrusted
    <3>5. SelectedIn(1)' = MostTrusted(TargetCount, TrustedFirst)
      BY <2>1, <2>2, <2>5, <3>2, <3>3
    <3>6. Cardinality(TrustedFirst) = TargetCount => MostTrusted(TargetCount, TrustedFirst) = TrustedFirst
      BY <3>3, <3>4, EveryoneIsMostTrusted
    <3> QED
      BY <2>4, <3>3, <3>4, <3>5, <3>6
  <2>6. CASE Finalized # 1
    <3>1. Len(validators) > 1 /\ 1 \in 0..Finalized - 1
      BY <1>0, <2>1, <2>3, <2>6
    <3>2. SelectedIn(1)' = SelectedIn(1)
      BY <2>1, <3>1
    <3> QED
      BY <2>2, <2>4, <3>1, <3>2 DEF Rotated
  <2> QED
    BY <2>5, <2>6
<1>2. CASE SelectionRaises \/ UNCHANGED vars
  <2>1. UNCHANGED <<strategy, validators, dissent>>
    BY <1>2 DEF SelectionRaises, vars
  <2>2. /\ \A r : SelectedIn(r)' = SelectedIn(r) /\ DissentIn(r)' = DissentIn(r)
        /\ DidFinalize' = DidFinalize
    BY <2>1 DEF SelectedIn, DissentIn, DidFinalize, Finalized
  <2>3. \A p : AfterFirst(p)' = AfterFirst(p)
    BY <2>2 DEF AfterFirst, Agreeing, Dissenting
  <2>4. TrustedFirst' = TrustedFirst
    BY <2>3 DEF TrustedFirst, Meets
  <2> QED
    BY <2>1, <2>2, <2>4 DEF Rotated
<1>3. ASSUME NEW disagreed, FinalizeRound(disagreed)
      PROVE  /\ SelectedIn(1)' \subseteq TrustedFirst'
             /\ Cardinality(TrustedFirst') = TargetCount => SelectedIn(1)' = TrustedFirst'
  <2>0. PICK last : last = Finalized
    OBVIOUS
  <2>1. /\ Len(validators) = last + 1 /\ validators' = validators /\ strategy' = strategy
        /\ Finalized' = last + 1 /\ last \in Nat
        /\ \A r : r \in 0..last - 1 => DissentIn(r)' = DissentIn(r)
    BY <1>3, <2>0, FinalizeAnswers
  <2>2. \A r : SelectedIn(r)' = SelectedIn(r)
    BY <2>1 DEF SelectedIn
  <2>3. 0 \in 0..last - 1 /\ 0 \in DidFinalize /\ 0 \in DidFinalize'
    BY <2>0, <2>1 DEF DidFinalize
  <2>4. ASSUME NEW p PROVE AfterFirst(p)' = AfterFirst(p)
    <3>1. Agreeing(p)[0]' = Agreeing(p)[0] /\ Dissenting(p)[0]' = Dissenting(p)[0]
      BY <2>1, <2>2, <2>3 DEF Agreeing, Dissenting
    <3> QED
      BY <3>1 DEF AfterFirst
  <2>5. TrustedFirst' = TrustedFirst
    BY <2>4 DEF TrustedFirst, Meets
  <2> QED
    BY <2>1, <2>2, <2>5 DEF Rotated
<1> QED
  BY <1>1, <1>2, <1>3 DEF Next

\* The configuration of the dynamic-trust experiment: one bootstrap round, and a minimum
\* of trust that the prior meets and one round of dissent misses.
Rotating ==
    /\ BootstrapRounds = 1 /\ MinTrustPercent <= 50
    /\ MinTrustPercent * (Candidates + 2) > 100

LEMMA RotationIsDissent ==
    ASSUME TypeOK, RoleHistory, Votes, Rotated, Rotating, NEW malicious \in SUBSET Validators,
           Cardinality(Eligible \ malicious) = TargetCount
    PROVE  DynamicProven(malicious) <=>
              /\ strategy = "trust_ranked" /\ Finalized = 2
              /\ \A p \in malicious : Disagreed(p, 0) /\ DissentIn(0)[p] = Candidates
              /\ \A p \in Participant \ malicious, r \in 0..1 : ~Disagreed(p, r)
<1>1. /\ Candidates \in Nat /\ Candidates > 0
      /\ Validators \subseteq Eligible /\ Eligible \subseteq Participant /\ MinTrustPercent \in 0..50
  <2>1. IsFiniteSet(Contributors) /\ Contributors # {}
    BY GovernanceAssumption, FS_Subset
  <2>2. Cardinality(Contributors) \in Nat /\ Cardinality(Contributors) # 0
    BY <2>1, FS_CardinalityType, FS_EmptySet
  <2> QED
    BY <2>2 DEF Candidates, Rotating
<1> SUFFICES ASSUME strategy = "trust_ranked", Finalized = 2
             PROVE  DynamicProven(malicious) <=>
                      /\ \A p \in malicious : Disagreed(p, 0) /\ DissentIn(0)[p] = Candidates
                      /\ \A p \in Participant \ malicious, r \in 0..1 : ~Disagreed(p, r)
  BY DEF DynamicProven
<1>2. DidFinalize = 0..1 /\ Len(validators) \in Nat /\ Len(validators) > 1
  <2>1. Len(validators) = 2 + (IF phase = "open" THEN 1 ELSE 0)
    BY SequenceTypes
  <2> QED
    BY <2>1 DEF DidFinalize
<1>3. SelectedIn(0) = Validators
  BY <1>2 DEF RoleHistory, FirstConfigured
<1>4. ASSUME NEW p, NEW r \in 0..1
      PROVE  /\ Agreeing(p)[r] \in Nat /\ Dissenting(p)[r] \in Nat
             /\ p \notin SelectedIn(r) => Agreeing(p)[r] = 0 /\ Dissenting(p)[r] = 0
             /\ p \in SelectedIn(r) => /\ Dissenting(p)[r] = DissentIn(r)[p]
                                       /\ Agreeing(p)[r] = Candidates - Dissenting(p)[r]
             /\ Disagreed(p, r) <=> p \in SelectedIn(r) /\ Dissenting(p)[r] > 0
  BY <1>2, VotesAreNumbers
<1>5. ASSUME NEW p \in Eligible
      PROVE  /\ trust[p].alpha = 1 + Agreeing(p)[0] + Agreeing(p)[1]
             /\ trust[p].beta = 1 + Dissenting(p)[0] + Dissenting(p)[1]
  BY TrustOfFew
<1>6. ASSUME DynamicProven(malicious)
      PROVE  /\ \A p \in malicious : Disagreed(p, 0) /\ DissentIn(0)[p] = Candidates
             /\ \A p \in Participant \ malicious, r \in 0..1 : ~Disagreed(p, r)
  <2>1. /\ SelectedIn(1) = Eligible \ malicious
        /\ \A p \in malicious : Scored(p, 1, Candidates)
        /\ \A p \in Validators \ malicious : Scored(p, 1 + 2 * Candidates, 2 * Candidates)
        /\ \A p \in SelectedIn(1) \ Validators : Scored(p, 1 + Candidates, Candidates)
    BY <1>6 DEF DynamicProven
  <2>2. ASSUME NEW p \in malicious PROVE Disagreed(p, 0) /\ DissentIn(0)[p] = Candidates
    <3>1. p \in SelectedIn(0) /\ p \notin SelectedIn(1) /\ p \in Eligible
      BY <1>1, <1>3, <2>1
    <3>2. trust[p].alpha = 1
      BY <2>1 DEF Scored
    <3> QED
      BY <1>1, <1>4, <1>5, <3>1, <3>2
  <2>3. ASSUME NEW p \in Participant \ malicious, NEW r \in 0..1 PROVE ~Disagreed(p, r)
    <3>1. CASE p \notin Eligible
      BY <1>1, <1>3, <1>4, <2>1, <3>1
    <3>2. CASE p \in Validators
      <4>1. trust[p].alpha = 1 + 2 * Candidates /\ trust[p].alpha + trust[p].beta = 2 * Candidates + 2
        BY <2>1, <3>2 DEF Scored
      <4> QED
        BY <1>1, <1>4, <1>5, <3>2, <4>1
    <3>3. CASE p \in Eligible \ Validators
      <4>1. trust[p].alpha = 1 + Candidates /\ trust[p].alpha + trust[p].beta = Candidates + 2
        BY <2>1, <3>3 DEF Scored
      <4> QED
        BY <1>1, <1>4, <1>5, <3>3, <4>1
    <3> QED
      BY <3>1, <3>2, <3>3
  <2> QED
    BY <2>2, <2>3
<1>7. ASSUME \A p \in malicious : Disagreed(p, 0) /\ DissentIn(0)[p] = Candidates,
             \A p \in Participant \ malicious, r \in 0..1 : ~Disagreed(p, r)
      PROVE  DynamicProven(malicious)
  <2>1. ASSUME NEW p \in malicious
        PROVE  /\ p \in Eligible /\ Agreeing(p)[0] = 0 /\ Dissenting(p)[0] = Candidates
               /\ ~Meets(AfterFirst(p), MinTrustPercent)
    <3>1. p \in Eligible /\ Agreeing(p)[0] = 0 /\ Dissenting(p)[0] = Candidates
      BY <1>1, <1>3, <1>4, <1>7
    <3>2. AfterFirst(p).alpha = 1 /\ AfterFirst(p).alpha + AfterFirst(p).beta = Candidates + 2
      BY <1>1, <3>1 DEF AfterFirst
    <3>3. MinTrustPercent * (Candidates + 2) \in Int /\ MinTrustPercent * (Candidates + 2) > 100
      BY <1>1 DEF Rotating
    <3> QED
      BY <3>1, <3>2, <3>3 DEF Meets
  <2>2. ASSUME NEW p \in Eligible \ malicious
        PROVE  /\ Dissenting(p)[0] = 0 /\ Dissenting(p)[1] = 0
               /\ Meets(AfterFirst(p), MinTrustPercent)
    <3>1. Dissenting(p)[0] = 0 /\ Dissenting(p)[1] = 0
      <4>1. p \in Participant \ malicious
        BY <1>1
      <4>2. ~Disagreed(p, 0) /\ ~Disagreed(p, 1)
        BY <1>7, <4>1
      <4> QED
        BY <1>4, <4>2
    <3>2. PICK a : a = 1 + Agreeing(p)[0]
      OBVIOUS
    <3>3. a \in Nat /\ a >= 1 /\ AfterFirst(p).alpha = a /\ AfterFirst(p).beta = 1
      BY <1>4, <3>1, <3>2 DEF AfterFirst
    <3>4. 100 * a >= MinTrustPercent * (a + 1)
      BY <1>1, <3>3, EvenTrust
    <3> QED
      BY <3>1, <3>3, <3>4 DEF Meets
  <2>3. TrustedFirst = Eligible \ malicious
    BY <1>1, <2>1, <2>2 DEF TrustedFirst
  <2>4. SelectedIn(1) = Eligible \ malicious
    BY <1>2, <2>3 DEF Rotated, Rotating
  <2>5. ASSUME NEW p \in malicious PROVE Scored(p, 1, Candidates)
    <3>1. Agreeing(p)[1] = 0 /\ Dissenting(p)[1] = 0
      BY <1>4, <2>4
    <3> QED
      BY <1>1, <1>5, <2>1, <3>1 DEF Scored
  <2>6. ASSUME NEW p \in Validators \ malicious
        PROVE  Scored(p, 1 + 2 * Candidates, 2 * Candidates)
    <3>1. p \in SelectedIn(0) /\ p \in SelectedIn(1) /\ p \in Eligible \ malicious
      BY <1>1, <1>3, <2>4
    <3>2. Agreeing(p)[0] = Candidates /\ Agreeing(p)[1] = Candidates
      BY <1>1, <1>4, <2>2, <3>1
    <3>3. trust[p].alpha = 1 + Candidates + Candidates /\ trust[p].beta = 1 + 0 + 0
      BY <1>5, <2>2, <3>1, <3>2
    <3> QED
      BY <1>1, <3>3 DEF Scored
  <2>7. ASSUME NEW p \in SelectedIn(1) \ Validators PROVE Scored(p, 1 + Candidates, Candidates)
    <3>1. p \notin SelectedIn(0) /\ p \in Eligible \ malicious
      BY <1>3, <2>4
    <3>2. Agreeing(p)[0] = 0 /\ Agreeing(p)[1] = Candidates
      BY <1>1, <1>4, <2>2, <3>1
    <3> QED
      BY <1>1, <1>5, <2>2, <3>1, <3>2 DEF Scored
  <2> QED
    BY <1>3, <2>4, <2>5, <2>6, <2>7 DEF DynamicProven
<1> QED
  BY <1>6, <1>7

\* Where the prior passes and a round of dissent does not, compare_dynamic_trust_selection
\* claims that low trust rotated the validators exactly of runs in which the declared
\* nodes disagreed on every candidate of round 0 and nobody else in either round
\* (compare_dynamic_trust_selection.py:56-83).
THEOREM DynamicClaimIsTrue ==
    ASSUME Rotating
    PROVE  Spec => []DynamicProofIsAttack
<1>1. Init => Rotated
  BY DEF Init, Rotated
<1>2. TypeOK /\ RoleHistory /\ Votes /\ Rotated => DynamicProofIsAttack
  BY RotationIsDissent DEF DynamicProofIsAttack
<1> QED
  BY <1>1, <1>2, RotationKept, VotesInvariance, GovernanceTypeCorrect, HistoryInvariance, PTL DEF Spec

\* Under both, of any participants, topology and number of rounds: what a comparator of
\* roles calls proven is what happened, and what happened it calls proven.
THEOREM RoleClaims ==
    ASSUME Quarantining, Rotating
    PROVE  Spec => []RoleClaimsAreTrue
<1>1. RuntimeProofIsAttack /\ DynamicProofIsAttack => RoleClaimsAreTrue
  BY DEF RoleClaimsAreTrue
<1> QED
  BY <1>1, RuntimeClaimIsTrue, DynamicClaimIsTrue, PTL
=============================================================================
