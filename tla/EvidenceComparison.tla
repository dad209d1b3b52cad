------------------------- MODULE EvidenceComparison -------------------------
(***************************************************************************)
(* A clean and an attacked run of one experiment with a training attack,   *)
(* and the comparators that read their evidence: compare_sign_flipping,    *)
(* compare_free_rider, compare_collusion, compare_backdoor and             *)
(* compare_label_flipping.  A model is one number; training moves it by    *)
(* what the seeds prescribe, and the shared direction of colluders is a    *)
(* sign for each round.  Each row of evidence is what the audits of a node *)
(* recorded in one round (the order of their calls is Experiment's).       *)
(***************************************************************************)
EXTENDS Integers, Sequences, FiniteSets, FiniteSetsExt

CONSTANTS
    Node,
    Unit,           \* scale of a model, so that means of two rounds are whole
    Configs,        \* attack kind, initial model, moves and idle nodes
    LastRound,      \* BOUND: last round of a run
    MaxAbsences,    \* BOUND: elections that leave a node out
    MaxNoise        \* BOUND: trainings that do not repeat what the seeds ask for

VARIABLES
    config,     \* of the experiment
    run,        \* the run that is executed
    model,      \* the installed global model
    rounds,     \* for each run, the rows of evidence of its rounds
    absences,   \* nodes left out so far
    noise,      \* trainings disturbed so far
    verdict     \* "none" yet, "no evidence", "proven" or "refused"

vars == <<config, run, model, rounds, absences, noise, verdict>>

Kinds == {"sign_flipping", "free_rider", "collusion", "backdoor", "label_flipping"}

\* Whole numbers, a sign for each round, and no colluder alone (collusion.py:26).
EvidenceAssumption ==
    /\ IsFiniteSet(Node) /\ Unit \in Int /\ LastRound \in Nat
    /\ \A c \in Configs :
          /\ c.kind \in Kinds /\ c.adversaries \subseteq Node
          /\ c.initial \in Int /\ c.moves \in [Node -> Int] /\ c.lure \in Int
          /\ \A i \in 1..LastRound + 1 : c.direction[i] \in {1, -1}
          /\ c.kind = "collusion" => \A n \in c.adversaries : c.adversaries # {n}

Run == {"clean", "attacked"}
Adversary == config.adversaries
Attacking(n) == run = "attacked" /\ n \in Adversary
Round == Len(rounds[run])

Init ==
    /\ config \in Configs
    /\ run = "clean" /\ model = config.initial * Unit
    /\ rounds = [w \in Run |-> <<>>]
    /\ absences = 0 /\ noise = 0 /\ verdict = "none"

-----------------------------------------------------------------------------
(* A round at one node. *)

\* Batches of the node's partition are optimizer steps; poisoned data moves elsewhere.
Steps(n) == IF n \in config.idle THEN 0 ELSE 1
Trained(n, draw) ==
    IF Steps(n) = 0 THEN model
    ELSE model + Unit * (config.moves[n] + draw
                         + (IF Attacking(n) /\ config.kind \in {"backdoor", "label_flipping"}
                            THEN config.lure ELSE 0))

Size(update) == IF update < 0 THEN -update ELSE update
Direction == config.direction[Round + 1]

Flipped(trained) == -trained

\* CollusionAttack.transform with alpha 1: as long as the genuine update.
Displaced(trained) == model + Direction * Size(trained - model)

Submitted(n, trained) ==
    IF ~Attacking(n) THEN trained
    ELSE CASE config.kind = "sign_flipping" -> Flipped(trained)
           [] config.kind = "free_rider" -> model
           [] config.kind = "collusion" -> Displaced(trained)
           [] config.kind \in {"backdoor", "label_flipping"} -> trained

Skips(n) == Attacking(n) /\ config.kind = "free_rider"

Row(n, draw) ==
    LET trained == IF Skips(n) THEN model ELSE Trained(n, draw)
    IN  [before |-> model, steps |-> IF Skips(n) THEN 0 ELSE Steps(n),
         genuine |-> trained - model, submitted |-> Submitted(n, trained),
         applied |-> IF Attacking(n) THEN 1 ELSE 0]

\* transformation_evidence raises when flipping leaves the model as it was.
Unflippable(row) == config.kind = "sign_flipping" /\ row.applied = 1 /\ row.submitted = 0

\* The elected nodes train, submit and install the mean.
RunRound ==
    /\ verdict = "none" /\ Round <= LastRound
    /\ \E elected \in SUBSET Node, noisy \in SUBSET Node :
        LET rows == [n \in elected |-> Row(n, IF n \in noisy THEN 1 ELSE 0)] IN
        /\ elected # {} /\ noisy \subseteq elected
        /\ absences' = absences + Cardinality(Node \ elected) /\ absences' <= MaxAbsences
        /\ noise' = noise + Cardinality(noisy) /\ noise' <= MaxNoise
        /\ IF \E n \in elected : Unflippable(rows[n])
           THEN verdict' = "no evidence" /\ UNCHANGED <<model, rounds>>
           ELSE /\ model' = MapThenSumSet(LAMBDA n : rows[n].submitted, elected)
                              \div Cardinality(elected)
                /\ rounds' = [rounds EXCEPT ![run] =
                                Append(@, [rows |-> rows, installed |-> model'])]
                /\ UNCHANGED verdict
    /\ UNCHANGED <<config, run>>

\* The driver asks every training audit for every round: an absent node has none.
Audited == IF config.kind \in {"free_rider", "collusion"} THEN Node ELSE {}
Complete == \A i \in 1..LastRound + 1 : Audited \subseteq DOMAIN rounds[run][i].rows

EvidenceRefused ==
    /\ verdict = "none" /\ Round > LastRound /\ ~Complete
    /\ verdict' = "no evidence"
    /\ UNCHANGED <<config, run, model, rounds, absences, noise>>

StartAttacked ==
    /\ verdict = "none" /\ run = "clean" /\ Round > LastRound /\ Complete
    /\ run' = "attacked" /\ model' = config.initial * Unit
    /\ UNCHANGED <<config, rounds, absences, noise, verdict>>

-----------------------------------------------------------------------------
(* The comparators. *)

Index == 1..LastRound + 1
Rows(w, i) == rounds[w][i].rows
AttackRow(i, n) == Rows("attacked", i)[n]
Final(w) == rounds[w][LastRound + 1].installed

TookPart(n, w, i) == n \in DOMAIN Rows(w, i)

\* participating_node_ids: only a node with a model-update audit can be found absent.
Participants(w, i) ==
    {n \in Node : config.kind = "sign_flipping" /\ w = "attacked" /\ n \in Adversary
                    => TookPart(n, w, i)}
SameParticipants == \A i \in Index : Participants("clean", i) = Participants("attacked", i)

\* malicious_participants.
MaliciousIn(i) == Participants("attacked", i) \cap Adversary

Cosine(a, b) == IF a = 0 \/ b = 0 THEN 0 ELSE IF a > 0 <=> b > 0 THEN 1 ELSE -1

\* compare_label_flipping reports whether the final models differ and refuses no pair.
ModelsDiffer == Final("clean") # Final("attacked")

FlipsAgree ==
    /\ SameParticipants
    /\ \A i \in Index : MaliciousIn(i) = Adversary
    /\ ModelsDiffer

Unchanged(row) == row.submitted = row.before

FreeRidesAgree ==
    /\ SameParticipants
    /\ \A i \in Index :
        /\ MaliciousIn(i) = Adversary
        /\ \A n \in Adversary : LET row == AttackRow(i, n) IN
              row.steps = 0 /\ Unchanged(row) /\ row.applied = 1
        /\ \A n \in Node \ Adversary :
              AttackRow(i, n).steps > 0 /\ AttackRow(i, n).applied = 0

CollusionAgrees ==
    /\ SameParticipants
    /\ \A i \in Index :
        /\ \A n \in Adversary : LET row == AttackRow(i, n) IN
              /\ row.steps > 0 /\ row.applied = 1
              /\ Size(row.submitted - row.before) = Size(row.genuine)
        /\ \A n \in Node \ Adversary : AttackRow(i, n).applied = 0
        /\ \A m, n \in Adversary : m # n =>
              Cosine(AttackRow(i, m).submitted - AttackRow(i, m).before,
                     AttackRow(i, n).submitted - AttackRow(i, n).before) = 1

Agrees ==
    CASE config.kind = "sign_flipping" -> FlipsAgree
      [] config.kind = "free_rider" -> FreeRidesAgree
      [] config.kind = "collusion" -> CollusionAgrees
      [] config.kind = "backdoor" -> SameParticipants
      [] config.kind = "label_flipping" -> TRUE

Compare ==
    /\ verdict = "none" /\ run = "attacked" /\ Round > LastRound /\ Complete
    /\ verdict' = IF Agrees THEN "proven" ELSE "refused"
    /\ UNCHANGED <<config, run, model, rounds, absences, noise>>

Next == RunRound \/ EvidenceRefused \/ StartAttacked \/ Compare

Spec == Init /\ [][Next]_vars

-----------------------------------------------------------------------------
TypeOK ==
    /\ run \in Run /\ model \in Int
    /\ \A w \in Run : \A i \in DOMAIN rounds[w] : DOMAIN Rows(w, i) \subseteq Node
    /\ absences \in 0..MaxAbsences /\ noise \in 0..MaxNoise
    /\ verdict \in {"none", "no evidence", "proven", "refused"}

(* A comparator that is satisfied by the rounds it reads has seen the      *)
(* attack take effect in every one of them: each adversary was elected and *)
(* displaced its round's result as its attack says, colluders all to the   *)
(* same side.  compare_sign_flipping.py:32 provides for a round without an *)
(* application; no accepted pair has one.                                  *)
AttackInEveryRound ==
    verdict = "proven" /\ config.kind \in {"sign_flipping", "free_rider", "collusion"} =>
        \A i \in Index : \A n \in Adversary :
            /\ n \in DOMAIN Rows("attacked", i)
            /\ LET row == AttackRow(i, n)
                   shift == row.submitted - row.before
               IN  CASE config.kind = "sign_flipping" -> shift # row.genuine
                     [] config.kind = "free_rider" -> shift = 0
                     [] config.kind = "collusion" ->
                          \A m \in Adversary :
                             shift * (AttackRow(i, m).submitted - AttackRow(i, m).before) > 0

(* A pair of runs in which the attack took place is refused only for a     *)
(* reason that voids the experiment: the flipped updates cancel out or the *)
(* adversary was left out of a round, a benign node of a free-rider run    *)
(* has no batch, a colluder's training moved nothing.                      *)
RefusalIsDeserved ==
    verdict = "refused" =>
        \/ config.kind = "sign_flipping"
              /\ \/ Final("clean") = Final("attacked")
                 \/ \E i \in Index : ~(Adversary \subseteq DOMAIN Rows("attacked", i))
        \/ config.kind = "free_rider" /\ config.idle \ Adversary # {}
        \/ config.kind = "collusion"
              /\ \E i \in Index, n \in Adversary : AttackRow(i, n).genuine = 0

(* The attack is the only difference of an accepted pair: in its first     *)
(* round every benign node starts from the same model and submits the same *)
(* update.  Not met: no comparator compares the runs' initial models or    *)
(* benign updates (README, section 4).                                     *)
CauseIsAttack ==
    verdict = "proven" =>
        \A n \in Node \ Adversary :
            n \in DOMAIN Rows("clean", 1) \cap DOMAIN Rows("attacked", 1) =>
                Rows("clean", 1)[n] = AttackRow(1, n)

(* Equal participants of an accepted pair trained the same rounds.  Not    *)
(* met: without a training audit every node counts as a participant        *)
(* (mnist.py:515-519; README, section 4).                                  *)
SameTrainers ==
    verdict = "proven" =>
        \A i \in Index : DOMAIN Rows("clean", i) = DOMAIN Rows("attacked", i)
=============================================================================
