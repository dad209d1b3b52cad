-------------------------- MODULE CausalComparison --------------------------
(***************************************************************************)
(* A clean and an attacked run of one controlled experiment under the      *)
(* validator gate, and the comparators that read the two artifacts: one    *)
(* claims that inverted votes were the first cause of another global       *)
(* model, one that they cost the Byzantine validators their trust.         *)
(*                                                                         *)
(* A model is who trained it, from which global model and with which draw  *)
(* of everything the seeds do not control; a global model is the set of    *)
(* models it was made of.  Equal hashes are equal models.                  *)
(***************************************************************************)
EXTENDS Integers, Sequences, FiniteSets

CONSTANTS
    Contributor,    \* nodes that train
    Validator,      \* nodes that vote on candidates
    Byzantine,      \* validators that invert their votes in the attacked run
    Policies,       \* quorum, acceptance_threshold and reference_reject_candidates
    Prior,          \* prior_alpha and prior_beta of the trust
    MaxRound,       \* BOUND: last round of a run
    MaxNoise,       \* BOUND: trainings that do not repeat what the seeds ask for
    MaxLies         \* BOUND: fields of an artifact that are not what the run did

Node == Contributor \cup Validator
Run == {"clean", "attacked"}

ComparisonAssumption ==
    /\ IsFiniteSet(Contributor) /\ IsFiniteSet(Validator)
    /\ Byzantine \subseteq Validator /\ Byzantine \notin {{}, Validator} /\ Contributor # {}
    /\ \A p \in Policies : /\ p.quorum \in 1..Cardinality(Validator)
                           /\ p.threshold \in 1..p.quorum
                           /\ p.rejects \subseteq Contributor
    /\ {Prior, MaxRound, MaxNoise, MaxLies} \subseteq Nat /\ Prior > 0

VARIABLES
    policy,     \* AdmissionPolicy of the experiment
    run,        \* the run that is executed
    global,     \* the model installed last
    fits,       \* for each candidate model seen: it is finite and within max_l2_norm
    noise,      \* submissions that are not what the seeds ask for
    rows,       \* _candidates of the gates: the row of each submission
    rounds,     \* lineage and installations of each round
    trust,      \* trust before the first round and after each
    artifact,   \* the evidence written by the runs
    lies,       \* fields of it altered since
    phase       \* "running", "written", "compared", or what stopped the pair

truth == <<rows, rounds, trust>>
vars == <<policy, run, global, fits, noise, truth, artifact, lies, phase>>

Model(c, parent, draw) == [by |-> c, from |-> parent, draw |-> draw]
NoModel == {}
Initial == {Model("seed", NoModel, 0)}
Other == Model("nobody", NoModel, 0)
Honest == CHOOSE v \in Validator \ Byzantine : TRUE
Beta(a, b) == [alpha |-> a, beta |-> b, score |-> <<a, a + b>>]

Init ==
    /\ policy \in Policies
    /\ run = "clean" /\ global = Initial /\ fits = <<>> /\ noise = {}
    /\ rows = [w \in Run |-> <<>>] /\ rounds = [w \in Run |-> <<>>]
    /\ trust = [w \in Run |-> <<[v \in Validator |-> Beta(Prior, Prior)]>>]
    /\ artifact = <<>> /\ lies = 0 /\ phase = "running"

-----------------------------------------------------------------------------
(* The gate during a run. *)

Round == Len(rounds[run])
Inverters(w) == IF w = "attacked" THEN Byzantine ELSE {}

Vote(w, v, reference) ==
    [reference |-> reference,
     reported |-> IF v \in Inverters(w) THEN ~reference ELSE reference,
     applied |-> IF v \in Inverters(w) THEN 1 ELSE 0]
Accepts(votes) == Cardinality({v \in Validator : votes[v].reported})
AdmittedBy(votes) ==
    Cardinality(Validator) >= policy.quorum /\ Accepts(votes) >= policy.threshold

\* submit_and_decide on the candidate's own gate; an admitted model reaches add_model.
Row(c, model, reference) ==
    LET votes == [v \in Validator |-> Vote(run, v, reference)]
        admitted == AdmittedBy(votes)
    IN  [parent |-> global, submitted |-> model, votes |-> votes, admitted |-> admitted,
         reached |-> admitted, input |-> IF admitted THEN model ELSE Other]

Submit(c) ==
    /\ phase = "running" /\ Round <= MaxRound /\ <<Round, c>> \notin DOMAIN rows[run]
    /\ \E draw \in 0..1, ok \in BOOLEAN :
        LET model == Model(c, global, draw) IN
        /\ draw = 1 => Cardinality(noise) < MaxNoise
        /\ noise' = IF draw = 1 THEN noise \cup {<<run, Round, c>>} ELSE noise
        /\ model \in DOMAIN fits => ok = fits[model]
        /\ fits' = [m \in DOMAIN fits \cup {model} |-> IF m = model THEN ok ELSE fits[m]]
        /\ rows' = [rows EXCEPT ![run] =
             [k \in DOMAIN @ \cup {<<Round, c>>} |->
                IF k = <<Round, c>> THEN Row(c, model, ok /\ c \notin policy.rejects) ELSE @[k]]]
    /\ UNCHANGED <<policy, run, global, rounds, trust, artifact, lies, phase>>

\* The trust of v after the votes of a round: one count for each candidate.
Agreed(w, r, v) ==
    {c \in Contributor : LET b == rows[w][<<r, c>>].votes[v] IN b.reported = b.reference}
Updated(w, r, v) ==
    LET old == trust[w][r + 1][v]
        n == Cardinality(Agreed(w, r, v))
    IN  Beta(old.alpha + n, old.beta + Cardinality(Contributor) - n)

\* Every candidate is decided: the admitted ones are aggregated, every node installs
\* the result and the round is finalized.  Nothing admitted ends the experiment.
FinishRound ==
    /\ phase = "running" /\ Round <= MaxRound
    /\ \A c \in Contributor : <<Round, c>> \in DOMAIN rows[run]
    /\ LET chosen == {c \in Contributor : rows[run][<<Round, c>>].admitted}
           inputs == [c \in chosen |-> rows[run][<<Round, c>>].submitted]
           installed == {inputs[c] : c \in chosen}
       IN  IF chosen = {}
           THEN phase' = "nothing to aggregate" /\ UNCHANGED <<global, rounds, trust>>
           ELSE /\ global' = installed
                /\ rounds' = [rounds EXCEPT ![run] =
                     Append(@, [contributors |-> chosen, inputs |-> inputs,
                                installed |-> installed, at |-> [n \in Node |-> installed]])]
                /\ trust' = [trust EXCEPT ![run] =
                     Append(@, [v \in Validator |-> Updated(run, Round, v)])]
                /\ UNCHANGED phase
    /\ UNCHANGED <<policy, run, fits, noise, rows, artifact, lies>>

\* The driver writes the artifacts; trust rounds carry the states before and after.
Evidence(w) ==
    [controlled |-> "same", rows |-> rows[w], rounds |-> rounds[w],
     trust |-> [r \in 1..(MaxRound + 1) |-> [pre |-> trust[w][r], post |-> trust[w][r + 1]]],
     final |-> trust[w][MaxRound + 2]]
EndRun ==
    /\ phase = "running" /\ Round > MaxRound
    /\ IF run = "clean"
       THEN /\ run' = "attacked" /\ global' = Initial
            /\ UNCHANGED <<artifact, phase>>
       ELSE /\ artifact' = [w \in Run |-> Evidence(w)] /\ phase' = "written"
            /\ UNCHANGED <<run, global>>
    /\ UNCHANGED <<policy, fits, noise, truth, lies>>

\* An artifact, with one field altered: it is stale, mixed up or forged.
RowAltered(a, k) ==
    {[a EXCEPT !.rows[k].submitted = Other], [a EXCEPT !.rows[k].parent = NoModel],
     [a EXCEPT !.rows[k].admitted = ~@], [a EXCEPT !.rows[k].reached = ~@],
     [a EXCEPT !.rows[k].input = Other]}
    \cup (UNION {{[a EXCEPT !.rows[k].votes[v].reported = ~@], [a EXCEPT !.rows[k].votes[v].reference = ~@],
                 [a EXCEPT !.rows[k].votes[v].applied = 1 - @]} : v \in Validator})
RoundAltered(a, i) ==
    {[a EXCEPT !.rounds[i].contributors = Contributor \ @], [a EXCEPT !.rounds[i].installed = NoModel]}
    \cup {[a EXCEPT !.rounds[i].at[n] = NoModel] : n \in Node}
TrustAltered(a, i) ==
    UNION {{[a EXCEPT !.trust[i].pre[v].beta = @ + 1], [a EXCEPT !.trust[i].post[v].alpha = @ + 1],
            [a EXCEPT !.trust[i].post[v].score = <<0, 1>>]} : v \in Validator}
Altered(a) ==
    {[a EXCEPT !.controlled = "other"]}
    \cup (UNION {RowAltered(a, k) : k \in DOMAIN a.rows})
    \cup (UNION {RoundAltered(a, i) : i \in DOMAIN a.rounds})
    \cup (UNION {TrustAltered(a, i) : i \in DOMAIN a.trust})
    \cup {[a EXCEPT !.final[v].score = <<0, 1>>] : v \in Validator}
Lie ==
    /\ phase = "written" /\ lies < MaxLies
    /\ \E w \in Run : \E a \in Altered(artifact[w]) \ {artifact[w]} :
        artifact' = [artifact EXCEPT ![w] = a]
    /\ lies' = lies + 1
    /\ UNCHANGED <<policy, run, global, fits, noise, truth, phase>>

-----------------------------------------------------------------------------
(* compare_byzantine_validator: the causes of another global model. *)

Keys == (0..MaxRound) \X Contributor

\* _validate_run: each row agrees with the lineage of its round, and rounds follow.
AdmissionAgrees(row, line, c) ==
    /\ row.admitted = (c \in DOMAIN line.inputs)
    /\ row.admitted = (c \in line.contributors)
    /\ IF row.admitted
       THEN row.reached /\ row.input = row.submitted /\ line.inputs[c] = row.submitted
       ELSE ~row.reached /\ row.input = Other
InstalledEverywhere(line) == \A n \in Node : line.at[n] = line.installed
RunIsValid(a) ==
    /\ \A k \in Keys : AdmissionAgrees(a.rows[k], a.rounds[k[1] + 1], k[2])
    /\ \A i \in DOMAIN a.rounds : InstalledEverywhere(a.rounds[i]) /\ a.rounds[i].contributors \subseteq Contributor
    /\ \A k \in Keys : k[1] > 0 => a.rows[k].parent = a.rounds[k[1]].installed

ModelsDiffer(a, b) == {i - 1 : i \in {j \in DOMAIN a.rounds : a.rounds[j].installed # b.rounds[j].installed}}
InputsDiffer(a, b) == {i - 1 : i \in {j \in DOMAIN a.rounds : a.rounds[j].contributors # b.rounds[j].contributors}}
AdmissionsDiffer(a, b) == {k \in Keys : a.rows[k].admitted # b.rows[k].admitted}

\* Mutated form: only the parents are compared.
SameParentsUntilDiverged(a, b) ==
    \A k \in Keys : (\A r \in ModelsDiffer(a, b) : r >= k[1]) => a.rows[k].parent = b.rows[k].parent

\* Until the global models differ, candidates and parents are the same.
SameUntilDiverged(a, b) ==
    \A k \in Keys : (\A r \in ModelsDiffer(a, b) : r >= k[1]) =>
        a.rows[k].submitted = b.rows[k].submitted /\ a.rows[k].parent = b.rows[k].parent

\* Clean and honest votes repeat the reference, which is the same in both runs, and
\* Byzantine ones invert it.
VotesAsConfigured(a, b) ==
    \A k \in Keys, v \in Validator :
        LET x == a.rows[k].votes[v]
            y == b.rows[k].votes[v]
        IN  /\ x.reference = y.reference /\ x.reported = x.reference /\ x.applied = 0
            /\ IF v \in Byzantine THEN y.reported # x.reference /\ y.applied = 1
               ELSE y.reported = x.reference /\ y.applied = 0

\* The first vote, admission, aggregation and model that differ are of one round.
\* Every Byzantine vote is inverted, so that the first vote is one of round 0.
OneRoundOfCauses(a, b) ==
    /\ \E c \in Contributor : <<0, c>> \in AdmissionsDiffer(a, b)
    /\ 0 \in InputsDiffer(a, b) \cap ModelsDiffer(a, b)

SameStart(a, b) ==
    /\ \A c, d \in Contributor : a.rows[<<0, c>>].parent = b.rows[<<0, d>>].parent

Proven(a, b) ==
    /\ a.controlled = b.controlled
    /\ RunIsValid(a) /\ RunIsValid(b)
    /\ SameStart(a, b)
    /\ SameUntilDiverged(a, b)
    /\ VotesAsConfigured(a, b)
    /\ OneRoundOfCauses(a, b)

-----------------------------------------------------------------------------
(* compare_byzantine_validator_trust: what the votes did to the trust. *)

\* Scores are those of the counts.
TrustArithmetic(a) ==
    \A i \in DOMAIN a.trust, v \in Validator : \A s \in {a.trust[i].pre[v], a.trust[i].post[v]} :
        s.score[1] * (s.alpha + s.beta) = s.score[2] * s.alpha

\* validate_trust_integrity.
TrustIsValid(a) ==
    /\ TrustArithmetic(a)
    /\ \A i \in DOMAIN a.trust : i > 1 => a.trust[i].pre = a.trust[i - 1].post

Gained(s) == 2 * s.score[1] > s.score[2]
Lost(s) == 2 * s.score[1] < s.score[2]
TrustProven(a, b) ==
    /\ a.controlled = b.controlled
    /\ TrustIsValid(a) /\ TrustIsValid(b)
    /\ \A v \in Validator : Gained(a.final[v])
    /\ \A v \in Byzantine : Lost(b.final[v])
    /\ \A i \in DOMAIN a.trust : a.trust[i].pre[Honest] = b.trust[i].pre[Honest]
                               /\ a.trust[i].post[Honest] = b.trust[i].post[Honest]

Compare ==
    /\ phase = "written"
    /\ phase' = IF Proven(artifact.clean, artifact.attacked) THEN "proven" ELSE "not proven"
    /\ UNCHANGED <<policy, run, global, fits, noise, truth, artifact, lies>>

Next == (\E c \in Contributor : Submit(c)) \/ FinishRound \/ EndRun \/ Lie \/ Compare
Spec == Init /\ [][Next]_vars

-----------------------------------------------------------------------------
(* Properties. *)

Candidate(w, c) == rows[w][<<0, c>>]

\* A proven pair is one in which inverted votes were the cause: the two global models
\* of round 0 were made of the same models but for candidates whose admission the
\* votes turned over.  It holds even when one field of an artifact is not what the
\* run did and some training did not repeat (compare_byzantine_validator.py:152).
ProvenIsCaused ==
    phase = "proven" =>
        /\ rounds.clean[1].installed # rounds.attacked[1].installed
        /\ \E c \in Contributor : Candidate("clean", c).admitted # Candidate("attacked", c).admitted
        /\ \A c \in Contributor :
            Candidate("clean", c).admitted /\ Candidate("attacked", c).admitted =>
                Candidate("clean", c).submitted = Candidate("attacked", c).submitted

\* A pair whose trainings repeat and whose artifacts are untouched is refused only
\* when no admission of round 0 was turned over, or when candidates trained from
\* different global models were also judged differently by the reference.
GenuineIsProven ==
    phase = "not proven" /\ lies = 0 /\ noise = {} =>
        \/ \A c \in Contributor : Candidate("clean", c).admitted = Candidate("attacked", c).admitted
        \/ \E k \in Keys, v \in Validator :
            rows.clean[k].votes[v].reference # rows.attacked[k].votes[v].reference

\* The trust comparison accepts every pair without a lie, and the rounds of what it
\* accepts are those the votes led to (compare_byzantine_validator_trust.py:47).
TrustIsTold ==
    phase \in {"proven", "not proven"} =>
        /\ lies = 0 => TrustProven(artifact.clean, artifact.attacked)
        /\ TrustProven(artifact.clean, artifact.attacked) =>
            \A w \in Run : artifact[w].trust = Evidence(w).trust

\* Not met (README, section 4): what it accepts ends with the trust of its last round.
FinalIsTold ==
    phase \in {"proven", "not proven"} /\ TrustProven(artifact.clean, artifact.attacked) =>
            \A w \in Run : artifact[w].final = trust[w][MaxRound + 2]
=============================================================================
