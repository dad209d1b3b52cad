----------------------------- MODULE MCLearning -----------------------------
(***************************************************************************)
(* Compression, Federation and Partitions for TLC: what happens to numbers *)
(* between the data and the aggregate.  A behaviour is one transfer of a   *)
(* model, two rounds of three trainers, or the preparation of the data of  *)
(* one experiment; the other parts rest in an initial state.               *)
(***************************************************************************)
EXTENDS LearningRounds, Sequences

VARIABLES
    part,
    sent, params, applied, left, packer, phase,
    scene, stage, shares, active, tries, parts, before, after, picked, damage, links, todo, lost

transferVars == <<sent, params, applied, left, packer, phase>>
federationVars == <<rule, train, drift, late, round, step, base, pool, unhandled, memory,
                    control, fitted, result, installed>>
dataVars == <<scene, stage, shares, active, tries, parts, before, after, picked, damage, links,
              todo, lost>>
vars == <<part, transferVars, federationVars, dataVars>>

-----------------------------------------------------------------------------
(* Transfers: models of one matrix with every choice of entries, and models *)
(* of several layers whose shapes the techniques treat differently.         *)

Unit == 84
Matrix(values) == [dim |-> <<2, 2>>, at |-> [i \in 1..4 |-> values[i] * Unit]]
Vector(values) == [dim |-> <<Len(values)>>, at |-> [i \in DOMAIN values |-> values[i] * Unit]]
Row(values) == [dim |-> <<1, Len(values)>>, at |-> [i \in DOMAIN values |-> values[i] * Unit]]

Models ==
    {<<Matrix(v)>> : v \in [1..4 -> {-3, -1, 0, 1}]}
    \cup {<<Matrix(<<2, 2, 2, 2>>)>>, <<Matrix(<<1, 2, 3, 3>>)>>}
    \cup {<<Vector(v), Matrix(<<-1, 0, 3, 2>>), Row(<<-2, 1>>)>> : v \in [1..2 -> {-2, 0, 3}]}
    \cup {<<Matrix(<<0, 1, -3, 2>>), Vector(<<1, -2>>), Vector(<<0, 0>>)>>}

Transfer == INSTANCE Compression WITH Bits <- 3, Digits <- 3, Keep <- 2

-----------------------------------------------------------------------------
(* Rounds: three nodes, of which two or three train in the first and in the *)
(* second round; node 3 may lie.  A model has a layer of two entries and    *)
(* one of a single entry.  Samples and the scale of the drifts make every   *)
(* division exact.                                                          *)

\* The least number from lo to hi whose square is not below x.
RECURSIVE Root(_, _, _)
Root(x, lo, hi) ==
    IF lo = hi THEN lo
    ELSE LET middle == (lo + hi) \div 2
         IN  IF middle * middle < x THEN Root(x, middle + 1, hi) ELSE Root(x, lo, middle)
Magnitude(x) == IF x < 0 THEN -x ELSE x
Euclid(x) == Root(x[1] * x[1] + x[2] * x[2], 0, Magnitude(x[1]) + Magnitude(x[2])) + Magnitude(x[3])

Exact(r) == IF r = "krum" THEN 1 ELSE 1152
Scene(r, t, d, l) ==
    [rule |-> r, train |-> t, late |-> l,
     drift |-> [n \in 1..3 |-> [e \in 1..3 |-> Exact(r) * d[n][e]]]]
Apart == <<<<0, 1, 2>>, <<1, 2, -1>>, <<7, -4, 1>>>>
Outlier == <<<<2, 0, 1>>, <<1, 0, 2>>, <<-5, -8, 3>>>>
Closer == <<<<0, 0, 1>>, <<6, 0, 1>>, <<3, 1, 1>>>>   \* Krum selects the third, the liar's
Scenes ==
    {Scene(r, <<1..3, 1..3>>, Apart, 0) : r \in {"fedavg", "fedmedian", "fedadam"}}
        \cup {Scene("fedavg", <<1..3, 1..2>>, Outlier, 0), Scene("fedavg", <<1..2, 1..3>>, Apart, 0)}
        \cup {Scene("krum", <<1..3, 1..2>>, Closer, 0), Scene("krum", <<1..3, 1..2>>, Outlier, 1)}
        \cup {Scene("fedmedian", <<1..2, 1..3>>, Apart, 1)}
        \cup {Scene(r, <<1..2, 1..2>>, Apart, 0) : r \in {"scaffold", "fedadagrad", "fedyogi"}}
\* Any function of its arguments would do.
Step(m, v, t) == IF v > 1152 * 1152 THEN m \div 2 - t ELSE m + t
Counts == <<1, 2, 1>>

-----------------------------------------------------------------------------
(* Data: even and Dirichlet cuts of five or six rows, every attack the      *)
(* driver knows on a partition of three, and every topology of up to four   *)
(* nodes.                                                                   *)

Plain(labels) == [i \in DOMAIN labels |-> [label |-> labels[i], corner |-> 0, rest |-> i % 2]]
NoAttack == [name |-> "none"]
Base == [rows |-> Plain(<<1, 2, 1, 1, 2>>), test |-> 3, k |-> 2, strategy |-> "random_iid",
         balancing |-> FALSE, min |-> 2, attack |-> NoAttack, topology |-> "line", damage |-> 0]

Backdoor(painted, rate) ==
    [name |-> "backdoor", target |-> 2, rate |-> rate, value |-> 1, painted |-> painted]
Attacks ==
    {NoAttack, [name |-> "byzantine_validator"], [name |-> "sign_flipping"],
     [name |-> "colluding_backdoor"]}
    \cup {[name |-> "label_flipping", map |-> m] : m \in {<<>>, <<2>>, <<2, 1>>, <<1, 1>>}}
    \cup {Backdoor(p, r) : p \in {1, 2}, r \in {0, 2, 3}}

Dirichlet(k, min, labels, balancing) ==
    [Base EXCEPT !.strategy = "dirichlet", !.k = k, !.min = min, !.rows = Plain(labels),
                 !.balancing = balancing]
Preparations ==
    {[Base EXCEPT !.k = k] : k \in {2, 3}}
    \cup {Dirichlet(s[1], s[2], s[3], b) :
            b \in BOOLEAN, s \in {<<2, 3, <<1, 1, 2, 2, 2, 2>>>>, <<3, 1, <<1, 1, 2, 2, 2>>>>,
                                 <<2, 2, <<1, 1, 2, 3>>>>, <<3, 1, <<1, 1, 2, 3>>>>,
                                 <<4, 1, <<1, 2, 2, 2>>>>}}
    \cup {[Base EXCEPT !.k = 1, !.attack = attack, !.damage = 1,
                       !.rows = [Plain(<<1, 2, 1>>) EXCEPT ![1].corner = c]] :
            attack \in Attacks, c \in {0, 1}}
    \cup {[Base EXCEPT !.k = k, !.topology = t, !.rows = Plain([i \in 1..k |-> 1])] :
            k \in 1..4, t \in {"star", "full", "line", "ring", "random_2", "random_3"}}

Data == INSTANCE Partitions WITH
    Scenes <- Preparations, Grid <- 6, MaxTries <- 2, phase <- stage

-----------------------------------------------------------------------------

ASSUME /\ Transfer!CompressionAssumption /\ Data!PartitionsAssumption
       /\ Ungated!IsNormOn([1..3 -> -2..2])

\* Where a part rests, it rests in this one of its initial states.
TransferAtRest == Transfer!Init /\ sent = CHOOSE m \in Models : TRUE
RoundsAtRest == Ungated!Init /\ rule = "scaffold"
DataAtRest == Data!Init /\ scene = Base

Init ==
    \/ part = "transfer" /\ Transfer!Init /\ RoundsAtRest /\ DataAtRest
    \/ part = "rounds" /\ Ungated!Init /\ TransferAtRest /\ DataAtRest
    \/ part = "data" /\ Data!Init /\ TransferAtRest /\ RoundsAtRest

TransferStep(A) == part = "transfer" /\ A /\ UNCHANGED <<part, federationVars, dataVars>>
RoundsStep(A) == part = "rounds" /\ A /\ UNCHANGED <<part, transferVars, dataVars>>
DataStep(A) == part = "data" /\ A /\ UNCHANGED <<part, transferVars, federationVars>>

Next == TransferStep(Transfer!Next) \/ RoundsStep(Ungated!Next) \/ DataStep(Data!Next)

Spec == Init /\ [][Next]_vars

-----------------------------------------------------------------------------

\* What the receiver decodes is what was sent: whatever order of techniques the
\* sender got through, it does not make the decoding of a plain transfer fail, mix up
\* layers or shapes, or move an entry by more than a step.
RoundTrip ==
    part = "transfer" => Transfer!PlainIsDecoded /\ Transfer!ShapesReturn /\ Transfer!CloseToSent

\* Every row is in one partition and once, in partitions of the promised sizes; no cut
\* divides by zero; and a topology that promises it connects every node to all.
DataIsPrepared ==
    part = "data" => Data!PartitionsCover /\ Data!SomebodyIsActive /\ Data!EveryoneIsConnected

\* The audit accepts exactly the partitions that the attack asks for.
AuditIsExact == part = "data" => Data!AuditIsExact

=============================================================================
