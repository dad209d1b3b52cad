----------------------------- MODULE Partitions -----------------------------
(***************************************************************************)
(* What the driver of a controlled experiment does before its nodes train: *)
(* a strategy cuts the training split into one partition for each node,    *)
(* the adversary's attack poisons its partition, the audit compares the    *)
(* partition with the copy taken before, and the nodes are connected by a  *)
(* topology.                                                               *)
(*                                                                         *)
(* The random generators may answer anything: a shuffle is any order, a    *)
(* Dirichlet draw any positive shares in multiples of 1/Grid.  An image is *)
(* its corner, where the trigger goes, and the rest.                       *)
(***************************************************************************)
EXTENDS Integers, Sequences, FiniteSets, FiniteSetsExt, SequencesExt, Functions

CONSTANTS
    Scenes,     \* experiments: rows, number of partitions, strategy, attack, topology;
                \* BOUND damage: values of a partition changed by anything else
    Grid,       \* BOUND: fractions of 1 a Dirichlet draw tells apart
    MaxTries    \* BOUND: max_tries of _generate_proportions (10 in the code)

VARIABLES
    scene,      \* the experiment
    phase,      \* what the driver does next; or the call that raised
    shares,     \* result of _generate_proportions: for each class drawn so far
    active,     \* active_partitions
    tries,      \* draws of all classes that are over
    parts,      \* the partitions, as sequences of row numbers
    before,     \* snapshot of the adversary's partition
    after,      \* the adversary's partition
    picked,     \* rows the backdoor selects, a function of its seed
    damage,     \* values changed by something else than the attack
    links,      \* connections made, as sets of two nodes
    todo,       \* connections still to be made
    lost        \* connections that failed

cut == <<shares, active, tries, parts>>
sample == <<before, after, picked, damage>>
network == <<links, todo, lost>>
vars == <<scene, phase, cut, sample, network>>

PartitionsAssumption ==
    /\ Grid \in Nat \ {0} /\ MaxTries \in Nat \ {0}
    /\ \A s \in Scenes : s.k \in Nat /\ s.test \in Nat /\ s.damage \in Nat /\ Len(s.rows) > 0

-----------------------------------------------------------------------------
(* Cutting the training split. *)

Rows == DOMAIN scene.rows
Places == 1..scene.k
Label(r) == scene.rows[r].label
\* The classes in the order of Python's set of small integers.
Classes == SetToSortSeq({Label(r) : r \in Rows}, <)
OfClass(l) == SetToSortSeq({r \in Rows : Label(r) = l}, <)
Slice(seq, from, to) == SubSeq(seq, from + 1, to)
Orders(seq) == {[i \in DOMAIN seq |-> seq[p[i]]] : p \in Permutations(DOMAIN seq)}

\* Where partition i of the first i ends, when the sizes differ by one at most.
EvenEnd(size, i) == i * (size \div scene.k) + Min({i, size % scene.k})

\* Dirichlet draws and their adaptation to the partitions that are still active;
\* a share is at[i] / of.
Draws == {d \in [Places -> 1..Grid] : MapThenSumSet(LAMBDA i : d[i], Places) = Grid}
Adapted(draw) ==
    LET at == [i \in Places |-> IF active[i] THEN draw[i] ELSE 0]
    IN  [at |-> at, of |-> MapThenSumSet(LAMBDA i : at[i], Places)]

\* What partition i has been assigned of the whole split by the shares sh, in units
\* of 1 / (number of rows * Scale(sh)).
Scale(sh) == FoldFunctionOnSet(LAMBDA c, n : c.of * n, 1, sh, DOMAIN sh)
Assigned(sh, i) ==
    MapThenSumSet(LAMBDA l : Len(OfClass(l)) * sh[l].at[i] * (Scale(sh) \div sh[l].of), DOMAIN sh)
StillActiveByClass(sh) ==                                       \* mutated form
    [i \in Places |-> Assigned(sh, i) * Len(Classes) < Len(scene.rows) * Scale(sh)]
StillActive(sh) == [i \in Places |-> Assigned(sh, i) * scene.k < Len(scene.rows) * Scale(sh)]
LargeEnough(sh) == \A i \in Places : Assigned(sh, i) >= scene.min * Scale(sh)

\* n / d rounded to the nearest integer, halves to the even one.
Rounded(n, d) ==
    LET q == n \div d
        r == n % d
    IN  IF 2 * r < d \/ (2 * r = d /\ q % 2 = 0) THEN q ELSE q + 1
\* right_sides: the cumulated shares of class l up to partition i.
RightSideOfEach(l, i) ==                                        \* mutated form
    IF i = 0 THEN 0
    ELSE MapThenSumSet(LAMBDA j : Rounded(shares[l].at[j] * Len(OfClass(l)), shares[l].of), 1..i)
RightSide(l, i) ==
    IF i = 0 THEN 0
    ELSE Rounded(MapThenSumSet(LAMBDA j : shares[l].at[j], 1..i) * Len(OfClass(l)), shares[l].of)

Init ==
    /\ scene \in Scenes
    /\ phase = "configured"
    /\ shares = <<>> /\ active = <<>> /\ tries = 0 /\ parts = <<>>
    /\ before = <<>> /\ after = <<>> /\ picked = {} /\ damage = 0
    /\ links = {} /\ todo = {} /\ lost = {}

\* generate_partitions of the strategy that shuffles and cuts.
CutEvenly ==
    /\ phase = "configured" /\ scene.strategy = "random_iid"
    /\ \E order \in Orders(SetToSortSeq(Rows, <)) :
        parts' = [i \in Places |-> Slice(order, EvenEnd(Len(order), i - 1), EvenEnd(Len(order), i))]
    /\ phase' = "cut"
    /\ UNCHANGED <<scene, shares, active, tries, sample, network>>

\* The checks of the Dirichlet strategy, then the first try.
StartDraws ==
    /\ phase = "configured" /\ scene.strategy = "dirichlet"
    /\ IF scene.k > Min({Len(scene.rows), scene.test}) \/ scene.k = 0
       THEN phase' = "too many partitions" /\ UNCHANGED active
       ELSE phase' = "drawing" /\ active' = [i \in Places |-> TRUE]
    /\ UNCHANGED <<scene, shares, tries, parts, sample, network>>

\* The shares of one class.
DrawClass ==
    /\ phase = "drawing" /\ Cardinality(DOMAIN shares) < Len(Classes)
    /\ LET l == Classes[Cardinality(DOMAIN shares) + 1]
       IN  \E draw \in Draws :
            LET sh == [c \in DOMAIN shares \cup {l} |->
                        IF c = l THEN Adapted(draw) ELSE shares[c]]
            IN  /\ sh[l].of > 0
                /\ shares' = sh
                /\ active' = IF scene.balancing THEN StillActive(sh) ELSE active
    /\ UNCHANGED <<scene, phase, tries, parts, sample, network>>

\* Every class is drawn: the partitions are large enough, or all is drawn again.
JudgeDraws ==
    /\ phase = "drawing" /\ Cardinality(DOMAIN shares) = Len(Classes)
    /\ IF LargeEnough(shares)
       THEN phase' = "applying" /\ UNCHANGED <<shares, active, tries>>
       ELSE /\ tries' = tries + 1
            /\ phase' = IF tries' = MaxTries THEN "no valid partitioning" ELSE "drawing"
            /\ shares' = <<>>
            /\ active' = [i \in Places |-> TRUE]
    /\ UNCHANGED <<scene, parts, sample, network>>

\* _apply_proportions for each class, shuffled.
CutByClass ==
    /\ phase = "applying"
    /\ \E order \in [DOMAIN shares -> UNION {Orders(OfClass(l)) : l \in DOMAIN shares}] :
        /\ \A l \in DOMAIN shares : order[l] \in Orders(OfClass(l))
        /\ parts' = [i \in Places |->
             FlattenSeq([c \in DOMAIN Classes |->
                 Slice(order[Classes[c]], RightSide(Classes[c], i - 1), RightSide(Classes[c], i))])]
    /\ phase' = "cut"
    /\ UNCHANGED <<scene, shares, active, tries, sample, network>>

-----------------------------------------------------------------------------
(* Poisoning and auditing the adversary's partition, the first one. *)

Attack == scene.attack
Preserving == {"sign_flipping", "free_rider", "collusion"}

Flipped(l) == IF l \in DOMAIN Attack.map THEN Attack.map[l] ELSE l
Triggered(row) == [row EXCEPT !.corner = Attack.painted, !.label = Attack.target]

\* poison_data of the attack, on the rows seq; the backdoor selects the rows sel.
Poisoned(seq, sel) ==
    CASE Attack.name = "label_flipping" -> [i \in DOMAIN seq |-> [seq[i] EXCEPT !.label = Flipped(@)]]
      [] Attack.name = "backdoor" ->
            [i \in DOMAIN seq |-> IF i \in sel THEN Triggered(seq[i]) ELSE seq[i]]
      [] OTHER -> seq
Selections(seq) ==
    IF Attack.name = "backdoor" THEN kSubset((Len(seq) * Attack.rate) \div 4, DOMAIN seq) ELSE {{}}

\* Partitions that differ from seq in one value, or have lost a row.
Damaged(seq) ==
    {[seq EXCEPT ![i].label = v] : i \in DOMAIN seq, v \in {1, 2, 3}}
    \cup {[seq EXCEPT ![i].corner = v] : i \in DOMAIN seq, v \in {0, 1}}
    \cup {[seq EXCEPT ![i].rest = 1 - @] : i \in DOMAIN seq}
    \cup {RemoveAt(seq, i) : i \in DOMAIN seq}

Poison ==
    /\ phase = "cut"
    /\ before' = [i \in DOMAIN parts[1] |-> scene.rows[parts[1][i]]]
    /\ picked' \in Selections(before')
    /\ after' = Poisoned(before', picked')
    /\ phase' = "poisoned"
    /\ UNCHANGED <<scene, cut, damage, network>>

Damage ==
    /\ phase = "poisoned" /\ damage < scene.damage
    /\ after' \in Damaged(after) \ {after}
    /\ damage' = damage + 1
    /\ UNCHANGED <<scene, phase, cut, before, picked, network>>

ImageChanged == {i \in DOMAIN before : <<before[i].corner, before[i].rest>> # <<after[i].corner, after[i].rest>>}
LabelChanged == {i \in DOMAIN before : before[i].label # after[i].label}

ValidFlippingOfIndices ==                                       \* mutated form
    /\ DOMAIN Attack.map # {}
    /\ LabelChanged = {i \in DOMAIN before : Flipped(before[i].label) # before[i].label}
    /\ ImageChanged = {}
ValidFlipping ==
    /\ DOMAIN Attack.map # {}
    /\ LabelChanged = {i \in DOMAIN before : Flipped(before[i].label) # before[i].label}
    /\ ImageChanged = {}
    /\ \A i \in DOMAIN before : after[i].label = Flipped(before[i].label)

\* The trigger is compared with the configured value, not with what was painted.
ValidBackdoor ==
    /\ ImageChanged = picked
    /\ LabelChanged = {i \in picked : before[i].label # Attack.target}
    /\ \A i \in picked :
        /\ after[i].label = Attack.target
        /\ after[i].corner = Attack.value
        /\ after[i].rest = before[i].rest

\* audit_partition.
AuditAccepts ==
    /\ Len(before) = Len(after)
    /\ CASE Attack.name \in {"none", "byzantine_validator"} -> ImageChanged = {} /\ LabelChanged = {}
         [] Attack.name = "label_flipping" -> ValidFlipping
         [] Attack.name = "backdoor" -> ValidBackdoor
         [] Attack.name \in Preserving -> before = after
         [] OTHER -> FALSE

\* The nodes exist once the partitions are audited; connect_nodes goes through the
\* pairs with an edge.
Pair(i, j) == {i, j}
RingEdgesOpen == {Pair(i, i + 1) : i \in 1..(scene.k - 2)}      \* mutated form
RingEdges == {Pair(i, (i % scene.k) + 1) : i \in Places}
Degree(t) == CASE t = "random_2" -> 2 [] t = "random_3" -> 3 [] OTHER -> 4

\* generate_matrix: the edges it may produce, without the diagonal.
Matrices(t) ==
    LET all == {Pair(i, j) : i \in Places, j \in Places} \ {{i} : i \in Places}
    IN  CASE t = "star" -> {{e \in all : 1 \in e}}
          [] t = "full" -> {all}
          [] t = "line" -> {{Pair(i, i + 1) : i \in 1..(scene.k - 1)}}
          [] t = "ring" -> {RingEdges \cap all}
          [] OTHER -> kSubset(Min({Rounded(scene.k * Degree(t), 2), Cardinality(all)}), all)

Audit ==
    /\ phase = "poisoned"
    /\ IF AuditAccepts
       THEN phase' = "audited" /\ todo' \in Matrices(scene.topology)
       ELSE phase' = "audit refused" /\ UNCHANGED todo
    /\ UNCHANGED <<scene, cut, sample, links, lost>>

\* connect_nodes, in the order of the matrix; it goes on when a connection fails.
Connect(e) ==
    /\ phase = "audited" /\ e \in todo
    /\ \A f \in todo : Min(e) < Min(f) \/ (Min(e) = Min(f) /\ Max(e) <= Max(f))
    /\ todo' = todo \ {e}
    /\ \/ links' = links \cup {e} /\ UNCHANGED lost
       \/ lost' = lost \cup {e} /\ UNCHANGED links
    /\ UNCHANGED <<scene, phase, cut, sample>>

Next ==
    \/ CutEvenly \/ StartDraws \/ DrawClass \/ JudgeDraws \/ CutByClass
    \/ Poison \/ Damage \/ Audit
    \/ \E e \in todo : Connect(e)

Spec == Init /\ [][Next]_vars

-----------------------------------------------------------------------------
(* Properties. *)

Occurrences(r) == {<<i, j>> \in Places \X Rows : j \in DOMAIN parts[i] /\ parts[i][j] = r}

\* Every row of the split is in one partition and once, whichever strategy cuts, and
\* the sizes are those it promises: they differ by one at most, or, for the Dirichlet
\* cut, stay above the minimum but for what the rounding of each class takes away.
PartitionsCover ==
    parts # <<>> =>
        /\ \A r \in Rows : Cardinality(Occurrences(r)) = 1
        /\ scene.strategy = "random_iid" =>
            \A i, j \in Places : Len(parts[i]) <= Len(parts[j]) + 1
        /\ scene.strategy = "dirichlet" =>
            \A i \in Places : Len(parts[i]) >= scene.min - Len(Classes)

\* A balanced cut never closes all partitions while classes are left: the shares of
\* the next class would be divided by zero (partition_strategies.py:214).
SomebodyIsActive ==
    phase = "drawing" /\ Cardinality(DOMAIN shares) < Len(Classes) =>
        \E i \in Places : active[i]

\* The audit accepts what the attack makes of the partition and nothing else.  It
\* also refuses the registered attacks it has no validator for, a backdoor whose
\* images wore the trigger before, and a label map that is empty; a normalized trigger
\* is compared with the wrong value.
Normalized == Attack.name = "backdoor" /\ Attack.painted # Attack.value
Exempt ==
    \/ Normalized
    \/ Attack.name \notin {"none", "byzantine_validator", "label_flipping", "backdoor"} \cup Preserving
    \/ Attack.name = "backdoor" /\ \E i \in picked : before[i].corner = Attack.value
    \/ Attack.name = "label_flipping" /\ DOMAIN Attack.map = {}
AuditIsExact ==
    /\ phase = "audited" => after = Poisoned(before, picked) \/ Normalized
    /\ phase = "audit refused" => after # Poisoned(before, picked) \/ Exempt

RECURSIVE Reach(_)
Reach(set) ==
    LET more == set \cup UNION {e \in links : e \cap set # {}}
    IN  IF more = set THEN set ELSE Reach(more)

\* Once all connections are made and none failed, every node of a star, a full mesh, a line or a
\* ring reaches every other one: gossip has a way to all of them.
EveryoneIsConnected ==
    phase = "audited" /\ todo = {} /\ lost = {} /\ scene.topology \in {"star", "full", "line", "ring"} =>
        Reach({1}) = Places
=============================================================================
