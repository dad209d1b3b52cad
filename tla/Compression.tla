---------------------------- MODULE Compression ----------------------------
(***************************************************************************)
(* CompressionManager on the way of one model from its sender to its       *)
(* receiver.  The sender applies techniques in the order of its            *)
(* configuration, each to what the last one left; the receiver reverses    *)
(* them from the last to the first with the settings that travel along.    *)
(* The low-rank approximation keeps the full rank here, so that it is      *)
(* exact, and differential privacy, whose reverse does nothing, is absent. *)
(*                                                                         *)
(* An entry of a tensor is a multiple of 1/Unit, with Unit so chosen that  *)
(* every scale is one too: the arithmetic below is exact.                  *)
(***************************************************************************)
EXTENDS Integers, Sequences, FiniteSets, FiniteSetsExt, SequencesExt, Functions

CONSTANTS
    Models,     \* models to send: sequences of layers
    Bits,       \* BOUND: width of the integer types (8, 16 or 32 in the code)
    Digits,     \* BOUND: significant binary digits of the small float type
    Unit,       \* fractions of 1 that are told apart
    Keep        \* quarters of a layer that top-k keeps

VARIABLES
    sent,       \* the parameters of the sender's model
    params,     \* the arrays as they are now
    applied,    \* applied_techniques: names with their additional info
    left,       \* how many of them are still to be reversed
    packer,     \* byte_compressor
    phase       \* "encoding", "decoding", "decoded"; or the call that raised

vars == <<sent, params, applied, left, packer, phase>>

DType == {"int", "uint"}
QMin(d) == IF d = "int" THEN -(2^(Bits - 1)) ELSE 0
QMax(d) == IF d = "int" THEN 2^(Bits - 1) - 1 ELSE 2^Bits - 1
Middle(d) == (QMin(d) + QMax(d)) \div 2
Magnitude(d) == Max({-QMin(d), QMax(d)})

CompressionAssumption ==
    /\ Bits \in Nat \ {0, 1} /\ Digits \in Nat \ {0} /\ Keep \in 0..4
    /\ \A d \in DType :
        \A k \in {Magnitude(d), QMax(d) - QMin(d), Max({Middle(d), -Middle(d)})} : Unit % k = 0

\* The settings of a quantization.  wraps: how the build casts a float that is out
\* of the integer type's range (undefined in C); it matters for one kind only.
Settings ==
    {s \in [dtype : DType, scheme : {"symmetric", "asymmetric"},
            granularity : {"per_tensor", "per_channel"}, channel_axis : {0, 1}, wraps : BOOLEAN] :
        /\ s.granularity = "per_tensor" => s.channel_axis = 0 /\ ~s.wraps
        /\ s.scheme = "symmetric" => ~s.wraps}

-----------------------------------------------------------------------------
(* Numbers. *)

Magn(x) == IF x < 0 THEN -x ELSE x
\* The integer nearest to n / d, halves to the even one, as numpy.round does.
Nearest(n, d) ==
    LET q == n \div d
        r == n % d
    IN  IF 2 * r < d \/ (2 * r = d /\ q % 2 = 0) THEN q ELSE q + 1
\* n / d, where d divides n.
Ratio(n, d) == IF d < 0 THEN (-n) \div (-d) ELSE n \div d
Clip(d, x) == Max({QMin(d), Min({QMax(d), x})})
Wrap(d, x) == ((x - QMin(d)) % 2^Bits) + QMin(d)
\* astype of a float type with fewer digits.
Shortened(x) ==
    LET e == CHOOSE k \in 0..31 : /\ Magn(x) < 2^(Digits + k)
                                  /\ k = 0 \/ Magn(x) >= 2^(Digits + k - 1)
    IN  Nearest(x, 2^e) * 2^e

-----------------------------------------------------------------------------
(* One group of entries with one scale: a tensor or a channel.  lo and hi are  *)
(* its least and its greatest entry.                                           *)

Scale(s, lo, hi) ==
    IF lo = 0 /\ hi = 0 THEN Unit
    ELSE IF s.scheme = "symmetric" THEN Max({Magn(lo), Magn(hi)}) \div Magnitude(s.dtype)
    ELSE IF lo = hi THEN Ratio(lo, Middle(s.dtype))
    ELSE (hi - lo) \div (QMax(s.dtype) - QMin(s.dtype))

ZeroPoint(s, lo, hi) ==
    IF s.scheme = "symmetric" \/ lo = hi THEN 0
    ELSE Clip(s.dtype, QMin(s.dtype) - Nearest(lo, Scale(s, lo, hi)))

\* Clipped first, then cast.  (Mutated form: only cast.)
NarrowedOnly(d, x) == Wrap(d, x)
Narrowed(d, x) == Clip(d, x)

Quantized(s, x, lo, hi) ==
    LET scale == Scale(s, lo, hi)
        raw == Nearest(x + ZeroPoint(s, lo, hi) * scale, scale)
    IN  IF lo = hi /\ s.scheme = "asymmetric" THEN (IF lo = 0 THEN 0 ELSE Middle(s.dtype))
        ELSE IF s.scheme = "asymmetric" /\ s.granularity = "per_channel" /\ s.wraps
        THEN Clip(s.dtype, Wrap(s.dtype, raw))    \* cast first, then clipped
        ELSE Narrowed(s.dtype, raw)

-----------------------------------------------------------------------------
(* Arrays: [dim, at] with the entries of at in row-major order. *)

\* A tensor of one dimension is quantized as a whole, whatever the granularity.
ByChannel(s, layer) == s.granularity = "per_channel" /\ Len(layer.dim) = 2
Channel(s, layer, i) ==
    IF ~ByChannel(s, layer) THEN 0
    ELSE IF s.channel_axis = 0 THEN (i - 1) \div layer.dim[2] ELSE (i - 1) % layer.dim[2]
Least(s, layer, c) == Min({layer.at[i] : i \in {j \in DOMAIN layer.at : Channel(s, layer, j) = c}})
Greatest(s, layer, c) == Max({layer.at[i] : i \in {j \in DOMAIN layer.at : Channel(s, layer, j) = c}})

\* The arguments with which the entry of the code is per_tensor.
AsTensor(s, layer) == IF ByChannel(s, layer) THEN s ELSE [s EXCEPT !.granularity = "per_tensor"]

QuantizedLayer(s, layer) ==
    LET t == AsTensor(s, layer)
        Lo(i) == Least(s, layer, Channel(s, layer, i))
        Hi(i) == Greatest(s, layer, Channel(s, layer, i))
    IN  [layer EXCEPT !.at = [i \in DOMAIN layer.at |-> Quantized(t, layer.at[i], Lo(i), Hi(i))]]
Grid(s, layer) ==
    [c \in {Channel(s, layer, i) : i \in DOMAIN layer.at} |->
        LET lo == Least(s, layer, c)
            hi == Greatest(s, layer, c)
        IN  [scale |-> Scale(s, lo, hi), zero |-> ZeroPoint(s, lo, hi)]]

Dequantized(s, layer, grid) ==
    LET At(i) == grid[Channel(s, layer, i)]
    IN  [layer EXCEPT !.at = [i \in DOMAIN layer.at |-> (layer.at[i] - At(i).zero) * At(i).scale]]
\* The checks on the scales.  The one scale of a per_channel layer is a numpy.float32,
\* which is no Python float, and is refused.
\* (Mutated form: so is that of a whole tensor, whose scale float() converts.)
RefusedNumpy(s, grid) ==
    \/ Cardinality(DOMAIN grid) = 1
    \/ \E c \in DOMAIN grid : grid[c].scale <= 0
Refused(s, grid) ==
    \/ s.granularity = "per_channel" /\ Cardinality(DOMAIN grid) = 1
    \/ \E c \in DOMAIN grid : grid[c].scale <= 0

\* Sets of the positions that top-k may keep: ties are broken either way.
Kept(layer) == Max({1, (Keep * Len(layer.at)) \div 4})
\* (Mutated form: the first of the partition instead of the last.)
TopSetsFirst(layer) ==
    {I \in kSubset(Kept(layer), DOMAIN layer.at) :
        \A i \in I, j \in DOMAIN layer.at \ I : layer.at[j] >= layer.at[i]}
TopSets(layer) ==
    {I \in kSubset(Kept(layer), DOMAIN layer.at) :
        \A i \in I, j \in DOMAIN layer.at \ I : layer.at[j] <= layer.at[i]}
Values(layer, I) ==
    [dim |-> <<Cardinality(I)>>,
     at |-> [k \in 1..Cardinality(I) |-> layer.at[SetToSortSeq(I, <)[k]]]]
Filled(layer, meta) ==
    [dim |-> meta.shape,
     at |-> [i \in 1..meta.size |->
                IF i \in meta.indices
                THEN layer.at[Cardinality({j \in meta.indices : j <= i})] ELSE 0]]

-----------------------------------------------------------------------------
(* The sender. *)

Init ==
    /\ sent \in Models
    /\ params = sent
    /\ applied = <<>> /\ left = 0 /\ packer = "none" /\ phase = "encoding"

Used == {applied[i].name : i \in DOMAIN applied}
Unused(name) == phase = "encoding" /\ name \notin Used
Record(name, info) == applied' = Append(applied, [name |-> name, info |-> info])

\* PTQuantization.apply_strategy to an integer type.
Quantize(s) ==
    /\ Unused("ptq")
    /\ LET wrong == \/ params = <<>>
                    \/ /\ s.granularity = "per_channel"
                       /\ \E i \in DOMAIN params : s.channel_axis >= Len(params[i].dim)
       IN  IF wrong
           THEN phase' = "apply raised" /\ UNCHANGED <<params, applied>>
           ELSE /\ params' = [i \in DOMAIN params |-> QuantizedLayer(s, params[i])]
                /\ Record("ptq", [type |-> "int", settings |-> s,
                                  grids |-> [i \in DOMAIN params |-> Grid(s, params[i])]])
                /\ UNCHANGED phase
    /\ UNCHANGED <<sent, left, packer>>

\* PTQuantization.apply_strategy to a float type, the half float (the default) or
\* one no shorter than the model's; its reverse casts back.
QuantizeFloat(type) ==
    /\ Unused("ptq")
    /\ IF params = <<>>
       THEN phase' = "apply raised" /\ UNCHANGED <<params, applied>>
       ELSE /\ params' = [i \in DOMAIN params |->
                            [params[i] EXCEPT !.at = [j \in DOMAIN @ |->
                                IF type = "half" THEN Shortened(@[j]) ELSE @[j]]]]
            /\ Record("ptq", [type |-> type])
            /\ UNCHANGED phase
    /\ UNCHANGED <<sent, left, packer>>

Sparsify ==
    /\ Unused("topk")
    /\ \E choice \in [DOMAIN params -> UNION {TopSets(params[i]) : i \in DOMAIN params}] :
        /\ \A i \in DOMAIN params : choice[i] \in TopSets(params[i])
        /\ params' = [i \in DOMAIN params |-> Values(params[i], choice[i])]
        /\ Record("topk", [i \in DOMAIN params |->
                [indices |-> choice[i], shape |-> params[i].dim, size |-> Len(params[i].at)]])
    /\ UNCHANGED <<sent, left, packer, phase>>

\* The singular values of a matrix of half floats: numpy has none, and raises.
Factored == {i \in DOMAIN params : Len(params[i].dim) = 2}
Halved == \E i \in DOMAIN applied : applied[i].name = "ptq" /\ applied[i].info.type = "half"
Factor ==
    /\ Unused("low_rank")
    /\ IF Halved /\ Factored # {}
       THEN phase' = "apply raised" /\ UNCHANGED <<params, applied>>
       ELSE /\ params' = SelectSeq(params, LAMBDA layer : Len(layer.dim) # 2)
            /\ Record("low_rank", [i \in Factored |-> params[i]])
            /\ UNCHANGED phase
    /\ UNCHANGED <<sent, left, packer>>

\* A byte compressor takes effect when the rest is done; a second one is an error.
Pack(name) ==
    /\ phase = "encoding" /\ packer # name
    /\ IF packer = "none"
       THEN packer' = name /\ UNCHANGED phase
       ELSE phase' = "apply raised" /\ UNCHANGED packer
    /\ UNCHANGED <<sent, params, applied, left>>

Ship ==
    /\ phase = "encoding"
    /\ phase' = "decoding" /\ left' = Len(applied)
    /\ UNCHANGED <<sent, params, applied, packer>>

-----------------------------------------------------------------------------
(* The receiver. *)

\* The technique that is reversed next.  (Mutated form: in the order of application.)
NextOneFirst == Len(applied) - left + 1
NextOne == left
Reversing(name) == phase = "decoding" /\ left > 0 /\ applied[NextOne].name = name
Info == applied[NextOne].info
Reversed == left' = left - 1

Dequantize ==
    /\ Reversing("ptq")
    /\ IF \/ params = <<>>
          \/ Info.type = "int" /\ \E i \in DOMAIN params : Refused(Info.settings, Info.grids[i])
       THEN phase' = "reverse raised" /\ UNCHANGED <<params, left>>
       ELSE IF Info.type # "int"
       THEN Reversed /\ UNCHANGED <<params, phase>>
       ELSE /\ params' = [i \in DOMAIN params |-> Dequantized(Info.settings, params[i], Info.grids[i])]
            /\ Reversed /\ UNCHANGED phase
    /\ UNCHANGED <<sent, applied, packer>>

Densify ==
    /\ Reversing("topk")
    /\ params' = [i \in DOMAIN params |-> Filled(params[i], Info[i])]
    /\ Reversed
    /\ UNCHANGED <<sent, applied, packer, phase>>

\* The factored layers come back to their positions, the others fill the rest in order.
\* (Mutated form: they come last.)
RebuiltLast(states) ==
    params \o [i \in 1..Cardinality(DOMAIN states) |-> states[SetToSortSeq(DOMAIN states, <)[i]]]
Rebuilt(states) ==
    [i \in 1..(Len(params) + Cardinality(DOMAIN states)) |->
        IF i \in DOMAIN states THEN states[i]
        ELSE params[i - Cardinality({j \in DOMAIN states : j < i})]]
Rebuild ==
    /\ Reversing("low_rank")
    /\ params' = Rebuilt(Info)
    /\ Reversed
    /\ UNCHANGED <<sent, applied, packer, phase>>

Deliver ==
    /\ phase = "decoding" /\ left = 0
    /\ phase' = "decoded"
    /\ UNCHANGED <<sent, params, applied, left, packer>>

Next ==
    \/ \E s \in Settings : Quantize(s)
    \/ \E type \in {"half", "long"} : QuantizeFloat(type)
    \/ Sparsify \/ Factor
    \/ \E name \in {"zlib", "lzma"} : Pack(name)
    \/ Ship
    \/ Dequantize \/ Densify \/ Rebuild \/ Deliver

Spec == Init /\ [][Next]_vars
-----------------------------------------------------------------------------
(* Properties. *)

\* The one quantization of the transfer.
Quantizations == {applied[i].info : i \in {j \in DOMAIN applied : applied[j].name = "ptq"}}
\* One scale for a tensor, with zero at zero.
Plain == \A q \in Quantizations : q.type # "int" \/ (/\ q.settings.scheme = "symmetric"
                                                /\ q.settings.granularity = "per_tensor")
SameShape == Len(params) = Len(sent) /\ \A i \in DOMAIN sent : params[i].dim = sent[i].dim

\* INVARIANT.  Whatever techniques were combined in whatever order, the receiver has
\* every layer in its place with its shape: the factored ones are merged back between
\* the others, and the sparse ones take the shape they had when top-k ran.
ShapesReturn == phase = "decoded" => SameShape

\* INVARIANT.  What the sender lets through, the receiver refuses only for a
\* quantization per channel or to the full range: with symmetric scales of whole
\* tensors, or floats, it decodes it, even when a layer is constant or all zero, or
\* top-k and the approximation ran before.  (What the sender itself refuses:
\* EverythingIsSent.)
PlainIsDecoded == Plain => phase # "reverse raised"

\* The sender can apply any of the techniques in any order ("Apply compression
\* techniques in sequence to the data", manager.py:41).  Not met: README, section 4.
EverythingIsSent == phase # "apply raised"

\* INVARIANT.  What a shorter float or symmetric scales of a signed type bring back is
\* within one step of what was sent, or zero where top-k dropped it.  So is what the
\* full range of whole tensors brings back, without top-k, for a layer around zero.
Step(layer) == Max({Magn(x) : x \in Range(layer.at)}) \div Magnitude("int")
Full(q) == q.type = "int" /\ q.settings.scheme = "asymmetric" /\ q.settings.granularity = "per_tensor"
AroundZero(layer) == Min(Range(layer.at)) <= 0 /\ Max(Range(layer.at)) >= 0
Precise(q, layer) ==
    \/ q.type # "int"
    \/ q.type = "int" /\ q.settings.scheme = "symmetric" /\ q.settings.dtype = "int"
    \/ Full(q) /\ AroundZero(layer) /\ "topk" \notin Used
CloseToSent ==
    phase = "decoded" =>
        \A k \in DOMAIN sent : (\A q \in Quantizations : Precise(q, sent[k])) =>
            \A i \in DOMAIN sent[k].at :
                \/ Magn(params[k].at[i] - sent[k].at[i]) <= Step(sent[k])
                \/ "topk" \in Used /\ params[k].at[i] = 0

\* INVARIANT.  The greatest entries of a layer survive: no entry comes back positive
\* while one that is greater by more than two steps comes back smaller.  (Rounding and
\* clipping can make entries within two steps equal, and top-k then drop the greater.)
GreatestSurvive ==
    phase = "decoded" /\ Plain =>
        \A k \in DOMAIN sent : \A i, j \in DOMAIN sent[k].at :
            sent[k].at[i] - sent[k].at[j] > 2 * Step(sent[k]) /\ params[k].at[j] > 0 =>
                params[k].at[i] >= params[k].at[j]
=============================================================================
