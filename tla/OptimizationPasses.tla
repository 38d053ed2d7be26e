------------------------- MODULE OptimizationPasses -------------------------
(***************************************************************************)
(* The passes over the graph that the PULP platforms run before a network  *)
(* is parsed: PULPOptimizer of Targets/PULPOpen/Platform.py, then those    *)
(* the deployer of Targets/PULPOpen/Deployer.py adds.  A pass is a pattern *)
(* and a replacement of one match m, the ids of the matched nodes.         *)
(***************************************************************************)
EXTENDS NetworkRewriting

LOCAL INSTANCE TileGeometry

(* A replacement that raises an exception ends the deployment.             *)
Crash == [crash |-> TRUE]
Crashed(g) == "crash" \in DOMAIN g

Pairwise(op(_, _), a, b) ==
    [i \in 1..Max({Len(a), Len(b)}) |->
        op(a[IF Len(a) = 1 THEN 1 ELSE i], b[IF Len(b) = 1 THEN 1 ELSE i])]
Plus(a, b) == Pairwise(LAMBDA x, y : x + y, a, b)
Times(a, b) == Pairwise(LAMBDA x, y : x * y, a, b)

ValuesOf(g, t) == g.tensors[t].values
WithValues(g, t, values) ==
    WithTensor(g, t, Constant(IF Len(values) = Prod(g.tensors[t].shape) THEN g.tensors[t].shape
                              ELSE <<Len(values)>>, values))

(* The logarithm rounded down, and the rounding of a quotient to which     *)
(* 1/1000 is added first.                                                  *)
Log2(d) == CHOOSE s \in 0..30 : 2^s <= d /\ d < 2^(s + 1)
RoundedQuotient(a, b) == (2 * a + b) \div (2 * b)

Scalar(g, t) == Len(ValuesOf(g, t)) = 1
TheValue(g, t) == ValuesOf(g, t)[1]

-----------------------------------------------------------------------------
(* Patterns that stand for one operator *)

(* Div, Add, Round and Clip are a quantisation.  The scale is kept as the  *)
(* divisor it is the inverse of.                                           *)
QuantPattern(g, m) ==
    LET div == NodeIn(g, m[1])  add == NodeIn(g, m[2])  clip == NodeIn(g, m[4])
        low == TheValue(g, clip.in[2])
        high == TheValue(g, clip.in[3])
        quant == OpNode(NewNode(g), "Quant", <<div.in[1]>>, clip.out,
                        [scale |-> TheValue(g, div.in[2]), zero_point |-> TheValue(g, add.in[2]),
                         signed |-> low < 0, bit_width |-> Log2(IF low < 0 THEN high - low + 1 ELSE high + 1),
                         min_val |-> low, max_val |-> high])
    IN  Appended([g EXCEPT !.nodes = SelectSeq(@, LAMBDA n : n.id \notin Range(m))], <<quant>>)

(* Sub and Mul are the way back.                                           *)
DequantPattern(g, m) ==
    LET sub == NodeIn(g, m[1])  mul == NodeIn(g, m[2])
        scale == mul.in[IF mul.in[1] = sub.out[1] THEN 2 ELSE 1]
    IN  ReplaceInsertNode(g, <<sub.in[1]>>, mul.out, "Dequant",
                          [scale |-> TheValue(g, scale), zero_point |-> TheValue(g, sub.in[2]),
                           bit_width |-> 8, signed |-> TRUE])

(* _split_single_conv_grad: one node for each of dX, dW and dB.            *)
SplitConvGrad(g, m) ==
    LET n == NodeIn(g, m[1])
        kernel == SubSeq(g.tensors[n.in[3]].shape, 3, 4)
        attrs == n.attrs @@ [kernel_shape |-> kernel]
        parts == <<OpNode(NewNode(g), "ConvGradX", <<n.in[1], n.in[3]>>, <<n.out[1]>>, attrs),
                   OpNode(NewNode(g) + 1, "ConvGradW", <<n.in[1], n.in[2]>>, SubSeq(n.out, 2, 2), attrs),
                   OpNode(NewNode(g) + 2, "ConvGradB", <<n.in[1]>>, SubSeq(n.out, 3, 3), [none |-> 0])>>
    IN  Appended([g EXCEPT !.nodes = SelectSeq(@, LAMBDA o : o.id # n.id)],
                 SubSeq(parts, 1, Len(n.out)))

-----------------------------------------------------------------------------
(* Nodes that do nothing *)

(* A concatenation with an empty tensor: its readers read the other one.   *)
SkipEmptyConcat(g, m) ==
    LET n == NodeIn(g, m[1])
        empty == {i \in DOMAIN n.in : Prod(g.tensors[n.in[i]].shape) = 0}
        kept == DOMAIN n.in \ empty
    IN  IF empty = {} \/ kept = {} THEN g
        ELSE Sorted(Everywhere([g EXCEPT !.nodes = SelectSeq(@, LAMBDA o : o.id # n.id)],
                               n.out[1], n.in[Min(kept)]))

(* A requantisation by one: the node before it writes its result.          *)
SkipUnityRequant(g, m) ==
    LET n == NodeIn(g, m[1])  rqs == NodeIn(g, m[2])
    IN  IF /\ \A v \in Range(ValuesOf(g, rqs.in[2])) : v = rqs.attrs.div
           /\ \A v \in Range(ValuesOf(g, rqs.in[3])) : v = 0
        THEN ReplaceInsertNode(g, n.in, rqs.out, n.op, n.attrs)
        ELSE g

(* A bias of zeros. *)
RemoveEmptyConvBias(g, m) ==
    LET n == NodeIn(g, m[1])
    IN  IF Len(n.in) = 3 /\ IsConstant(g, n.in[3]) /\ Range(ValuesOf(g, n.in[3])) = {0}
        THEN WithNode(g, [n EXCEPT !.in = Front(@)])
        ELSE g

(* A mean over dimensions of size one. *)
RemoveOnlySingletonReduceMean(g, m) ==
    LET n == NodeIn(g, m[1])
        shape == g.tensors[n.in[1]].shape
    IN  IF Len(g.nodes) > 1 /\ \A a \in Range(n.attrs.axes) : shape[a + 1] = 1
        THEN DeleteNode(g, n.id) ELSE g

(* A transposition that keeps every dimension in place.                    *)
TransposeNoPermOpt(g, m) ==
    LET perm == NodeIn(g, m[1]).attrs.perm
    IN  IF \A d \in DOMAIN perm : perm[d] = d - 1 THEN DeleteNode(g, m[1]) ELSE g

RemoveGlobalOutputReshape(g, m) ==
    IF Consumers(g, NodeIn(g, m[1]).out[1]) = <<>> THEN DeleteNode(g, m[1]) ELSE g

-----------------------------------------------------------------------------
(* Requantisations that become part of the node before them *)

(* "normalize add": the offset is divided by the factor.                   *)
Normalized(g, rqs) ==
    WithValues(g, rqs.in[3],
               Pairwise(RoundedQuotient, ValuesOf(g, rqs.in[3]), ValuesOf(g, rqs.in[2])))

MergeiGELU(g, m) ==
    LET igelu == NodeIn(g, m[1])  rqs == NodeIn(g, m[2])
        shift == NewTensor(g)
        given == WithTensor(Normalized(g, rqs), shift, Constant(<<1>>, <<Log2(rqs.attrs.div)>>))
    IN  ReplaceInsertNode(given, igelu.in \o Tail(rqs.in) \o <<shift>>, rqs.out,
                          "RequantizediGELU", igelu.attrs @@ rqs.attrs)

(* When the factors are not one for the whole tensor it returns nothing,   *)
(* and what called it fails.                                               *)
MergeiHardswish(g, m) ==
    LET hardswish == NodeIn(g, m[1])  rqs == NodeIn(g, m[2])
        given == Normalized(g, rqs)
    IN  IF ~(\A i \in 2..3 : IsConstant(g, rqs.in[i]) /\ Scalar(g, rqs.in[i])) THEN Crash
        ELSE ReplaceInsertNode(given, hardswish.in, rqs.out, "RequantizediHardswish",
                 [mul |-> TheValue(given, rqs.in[2]), add |-> TheValue(given, rqs.in[3]),
                  shift |-> Log2(rqs.attrs.div)] @@ hardswish.attrs @@ rqs.attrs)

(* Half the divisor is added to round, in the constant of the node itself. *)
MergeConvRequant(g, m) ==
    LET conv == NodeIn(g, m[1])  rqs == NodeIn(g, m[2])
        shift == Log2(rqs.attrs.div)
        rounding == IF shift > 0 THEN 2^(shift - 1) ELSE 0
        rounded == WithValues(g, rqs.in[3], Plus(ValuesOf(g, rqs.in[3]), <<rounding>>))
    IN  ReplaceInsertNode(rounded, conv.in \o Tail(rqs.in), rqs.out, "RequantizedConv",
                          [shift |-> shift] @@ conv.attrs @@ rqs.attrs)

(* Gemm and MatMul; a third input takes up the offset.                     *)
MergeGemmRequant(g, m) ==
    LET gemm == NodeIn(g, m[1])  rqs == NodeIn(g, m[2])
        shift == Log2(rqs.attrs.div)
        rounded == WithValues(g, rqs.in[3], Plus(ValuesOf(g, rqs.in[3]), <<2^(shift - 1)>>))
        scaled == Times(ValuesOf(rounded, gemm.in[3]), ValuesOf(rounded, rqs.in[2]))
        biased == IF Len(gemm.in) = 3
                  THEN WithValues(rounded, gemm.in[3], Plus(scaled, ValuesOf(rounded, rqs.in[3])))
                  ELSE rounded
        in == IF Len(gemm.in) = 3 THEN gemm.in \o <<rqs.in[2]>> ELSE gemm.in \o <<rqs.in[3], rqs.in[2]>>
    IN  IF Len(gemm.in) = 3 /\ ~IsConstant(g, gemm.in[3]) THEN Crash
        ELSE ReplaceInsertNode(biased, in, rqs.out, "RequantizedGemm",
                               [shift |-> shift] @@ gemm.attrs @@ rqs.attrs)

(* A constant that is added before a requantisation joins its offset.      *)
MergeConstAddAndRequant(g, m) ==
    LET add == NodeIn(g, m[1])  rqs == NodeIn(g, m[2])
        const == add.in[IF IsConstant(g, add.in[1]) THEN 1 ELSE 2]
        other == add.in[IF IsConstant(g, add.in[1]) THEN 2 ELSE 1]
        offset == Plus(Times(ValuesOf(g, rqs.in[2]), ValuesOf(g, const)), ValuesOf(g, rqs.in[3]))
        merged == WithValues(WithValues(g, rqs.in[3], offset), const, Times(ValuesOf(g, const), <<0>>))
    IN  IF /\ IsConstant(g, const) /\ IsConstant(g, rqs.in[3])
           /\ g.tensors[const].shape # g.tensors[add.out[1]].shape
        THEN WithNode(merged, [rqs EXCEPT !.in[1] = other])
        ELSE g

(* One of several readers adds or concatenates: each reader gets a         *)
(* requantisation of its own, with flat copies of the constants.           *)
RQSSplit(g, m) ==
    LET rqs == NodeIn(g, m[1])
        old == rqs.out[1]
        readers == Consumers(g, old)
        copy(i) == NewTensor(g) + i
        in == [i \in DOMAIN rqs.in |-> IF IsConstant(g, rqs.in[i]) THEN copy(i) ELSE rqs.in[i]]
        out(k) == copy(Len(rqs.in)) + k
        new == [i \in {copy(j) : j \in {c \in DOMAIN rqs.in : IsConstant(g, rqs.in[c])}} |->
                   LET v == ValuesOf(g, rqs.in[i - NewTensor(g)]) IN Constant(<<Len(v)>>, v)]
               @@ [t \in {out(k) : k \in DOMAIN readers} |-> Variable(g.tensors[old].shape)]
        reads(n) == [n EXCEPT !.in =
                        Redirected(@, old, out(Min({k \in DOMAIN readers : readers[k] = n.id} \cup {Len(readers) + 1})))]
        nodes == [i \in DOMAIN g.nodes |-> reads(g.nodes[i])]
        splits == [k \in DOMAIN readers |->
                      OpNode(NewNode(g) + k - 1, "RequantShift", in, <<out(k)>>, rqs.attrs)]
    IN  IF Len(readers) <= 1 \/ ~\E r \in Range(readers) : NodeIn(g, r).op \in {"Add", "Concat"} THEN g
        ELSE Sorted([g EXCEPT !.tensors = new @@ @,
                              !.nodes = SelectSeq(nodes, LAMBDA n : n.id # rqs.id) \o splits])

(* _merge_add_rq_fun: the requantisations before and after an addition.    *)
MergeAddRequant(g, m) ==
    LET add == NodeIn(g, m[2])
        from(i) == Producer(g, add.in[i])
        result == NodeIn(g, m[4])
        isRQ(n) == n.op = "RequantShift"
        single(n) == Scalar(g, n.in[2]) /\ Scalar(g, n.in[3])
        numbers(n) ==
            IF isRQ(n) THEN [mul |-> TheValue(g, n.in[2]), add |-> TheValue(g, n.in[3]) + n.attrs.div \div 2,
                             shift |-> Log2(n.attrs.div)] @@ n.attrs
            ELSE [mul |-> 1, add |-> 0, div |-> 1, shift |-> 0, n_levels_out |-> 256, signed |-> 1]
        named(key, values) == [k \in {key \o f : f \in DOMAIN values} |->
                                  values[CHOOSE f \in DOMAIN values : key \o f = k]]
        in == [i \in 1..2 |-> IF isRQ(from(i)) THEN from(i).in[1] ELSE add.in[i]]
    IN  IF \E n \in {from(1), from(2), result} : isRQ(n) /\ ~single(n) THEN g
        ELSE ReplaceInsertNode(g, in, result.out, "RequantizedAdd",
                 named("rqs1_", numbers(from(1))) @@ named("rqs2_", numbers(from(2)))
                 @@ named("rqsOut_", numbers(result)) @@ add.attrs)


-----------------------------------------------------------------------------
(* Layouts.  Permutations count dimensions from 0, as in the attributes.   *)

Swapped(rank) == [d \in 1..rank |-> IF d = rank THEN rank - 2 ELSE IF d = rank - 1 THEN rank - 1 ELSE d - 1]

(* Channels before or after the spatial dimensions.                        *)
LayoutPermutation(rank, spatial, first) ==
    LET batch == rank - spatial - 1
    IN  [d \in 1..rank |-> IF d <= batch THEN d - 1
                           ELSE IF first THEN (IF d = batch + 1 THEN rank - 1 ELSE d - 2)
                           ELSE IF d = rank THEN batch ELSE d]

InversePermutation(perm) == [d \in DOMAIN perm |-> (CHOOSE e \in DOMAIN perm : perm[e] = d - 1) - 1]
Permuted(s, perm) == [d \in DOMAIN perm |-> s[perm[d] + 1]]

(* The values of a tensor after np.transpose. *)
TransposedValues(shape, values, perm) ==
    LET new == Permuted(shape, perm)
        at(e) == [d \in DOMAIN new |-> (e \div StridesFromShape(new)[d]) % new[d]]
    IN  [i \in DOMAIN values |->
            values[FlatOffset(Permuted(at(i - 1), InversePermutation(perm)), StridesFromShape(shape)) + 1]]

TransposedConstant(g, t, perm) ==
    WithTensor(g, t, Constant(Permuted(g.tensors[t].shape, perm),
                              TransposedValues(g.tensors[t].shape, ValuesOf(g, t), perm)))

Transposition(id, from, to, perm) == OpNode(id, "Transpose", <<from>>, <<to>>, [perm |-> perm])

(* A transposition between input i of a node and what it read.             *)
AppendTranspose(g, id, i, perm) ==
    LET n == NodeIn(g, id)
        new == NewTensor(g)
        read == WithNode(g, [n EXCEPT !.in[i] = new])
    IN  Appended(WithTensor(read, new, Variable(Permuted(g.tensors[n.in[i]].shape, perm))),
                 <<Transposition(NewNode(g), n.in[i], new, perm)>>)

(* A transposition between what a node computes and its output.            *)
PrependTranspose(g, id, perm) ==
    LET n == NodeIn(g, id)
        new == NewTensor(g)
        shape == Permuted(g.tensors[n.out[1]].shape, InversePermutation(perm))
    IN  Appended(WithTensor(WithNode(g, [n EXCEPT !.out[1] = new]), new, Variable(shape)),
                 <<Transposition(NewNode(g), new, n.out[1], perm)>>)

(* The kernels want A as it is and B transposed. *)
TransposeMatmulInputs(g, m) ==
    LET n == NodeIn(g, m[1])
        flag(a) == IF a \in DOMAIN n.attrs THEN n.attrs[a] ELSE 0
        set == WithNode(g, [n EXCEPT !.attrs = [transA |-> 0, transB |-> 1] @@ @])
        rank(i) == Len(g.tensors[n.in[i]].shape)
        withA == IF flag("transA") = 1 THEN AppendTranspose(set, n.id, 1, Swapped(rank(1))) ELSE set
    IN  IF flag("transB") = 0 THEN AppendTranspose(withA, n.id, 2, Swapped(rank(2))) ELSE withA

Spatial(g, n) ==
    IF n.op \in {"Conv", "RequantizedConv"} THEN Len(g.tensors[n.in[2]].shape) - 2
    ELSE Len(n.attrs.kernel_shape)
Channels(g, n) ==
    LET shape == g.tensors[n.in[1]].shape
    IN  IF n.attrs.channels_first THEN shape[Len(shape) - Spatial(g, n)] ELSE Last(shape)
IsDepthwise(g, n) == Channels(g, n) # 1 /\ n.attrs.group = Channels(g, n)

(* Channels last: weights and other constants of more than one dimension   *)
(* are permuted in place, weights that are no constants by a node.         *)
RECURSIVE LayoutOfWeights(_, _, _, _)
LayoutOfWeights(g, id, i, constantsOnly) ==
    LET n == NodeIn(g, id)
        shape == g.tensors[n.in[i]].shape
        perm == LayoutPermutation(Len(shape), Spatial(g, n), FALSE)
        rest(h) == LayoutOfWeights(h, id, i + 1, constantsOnly)
    IN  IF i > Len(n.in) THEN g
        ELSE IF Len(shape) < 2 THEN rest(g)
        ELSE IF IsConstant(g, n.in[i]) THEN rest(TransposedConstant(g, n.in[i], perm))
        ELSE IF constantsOnly THEN Crash ELSE rest(AppendTranspose(g, id, i, perm))

ChannelsLast(g, id) == WithNode(g, [NodeIn(g, id) EXCEPT !.attrs = [channels_first |-> FALSE] @@ @])

(* A convolution or a pool between two transpositions. *)
NCHWtoNHWC(g, m) ==
    LET n == NodeIn(g, m[1])
        rank == Len(g.tensors[n.in[1]].shape)
        in == AppendTranspose(g, n.id, 1, LayoutPermutation(rank, Spatial(g, n), FALSE))
        both == PrependTranspose(in, n.id, LayoutPermutation(rank, Spatial(g, n), TRUE))
    IN  IF ~n.attrs.channels_first THEN g
        ELSE IF n.op \in {"Conv", "RequantizedConv"}
             THEN ChannelsLast(LayoutOfWeights(both, n.id, 2, FALSE), n.id)
        ELSE ChannelsLast(both, n.id)

(* The depthwise kernels of PULP take their input with channels first.     *)
PULPNCHWtoNHWCDw(g, m) ==
    LET n == NodeIn(g, m[1])
        rank == Len(g.tensors[n.out[1]].shape)
        out == PrependTranspose(g, n.id, LayoutPermutation(rank, Spatial(g, n), TRUE))
        all == LayoutOfWeights(out, n.id, 2, TRUE)
    IN  IF ~IsDepthwise(g, n) \/ ~n.attrs.channels_first THEN g
        ELSE IF Crashed(all) THEN Crash ELSE ChannelsLast(all, n.id)

(* Each reader of a transposition gets one of its own. *)
TransposeSplit(g, m) ==
    LET t == NodeIn(g, m[1])
        old == t.out[1]
        readers == Consumers(g, old)
        from == Producer(g, t.in[1])
        source == NewTensor(g)
        out(k) == source + k
        new == (source :> Variable(g.tensors[t.in[1]].shape))
               @@ [o \in {out(k) : k \in DOMAIN readers} |-> Variable(g.tensors[old].shape)]
        reads(n) ==
            IF n.id = from.id THEN [n EXCEPT !.out = <<source>>]
            ELSE [n EXCEPT !.in =
                     Redirected(@, old, out(Min({k \in DOMAIN readers : readers[k] = n.id} \cup {Len(readers) + 1})))]
        nodes == [i \in DOMAIN g.nodes |-> reads(g.nodes[i])]
        splits == [k \in DOMAIN readers |-> Transposition(NewNode(g) + k - 1, source, out(k), t.attrs.perm)]
    IN  IF Len(readers) <= 1 \/ ~Produced(g, t.in[1]) THEN g
        ELSE Sorted([g EXCEPT !.tensors = new @@ @,
                              !.nodes = SelectSeq(nodes, LAMBDA n : n.id # t.id) \o splits])

(* The sum of two transposed tensors is the transposed sum. *)
RQAddTransposeSquash(g, m) ==
    LET one == NodeIn(g, m[1])  two == NodeIn(g, m[3])
        ins == {one.in[1], two.in[1]}
        without == DeleteNode(DeleteNode(g, one.id), two.id)
        add == NodeIn(without, m[2])
        new == NewTensor(g)
        sum == WithNode(WithTensor(without, new, Variable(g.tensors[one.in[1]].shape)), [add EXCEPT !.out = <<new>>])
    IN  IF one.attrs.perm # two.attrs.perm THEN g
        ELSE Appended(sum, <<Transposition(NewNode(g), new, add.out[1], one.attrs.perm)>>)

(* Forth and back, which is told from the shapes, or net.                  *)
TransposeMerge(g, m) ==
    LET one == NodeIn(g, m[1])  two == NodeIn(g, m[2])
        net == Permuted(one.attrs.perm, two.attrs.perm)
    IN  IF g.tensors[one.in[1]].shape = g.tensors[two.out[1]].shape
        THEN Sorted(DeleteNode(DeleteNode(g, two.id), one.id))
        ELSE IF one.out[1] \in Range(g.outputs) THEN g
        ELSE ReplaceInsertNode(g, one.in, two.out, "Transpose", [perm |-> net])

(* Constants are transposed and reshaped at once. *)
TransposeConstOpt(g, m) ==
    LET t == NodeIn(g, m[1])
    IN  IF IsConstant(g, t.in[1])
        THEN DeleteNode(TransposedConstant(g, t.in[1], t.attrs.perm), t.id) ELSE g

ReshapeConstOpt(g, m) ==
    LET r == NodeIn(g, m[1])
    IN  IF IsConstant(g, r.in[1])
        THEN DeleteNode(WithTensor(g, r.in[1], Constant(g.tensors[r.out[1]].shape, ValuesOf(g, r.in[1]))), r.id)
        ELSE g

-----------------------------------------------------------------------------
Chain(ops) == [kind |-> "chain", ops |-> ops]
One(op) == Chain(<<{op}>>)
Then(ops, next) == Chain(<<ops, {next}>>)
Addition(sources, add, after) == [kind |-> "add", sources |-> sources, add |-> add, after |-> after]
Windows == {"Conv", "RequantizedConv"}

Pass(name, pattern) == [name |-> name, pattern |-> pattern]

(* The passes in their order.  Those on TrueIntegerDiv, for which there is *)
(* no kernel, on IntegerDiv and on Pad are left out.                       *)
Passes ==
    <<Pass("SplitConvGrad", [kind |-> "each", op |-> "ConvGrad"]),
      Pass("Quant", Chain(<<{"Div"}, {"Add"}, {"Round"}, {"Clip"}>>)),
      Pass("Dequant", Then({"Sub"}, "Mul")),
      Pass("SkipEmptyConcat", One("Concat")),
      Pass("SkipUnityRequant", Then({"Concat"}, "RequantShift")),
      Pass("SkipUnityRequant", Then({"Reshape", "Transpose"}, "RequantShift")),
      Pass("SkipUnityRequant", Then({"Reshape", "Transpose"}, "RequantShift")),
      Pass("RQSSplit", One("RequantShift")),
      Pass("MergeiGELU", Then({"iGELU"}, "RequantShift")),
      Pass("MergeiHardswish", Then({"iHardswish"}, "RequantShift")),
      Pass("MergeConvRequant", Then({"Conv"}, "RequantShift")),
      Pass("MergeConstAddAndRequant", Then({"Add"}, "RequantShift")),
      Pass("MergeGemmRequant", Then({"Gemm"}, "RequantShift")),
      Pass("MergeGemmRequant", Then({"MatMul"}, "RequantShift")),
      Pass("MergeAddRequant", Addition({}, "Add", {"RequantShift"})),
      Pass("RemoveEmptyConvBias", One("Conv")),
      Pass("RemoveOnlySingletonReduceMean", One("ReduceMean")),
      Pass("TransposeMatmulInputs", One("RequantizedGemm")),
      Pass("NCHWtoNHWC", One("MaxPool")), Pass("NCHWtoNHWC", One("AveragePool")),
      Pass("NCHWtoNHWC", One("AveragePoolGrad")), Pass("NCHWtoNHWC", One("MaxPoolGrad")),
      Pass("PULPNCHWtoNHWCDw", One("RequantizedConv")),
      Pass("NCHWtoNHWC", Chain(<<Windows>>)),
      Pass("TransposeSplit", One("Transpose")),
      Pass("RQAddTransposeSquash", Addition({"Transpose"}, "RequantizedAdd", {})),
      Pass("TransposeSplit", One("Transpose")),
      Pass("TransposeMerge", Then({"Transpose"}, "Transpose")),
      Pass("TransposeConstOpt", One("Transpose")),
      Pass("ReshapeConstOpt", One("Reshape")),
      Pass("TransposeNoPermOpt", One("Transpose")),
      Pass("RemoveGlobalOutputReshape", One("Reshape"))>>

Replacement(name, g, m) ==
    CASE name = "SplitConvGrad" -> SplitConvGrad(g, m)
      [] name = "Quant" -> QuantPattern(g, m)
      [] name = "Dequant" -> DequantPattern(g, m)
      [] name = "SkipEmptyConcat" -> SkipEmptyConcat(g, m)
      [] name = "SkipUnityRequant" -> SkipUnityRequant(g, m)
      [] name = "RQSSplit" -> RQSSplit(g, m)
      [] name = "MergeiGELU" -> MergeiGELU(g, m)
      [] name = "MergeiHardswish" -> MergeiHardswish(g, m)
      [] name = "MergeConvRequant" -> MergeConvRequant(g, m)
      [] name = "MergeConstAddAndRequant" -> MergeConstAddAndRequant(g, m)
      [] name = "MergeGemmRequant" -> MergeGemmRequant(g, m)
      [] name = "MergeAddRequant" -> MergeAddRequant(g, m)
      [] name = "RemoveEmptyConvBias" -> RemoveEmptyConvBias(g, m)
      [] name = "RemoveOnlySingletonReduceMean" -> RemoveOnlySingletonReduceMean(g, m)
      [] name = "TransposeMatmulInputs" -> TransposeMatmulInputs(g, m)
      [] name = "NCHWtoNHWC" -> NCHWtoNHWC(g, m)
      [] name = "PULPNCHWtoNHWCDw" -> PULPNCHWtoNHWCDw(g, m)
      [] name = "TransposeSplit" -> TransposeSplit(g, m)
      [] name = "RQAddTransposeSquash" -> RQAddTransposeSquash(g, m)
      [] name = "TransposeMerge" -> TransposeMerge(g, m)
      [] name = "TransposeConstOpt" -> TransposeConstOpt(g, m)
      [] name = "ReshapeConstOpt" -> ReshapeConstOpt(g, m)
      [] name = "TransposeNoPermOpt" -> TransposeNoPermOpt(g, m)
      [] name = "RemoveGlobalOutputReshape" -> RemoveGlobalOutputReshape(g, m)
=============================================================================
