--------------------------- MODULE NetworkMeaning ---------------------------
(***************************************************************************)
(* What the outputs of a graph are for one fixed input, operator by        *)
(* operator, in the integers of the kernels and with the operators' own    *)
(* rules for layouts, rounding and clipping.  A tensor is the sequence of  *)
(* its elements.  This is the reference the passes are compared with; it   *)
(* knows the operators before and after a pass and nothing of the passes.  *)
(***************************************************************************)
EXTENDS NetworkRewriting

LOCAL INSTANCE TileGeometry
LOCAL INSTANCE NodeParsers

(* A tensor nobody computes. *)
GivenValues(t, size) == [i \in 1..size |-> ((7 * i + 3 * t) % 11) - 5]

Coordinates(e, s) == [d \in DOMAIN s |-> (e \div StridesFromShape(s)[d]) % s[d]]
ElementAt(s, v, at) == v[FlatOffset(at, StridesFromShape(s)) + 1]
Each(s, f(_)) == [i \in 1..Prod(s) |-> f(Coordinates(i - 1, s))] \o <<>>

(* The element of a smaller tensor that meets an element of a larger one.  *)
Broadcast(s, v, at) ==
    IF Len(v) = 1 THEN v[1]
    ELSE ElementAt(s, v, [d \in DOMAIN s |->
             LET c == at[d + Len(at) - Len(s)] IN IF s[d] = 1 THEN 0 ELSE c])

Clip8(x) == IF x < -128 THEN -128 ELSE IF x > 127 THEN 127 ELSE x
RightShift(x, shift) == x \div 2^shift
Rounded(x, shift) == IF shift = 0 THEN x ELSE RightShift(x + 2^(shift - 1), shift)
Total(S, f(_)) == FoldSet(LAMBDA x, sum : f(x) + sum, 0, S)
OfChannel(v, c) == v[IF Len(v) = 1 THEN 1 ELSE c + 1]
Log(d) == CHOOSE s \in 0..31 : 2^s = d

(* GELU_s8 and Hardswish_s8 *)
GELU(x, b, one) ==
    LET sign == IF x > 0 THEN 1 ELSE IF x < 0 THEN -1 ELSE 0
        d == Min({sign * x, -b}) + b
    IN  x * ((one + sign * (one - d * d)) \div 2)

Hardswish(x, three, six, sixth) == x * Max({0, Min({x + three, six})}) * sixth

(* Every value of the first input by itself. *)
Mapped(v, f(_)) == [i \in DOMAIN v |-> f(v[i])] \o <<>>

-----------------------------------------------------------------------------
RequantShiftOf(s, v, attrs) ==
    Each(s, LAMBDA at :
        LET c == IF Len(s) > 1 THEN at[2] ELSE 0
        IN  Clip8(Rounded(ElementAt(s, v[1], at) * OfChannel(v[2], c) + OfChannel(v[3], c), Log(attrs.div))))

RequantizedAddOf(v, a) ==
    [i \in DOMAIN v[1] |->
        LET one == RightShift(v[1][i] * a.rqs1_mul + a.rqs1_add, a.rqs1_shift)
            two == RightShift(v[2][i] * a.rqs2_mul + a.rqs2_add, a.rqs2_shift)
        IN  Clip8(RightShift((one + two) * a.rqsOut_mul + a.rqsOut_add, a.rqsOut_shift))] \o <<>>

Flag(attrs, name) == IF name \in DOMAIN attrs THEN attrs[name] ELSE 0

(* Matrices in the last two dimensions, one after another in those before. *)
ProductAt(s, v, attrs, at) ==
    LET rank == Len(at)
        trans(i) == Flag(attrs, IF i = 1 THEN "transA" ELSE "transB") = 1
        depth == s[1][IF trans(1) THEN rank - 1 ELSE rank]
        entry(i, row, col) ==
            ElementAt(s[i], v[i], SubSeq(at, 1, rank - 2) \o (IF trans(i) THEN <<col, row>> ELSE <<row, col>>))
    IN  Total(0..(depth - 1), LAMBDA j : entry(1, at[rank - 1], j) * entry(2, j, at[rank]))

MatMulOf(s, v, attrs, out) ==
    Each(out, LAMBDA at :
        ProductAt(s, v, attrs, at) + (IF Len(v) = 3 THEN Broadcast(s[3], v[3], at) ELSE 0))

RequantizedGemmOf(s, v, attrs, out) ==
    Each(out, LAMBDA at :
        Clip8(RightShift(ProductAt(s, v, attrs, at) * OfChannel(v[4], at[Len(at)]) + Broadcast(s[3], v[3], at),
                      attrs.shift)))

-----------------------------------------------------------------------------
(* Windows.  An image has its channels before or after its place.          *)
AtImage(first, b, c, place) == IF first THEN <<b, c>> \o place ELSE <<b>> \o place \o <<c>>
ImageAt(first, at) ==
    [b |-> at[1], c |-> IF first THEN at[2] ELSE Last(at),
     place |-> SubSeq(at, IF first THEN 3 ELSE 2, Len(at) - (IF first THEN 0 ELSE 1))]
SizesOf(first, s) == SubSeq(s, IF first THEN 3 ELSE 2, Len(s) - (IF first THEN 0 ELSE 1))

(* The places of the input under the window at a place of the output.      *)
Covered(sizes, attrs, place) ==
    {<<kernel, from>> \in
        {<<kp, [d \in DOMAIN sizes |-> place[d] * attrs.strides[d] - attrs.pads[d] + kp[d]]>> :
            kp \in {kp \in [DOMAIN sizes -> 0..(Max(Range(attrs.kernel_shape)) - 1)] :
                       \A d \in DOMAIN sizes : kp[d] < attrs.kernel_shape[d]}} :
        \A d \in DOMAIN sizes : from[d] \in 0..(sizes[d] - 1)}

(* The depthwise kernels of PULP read channels first whatever the layout.  *)
ConvolutionAt(n, s, v, at) ==
    LET last == ~n.attrs.channels_first
        dw == n.op = "RequantizedConv" /\ n.attrs.group > 1
        firstIn == ~last \/ dw
        place == ImageAt(~last, at)
        F == s[2][1]
        depth == IF last THEN Last(s[2]) ELSE s[2][2]
        base == (place.c \div (F \div n.attrs.group)) * depth
        weight(c, kernel) == ElementAt(s[2], v[2], AtImage(~last, place.c, c, kernel))
        image(c, from) == ElementAt(s[1], v[1], AtImage(firstIn, place.b, base + c, from))
    IN  Total({<<c, w>> : c \in 0..(depth - 1),
                          w \in Covered(SizesOf(firstIn, s[1]), n.attrs, place.place)},
              LAMBDA p : weight(p[1], p[2][1]) * image(p[1], p[2][2]))

ConvOf(n, s, v, out) ==
    Each(out, LAMBDA at :
        ConvolutionAt(n, s, v, at)
        + (IF Len(v) = 3 THEN v[3][ImageAt(n.attrs.channels_first, at).c + 1] ELSE 0))

RequantizedConvOf(n, s, v, out) ==
    Each(out, LAMBDA at :
        LET c == ImageAt(n.attrs.channels_first, at).c
            k == Len(v)
        IN  Clip8(RightShift(ConvolutionAt(n, s, v, at) * OfChannel(v[k - 1], c) + OfChannel(v[k], c),
                          n.attrs.shift)))

MaxPoolOf(n, s, v, out) ==
    LET first == n.attrs.channels_first
    IN  Each(out, LAMBDA at :
            LET p == ImageAt(first, at)
            IN  Max({ElementAt(s[1], v[1], AtImage(first, p.b, p.c, w[2])) :
                        w \in Covered(SizesOf(first, s[1]), n.attrs, p.place)}))

-----------------------------------------------------------------------------
(* Data that only moves *)

TransposeOf(s, v, perm, out) ==
    Each(out, LAMBDA at :
        ElementAt(s, v, [d \in DOMAIN s |-> at[CHOOSE e \in DOMAIN perm : perm[e] = d - 1]]))

(* The axis counts from 0. *)
ConcatOf(s, v, axis, out) ==
    Each(out, LAMBDA at :
        LET before(i) == Total(1..(i - 1), LAMBDA j : s[j][axis + 1])
            from == CHOOSE i \in DOMAIN s : at[axis + 1] >= before(i) /\ at[axis + 1] < before(i) + s[i][axis + 1]
        IN  ElementAt(s[from], v[from], [at EXCEPT ![axis + 1] = @ - before(from)]))

(* The mean keeps its dimensions. *)
ReduceMeanOf(s, v, axes, out) ==
    Each(out, LAMBDA at :
        LET group == {e \in 0..(Prod(s) - 1) :
                         \A d \in DOMAIN s : (d - 1) \in Range(axes) \/ Coordinates(e, s)[d] = at[d]}
        IN  Total(group, LAMBDA e : v[e + 1]) \div Cardinality(group))

(* A gradient of a convolution, of which only the operands matter here.    *)
Gradient(which, operands, out) ==
    [i \in 1..Prod(out) |->
        which * i + Total(DOMAIN operands, LAMBDA j : j * Total(DOMAIN operands[j], LAMBDA e : e * operands[j][e]))]

GradientOf(n, v, j, out) ==
    CASE n.op = "ConvGrad" -> <<Gradient(1, <<v[1], v[3]>>, out), Gradient(2, <<v[1], v[2]>>, out),
                                Gradient(3, <<v[1]>>, out)>>[j]
      [] n.op = "ConvGradX" -> Gradient(1, v, out)
      [] n.op = "ConvGradW" -> Gradient(2, v, out)
      [] n.op = "ConvGradB" -> Gradient(3, v, out)

-----------------------------------------------------------------------------
ResultOf(n, s, v, j, out) ==
    CASE n.op = "RequantShift" -> RequantShiftOf(s[1], v, n.attrs)
      [] n.op = "RequantizedAdd" -> RequantizedAddOf(v, n.attrs)
      [] n.op \in {"Add", "Sub", "Mul", "Div"} ->
            Each(out, LAMBDA at :
                LET a == Broadcast(s[1], v[1], at)  b == Broadcast(s[2], v[2], at)
                IN  IF n.op = "Add" THEN a + b ELSE IF n.op = "Sub" THEN a - b
                    ELSE IF n.op = "Mul" THEN a * b ELSE a \div b)
      [] n.op \in {"Round", "Reshape", "Identity"} -> v[1]
      [] n.op = "Relu" -> Mapped(v[1], LAMBDA x : Max({x, 0}))
      [] n.op = "Clip" -> Mapped(v[1], LAMBDA x : Max({v[2][1], Min({v[3][1], x})}))
      [] n.op = "Quant" ->
            LET rep == QuantParser([attrs |-> n.attrs, inputs |-> s, outputs |-> <<out>>]).rep
            IN  Mapped(v[1], LAMBDA x : Max({rep.min_val, Min({rep.max_val,
                                             x \div n.attrs.scale + n.attrs.zero_point})}))
      [] n.op = "Dequant" -> Mapped(v[1], LAMBDA x : (x - n.attrs.zero_point) * n.attrs.scale)
      [] n.op = "iGELU" -> Mapped(v[1], LAMBDA x : GELU(x, n.attrs.b, n.attrs.one))
      [] n.op = "RequantizediGELU" ->
            Mapped(v[1], LAMBDA x : Clip8(Rounded(GELU(x, n.attrs.b, n.attrs.one) * v[2][1] + v[3][1], v[4][1])))
      [] n.op = "iHardswish" ->
            Mapped(v[1], LAMBDA x : Hardswish(x, n.attrs.three, n.attrs.six, n.attrs.one_over_six))
      [] n.op = "RequantizediHardswish" ->
            Mapped(v[1], LAMBDA x :
                Clip8(Rounded(Hardswish(x, n.attrs.three, n.attrs.six, n.attrs.one_over_six) * n.attrs.mul
                              + n.attrs.add, n.attrs.shift)))
      [] n.op \in {"MatMul", "Gemm"} -> MatMulOf(s, v, n.attrs, out)
      [] n.op = "RequantizedGemm" -> RequantizedGemmOf(s, v, n.attrs, out)
      [] n.op = "Conv" -> ConvOf(n, s, v, out)
      [] n.op = "RequantizedConv" -> RequantizedConvOf(n, s, v, out)
      [] n.op = "MaxPool" -> MaxPoolOf(n, s, v, out)
      [] n.op = "Transpose" -> TransposeOf(s[1], v[1], n.attrs.perm, out)
      [] n.op = "Concat" -> ConcatOf(s, v, n.attrs.axis, out)
      [] n.op = "ReduceMean" -> ReduceMeanOf(s[1], v[1], n.attrs.axes, out)
      [] n.op \in {"ConvGrad", "ConvGradX", "ConvGradW", "ConvGradB"} -> GradientOf(n, v, j, out)

RECURSIVE ValueOf(_, _)
ValueOf(g, t) ==
    LET n == Producer(g, t)
        v == [i \in DOMAIN n.in |-> ValueOf(g, n.in[i])] \o <<>>
        s == [i \in DOMAIN n.in |-> g.tensors[n.in[i]].shape] \o <<>>
        place == CHOOSE j \in DOMAIN n.out : n.out[j] = t
    IN  IF IsConstant(g, t) THEN g.tensors[t].values
        ELSE IF ~Produced(g, t) THEN GivenValues(t, Prod(g.tensors[t].shape))
        ELSE ResultOf(n, s, v, place, g.tensors[t].shape)

(* What the network returns. *)
MeaningOfNetwork(g) == [i \in DOMAIN g.outputs |-> ValueOf(g, g.outputs[i])] \o <<>>
=============================================================================
