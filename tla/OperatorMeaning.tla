-------------------------- MODULE OperatorMeaning --------------------------
(***************************************************************************)
(* What each operator promises, in the terms of the ONNX operators (and of *)
(* the training operators of this project) and without any tile, core or   *)
(* address in a buffer: for each output tensor, the elements of the inputs *)
(* that each of its elements is computed from.  The tiled implementation   *)
(* is compared with these functions.                                       *)
(***************************************************************************)
EXTENDS Integers, Sequences, FiniteSets, SequencesExt, TLC

LOCAL INSTANCE TileGeometry

At(role, i) == <<role, i>>
Value(of, by) == [of |-> of, by |-> by]

Elements(shape) == 0..(Prod(shape) - 1)

(* The place of an element and the element at a place. *)
IndexOf(shape, e) == [d \in DOMAIN shape |-> (e \div StridesFromShape(shape)[d]) % shape[d]]
ElementAt(shape, i) == FlatOffset(i, StridesFromShape(shape))

-----------------------------------------------------------------------------
(* Element by element *)

EachOf(n, ins) == [e \in Elements(n.inputs[1]) |-> Value({[k \in DOMAIN ins |-> At(ins[k], e)]}, 1)]

RequantizedByChannel(n) ==
    LET shape == n.inputs[1]
        channel(e) == IndexOf(shape, e)[IF n.channels_first THEN 2 ELSE Len(shape)]
    IN  [e \in Elements(shape) |->
            Value({<<At("data_in", e), At("mul", channel(e)), At("add", channel(e))>>}, 1)]

MeaningOfElements(n) ==
    CASE n.op \in {"Add", "RequantizedAdd"} -> [data_out |-> EachOf(n, <<"data_in_1", "data_in_2">>)]
      [] n.op = "Mul" -> [C |-> [e \in Elements(n.inputs[1]) |->
             Value({<<At("A", e), At("B", IF Prod(n.inputs[2]) = 1 THEN 0 ELSE e)>>}, 1)]]
      [] n.op \in {"Relu", "Gelu", "iHardswish", "RequantizediHardswish", "Quant", "Dequant"} ->
             [data_out |-> EachOf(n, <<"data_in">>)]
      [] n.op = "ReluGrad" -> [grad_in |-> EachOf(n, <<"grad_out", "data_in">>)]
      [] n.op = "GeluGrad" -> [grad_out |-> EachOf(n, <<"grad_in", "data_in">>)]
      [] n.op = "RequantizediGELU" -> [data_out |-> [e \in Elements(n.inputs[1]) |->
             Value({<<At("data_in", e), At("mul", 0), At("add", 0), At("shift", 0)>>}, 1)]]
      [] n.op = "SGD" -> [weight_updated |-> EachOf(n, <<"weight", "grad">>)]
      [] n.op = "InPlaceAccumulatorV2" -> [data_out |-> [e \in Elements(n.inputs[1]) |->
             Value({<<At("accum_buffer", e), At("gradient", e), At("lazy_reset_grad", 0)>>}, 1)]]
      [] n.op = "MSELoss" -> [loss |-> [e \in {0} |->
             Value({<<At("pred", i), At("target", i)>> : i \in Elements(n.inputs[1])},
                   Prod(n.inputs[1]))]]
      [] n.op = "MSELossGrad" -> [grad |-> [e \in Elements(n.inputs[1]) |->
             Value({<<At("pred", e), At("target", e)>>}, Prod(n.inputs[1]))]]
      [] n.op = "RequantShift" -> [data_out |->
             IF Prod(n.inputs[2]) = 1 THEN EachOf(n, <<"data_in">>) ELSE RequantizedByChannel(n)]

-----------------------------------------------------------------------------
(* Row by row *)

MeaningOfRows(n) ==
    LET shape == n.inputs[1]
        length == Last(shape)
        row(e) == {length * (e \div length) + j : j \in 0..(length - 1)}
        column(e) == e % length
        rows == 0..(Prod(Front(shape)) - 1)
        rowOf(r) == {length * r + j : j \in 0..(length - 1)}
        normalized(r, e) == <<At("grad_in", e), At("data_in", e), At("mean", r), At("inv_std_dev", r)>>
    IN
    CASE n.op \in {"Softmax", "iSoftmax"} -> [data_out |-> [e \in Elements(shape) |->
             Value({<<At("data_in", e), At("data_in", x)>> : x \in row(e)}, 1)]]
      [] n.op = "SoftmaxGrad" -> [softmax_grad |-> [e \in Elements(shape) |->
             Value({<<At("upstream_grad", e), At("softmax_output", e),
                      At("upstream_grad", x), At("softmax_output", x)>> : x \in row(e)}, 1)]]
      [] n.op = "iRMSNorm" -> [data_out |-> [e \in Elements(shape) |->
             Value({<<At("data_in", e), At("weight", column(e)), At("data_in", x)>> : x \in row(e)}, 1)]]
      [] n.op = "LayerNormalization" ->
             [data_out |-> [e \in Elements(shape) |->
                 Value({<<At("data_in", e), At("weight", column(e)), At("bias", column(e)),
                          At("data_in", x)>> : x \in row(e)}, 1)]]
             @@ [s \in {"mean", "inv_std_dev"} |-> [r \in rows |->
                    Value({<<At("data_in", x)>> : x \in rowOf(r)}, 1)]]
      [] n.op = "LayerNormalizationGrad" ->
             [grad_out |-> [e \in Elements(shape) |->
                 LET r == e \div length
                 IN  Value({<<At("grad_in", e), At("data_in", e), At("weight", column(e)),
                              At("mean", r), At("inv_std_dev", r),
                              At("grad_in", x), At("data_in", x), At("weight", column(x))>> :
                              x \in row(e)}, 1)],
              weight_grad |-> [c \in 0..(length - 1) |->
                 Value({normalized(r, length * r + c) : r \in rows}, 1)],
              bias_grad |-> [c \in 0..(length - 1) |->
                 Value({<<At("grad_in", length * r + c)>> : r \in rows}, 1)]]
      [] n.op = "SoftmaxCrossEntropyLoss" ->
             [log_prob |-> [e \in Elements(shape) |->
                 Value({<<At("logits", e), At("logits", x)>> : x \in row(e)}, 1)],
              loss |-> [e \in {0} |->
                 Value({<<At("logits", x), At("labels", x \div length)>> : x \in Elements(shape)},
                       shape[1])]]
      [] n.op = "SoftmaxCrossEntropyLossGrad" -> [grad |-> [e \in Elements(shape) |->
             Value({<<At("log_prob", e), At("labels", e \div length)>>}, shape[1])]]


-----------------------------------------------------------------------------
(* Elements moved, and sums along axes.  Attributes number axes from 0.    *)

Position(axis, rank) == IF axis < 0 THEN rank + axis + 1 ELSE axis + 1

Copied(e) == Value({<<At("data_in", e)>>}, 1)

(* The elements of the input that an element of the output stands for when *)
(* the axes are dropped or kept as one.                                    *)
AlongAxes(n, axes, keepdims, e) ==
    LET in == n.inputs[1]
        out == IndexOf(n.outputs[1], e)
        rest == [d \in DOMAIN in \ axes |->
                    IF keepdims = 1 THEN d ELSE Cardinality({x \in 1..d : x \notin axes})]
    IN  {x \in Elements(in) : \A d \in DOMAIN rest : IndexOf(in, x)[d] = out[rest[d]]}

ReducedAxes(n) ==
    IF "axes" \in DOMAIN n.attrs THEN {a + 1 : a \in Range(n.attrs.axes)}
    ELSE IF Len(n.inputs) = 2 THEN {a + 1 : a \in Range(n.attrs.axes_values)}
    ELSE DOMAIN n.inputs[1]

MeaningOfMoves(n) ==
    LET in == n.inputs[1]
        out == n.outputs[1]
    IN
    CASE n.op = "Concat" ->
             LET axis == Position(n.attrs.axis, Len(out))
             IN  [data_out |-> [e \in Elements(out) |->
                     LET i == IndexOf(out, e)
                     IN  IF i[axis] < in[axis]
                         THEN Value({<<At("data_in_1", ElementAt(in, i))>>}, 1)
                         ELSE Value({<<At("data_in_2", ElementAt(n.inputs[2],
                                          [i EXCEPT ![axis] = @ - in[axis]]))>>}, 1)]]
      [] n.op = "Transpose" -> [data_out |-> [e \in Elements(out) |->
             Copied(CHOOSE x \in Elements(in) :
                        \A d \in DOMAIN out : IndexOf(in, x)[n.attrs.perm[d] + 1] = IndexOf(out, e)[d])]]
      [] n.op = "Slice" -> [data_out |-> [e \in Elements(out) |->
             Copied(ElementAt(in, [d \in DOMAIN out |->
                 IF d \in DOMAIN n.attrs.slice
                 THEN n.attrs.slice[d].start + IndexOf(out, e)[d] * n.attrs.slice[d].step
                 ELSE IndexOf(out, e)[d]]))]]
      [] n.op = "ReduceSum" -> [data_out |-> [e \in Elements(out) |->
             Value({<<At("data_in", x)>> : x \in AlongAxes(n, ReducedAxes(n), n.attrs.keepdims, e)}, 1)]]
      [] n.op \in {"ReduceMean", "IntegerMean"} -> [data_out |-> [e \in Elements(out) |->
             LET all == AlongAxes(n, ReducedAxes(n), n.attrs.keepdims, e)
             IN  Value({<<At("data_in", x)>> : x \in all}, Cardinality(all))]]
      [] n.op = "Gather" ->
             LET axis == Position(n.attrs.axis, Len(in))
                 kept == SelectSeq([x \in 1..Prod(in) |-> x - 1],
                                   LAMBDA x : IndexOf(in, x)[axis] = n.attrs.index)
             IN  [data_out |-> [e \in Elements(out) |-> Copied(kept[e + 1])]]
      [] n.op \in {"Flatten", "Reshape", "Squeeze", "Unsqueeze"} ->
             [data_out |-> [e \in Elements(out) |-> Copied(e)]]

-----------------------------------------------------------------------------
(* Channel by channel.  Images come with channels last, and pads name the  *)
(* beginnings of all axes before their ends.                               *)

(* The places in the image that belong to the place o of the pooled image. *)
Covered(n, image, o) ==
    LET axes == DOMAIN n.attrs.kernel_shape
        from(d) == o[d + 1] * n.attrs.strides[d] - n.attrs.pads[d]
    IN  {x \in Elements(image) :
            LET i == IndexOf(image, x)
            IN  /\ i[1] = o[1] /\ Last(i) = Last(o)
                /\ \A d \in axes : i[d + 1] \in from(d)..(from(d) + n.attrs.kernel_shape[d] - 1)}

MeaningOfPools(n) ==
    LET in == n.inputs[1]
        out == n.outputs[1]
        covered(o) == Covered(n, in, IndexOf(out, o))
        around(e) == {o \in Elements(in) : e \in Covered(n, out, IndexOf(in, o))}
    IN
    CASE n.op = "MaxPool" -> [data_out |-> [o \in Elements(out) |->
             Value({<<At("data_in", x)>> : x \in covered(o)}, 1)]]
      [] n.op = "AveragePool" -> [data_out |-> [o \in Elements(out) |->
             Value({<<At("data_in", x)>> : x \in covered(o)}, Cardinality(covered(o)))]]
      [] n.op = "AveragePoolGrad" -> [data_out |-> [e \in Elements(out) |->
             Value({<<At("data_in", o)>> : o \in around(e)},
                   IF around(e) = {} THEN 1 ELSE Prod(n.attrs.kernel_shape))]]
      [] n.op = "MaxPoolGrad" -> [data_out |-> [e \in Elements(out) |->
             Value(UNION {{<<At("data_in", o), At("x_in", e), At("x_in", w)>> :
                              w \in Covered(n, out, IndexOf(in, o))} : o \in around(e)}, 1)]]
      [] n.op = "GlobalAveragePool" -> [data_out |-> [o \in Elements(out) |->
             LET area == Prod(in) \div Prod(out)
             IN  Value({<<At("data_in", o * area + i)>> : i \in 0..(area - 1)}, area)]]
      [] n.op = "GlobalAveragePoolGrad" -> [dX |-> [e \in Elements(out) |->
             LET area == Prod(out) \div Prod(in)
             IN  Value({<<At("dY", e \div area)>>}, area)]]

MeaningOfNorms(n) ==
    LET shape == n.inputs[1]
        channel(e) == IndexOf(shape, e)[2]
        all(c) == {e \in Elements(shape) : channel(e) = c}
        vector(value(_)) == [c \in 0..(shape[2] - 1) |-> value(c)]
        saved(c) == <<At("saved_mean", c), At("saved_inv_std", c)>>
        both(e) == <<At("dY", e), At("X", e)>>
    IN
    CASE n.op = "BatchNormInternal" ->
             [data_out |-> [e \in Elements(shape) |->
                 Value({<<At("data_in", e), At("scale", channel(e)), At("bias", channel(e)), At("data_in", j)>> :
                           j \in all(channel(e))}, 1)]]
             @@ [s \in {"saved_mean", "saved_inv_std"} |->
                    vector(LAMBDA c : Value({<<At("data_in", j)>> : j \in all(c)}, 1))]
      [] n.op = "BatchNormalizationGrad" ->
             [dX |-> [e \in Elements(shape) |->
                 Value({both(e) \o <<At("gamma", channel(e))>> \o saved(channel(e)) \o both(j) :
                           j \in all(channel(e))}, 1)],
              dgamma |-> vector(LAMBDA c : Value({both(j) \o saved(c) : j \in all(c)}, 1)),
              dbeta |-> vector(LAMBDA c : Value({<<At("dY", j)>> : j \in all(c)}, 1))]


-----------------------------------------------------------------------------
(* Matrix products.  A batch dimension that is missing or of length one    *)
(* stands for all; C is added to, or requantizes, each row.  in(k, i, row, *)
(* col) is the element of input k that the product's place i needs.        *)

MeaningOfMatrices(n) ==
    LET out == n.outputs[1]
        swapped(k) == \E f \in DOMAIN n.attrs :
            <<k, f>> \in {<<1, "transA">>, <<2, "transB">>} /\ n.attrs[f] = 1
        length == Last(IF swapped(1) THEN Front(n.inputs[1]) ELSE n.inputs[1])
        in(k, i, row, col) ==
            LET s == n.inputs[k]
                at == IF swapped(k) THEN <<col, row>> ELSE <<row, col>>
            IN  ElementAt(s, [d \in 1..(Len(s) - 2) |->
                                 IF s[d] = 1 THEN 0 ELSE i[d + Len(out) - Len(s)]] \o at)
        factors(i, j) == <<At("A", in(1, i, i[Len(i) - 1], j)), At("B", in(2, i, j, Last(i)))>>
        more(i) == CASE Len(n.inputs) = 2 -> <<>>
                     [] Len(n.inputs) = 3 -> <<At("C", in(3, i, i[Len(i) - 1], Last(i)))>>
                     [] Len(n.inputs) = 4 -> <<At("mul", Last(i)), At("C", Last(i))>>
    IN  [data_out |-> [e \in Elements(out) |->
            LET i == IndexOf(out, e)
            IN  Value({factors(i, j) \o more(i) : j \in 0..(length - 1)}, 1)]]

-----------------------------------------------------------------------------
(* Convolutions.  An image has channels last, but for the input of a       *)
(* requantized depthwise convolution; weights have output channels first.  *)

MeaningOfConvolutions(n) ==
    LET in == n.inputs[1]
        weight == n.inputs[2]
        out == n.outputs[1]
        first == n.op = "RequantizedConv" /\ n.attrs.group > 1
        channel(i) == IF first THEN i[2] ELSE Last(i)
        extents(i) == IF first THEN SubSeq(i, 3, Len(i)) ELSE Tail(Front(i))
        filters == Last(out) \div n.attrs.group
        axes == DOMAIN n.attrs.strides
        tap(o, i) == [d \in axes |-> extents(i)[d] - o[d + 1] * n.attrs.strides[d] + n.attrs.pads[d]]
        meets(o, i) ==
            /\ i[1] = o[1] /\ channel(i) \div Last(weight) = Last(o) \div filters
            /\ \A d \in axes : tap(o, i)[d] \in 0..(weight[d + 1] - 1)
        more(f) == CASE Len(n.inputs) = 2 -> <<>>
                     [] Len(n.inputs) = 3 -> <<At("bias", f)>>
                     [] Len(n.inputs) = 4 -> <<At("mul", f), At("add", f)>>
    IN  [data_out |-> [e \in Elements(out) |->
            LET o == IndexOf(out, e)
            IN  Value({<<At("data_in", x),
                         At("weight", ElementAt(weight, <<Last(o)>> \o tap(o, IndexOf(in, x))
                                                            \o <<channel(IndexOf(in, x)) % Last(weight)>>))>>
                           \o more(Last(o)) :
                          x \in {y \in Elements(in) : meets(o, IndexOf(in, y))}}, 1)]]


(* Gradients of a convolution with channels first.                         *)
MeaningOfConvGrads(n) ==
    LET dY == n.inputs[1]
        element(role, s, i) == At(role, ElementAt(s, i))
        met(o, k) == [d \in 1..2 |-> o[d + 2] * n.attrs.strides[d] - n.attrs.pads[d] + k[d]]
        gradIn ==
            LET dX == n.outputs[1]
                W == n.inputs[2]
                tap(i, o) == [d \in 1..2 |-> i[d + 2] - met(o, <<0, 0>>)[d]]
                meets(i, o) == /\ o[1] = i[1]
                               /\ o[2] \div (dY[2] \div n.attrs.group) = i[2] \div W[2]
                               /\ \A d \in 1..2 : tap(i, o)[d] \in 0..(W[d + 2] - 1)
            IN  [grad_in |-> [e \in Elements(dX) |->
                    LET i == IndexOf(dX, e)
                    IN  Value({<<At("grad_out", y),
                                 element("weight", W, <<IndexOf(dY, y)[2], i[2] % W[2]>> \o tap(i, IndexOf(dY, y)))>> :
                                  y \in {y \in Elements(dY) : meets(i, IndexOf(dY, y))}}, 1)]]
        gradWeight ==
            LET X == n.inputs[2]
                dW == n.outputs[1]
                at(w, o) == met(o, SubSeq(w, 3, 4))
                meets(w, o) == o[2] = w[1] /\ \A d \in 1..2 : at(w, o)[d] \in 0..(X[d + 2] - 1)
                channel(w) == (w[1] \div (dY[2] \div n.attrs.group)) * dW[2] + w[2]
            IN  [grad_weight |-> [e \in Elements(dW) |->
                    LET w == IndexOf(dW, e)
                    IN  Value({<<At("grad_out", y),
                                 element("data_in", X, <<IndexOf(dY, y)[1], channel(w)>> \o at(w, IndexOf(dY, y)))>> :
                                  y \in {y \in Elements(dY) : meets(w, IndexOf(dY, y))}}, 1)]]
    IN  CASE n.op = "ConvGradX" -> gradIn
          [] n.op = "ConvGradW" -> gradWeight
          [] n.op = "ConvGradB" ->
                 [grad_bias |-> [c \in 0..(dY[2] - 1) |->
                     Value({<<At("grad_out", y)>> : y \in {y \in Elements(dY) : IndexOf(dY, y)[2] = c}}, 1)]]
=============================================================================
