----------------------------- MODULE NodeParsers -----------------------------
(***************************************************************************)
(* The parsers of Targets/Generic/Parsers.py and Targets/PULPOpen/         *)
(* Parsers.py: which nodes each accepts, the names it gives to a node's    *)
(* tensors and the numbers of the operator representation that kernels and *)
(* tile constraints use later.  A node n has a type n.op, attributes       *)
(* n.attrs, the shapes of its inputs and outputs, and the layout           *)
(* n.channels_first the deployer asked for.  Attributes that only scale    *)
(* values (levels, shifts, epsilons, learning rates) are left out unless   *)
(* their presence decides.                                                 *)
(***************************************************************************)
EXTENDS Integers, Sequences, SequencesExt, TLC

LOCAL INSTANCE TileGeometry

(* A parsed node: names for its inputs and outputs, and its numbers.       *)
Parsed(in, out, rep) == [ok |-> TRUE, in |-> in, out |-> out, rep |-> rep]
Unparsed == [ok |-> FALSE]

AcceptIf(condition, in, out, rep) ==
    IF condition THEN Parsed(in, out, rep) ELSE Unparsed

Has(n, attributes) == attributes \subseteq DOMAIN n.attrs

(* The dimension of a shape at a Python index, which may be negative. *)
Dim(shape, i) == shape[IF i < 0 THEN Len(shape) + i + 1 ELSE i + 1]

SizeOf(n) == [size |-> Prod(n.inputs[1])]

-----------------------------------------------------------------------------
(* Operators on single elements *)

AddParser(n) ==
    AcceptIf(Len(n.inputs) = 2 /\ Len(n.outputs) = 1,
             <<"data_in_1", "data_in_2">>, <<"data_out">>, SizeOf(n))

RQAddParser(n) ==
    LET one(r) == /\ Has(n, {r \o "mul", r \o "add", r \o "div", r \o "signed"})
                  /\ \E a \in {"n_levels", "n_levels_out"} : Has(n, {r \o a})
    IN  IF \A r \in {"rqs1_", "rqs2_", "rqsOut_"} : one(r) THEN AddParser(n) ELSE Unparsed

MulParser(n) ==
    AcceptIf(Len(n.inputs) = 2 /\ Len(n.outputs) = 1, <<"A", "B">>, <<"C">>,
             SizeOf(n) @@ [sizeB |-> Prod(n.inputs[2])])

ReluParser(n) ==
    AcceptIf(Len(n.inputs) = 1 /\ Len(n.outputs) = 1, <<"data_in">>, <<"data_out">>, SizeOf(n))

(* The range follows from the width, whatever limits the node states.      *)
QuantParser(n) ==
    LET signed == "signed" \in DOMAIN n.attrs => n.attrs.signed
        bits == n.attrs.bit_width - (IF signed THEN 1 ELSE 0)
    IN  IF Has(n, {"scale", "zero_point", "bit_width"}) /\ Len(n.inputs) = 1 /\ Len(n.outputs) = 1
        THEN Parsed(<<"data_in">>, <<"data_out">>,
                    [min_val |-> IF signed THEN -(2^bits) ELSE 0, max_val |-> 2^bits - 1] @@ SizeOf(n))
        ELSE Unparsed

DequantParser(n) ==
    AcceptIf(/\ Has(n, {"scale", "zero_point", "bit_width", "signed"})
             /\ Len(n.inputs) = 1 /\ Len(n.outputs) = 1, <<"data_in">>, <<"data_out">>, SizeOf(n))

ReluGradParser(n) ==
    AcceptIf(Len(n.inputs) = 2 /\ Len(n.outputs) = 1,
             <<"grad_out", "data_in">>, <<"grad_in">>, SizeOf(n))

GELUParser(n) ==
    AcceptIf(Len(n.inputs) >= 1 /\ Len(n.outputs) = 1, <<"data_in">>, <<"data_out">>, SizeOf(n))

GELUGradParser(n) ==
    AcceptIf(Len(n.inputs) = 2 /\ Len(n.outputs) = 1,
             <<"grad_in", "data_in">>, <<"grad_out">>, SizeOf(n))

RQSiGELUParser(n) ==
    AcceptIf(Len(n.inputs) = 4 /\ Has(n, {"b", "one"}) /\ GELUParser(n).ok,
             <<"data_in", "mul", "add", "shift">>, <<"data_out">>, SizeOf(n))

iHardswishParser(n) ==
    AcceptIf(Has(n, {"one_over_six", "six", "three"}), <<"data_in">>, <<"data_out">>, SizeOf(n))

RQSiHardswishParser(n) ==
    IF Len(n.inputs) = 1 /\ Has(n, {"mul", "add", "shift"}) THEN iHardswishParser(n) ELSE Unparsed

SGDParser(n) ==
    AcceptIf(Len(n.inputs) = 2 /\ Len(n.outputs) = 1 /\ Has(n, {"lr"}),
             <<"weight", "grad">>, <<"weight_updated">>, SizeOf(n))

InPlaceAccumulatorV2Parser(n) ==
    AcceptIf(Len(n.inputs) = 3 /\ Len(n.outputs) = 1,
             <<"accum_buffer", "gradient", "lazy_reset_grad">>, <<"data_out">>, SizeOf(n))

MSELossParser(n) ==
    AcceptIf(Len(n.inputs) = 2 /\ Len(n.outputs) = 1,
             <<"pred", "target">>, <<"loss">>, [num_elements |-> Prod(n.inputs[1])])

MSELossGradParser(n) ==
    AcceptIf(Len(n.inputs) = 2 /\ Len(n.outputs) = 1,
             <<"pred", "target">>, <<"grad">>, [num_elements |-> Prod(n.inputs[1])])

(* RQSParserInterface *)
Requantized(n) ==
    Has(n, {"div", "signed"}) /\ \E a \in {"n_levels", "n_levels_out"} : Has(n, {a})

RequantShiftParser(n) ==
    LET shape == n.inputs[1]
    IN  AcceptIf(Requantized(n) /\ Len(n.inputs) = 3 /\ Len(n.outputs) = 1,
                 <<"data_in", "mul", "add">>, <<"data_out">>,
                 SizeOf(n) @@ [batch |-> shape[1], channels |-> shape[2],
                               channel_width |-> Prod(SubSeq(shape, 3, Len(shape)))])

UniformRequantShiftParser(n) ==
    IF Prod(n.inputs[2]) = 1 /\ Prod(n.inputs[3]) = 1 THEN RequantShiftParser(n) ELSE Unparsed

-----------------------------------------------------------------------------
(* Operators on rows *)

SoftmaxParser(n) ==
    AcceptIf(Len(n.inputs) = 1 /\ Len(n.outputs) = 1, <<"data_in">>, <<"data_out">>,
             SizeOf(n) @@ [lastDimLength |->
                 Dim(n.inputs[1], IF Has(n, {"axis"}) THEN n.attrs.axis ELSE -1)])

iSoftmaxParser(n) ==
    IF Has(n, {"coeffA", "coeffB", "coeffC", "log2"}) THEN SoftmaxParser(n) ELSE Unparsed

SoftmaxGradParser(n) ==
    AcceptIf(Len(n.inputs) = 2 /\ Len(n.outputs) = 1,
             <<"upstream_grad", "softmax_output">>, <<"softmax_grad">>,
             SizeOf(n) @@ [lastDimLength |->
                 Dim(n.inputs[1], IF Has(n, {"axis"}) THEN n.attrs.axis ELSE -1)])

Rows(n) == SizeOf(n) @@ [lastDimLength |-> Dim(n.inputs[1], -1)]

iRMSNormParser(n) ==
    AcceptIf(Has(n, {"D", "n_levels"}) /\ Len(n.inputs) = 2 /\ Len(n.outputs) = 1,
             <<"data_in", "weight">>, <<"data_out">>, Rows(n))

LayerNormParser(n) ==
    AcceptIf(Has(n, {"epsilon"}) /\ Len(n.inputs) = 3 /\ Len(n.outputs) >= 1,
             <<"data_in", "weight", "bias">>,
             SubSeq(<<"data_out", "mean", "inv_std_dev">>, 1, Len(n.outputs)), Rows(n))

LayerNormGradParser(n) ==
    AcceptIf(Has(n, {"epsilon"}) /\ Len(n.inputs) = 5 /\ Len(n.outputs) = 3,
             <<"grad_in", "data_in", "weight", "mean", "inv_std_dev">>,
             <<"grad_out", "weight_grad", "bias_grad">>, Rows(n))

SoftmaxCrossEntropyLossParser(n) ==
    AcceptIf(Len(n.inputs) = 2 /\ Len(n.outputs) = 2,
             <<"logits", "labels">>, <<"loss", "log_prob">>,
             [batch |-> n.inputs[1][1], num_classes |-> n.inputs[1][2]])

SoftmaxCrossEntropyLossGradParser(n) ==
    AcceptIf(Len(n.inputs) = 2 /\ Len(n.outputs) = 1,
             <<"log_prob", "labels">>, <<"grad">>,
             [batch |-> n.inputs[1][1], total_batch |-> n.inputs[1][1],
              num_classes |-> n.inputs[1][2]])


-----------------------------------------------------------------------------
(* Operators that move elements or reduce axes.  Axes are numbered from 0  *)
(* in attributes and from 1 here.                                          *)

Axis(axis, rank) == IF axis >= 0 THEN axis + 1 ELSE rank + axis + 1

(* Any number of inputs from two on; the template refuses a third.         *)
ConcatParser(n) ==
    AcceptIf(Has(n, {"axis"}) /\ Len(n.inputs) >= 2 /\ Len(n.outputs) = 1,
             SubSeq(<<"data_in_1", "data_in_2", "data_in_3">>, 1, Len(n.inputs)), <<"data_out">>,
             LET axis == Axis(n.attrs.axis, Len(n.inputs[1]))
             IN  [axis |-> axis,
                  iterations |-> Prod(SubSeq(n.inputs[1], 1, axis - 1)),
                  transferLength |-> [r \in {"data_in_1", "data_in_2"} |->
                      LET s == n.inputs[IF r = "data_in_1" THEN 1 ELSE 2]
                      IN  Prod(SubSeq(s, axis, Len(s)))]])

TransposeParser(n) ==
    AcceptIf(Has(n, {"perm"}) /\ Len(n.inputs) = 1 /\ Len(n.outputs) = 1,
             <<"data_in">>, <<"data_out">>,
             [perm |-> [d \in DOMAIN n.attrs.perm |-> n.attrs.perm[d] + 1],
              dimLen |-> n.inputs[1], data_out_shape |-> n.outputs[1]])

(* Starts, ends, axes and steps are constants, here n.attrs.slice.         *)
SliceParser(n) ==
    AcceptIf(\/ Len(n.inputs) \in 3..5 /\ Len(n.outputs) = 1
             \/ Len(n.inputs) = 1 /\ Has(n, {"starts", "ends"}) /\ Len(n.outputs) = 1,
             <<"data_in">>, <<"data_out">>,
             [slice |-> n.attrs.slice, data_in_shape |-> n.inputs[1],
              data_in_size |-> Prod(n.inputs[1])])

ReduceRep(n, axes) ==
    [axes |-> axes, keepdims |-> n.attrs.keepdims = 1, data_in_shape |-> n.inputs[1]]

ReduceParser(n) ==
    AcceptIf(Has(n, {"axes", "keepdims"}) /\ Len(n.inputs) = 1 /\ Len(n.outputs) = 1,
             <<"data_in">>, <<"data_out">>,
             ReduceRep(n, {a + 1 : a \in Range(n.attrs.axes)}))

ReduceSumParser(n) == ReduceParser(n)

(* Without the attribute the axes are the values of the second input, or   *)
(* all; those of length one are dropped, unless all are.                   *)
ReduceMeanParser(n) ==
    LET given == IF Len(n.inputs) = 2 THEN {a + 1 : a \in Range(n.attrs.axes_values)}
                 ELSE DOMAIN n.inputs[1]
        long == {d \in given : n.inputs[1][d] # 1}
        axes == IF long = {} THEN {Min(given)} ELSE long
    IN  IF Has(n, {"axes"}) THEN ReduceParser(n)
        ELSE AcceptIf(Has(n, {"keepdims"}) /\ Len(n.inputs) \in 1..2 /\ Len(n.outputs) = 1,
                      <<"data_in">>, <<"data_out">>, ReduceRep(n, axes))

PULPReduceMeanParser(n) ==
    LET p == ReduceMeanParser(n)
    IN  IF p.ok THEN [p EXCEPT !.rep = @ @@ [dim_in |-> n.inputs[1]]] ELSE p

GatherParser(n) ==
    LET axis == Axis(IF Has(n, {"axis"}) THEN n.attrs.axis ELSE 0, Len(n.inputs[1]))
        shape == n.inputs[1]
    IN  AcceptIf(Len(n.inputs) = 2 /\ Len(n.outputs) = 1 /\ Prod(n.inputs[2]) = 1,
                 <<"data_in", "indices">>, <<"data_out">>,
                 [batch |-> Prod(SubSeq(shape, 1, axis - 1)),
                  batch_length |-> Prod(SubSeq(shape, axis, Len(shape))),
                  axis_length |-> Prod(SubSeq(shape, axis + 1, Len(shape))),
                  index |-> n.attrs.index])

(* The output of these three is the input's memory.                        *)
FlattenParser(n) ==
    AcceptIf(Has(n, {"axis"}) /\ Len(n.inputs) = 1 /\ Len(n.outputs) = 1,
             <<"data_in">>, <<"data_out">>, [none |-> 0])

UnsqueezeParser(n) ==
    AcceptIf((IF Has(n, {"axes"}) THEN Len(n.inputs) = 1 ELSE Len(n.inputs) = 2) /\ Len(n.outputs) = 1,
             <<"data_in">>, <<"data_out">>, [none |-> 0])

ReshapeParser(n) ==
    AcceptIf(Len(n.inputs) = 2 /\ Len(n.outputs) = 1,
             <<"data_in", "shape">>, <<"data_out">>, [none |-> 0])

-----------------------------------------------------------------------------
(* Operators on channels.  A pair is <<x, y>>, and x counts rows.          *)

(* The channels and the extents of an image. *)
Channels(shape, channels_first) == IF channels_first THEN shape[2] ELSE Last(shape)
Extents(shape, channels_first) == IF channels_first THEN SubSeq(shape, 3, Len(shape)) ELSE Tail(Front(shape))

Images(n, first) ==
    [batch |-> n.inputs[1][1],
     ch_im_in |-> Channels(n.inputs[1], first), dim_im_in |-> Extents(n.inputs[1], first),
     ch_im_out |-> Channels(n.outputs[1], first), dim_im_out |-> Extents(n.outputs[1], first)]

Pooling == {"ceil_mode", "kernel_shape", "pads", "strides"}

MaxPoolParser(n) ==
    /\ Has(n, Pooling) /\ Len(n.inputs) = 1 /\ Len(n.outputs) >= 1
    /\ \A s \in Range(n.attrs.strides) : s > 0

(* The first padding goes left and the second to the top. *)
PoolRep(n) ==
    Images(n, n.channels_first)
        @@ [padding |-> [left |-> n.attrs.pads[1], top |-> n.attrs.pads[2],
                         right |-> n.attrs.pads[3], bottom |-> n.attrs.pads[4]],
            stride |-> n.attrs.strides, dim_kernel |-> n.attrs.kernel_shape]

MaxPool1DParser(n) ==
    AcceptIf(/\ MaxPoolParser(n)
             /\ Len(n.attrs.pads) = 2 /\ Len(n.attrs.kernel_shape) = 1 /\ Len(n.attrs.strides) = 1
             /\ Len(n.inputs[1]) = 3 /\ Len(n.outputs[1]) = 3,
             <<"data_in">>, <<"data_out">>,
             Images(n, n.channels_first)
                @@ [padding |-> [left |-> n.attrs.pads[1], right |-> n.attrs.pads[2]],
                    stride |-> n.attrs.strides, dim_kernel |-> n.attrs.kernel_shape])

Pool2D(n) ==
    /\ Len(n.attrs.pads) = 4 /\ Len(n.attrs.kernel_shape) = 2 /\ Len(n.attrs.strides) = 2
    /\ Len(n.inputs[1]) = 4 /\ Len(n.outputs[1]) = 4

MaxPool2DParser(n) ==
    AcceptIf(MaxPoolParser(n) /\ Pool2D(n), <<"data_in">>, <<"data_out">>, PoolRep(n))

AveragePool2DParser(n) == MaxPool2DParser(n)

MaxPoolGradParser(n) ==
    AcceptIf(/\ Has(n, {"kernel_shape", "pads", "strides"}) /\ Len(n.inputs) = 2 /\ Len(n.outputs) = 1
             /\ Pool2D(n) /\ Len(n.inputs[2]) = 4,
             <<"data_in", "x_in">>, <<"data_out">>, PoolRep(n))

GlobalAveragePoolParser(n) ==
    AcceptIf(Len(n.inputs) = 1 /\ Len(n.outputs) = 1 /\ Len(n.inputs[1]) = 4,
             <<"data_in">>, <<"data_out">>,
             [batch |-> n.inputs[1][1], channels |-> n.inputs[1][2],
              dim_im_in |-> SubSeq(n.inputs[1], 3, 4)])

GlobalAveragePoolGradParser(n) ==
    AcceptIf(/\ Len(n.inputs) = 1 /\ Len(n.outputs) = 1 /\ Has(n, {"kernel_shape"})
             /\ Len(n.attrs.kernel_shape) = 2 /\ Len(n.inputs[1]) >= 2,
             <<"dY">>, <<"dX">>,
             [batch |-> n.inputs[1][1], channels |-> n.inputs[1][2], dim_im_in |-> n.attrs.kernel_shape])

BatchRep(n) ==
    [N |-> n.inputs[1][1], C |-> n.inputs[1][2], dim_im_in |-> SubSeq(n.inputs[1], 3, 4)]

BatchNormInternalParser(n) ==
    AcceptIf(Len(n.inputs) = 5 /\ Len(n.outputs) = 5,
             <<"data_in", "scale", "bias", "running_mean", "running_var">>,
             <<"data_out", "updated_running_mean", "updated_running_var", "saved_mean", "saved_inv_std">>,
             BatchRep(n))

BatchNormalizationGradParser(n) ==
    AcceptIf(Len(n.inputs) = 5 /\ Len(n.outputs) = 3,
             <<"dY", "X", "gamma", "saved_mean", "saved_inv_std">>, <<"dX", "dgamma", "dbeta">>,
             BatchRep(n))


-----------------------------------------------------------------------------
(* Matrix products *)

Transposed(n, attr) == Has(n, {attr}) /\ n.attrs[attr] = 1

(* How the matrices lie; the node's batch is the larger of the two. *)
MatrixRep(n, transA, transB) ==
    LET A == n.inputs[1]
        B == n.inputs[2]
        last(s, fromEnd) == s[Len(s) - fromEnd]
        of(s) == Prod(SubSeq(s, 1, Len(s) - 2))
        batch == Max({of(A), of(B)})
    IN  [transA |-> transA, transB |-> transB,
         M |-> last(A, IF transA THEN 0 ELSE 1), N |-> last(A, IF transA THEN 1 ELSE 0),
         O |-> last(B, IF transB THEN 1 ELSE 0), inB |-> last(B, IF transB THEN 0 ELSE 1),
         batch |-> batch, batch_A |-> of(A), batch_B |-> of(B),
         A_batched |-> batch = of(A), B_batched |-> batch = of(B)]

MatrixParser(n, rep, names, more) ==
    AcceptIf(/\ rep.N = rep.inB
             /\ rep.batch_A = rep.batch_B \/ rep.batch_A = 1 \/ rep.batch_B = 1,
             SubSeq(names, 1, Len(n.inputs)), <<"data_out">>, more @@ rep)

MatMulParser(n) ==
    IF Len(n.inputs) >= 2 /\ Len(n.outputs) = 1
    THEN MatrixParser(n, MatrixRep(n, FALSE, FALSE), <<"A", "B">>, [none |-> 0]) ELSE Unparsed

GEMMParser(n) ==
    LET rep == MatrixRep(n, Transposed(n, "transA"), Transposed(n, "transB"))
    IN  IF Len(n.inputs) >= 2 /\ Len(n.outputs) = 1
        THEN MatrixParser(n, rep, <<"A", "B", "C", "mul">>,
                 [has_bias |-> Len(n.inputs) = 3,
                  C_batched |-> Len(n.inputs) = 3
                     /\ rep.batch = Prod(SubSeq(n.inputs[3], 1, Len(n.inputs[3]) - 2))])
        ELSE Unparsed

PULPGEMMParser(n) ==
    IF Requantized(n) /\ Has(n, {"shift"}) /\ Len(n.inputs) = 4
    THEN GEMMParser(n) ELSE Unparsed

(* A product that is parsed, and of the right form.                        *)
OfForm(p, form(_)) == IF p.ok THEN [p EXCEPT !.ok = form(p.rep)] ELSE p

PULPMatrixVecParser(n) ==
    OfForm(PULPGEMMParser(n), LAMBDA rep : rep.M = 1 /\ rep.batch >= 8)

PULPTallGEMMParser(n) ==
    OfForm(PULPGEMMParser(n),
           LAMBDA rep : rep.batch < 8 /\ rep.M >= 8 /\ rep.M % 8 < rep.O % 8)

-----------------------------------------------------------------------------
(* Convolutions; rank is the number of extents of an image. *)

ConvParser(n, rank) ==
    /\ Has(n, {"dilations", "group", "pads", "strides"}) /\ Len(n.outputs) = 1
    /\ Len(n.attrs.strides) = rank /\ Len(n.attrs.pads) = 2 * rank /\ Len(n.attrs.dilations) = rank
    /\ Len(n.inputs[1]) = rank + 2 /\ Len(n.inputs[2]) = rank + 2

ConvRep(n, images) ==
    LET rank == Len(n.attrs.strides)
    IN  images @@ [kernel |-> n.attrs.kernel_shape, stride |-> n.attrs.strides,
                   dilation |-> n.attrs.dilations, group |-> n.attrs.group, has_bias |-> Len(n.inputs) = 3,
                   begin |-> SubSeq(n.attrs.pads, 1, rank), end |-> SubSeq(n.attrs.pads, rank + 1, 2 * rank)]

Symmetric(n) ==
    \A d \in DOMAIN n.attrs.strides : n.attrs.pads[d] = n.attrs.pads[d + Len(n.attrs.strides)]
Square(n) == Symmetric(n) /\ \A p \in Range(n.attrs.pads) : p = n.attrs.pads[1]

FPConv(n, group) ==
    AcceptIf(ConvParser(n, 2) /\ n.attrs.group = group /\ Symmetric(n) /\ Len(n.inputs) \in 2..3,
             SubSeq(<<"data_in", "weight", "bias">>, 1, Len(n.inputs)), <<"data_out">>,
             ConvRep(n, Images(n, n.channels_first)))

PULPFPConv2DParser(n) == FPConv(n, 1)

PULPFPDWConv2DParser(n) == FPConv(n, Channels(n.inputs[1], n.channels_first))

RQConv(condition, n, images) ==
    AcceptIf(condition /\ Requantized(n) /\ Len(n.inputs) = 4,
             <<"data_in", "weight", "mul", "add">>, <<"data_out">>, ConvRep(n, images))

PULPConv2DParser(n) ==
    RQConv(ConvParser(n, 2) /\ n.attrs.group = 1 /\ Square(n) /\ Has(n, {"shift"}),
           n, Images(n, n.channels_first))

PULPConv1DParser(n) ==
    RQConv(ConvParser(n, 1) /\ n.attrs.group = 1 /\ Square(n), n, Images(n, n.channels_first))

(* Its input has channels first, whatever the layout of the others is.     *)
PULPDWConv2DParser(n) ==
    RQConv(ConvParser(n, 2) /\ n.attrs.group = n.inputs[2][1] /\ Square(n) /\ Has(n, {"shift"}), n,
           [ch_im_in |-> n.inputs[1][2], dim_im_in |-> Extents(n.inputs[1], TRUE)]
               @@ Images(n, n.channels_first))


-----------------------------------------------------------------------------
(* Gradients of convolutions: tensors have channels first.                 *)

GradRep(n, dY, image, kernel) ==
    [batch |-> dY[1], ch_im_in |-> image[2], dim_im_in |-> SubSeq(image, 3, 4),
     ch_im_out |-> dY[2], dim_im_out |-> SubSeq(dY, 3, 4), kernel |-> kernel, stride |-> n.attrs.strides,
     group |-> n.attrs.group, begin |-> SubSeq(n.attrs.pads, 1, 2), end |-> SubSeq(n.attrs.pads, 3, 4)]

(* The number of inputs is looked at, and the answer not used.             *)
Conv2DGradXParser(n) ==
    AcceptIf(ConvParser(n, 2), <<"grad_out", "weight">>, <<"grad_in">>,
             GradRep(n, n.inputs[1], n.outputs[1], n.attrs.kernel_shape)
                 @@ [offset_grad_in |-> <<0, 0>>, offset_grad_out |-> <<0, 0>>,
                     ctxtBufferSize |-> Prod(Tail(n.inputs[1]))])

PULPConvGradX2DParser(n) == Conv2DGradXParser(n)

(* That group > 1 is not required either.                                  *)
PULPDWConvGradX2DParser(n) ==
    IF n.attrs.group = n.inputs[2][1] THEN PULPConvGradX2DParser(n) ELSE Unparsed

PULPPWConvGradX2DParser(n) ==
    IF n.attrs.kernel_shape = <<1, 1>> /\ n.attrs.strides = <<1, 1>>
    THEN PULPConvGradX2DParser(n) ELSE Unparsed

Conv2DGradWParser(n) ==
    AcceptIf(ConvParser(n, 2), <<"grad_out", "data_in">>, <<"grad_weight">>,
             GradRep(n, n.inputs[1], n.inputs[2], SubSeq(n.outputs[1], 3, 4)))

PULPConvGradW2DParser(n) == Conv2DGradWParser(n)

PULPDWConvGradW2DParser(n) ==
    IF n.attrs.group > 1 /\ n.attrs.group = n.outputs[1][1] THEN PULPConvGradW2DParser(n) ELSE Unparsed

PULPPWConvGradW2DParser(n) ==
    IF n.attrs.kernel_shape = <<1, 1>> THEN PULPConvGradW2DParser(n) ELSE Unparsed

Conv2DGradBParser(n) ==
    AcceptIf(Len(n.inputs) = 1 /\ Len(n.outputs) = 1, <<"grad_out">>, <<"grad_bias">>,
             [batch |-> n.inputs[1][1], ch_im_out |-> n.inputs[1][2], dim_im_out |-> SubSeq(n.inputs[1], 3, 4)])
=============================================================================
