-------------------------- MODULE MCTiledOperator --------------------------
(***************************************************************************)
(* Nodes and networks for checking NetworkDeployment.                      *)
(***************************************************************************)
EXTENDS NetworkDeployment

Node(op, attrs, inputs, outputs, width, kind, channels_first, tiles, paths) ==
    {[op |-> op, attrs |-> attrs, inputs |-> inputs, outputs |-> outputs, width |-> width,
      kind |-> kind, channels_first |-> channels_first, tiles |-> tiles, path |-> p] : p \in paths}

Untiled == <<>>
L2ToL1 == <<{1, 2}>>
L3ToL2 == <<{2}>>
Through == <<{2}, {1, 2}>>
Paths == {Untiled, L2ToL1, L3ToL2, Through}

None0 == [none |-> 0]
Attrs(names) == [a \in names |-> 0]
RQAttrs == Attrs({"div", "signed", "n_levels_out"})
RQAddAttrs ==
    Attrs(UNION {{r \o "mul", r \o "add", r \o "div", r \o "signed", r \o "n_levels"} :
                    r \in {"rqs1_", "rqs2_", "rqsOut_"}})

(* An operator whose tensors all have one shape. *)
Same(op, attrs, arity, s, width, kind, tiles, paths) ==
    Node(op, attrs, [i \in 1..arity |-> s], <<s>>, width, kind, TRUE, tiles, paths)

ElementNodes ==
    Same("Add", None0, 2, <<2, 3, 4>>, 2, "float",
         {<<2, 3, 4>>, <<1, 2, 4>>, <<2, 2, 3>>, <<1, 3, 2>>}, Paths)
    \cup Same("Add", None0, 2, <<2, 5>>, 1, "int", {<<1, 2>>}, Paths)
    \cup Same("RequantizedAdd", RQAddAttrs, 2, <<3, 2>>, 1, "int", {<<2, 2>>}, Paths)
    \cup Same("RequantizedAdd", RQAttrs, 2, <<3, 2>>, 1, "int", {<<2, 2>>}, {Untiled})
    \cup Same("Mul", None0, 2, <<3, 4>>, 1, "int", {<<2, 4>>, <<2, 3>>}, Paths)
    \cup Node("Mul", None0, <<<<3, 3>>, <<1, 1>>>>, <<<<3, 3>>>>, 2, "float", TRUE, {<<3, 3>>}, {Untiled})
    \cup Same("Relu", None0, 1, <<5, 3>>, 2, "float", {<<2, 3>>, <<2, 2>>, <<5, 2>>}, Paths)
    \cup Same("ReluGrad", None0, 2, <<3, 3>>, 2, "float", {<<2, 3>>}, Paths)
    \cup Same("Gelu", None0, 1, <<4, 3>>, 2, "float", {<<3, 3>>}, {L2ToL1, Through})
    \cup Same("GeluGrad", None0, 2, <<4, 3>>, 2, "float", {<<3, 3>>}, {L2ToL1, Untiled})
    \cup Same("iHardswish", Attrs({"one_over_six", "six", "three"}), 1, <<5>>, 1, "int", {<<2>>}, Paths)
    \cup Same("RequantizediHardswish",
              Attrs({"one_over_six", "six", "three", "mul", "add", "shift"}), 1, <<5, 2>>, 1, "int",
              {<<2, 2>>}, Paths)
    \cup Node("RequantizediGELU", Attrs({"b", "one"}), <<<<3, 3>>, <<1>>, <<1>>, <<1>>>>, <<<<3, 3>>>>,
              1, "int", TRUE, {<<2, 3>>}, Paths)
    \cup Same("SGD", Attrs({"lr"}), 2, <<3, 2, 2>>, 2, "float", {<<2, 2, 2>>, <<2, 2, 1>>}, Paths)
    \cup Node("InPlaceAccumulatorV2", None0, <<<<3, 4>>, <<3, 4>>, <<1>>>>, <<<<3, 4>>>>, 2, "float",
              TRUE, {<<2, 4>>, <<3, 3>>}, Paths)
    \cup Node("MSELoss", None0, <<<<3, 2>>, <<3, 2>>>>, <<<<1>>>>, 2, "float", TRUE, {<<1>>}, Paths)
    \cup Node("MSELossGrad", None0, <<<<3, 2>>, <<3, 2>>>>, <<<<3, 2>>>>, 2, "float", TRUE,
              {<<3, 2>>}, Paths)
    \cup UNION {Node("RequantShift", RQAttrs, <<s, <<s[IF first THEN 2 ELSE 3]>>, <<s[IF first THEN 2 ELSE 3]>>>>, <<s>>, 1,
                     "int", first, {<<1, 2, 3>>, <<1, 2, 2>>}, {L2ToL1, Through}) :
                    s \in {<<1, 3, 3>>}, first \in BOOLEAN}
    \cup Node("RequantShift", RQAttrs, <<<<1, 4, 2>>, <<4>>, <<4>>>>, <<<<1, 4, 2>>>>, 1, "int", TRUE, {}, {Untiled})
    \cup Node("RequantShift", RQAttrs, <<<<1, 4, 4>>, <<1>>, <<1>>>>, <<<<1, 4, 4>>>>, 1, "int", TRUE,
              {<<1, 2, 4>>, <<1, 3, 4>>}, Paths)
    \cup Node("RequantShift", None0, <<<<1, 4, 4>>, <<1>>, <<1>>>>, <<<<1, 4, 4>>>>, 1, "int", TRUE, {}, {Untiled})

RowNodes ==
    Same("Softmax", None0, 1, <<3, 2, 3>>, 2, "float", {<<2, 2, 3>>, <<2, 1, 3>>, <<3, 2, 2>>}, Paths)
    \cup Same("iSoftmax", Attrs({"coeffA", "coeffB", "coeffC", "log2"}), 1, <<5, 3>>, 1, "int",
              {<<3, 3>>, <<1, 3>>}, Paths)
    \cup Same("SoftmaxGrad", [axis |-> -1], 2, <<5, 3>>, 2, "float", {<<3, 3>>}, {L2ToL1, Untiled})
    \cup Node("iRMSNorm", Attrs({"D", "n_levels"}), <<<<3, 4>>, <<4>>>>, <<<<3, 4>>>>, 1, "int", TRUE,
              {<<2, 4>>, <<2, 2>>}, Paths)
    \cup Node("LayerNormalization", Attrs({"epsilon"}), <<<<3, 2, 2>>, <<2>>, <<2>>>>,
              <<<<3, 2, 2>>, <<3, 2>>, <<3, 2>>>>, 2, "float", TRUE, {<<2, 2, 2>>, <<2, 1, 2>>, <<3, 1, 2>>}, Paths)
    \cup Node("LayerNormalizationGrad", Attrs({"epsilon"}),
              <<<<3, 2, 2>>, <<3, 2, 2>>, <<2>>, <<3, 2>>, <<3, 2>>>>,
              <<<<3, 2, 2>>, <<2>>, <<2>>>>, 2, "float", TRUE, {<<2, 2, 2>>, <<2, 1, 2>>}, Paths)
    \cup Node("SoftmaxCrossEntropyLoss", None0, <<<<3, 2>>, <<3>>>>, <<<<1>>, <<3, 2>>>>, 2, "float", TRUE,
              {<<3, 2>>}, Paths)
    \cup Node("SoftmaxCrossEntropyLossGrad", None0, <<<<3, 2>>, <<3>>>>, <<<<3, 2>>>>, 2, "float", TRUE,
              {<<2, 2>>, <<3, 1>>}, Paths)

(* One input and one output. *)
Unary(op, attrs, in, out, width, kind, tiles, paths) ==
    Node(op, attrs, <<in>>, <<out>>, width, kind, TRUE, tiles, paths)

Cut(start, end, step) == [start |-> start, end |-> end, step |-> step]

MoveNodes ==
    Node("Concat", [axis |-> 1], <<<<3, 2, 2>>, <<3, 3, 2>>>>, <<<<3, 5, 2>>>>, 1, "int", TRUE,
         {<<2, 5, 2>>, <<2, 5, 1>>}, Paths)
    \cup Node("Concat", [axis |-> -1], <<<<3, 2, 2>>, <<3, 2, 1>>>>, <<<<3, 2, 3>>>>, 2, "int", TRUE,
              {<<2, 2, 3>>, <<3, 1, 3>>}, Paths)
    \cup Unary("Transpose", [perm |-> <<0, 2, 1>>], <<2, 3, 2>>, <<2, 2, 3>>, 2, "float",
               {<<1, 2, 3>>, <<2, 2, 2>>, <<2, 1, 2>>}, Paths)
    \cup Unary("Transpose", [perm |-> <<2, 0, 1>>], <<2, 3, 2>>, <<2, 2, 3>>, 1, "int",
               {<<1, 2, 3>>, <<2, 2, 2>>}, Paths)
    \cup Unary("Transpose", [perm |-> <<1, 0>>], <<9, 2>>, <<2, 9>>, 1, "int", {<<1, 5>>}, {Untiled, L2ToL1})
    \cup Unary("Slice", [starts |-> 0, ends |-> 0, slice |-> (2 :> Cut(1, 4, 2))], <<2, 5, 2>>, <<2, 2, 2>>,
               2, "float", {}, {Untiled})
    \cup Unary("Slice", [starts |-> 0, ends |-> 0, slice |-> (1 :> Cut(1, 3, 1) @@ 2 :> Cut(0, 3, 2))],
               <<3, 3, 2>>, <<2, 2, 2>>, 2, "float", {}, {Untiled})
    \cup Unary("Slice", [starts |-> 0, ends |-> 0, slice |-> (2 :> Cut(0, 3, 1))], <<2, 3>>, <<2, 3>>,
               2, "float", {<<2, 3>>}, {L2ToL1, Through})
    \cup Node("ReduceMean", [keepdims |-> 0, axes_values |-> <<1>>], <<<<2, 3, 4>>, <<1>>>>, <<<<2, 4>>>>,
              2, "float", TRUE, {<<2, 3>>, <<1, 4>>}, Paths)
    \cup Node("ReduceMean", [keepdims |-> 1, axes_values |-> <<0, 2>>], <<<<1, 5, 2>>, <<2>>>>, <<<<1, 5, 1>>>>,
              2, "float", TRUE, {<<1, 2, 1>>}, Paths)
    \cup Unary("IntegerMean", [keepdims |-> 1, axes |-> <<1>>], <<3, 2>>, <<3, 1>>, 1, "int", {<<3, 1>>}, Paths)
    \cup Unary("ReduceSum", [keepdims |-> 1, axes |-> <<0, 1>>], <<3, 2>>, <<1, 1>>, 2, "float", {<<1, 1>>}, Paths)
    \cup Unary("ReduceSum", [keepdims |-> 0, axes |-> <<1>>], <<3, 2>>, <<3>>, 2, "float", {<<1>>}, {Untiled})
    \cup Node("Gather", [axis |-> 1, index |-> 2], <<<<2, 3, 2>>, <<1>>>>, <<<<2, 2>>>>, 2, "float", TRUE,
              {<<2, 2>>}, {Untiled, L2ToL1})
    \cup Unary("Flatten", [axis |-> 1], <<2, 3, 2>>, <<2, 6>>, 1, "int", {<<2, 6>>}, {Untiled, L2ToL1})
    \cup Node("Reshape", None0, <<<<2, 3>>, <<2>>>>, <<<<3, 2>>>>, 1, "int", TRUE, {}, {Untiled})
    \cup Unary("Unsqueeze", [axes |-> 0], <<2, 3>>, <<1, 2, 3>>, 1, "int", {}, {Untiled})
    \cup Unary("Squeeze", None0, <<1, 3>>, <<3>>, 1, "int", {}, {Untiled})

Pool(kernel, stride, pads) == [ceil_mode |-> 0, kernel_shape |-> kernel, strides |-> stride, pads |-> pads]

(* Images with channels last. *)
Image2D(op, attrs, ins, out, width, kind, tiles, paths) ==
    Node(op, attrs, ins, <<out>>, width, kind, FALSE, tiles, paths)

ChannelNodes ==
    Image2D("MaxPool", Pool(<<2, 2>>, <<1, 1>>, <<1, 1, 1, 1>>), <<<<1, 3, 3, 3>>>>, <<1, 4, 4, 3>>,
            2, "float", {<<1, 4, 4, 2>>}, Paths)
    \cup Image2D("MaxPool", Pool(<<2, 1>>, <<2, 1>>, <<0, 0, 0, 0>>), <<<<1, 4, 2, 3>>>>, <<1, 2, 2, 3>>,
                 1, "int", {<<1, 2, 2, 2>>}, Paths)
    \cup Image2D("MaxPool", Pool(<<3>>, <<2>>, <<1, 0>>), <<<<1, 4, 3>>>>, <<1, 2, 3>>,
                 1, "int", {<<1, 2, 2>>}, Paths)
    \cup Image2D("AveragePool", Pool(<<2, 1>>, <<1, 1>>, <<0, 0, 0, 0>>), <<<<1, 3, 2, 3>>>>, <<1, 2, 2, 3>>,
                 2, "float", {<<1, 2, 2, 2>>}, Paths)
    \cup Image2D("AveragePoolGrad", Pool(<<2, 1>>, <<1, 1>>, <<0, 0, 0, 0>>), <<<<1, 2, 2, 3>>>>, <<1, 3, 2, 3>>,
                 2, "float", {<<1, 3, 2, 2>>}, Paths)
    \cup Image2D("AveragePool", Pool(<<2, 2>>, <<2, 2>>, <<0, 0, 0, 0>>), <<<<2, 2, 4, 2>>>>, <<2, 1, 2, 2>>,
                 2, "float", {<<2, 1, 2, 2>>}, {Untiled, L2ToL1})
    \cup Image2D("MaxPoolGrad", Pool(<<2, 3>>, <<1, 2>>, <<0, 0, 0, 0>>), <<<<1, 2, 1, 3>>, <<1, 3, 4, 3>>>>,
                 <<1, 3, 4, 3>>, 2, "float", {<<1, 3, 4, 2>>}, Paths)
    \cup Node("GlobalAveragePool", None0, <<<<2, 3, 2, 3>>>>, <<<<2, 3, 1, 1>>>>, 2, "float", TRUE,
              {<<2, 2, 1, 1>>}, Paths)
    \cup Node("GlobalAveragePoolGrad", [kernel_shape |-> <<2, 3>>], <<<<2, 3, 1, 1>>>>, <<<<2, 3, 2, 3>>>>,
              2, "float", TRUE, {<<2, 2, 2, 3>>}, Paths)
    \cup Node("BatchNormInternal", None0, <<<<2, 3, 2, 1>>>> \o [i \in 1..4 |-> <<3>>],
              <<<<2, 3, 2, 1>>>> \o [i \in 1..4 |-> <<3>>], 2, "float", TRUE, {<<2, 2, 2, 1>>}, Paths)
    \cup Node("BatchNormalizationGrad", None0,
              <<<<2, 3, 2, 1>>, <<2, 3, 2, 1>>, <<3>>, <<3>>, <<3>>>>,
              <<<<2, 3, 2, 1>>, <<3>>, <<3>>>>, 2, "float", TRUE, {<<2, 2, 2, 1>>}, Paths)

Trans(a, b) == [transA |-> a, transB |-> b]
RQGemm == Attrs({"div", "signed", "n_levels_out", "shift", "transA"}) @@ [transB |-> 1]

MatrixNodes ==
    Node("MatMul", Trans(0, 0), <<<<2, 3, 2>>, <<2, 2, 3>>>>, <<<<2, 3, 3>>>>, 2, "float", TRUE,
         {<<1, 2, 3>>, <<2, 2, 2>>, <<2, 3, 2>>}, Paths)
    \cup Node("MatMul", Trans(0, 0), <<<<2, 2, 3>>, <<3, 2>>>>, <<<<2, 2, 2>>>>, 2, "float", TRUE, {}, {Untiled})
    \cup Node("MatMul", Trans(0, 0), <<<<3, 2>>, <<2, 3>>>>, <<<<3, 3>>>>, 1, "int", TRUE, {<<2, 2>>}, Paths)
    \cup Node("MatMul", Trans(0, 0), <<<<3, 2>>, <<3, 3>>>>, <<<<3, 3>>>>, 1, "int", TRUE, {}, {Untiled})
    \cup UNION {Node("Gemm", Trans(a, b), <<IF a = 1 THEN <<2, 3>> ELSE <<3, 2>>, IF b = 1 THEN <<3, 2>> ELSE <<2, 3>>>>,
                     <<<<3, 3>>>>, 2, "float", TRUE, {<<2, 2>>}, {L2ToL1, Through}) : a, b \in 0..1}
    \cup Node("Gemm", Trans(0, 1), <<<<3, 2>>, <<2, 2>>, <<3, 2>>>>, <<<<3, 2>>>>, 2, "float", TRUE,
              {<<2, 1>>, <<2, 2>>}, Paths)
    \cup Node("Gemm", Trans(0, 0), <<<<2, 1>>, <<1, 36>>>>, <<<<2, 36>>>>, 1, "float", TRUE,
              {<<1, 16>>, <<1, 32>>}, {L2ToL1})
    \cup Node("Gemm", Trans(0, 0), <<<<1, 3, 2>>, <<1, 2, 2>>>>, <<<<1, 3, 2>>>>, 2, "float", TRUE,
              {<<1, 2, 2>>}, Paths)
    \cup Node("RequantizedGemm", RQGemm, <<<<8, 1, 2>>, <<2, 2>>, <<2>>, <<2>>>>, <<<<8, 1, 2>>>>,
              1, "int", TRUE, {}, {Untiled})
    \cup Node("RequantizedGemm", RQGemm, <<<<8, 1>>, <<2, 1>>, <<2>>, <<2>>>>, <<<<8, 2>>>>,
              1, "int", TRUE, {<<4, 2>>, <<6, 2>>}, Paths)
    \cup Node("RequantizedGemm", RQGemm, <<<<3, 2>>, <<3, 2>>, <<3>>, <<3>>>>, <<<<3, 3>>>>,
              1, "int", TRUE, {<<2, 2>>, <<3, 2>>}, Paths)
    \cup Node("RequantizedGemm", RQAttrs @@ Trans(0, 1), <<<<3, 2>>, <<3, 2>>, <<3>>, <<3>>>>, <<<<3, 3>>>>,
              1, "int", TRUE, {}, {Untiled})

Convolving(kernel, stride, pads, group) ==
    [dilations |-> [d \in DOMAIN stride |-> 1], group |-> group, kernel_shape |-> kernel, strides |-> stride,
     pads |-> pads]
Requantizing(attrs) == attrs @@ RQAttrs @@ [shift |-> 0]

WindowNodes ==
    Image2D("Conv", Convolving(<<3, 2>>, <<1, 1>>, <<1, 0, 1, 0>>, 1), <<<<1, 6, 3, 2>>, <<2, 3, 2, 2>>, <<2>>>>,
            <<1, 6, 2, 2>>, 2, "float", {<<1, 1, 2, 1>>, <<1, 6, 2, 1>>}, Paths)
    \cup Image2D("Conv", Convolving(<<1, 2>>, <<1, 1>>, <<0, 0, 0, 0>>, 1), <<<<1, 3, 4, 1>>, <<2, 1, 2, 1>>>>,
                 <<1, 3, 3, 2>>, 2, "float", {<<1, 2, 1, 2>>}, Paths)
    \cup Image2D("Conv", Convolving(<<2, 3>>, <<2, 1>>, <<0, 1, 0, 1>>, 1), <<<<1, 4, 3, 1>>, <<2, 2, 3, 1>>>>,
                 <<1, 2, 3, 2>>, 2, "float", {<<1, 1, 3, 1>>}, Paths)
    \cup Image2D("Conv", Convolving(<<1, 1>>, <<1, 1>>, <<0, 0, 0, 0>>, 1), <<<<2, 2, 2, 2>>, <<3, 1, 1, 2>>>>,
                 <<2, 2, 2, 3>>, 2, "float", {<<2, 1, 2, 2>>}, {Untiled})
    \cup Image2D("Conv", Convolving(<<2, 2>>, <<1, 1>>, <<0, 0, 0, 0>>, 2), <<<<1, 4, 4, 2>>, <<4, 2, 2, 1>>, <<4>>>>,
                 <<1, 3, 3, 4>>, 2, "float", {<<1, 1, 3, 4>>, <<1, 3, 1, 4>>}, {Untiled, L2ToL1, Through})
    \cup Image2D("RequantizedConv", Requantizing(Convolving(<<3, 3>>, <<1, 1>>, <<1, 1, 1, 1>>, 1)),
                 <<<<1, 4, 4, 1>>, <<3, 3, 3, 1>>, <<3>>, <<3>>>>, <<1, 4, 4, 3>>,
                 1, "int", {<<1, 1, 4, 2>>, <<1, 4, 1, 3>>}, {Untiled, L2ToL1})
    \cup Image2D("RequantizedConv", Requantizing(Convolving(<<3, 3>>, <<1, 1>>, <<1, 1, 1, 1>>, 1)),
                 <<<<1, 3, 3, 2>>, <<3, 3, 3, 2>>, <<3>>, <<3>>>>, <<1, 3, 3, 3>>,
                 1, "int", {<<1, 3, 3, 2>>}, {L3ToL2, Through})
    \cup Image2D("RequantizedConv", Requantizing(Convolving(<<2, 2>>, <<1, 1>>, <<0, 0, 0, 0>>, 2)),
                 <<<<1, 2, 4, 3>>, <<2, 2, 2, 1>>, <<2>>, <<2>>>>, <<1, 3, 2, 2>>,
                 1, "int", {<<1, 2, 2, 2>>, <<1, 1, 1, 1>>}, {Untiled, L2ToL1})
    \cup Image2D("RequantizedConv", Requantizing(Convolving(<<3>>, <<1>>, <<1, 1>>, 1)),
                 <<<<1, 5, 2>>, <<2, 3, 2>>, <<2>>, <<2>>>>, <<1, 5, 2>>,
                 1, "int", {<<1, 2, 2>>, <<1, 1, 1>>}, {Untiled, L2ToL1})

ConvGradNodes ==
    Node("ConvGradX", Convolving(<<3, 2>>, <<2, 1>>, <<1, 0, 1, 0>>, 1), <<<<1, 2, 2, 3>>, <<2, 2, 3, 2>>>>,
         <<<<1, 2, 4, 4>>>>, 2, "float", TRUE, {<<1, 2, 4, 4>>, <<1, 2, 2, 4>>, <<1, 1, 4, 3>>}, Paths)
    \cup Node("ConvGradX", Convolving(<<2, 3>>, <<1, 2>>, <<0, 1, 1, 1>>, 1), <<<<1, 2, 3, 4>>, <<2, 2, 2, 3>>>>,
              <<<<1, 2, 3, 8>>>>, 2, "float", TRUE, {<<1, 2, 3, 4>>, <<1, 1, 2, 3>>}, Paths)
    \cup Node("ConvGradX", Convolving(<<2, 2>>, <<1, 1>>, <<1, 0, 0, 1>>, 1), <<<<2, 2, 3, 3>>, <<2, 3, 2, 2>>>>,
              <<<<2, 3, 3, 3>>>>, 2, "float", TRUE, {<<2, 2, 3, 3>>}, Paths)
    \cup Node("ConvGradX", Convolving(<<1, 1>>, <<1, 1>>, <<0, 0, 0, 0>>, 1), <<<<2, 2, 1, 2>>, <<2, 3, 1, 1>>>>,
              <<<<2, 3, 1, 2>>>>, 2, "float", TRUE, {<<2, 2, 1, 2>>, <<2, 3, 1, 1>>}, Paths)
    \cup Node("ConvGradX", Convolving(<<3, 2>>, <<2, 2>>, <<1, 0, 1, 0>>, 3), <<<<1, 3, 4, 1>>, <<3, 1, 3, 2>>>>,
              <<<<1, 3, 8, 2>>>>, 2, "float", TRUE, {<<1, 3, 4, 2>>, <<1, 3, 3, 1>>}, Paths)
    \cup Node("ConvGradX", Convolving(<<1, 2>>, <<3, 1>>, <<0, 0, 0, 0>>, 1), <<<<1, 2, 2, 1>>, <<2, 2, 1, 2>>>>,
              <<<<1, 2, 5, 2>>>>, 2, "float", TRUE, {<<1, 2, 1, 2>>}, {L2ToL1})
    \cup Node("ConvGradW", Convolving(<<2, 2>>, <<1, 1>>, <<1, 0, 0, 1>>, 1), <<<<2, 2, 3, 3>>, <<2, 3, 3, 3>>>>,
              <<<<2, 3, 2, 2>>>>, 2, "float", TRUE, {<<2, 2, 2, 2>>, <<1, 3, 2, 2>>}, Paths)
    \cup Node("ConvGradW", Convolving(<<3, 1>>, <<2, 1>>, <<1, 0, 1, 0>>, 1), <<<<1, 2, 2, 2>>, <<1, 2, 4, 2>>>>,
              <<<<2, 2, 3, 1>>>>, 2, "float", TRUE, {<<2, 1, 3, 1>>}, Paths)
    \cup Node("ConvGradW", Convolving(<<1, 1>>, <<1, 1>>, <<0, 0, 0, 0>>, 1), <<<<1, 3, 2, 2>>, <<1, 2, 2, 2>>>>,
              <<<<3, 2, 1, 1>>>>, 2, "float", TRUE, {<<2, 2, 1, 1>>}, Paths)
    \cup Node("ConvGradW", Convolving(<<3, 3>>, <<1, 1>>, <<1, 1, 1, 1>>, 2), <<<<2, 2, 2, 3>>, <<2, 2, 2, 3>>>>,
              <<<<2, 1, 3, 3>>>>, 2, "float", TRUE, {<<2, 1, 3, 3>>}, Paths)
    \cup Node("ConvGradB", None0, <<<<2, 3, 2, 1>>>>, <<<<3>>>>, 2, "float", TRUE, {<<2>>, <<3>>}, Paths)

MCNodes == ElementNodes \cup RowNodes \cup MoveNodes \cup ChannelNodes \cup MatrixNodes
    \cup WindowNodes \cup ConvGradNodes

(***************************************************************************)
(* The networks.  Tensors and nodes are numbers; the tensor with the       *)
(* largest number is returned unless said.                                 *)
(***************************************************************************)
Nodes0(ops) ==
    [i \in DOMAIN ops |-> P!OpNode(i, ops[i][1], ops[i][2], ops[i][3], ops[i][4])]
Net(kind, shapes, constants, ops, outputs) ==
    [kind |-> kind, nodes |-> Nodes0(ops), outputs |-> outputs,
     tensors |-> [t \in DOMAIN constants |-> P!Constant(constants[t][1], constants[t][2])]
                 @@ [t \in DOMAIN shapes |-> P!Variable(shapes[t])]]

Plain == [none |-> 0]
RQ(div) == [div |-> div, signed |-> 1, n_levels_out |-> 256]
Conv(kernel, stride, pads, group) ==
    [dilations |-> [d \in DOMAIN stride |-> 1], group |-> group, kernel_shape |-> kernel,
     strides |-> stride, pads |-> pads, channels_first |-> TRUE]
Conv22 == Conv(<<2, 2>>, <<1, 1>>, <<0, 0, 0, 0>>, 1)

(* Values that are not all alike. *)
Weights(s) == <<s, [i \in 1..Prod(s) |-> ((5 * i) % 7) - 3]>>
List(v) == <<<<Len(v)>>, v>>

(* x -> Conv -> RequantShift *)
ConvNet(attrs, x, w, out, mul, add) ==
    Net("int", (1 :> x) @@ (2 :> out) @@ (3 :> out),
        (11 :> Weights(w)) @@ (12 :> List(mul)) @@ (13 :> List(add)),
        <<<<"Conv", <<1, 11>>, <<2>>, attrs>>,
          <<"RequantShift", <<2, 12, 13>>, <<3>>, RQ(8)>>>>, <<3>>)

Convolutions ==
    {ConvNet(Conv22, <<1, 2, 3, 3>>, <<2, 2, 2, 2>>, <<1, 2, 2, 2>>, <<3, 2>>, <<1, -4>>),
     ConvNet(Conv(<<2, 2>>, <<1, 1>>, <<1, 1, 1, 1>>, 2), <<1, 2, 3, 4>>, <<2, 1, 2, 2>>, <<1, 2, 4, 5>>, <<3, 2>>, <<1, -4>>),
     ConvNet(Conv(<<2>>, <<1>>, <<0, 0>>, 1), <<1, 2, 4>>, <<3, 2, 2>>, <<1, 3, 3>>, <<3, 2, 1>>, <<1, -4, 0>>)}

(* Two convolutions in a row that share their weights. *)
SharedWeights ==
    Net("int", (1 :> <<1, 2, 3, 3>>) @@ (2 :> <<1, 2, 2, 2>>) @@ (3 :> <<1, 2, 2, 2>>)
               @@ (4 :> <<1, 2, 1, 1>>) @@ (5 :> <<1, 2, 1, 1>>),
        (11 :> Weights(<<2, 2, 2, 2>>)) @@ (12 :> List(<<1, 2>>)) @@ (13 :> List(<<3, 0>>)),
        <<<<"Conv", <<1, 11>>, <<2>>, Conv22>>, <<"RequantShift", <<2, 12, 13>>, <<3>>, RQ(8)>>,
          <<"Conv", <<3, 11>>, <<4>>, Conv22>>, <<"RequantShift", <<4, 12, 13>>, <<5>>, RQ(8)>>>>, <<5>>)

(* A residual block: the first result is added to what is computed of it.  *)
Residual ==
    LET pointwise == Conv(<<1, 1>>, <<1, 1>>, <<0, 0, 0, 0>>, 1)
        image == <<1, 2, 2, 1>>
    IN  Net("int", [t \in 1..8 |-> image],
            (11 :> Weights(<<2, 2, 1, 1>>)) @@ (12 :> List(<<3>>)) @@ (13 :> List(<<1>>))
            @@ (14 :> Weights(<<2, 2, 1, 1>>)) @@ (15 :> List(<<5>>)) @@ (16 :> List(<<2>>))
            @@ (17 :> List(<<2>>)) @@ (18 :> List(<<0>>)),
            <<<<"Conv", <<1, 11>>, <<2>>, pointwise>>, <<"RequantShift", <<2, 12, 13>>, <<3>>, RQ(4)>>,
              <<"Conv", <<3, 14>>, <<4>>, pointwise>>, <<"RequantShift", <<4, 15, 16>>, <<5>>, RQ(8)>>,
              <<"Add", <<3, 5>>, <<6>>, Plain>>, <<"RequantShift", <<6, 17, 18>>, <<7>>, RQ(2)>>>>, <<7>>)

Matrices ==
    LET rq(mul, add) == (12 :> List(mul)) @@ (13 :> List(add))
        shapes(x) == (1 :> x) @@ (2 :> <<2, 3>>) @@ (3 :> <<2, 3>>)
        then(gemm) == <<gemm, <<"RequantShift", <<2, 12, 13>>, <<3>>, RQ(4)>>>>
    IN  {Net("int", shapes(<<2, 4>>), (11 :> Weights(<<4, 3>>)) @@ (14 :> List(<<2, -1, 5>>)) @@ rq(<<2>>, <<3>>),
             then(<<"Gemm", <<1, 11, 14>>, <<2>>, [transA |-> 0, transB |-> 0]>>), <<3>>),
         Net("int", shapes(<<4, 2>>), (11 :> Weights(<<3, 4>>)) @@ (14 :> List(<<2, -1, 5>>)) @@ rq(<<2>>, <<3>>),
             then(<<"Gemm", <<1, 11, 14>>, <<2>>, [transA |-> 1, transB |-> 1]>>), <<3>>),
         Net("int", shapes(<<2, 4>>) @@ (11 :> <<4, 3>>), rq(<<2>>, <<3>>),
             then(<<"MatMul", <<1, 11>>, <<2>>, Plain>>), <<3>>),
         Net("int", shapes(<<2, 4>>) @@ (11 :> <<4, 3>>) @@ (14 :> <<3>>), rq(<<2>>, <<3>>),
             then(<<"Gemm", <<1, 11, 14>>, <<2>>, [transA |-> 0, transB |-> 0]>>), <<3>>)}

Activations ==
    LET net(op, attrs, mul, add) ==
            Net("int", [t \in 1..3 |-> <<2, 3>>], (12 :> List(mul)) @@ (13 :> List(add)),
                <<<<op, <<1>>, <<2>>, attrs>>, <<"RequantShift", <<2, 12, 13>>, <<3>>, RQ(16)>>>>, <<3>>)
        hardswish == [one_over_six |-> 1, six |-> 6, three |-> 3]
    IN  {net("iGELU", [b |-> -4, one |-> 16], <<1>>, <<5>>), net("iGELU", [b |-> -4, one |-> 16], <<3>>, <<0>>),
         net("iHardswish", hardswish, <<1>>, <<5>>), net("iHardswish", hardswish, <<2, 2, 2>>, <<0, 0, 0>>)}

(* A constant added before a requantisation, for each channel. *)
ConstantAdd ==
    Net("int", [t \in 1..3 |-> <<1, 2, 3>>],
        (11 :> <<<<2, 1>>, <<3, -2>>>>) @@ (12 :> <<<<2, 1>>, <<3, 5>>>>) @@ (13 :> <<<<2, 1>>, <<7, 1>>>>),
        <<<<"Add", <<1, 11>>, <<2>>, Plain>>, <<"RequantShift", <<2, 12, 13>>, <<3>>, RQ(8)>>>>, <<3>>)

(* Of two requantised sums the first is an operand of the second. *)
Sums ==
    LET unity == (12 :> List(<<3>>)) @@ (13 :> List(<<2>>))
    IN  Net("int", [t \in 1..8 |-> <<1, 4, 2>>], unity,
            <<<<"RequantShift", <<1, 12, 13>>, <<3>>, RQ(2)>>, <<"Transpose", <<2>>, <<4>>, [perm |-> <<0, 1, 2>>]>>,
              <<"Add", <<3, 4>>, <<5>>, Plain>>, <<"RequantShift", <<5, 12, 13>>, <<6>>, RQ(4)>>,
              <<"Add", <<6, 3>>, <<7>>, Plain>>, <<"RequantShift", <<7, 12, 13>>, <<8>>, RQ(8)>>>>, <<8>>)

Concatenations ==
    LET unity == (12 :> List(<<4>>)) @@ (13 :> List(<<0>>))
    IN  {Net("int", (1 :> <<2, 3>>) @@ (2 :> <<2, 0>>) @@ (3 :> <<2, 3>>) @@ (4 :> <<2, 3>>) @@ (5 :> <<3, 2>>),
             <<>>, <<<<"Concat", <<2, 1>>, <<3>>, [axis |-> 1]>>, <<"Identity", <<3>>, <<4>>, Plain>>,
                     <<"Transpose", <<4>>, <<5>>, [perm |-> <<1, 0>>]>>>>, <<5>>),
         Net("int", (1 :> <<2, 3>>) @@ (2 :> <<2, 1>>) @@ (3 :> <<2, 4>>) @@ (4 :> <<2, 4>>), unity,
             <<<<"Concat", <<1, 2>>, <<3>>, [axis |-> 1]>>, <<"RequantShift", <<3, 12, 13>>, <<4>>, RQ(4)>>>>, <<4>>),
         Net("int", (1 :> <<2, 4>>) @@ (2 :> <<4, 2>>) @@ (3 :> <<4, 2>>) @@ (4 :> <<2, 4>>) @@ (5 :> <<2, 4>>),
             unity @@ (14 :> List(<<3>>)) @@ (15 :> List(<<1>>)),
             <<<<"Transpose", <<1>>, <<2>>, [perm |-> <<1, 0>>]>>, <<"RequantShift", <<2, 12, 13>>, <<3>>, RQ(4)>>,
               <<"Transpose", <<3>>, <<4>>, [perm |-> <<1, 0>>]>>, <<"RequantShift", <<4, 14, 15>>, <<5>>, RQ(4)>>>>, <<5>>)}

(* Transpositions that meet, fan out and stand at the end. *)
Transpositions ==
    {Net("int", (1 :> <<2, 3, 4>>) @@ (2 :> <<3, 2, 4>>) @@ (3 :> <<4, 3, 2>>), <<>>,
         <<<<"Transpose", <<1>>, <<2>>, [perm |-> <<1, 0, 2>>]>>, <<"Transpose", <<2>>, <<3>>, [perm |-> <<2, 0, 1>>]>>>>, <<3>>),
     Net("int", (1 :> <<2, 3>>) @@ (2 :> <<2, 3>>) @@ (3 :> <<3, 2>>) @@ (4 :> <<2, 3>>) @@ (5 :> <<3, 2>>)
                @@ (6 :> <<6>>), 11 :> List(<<6>>),
         <<<<"Relu", <<1>>, <<2>>, Plain>>, <<"Transpose", <<2>>, <<3>>, [perm |-> <<1, 0>>]>>,
           <<"Transpose", <<3>>, <<4>>, [perm |-> <<1, 0>>]>>, <<"Relu", <<3>>, <<5>>, Plain>>,
           <<"Reshape", <<4, 11>>, <<6>>, Plain>>>>, <<6, 5>>),
     Net("int", (1 :> <<2, 3>>) @@ (2 :> <<2, 3>>) @@ (3 :> <<3, 2>>) @@ (4 :> <<2, 2>>),
         (11 :> Weights(<<2, 3>>)) @@ (12 :> Weights(<<6>>)) @@ (13 :> List(<<3, 2>>)),
         <<<<"Transpose", <<1>>, <<2>>, [perm |-> <<0, 1>>]>>, <<"Reshape", <<12, 13>>, <<3>>, Plain>>,
           <<"MatMul", <<2, 3>>, <<4>>, Plain>>>>, <<4>>)}

(* Operators written out, gradients, pools and biases. *)
Others ==
    {Net("float", [t \in 1..5 |-> <<2, 3>>],
         (11 :> List(<<2>>)) @@ (12 :> List(<<3>>)) @@ (13 :> List(<<-4>>)) @@ (14 :> List(<<3>>)),
         <<<<"Div", <<1, 11>>, <<2>>, Plain>>, <<"Add", <<2, 12>>, <<3>>, Plain>>,
           <<"Round", <<3>>, <<4>>, Plain>>, <<"Clip", <<4, 13, 14>>, <<5>>, Plain>>>>, <<5>>),
     Net("float", [t \in 1..4 |-> <<2, 3>>], (11 :> List(<<2>>)) @@ (12 :> List(<<3>>)),
         <<<<"Sub", <<1, 11>>, <<2>>, Plain>>, <<"Mul", <<12, 2>>, <<3>>, Plain>>, <<"Relu", <<3>>, <<4>>, Plain>>>>, <<4>>),
     Net("float", (1 :> <<1, 2, 2, 2>>) @@ (2 :> <<1, 2, 3, 3>>) @@ (3 :> <<2, 2, 2, 2>>)
                  @@ (4 :> <<1, 2, 3, 3>>) @@ (5 :> <<2, 2, 2, 2>>) @@ (6 :> <<2>>), <<>>,
         <<<<"ConvGrad", <<1, 2, 3>>, <<4, 5, 6>>,
             [dilations |-> <<1, 1>>, group |-> 1, strides |-> <<1, 1>>, pads |-> <<0, 0, 0, 0>>]>>>>, <<4, 5, 6>>),
     Net("float", (1 :> <<1, 2, 3, 3>>) @@ (2 :> <<1, 2, 2, 2>>) @@ (3 :> <<1, 2, 1, 1>>) @@ (4 :> <<1, 2, 1, 1>>),
         (11 :> Weights(<<2, 2, 2, 2>>)) @@ (12 :> List(<<0, 0>>)),
         <<<<"Conv", <<1, 11, 12>>, <<2>>, Conv22>>, <<"MaxPool", <<2>>, <<3>>, Conv22 @@ [ceil_mode |-> 0, storage_order |-> 0]>>,
           <<"ReduceMean", <<3>>, <<4>>, [axes |-> <<2, 3>>, keepdims |-> 1]>>>>, <<4>>)}

MCNetworks ==
    Convolutions \cup Matrices \cup Activations \cup Concatenations \cup Transpositions \cup Others
    \cup {SharedWeights, Residual, ConstantAdd, Sums}
=============================================================================
