---------------------------- MODULE LayerShapes ----------------------------
(***************************************************************************)
(* The shapes a layer gives its tensors once a mapper has accepted its     *)
(* node (computeShapes of Targets/Generic/Layers.py and of                 *)
(* Targets/PULPOpen/Layers.py), and how constants grow to them.  A layer   *)
(* is a node as the parsers see it; most layers change nothing.            *)
(***************************************************************************)
EXTENDS Integers, Sequences, SequencesExt, FiniteSetsExt

LOCAL INSTANCE TileGeometry

Shapes(in, out) == [in |-> in, out |-> out]
NoShapes == Shapes(<<>>, <<>>)
Ones(rank) == [d \in 1..rank |-> 1]
Raised(s, rank) == Ones(Max({0, rank - Len(s)})) \o s

(* One factor and one offset for each channel of each image. *)
RequantShiftShapes(in, out) ==
    LET grown(s) == <<in[1][1], in[1][2]>> \o Tail(s)
    IN  Shapes([in EXCEPT ![2] = grown(@), ![3] = grown(@)], out)

(* The operand with fewer dimensions, or else the first, is given the      *)
(* shape of the other one.                                                 *)
Alike(in) ==
    IF Len(in[1]) > Len(in[2]) THEN [in EXCEPT ![2] = in[1]] ELSE [in EXCEPT ![1] = in[2]]

AddShapes(in, out) == Shapes(Alike(in), <<Alike(in)[1]>>)
MulShapes(in, out) == Shapes(Alike(in), out)

(* A vector is a row on the left and a column on the right. *)
MatMulShapes(in, out) ==
    LET a == Raised(in[1], 2)
        b == in[2] \o Ones(Max({0, 2 - Len(in[2])}))
    IN  IF Last(a) # b[Len(b) - 1] THEN NoShapes
        ELSE Shapes(<<Raised(a, Len(b)), Raised(b, Len(a))>>, out)

Trans(n, side) == IF side \in DOMAIN n.attrs THEN n.attrs[side] ELSE 0

GEMMShapes(n) ==
    LET rows == n.inputs[1][Len(n.inputs[1]) - 1 + Trans(n, "transA")]
        columns == n.inputs[2][Len(n.inputs[2]) - Trans(n, "transB")]
    IN  Shapes(IF Len(n.inputs) = 3 THEN [n.inputs EXCEPT ![3] = <<rows, columns>>] ELSE n.inputs,
               n.outputs)

(* PULPRQSGEMMLayer, PULPRQSConvLayer: a factor and an offset for each     *)
(* channel of the output.                                                  *)
RQGEMMShapes(n) ==
    LET channels == <<n.inputs[2][Len(n.inputs[2]) - Trans(n, "transB")]>>
    IN  Shapes([n.inputs EXCEPT ![3] = channels, ![4] = channels], n.outputs)

RQConvShapes(n) ==
    LET channels == <<IF n.channels_first THEN n.outputs[1][2] ELSE Last(n.outputs[1])>>
    IN  Shapes([n.inputs EXCEPT ![3] = channels, ![4] = channels], n.outputs)

ConvShapes(n) ==
    Shapes(IF Len(n.inputs) = 3 THEN [n.inputs EXCEPT ![3] = <<n.inputs[2][1]>>] ELSE n.inputs, n.outputs)

(* Only the first of the axes is summed over here. *)
ReduceSumShapes(n) ==
    LET axis == n.attrs.axes[1] + 1
        s == n.inputs[1]
    IN  Shapes(n.inputs, <<IF n.attrs.keepdims = 1 THEN [s EXCEPT ![axis] = 1]
                           ELSE RemoveAt(s, axis)>>)

(* UniformRequantShift takes a node by the shapes its constants had before *)
(* and reads their first elements only, so those are left as they are.     *)
ComputeShapes(n) ==
    CASE n.op = "RequantShift" /\ Prod(n.inputs[2]) > 1 -> RequantShiftShapes(n.inputs, n.outputs)
      [] n.op \in {"Add", "RequantizedAdd"} -> AddShapes(n.inputs, n.outputs)
      [] n.op = "Mul" -> MulShapes(n.inputs, n.outputs)
      [] n.op = "MatMul" -> MatMulShapes(n.inputs, n.outputs)
      [] n.op = "Gemm" -> GEMMShapes(n)
      [] n.op = "RequantizedGemm" -> RQGEMMShapes(n)
      [] n.op = "RequantizedConv" -> RQConvShapes(n)
      [] n.op = "Conv" -> ConvShapes(n)
      [] n.op = "ReduceSum" -> ReduceSumShapes(n)
      [] OTHER -> Shapes(n.inputs, n.outputs)

(* np.broadcast_to: from the last dimension on, alike or one.              *)
Grows(from, to) ==
    \/ Prod(from) = Prod(to)
    \/ /\ Len(from) <= Len(to)
       /\ \A d \in DOMAIN from : from[d] \in {1, to[d + Len(to) - Len(from)]}

(* The element of a constant that an element of the grown one repeats.     *)
Repeated(from, to, e) ==
    IF Prod(from) = Prod(to) THEN e
    ELSE FlatOffset([d \in DOMAIN from |->
                        IF from[d] = 1 THEN 0
                        ELSE LET o == d + Len(to) - Len(from)
                             IN  (e \div StridesFromShape(to)[o]) % to[o]],
                    StridesFromShape(from))
=============================================================================
