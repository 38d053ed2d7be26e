------------------------- MODULE ConvGradOperators -------------------------
(***************************************************************************)
(* The gradients of a convolution for its input, its weights and its bias. *)
(* Tensors have channels first.  A tile of the input's gradient needs a    *)
(* halo of the output's; the weights' gradient is cut along its input      *)
(* channels or along its output channels.  That one cube of it may take    *)
(* several steps, over tiles of the image, is the subject of the runs on   *)
(* ConvGradW of the tile loop; here the image is in one piece.             *)
(***************************************************************************)
EXTENDS WindowOperators

CONSTANTS HW_PIN_BUDGET_BYTES,  \* PWConvGradXTileConstraint
          L1_DY_BUDGET_BYTES    \* CinSliceStrategy
ASSUME BudgetAssumption == HW_PIN_BUDGET_BYTES \in Nat /\ L1_DY_BUDGET_BYTES \in Nat

Axes == 1..2
BytesOf(n, s) == Prod(s) * n.width

(* The constraints do not tie the tile of dY over the image to that of dX; *)
(* the solver fills the memory, and the largest tile stands for its choice.*)
ConvGradXTiles(rep, shape, t) ==
    AdmitIf(t[2] % rep.group = 0,
            [grad_in |-> t, grad_out |-> [shape.grad_out EXCEPT ![1] = t[1]],
             weight |-> [shape.weight EXCEPT ![2] = t[2] \div rep.group]])

PWConvGradXTiles(n, rep, shape, t) ==
    IF BytesOf(n, shape.grad_out) <= HW_PIN_BUDGET_BYTES => SubSeq(t, 3, 4) = SubSeq(shape.grad_in, 3, 4)
    THEN ConvGradXTiles(rep, shape, t) ELSE {}

(* Its serialization stops with an error unless the channels agree.        *)
DWConvGradXTiles(shape, t) ==
    AdmitIf(/\ t[2] = shape.grad_in[2] /\ shape.grad_in[2] = shape.grad_out[2]
            /\ shape.weight[1] = t[2] /\ shape.weight[2] = 1,
            [grad_in |-> t, grad_out |-> [shape.grad_out EXCEPT ![1] = t[1]], weight |-> shape.weight])

(* computeDyCubeFromDxTile: the outputs whose window meets the tile.       *)
Halo(rep, shape, at) ==
    LET first(d) == NotBelow(CeilDiv(at.absolute[d + 2] - (rep.kernel[d] - 1) + rep.begin[d], rep.stride[d]), 0)
        last(d) == Smaller((at.absolute[d + 2] + at.rectangle.dims[d + 2] - 1 + rep.begin[d]) \div rep.stride[d],
                           shape.grad_out[d + 2] - 1)
    IN  [offset |-> [d \in Axes |-> first(d)], size |-> [d \in Axes |-> last(d) - first(d) + 1]]

(* A halo without an element, for which the serialization stops with an    *)
(* error, has a size that is not positive.                                 *)
SerializeGradX(rep, shape, at, filters) ==
    LET cube == at.rectangle
        halo == Halo(rep, shape, at)
    IN  Step([grad_in |-> cube, weight |-> filters,
              grad_out |-> Cube(<<cube.offset[1], 0>> \o halo.offset,
                                <<cube.dims[1], shape.grad_out[2]>> \o halo.size)],
             [dim_im_in |-> SubSeq(cube.dims, 3, 4), dim_im_out |-> halo.size,
              ch_im_in |-> cube.dims[2], ch_im_out |-> shape.grad_out[2],
              offset_grad_in |-> SubSeq(at.absolute, 3, 4), offset_grad_out |-> halo.offset])

ConvGradXSerialize(rep, shape, at) ==
    SerializeGradX(rep, shape, at,
        Cube([Zeros(shape.weight) EXCEPT ![2] = at.rectangle.offset[2]],
             [shape.weight EXCEPT ![2] = at.rectangle.dims[2]]))

DWConvGradXSerialize(rep, shape, at) ==
    SerializeGradX(rep, shape, at,
        Cube([Zeros(shape.weight) EXCEPT ![1] = at.rectangle.offset[2]],
             [shape.weight EXCEPT ![1] = at.rectangle.dims[2]]))

-----------------------------------------------------------------------------
(* The weights' gradient: ConvGradW2D has both strategies, the others only *)
(* the second.                                                             *)
CinSliceTiles(n, rep, shape, t) ==
    AdmitIf([t EXCEPT ![2] = 1] = [shape.grad_weight EXCEPT ![2] = 1],
            [grad_weight |-> t, grad_out |-> shape.grad_out,
             data_in |-> [shape.data_in EXCEPT ![2] = t[2] * rep.group]])

CoutSliceTiles(n, rep, shape, t) ==
    AdmitIf(Tail(t) = Tail(shape.grad_weight) /\ t[2] * rep.group = shape.data_in[2],
            [grad_weight |-> t, grad_out |-> [shape.grad_out EXCEPT ![2] = t[1]], data_in |-> shape.data_in])

ConvGradWTiles(n, rep, shape, t) ==
    IF BytesOf(n, shape.grad_out) <= L1_DY_BUDGET_BYTES THEN CinSliceTiles(n, rep, shape, t)
    ELSE CoutSliceTiles(n, rep, shape, t)

PWConvGradWTiles(n, rep, shape, t) == CoutSliceTiles(n, rep, shape, t)

DWConvGradWTiles(shape, t) ==
    AdmitIf(/\ Tail(t) = Tail(shape.grad_weight) /\ t[2] = 1
            /\ shape.data_in[2] = shape.grad_out[2] /\ shape.grad_weight[1] = shape.data_in[2],
            [grad_weight |-> t, grad_out |-> [shape.grad_out EXCEPT ![2] = t[1]],
             data_in |-> [shape.data_in EXCEPT ![2] = t[1]]])

CinSliceSerialize(shape, at) ==
    LET from == at.absolute[2]
        channels == at.rectangle.dims[2]
        slice(s) == Cube([Zeros(s) EXCEPT ![2] = from], [s EXCEPT ![2] = channels])
    IN  Step([grad_weight |-> slice(shape.grad_weight), data_in |-> slice(shape.data_in),
              grad_out |-> WholeOf(shape.grad_out)],
             [ch_im_in |-> channels, ch_im_out |-> shape.grad_out[2]])

(* computeInputTileFromGradOutTile for the whole image *)
InputExtent(rep, shape, d) ==
    NotBelow(Smaller((shape.grad_out[d + 2] - 1) * rep.stride[d] - rep.begin[d] + rep.kernel[d],
                     shape.data_in[d + 2]), 1)

CoutSliceSerialize(rep, shape, at) ==
    LET from == at.absolute[1]
        filters == at.rectangle.dims[1]
        size == [d \in Axes |-> InputExtent(rep, shape, d)]
    IN  Step([grad_weight |-> Cube([Zeros(shape.grad_weight) EXCEPT ![1] = from],
                                   [shape.grad_weight EXCEPT ![1] = filters]),
              grad_out |-> Cube([Zeros(shape.grad_out) EXCEPT ![2] = from],
                                [shape.grad_out EXCEPT ![2] = filters]),
              data_in |-> Cube(Zeros(shape.data_in), SubSeq(shape.data_in, 1, 2) \o size)],
             [ch_im_in |-> shape.data_in[2], ch_im_out |-> filters, dim_im_in |-> size])

(* matches_solution: a tile with the whole image is taken for a slice of   *)
(* input channels, by whichever strategy it was found.                     *)
ConvGradWSerialize(shape, at) == CinSliceSerialize(shape, at)
PWConvGradWSerialize(rep, shape, at) == CoutSliceSerialize(rep, shape, at)
DWConvGradWSerialize(rep, shape, at) == CoutSliceSerialize(rep, shape, at)

(* ConvGradBTileConstraint *)
ConvGradBTiles(shape, t) ==
    AdmitIf(TRUE, [grad_bias |-> t, grad_out |-> [shape.grad_out EXCEPT ![2] = t[1]]])

ConvGradBSerialize(shape, cube) ==
    Step([grad_bias |-> cube,
          grad_out |-> Cube([Zeros(shape.grad_out) EXCEPT ![2] = cube.offset[1]],
                            [shape.grad_out EXCEPT ![2] = cube.dims[1]])],
         [ch_im_out |-> cube.dims[1]])

-----------------------------------------------------------------------------
(* Templates and kernels *)

Place(size, i) == i[1] * size[2] + i[2]
GradIn(rep, b, ci, i) == (b * rep.ch_im_in + ci) * Prod(rep.dim_im_in) + Place(rep.dim_im_in, i)
GradOut(rep, b, co, o) == (b * rep.ch_im_out + co) * Prod(rep.dim_im_out) + Place(rep.dim_im_out, o)

(* The pairs of a weight's place and an output whose window puts it on i.  *)
Scattered(rep, from, to, i) ==
    LET at(k, d) == i[d] + from[d] + rep.begin[d] - k[d]
        out(k) == [d \in Axes |-> at(k, d) \div rep.stride[d] - to[d]]
    IN  {<<k, out(k)>> : k \in {k \in Image(rep.kernel) :
            \A d \in Axes : at(k, d) % rep.stride[d] = 0 /\ out(k)[d] \in 0..(rep.dim_im_out[d] - 1)}}

(* The path by a matrix product, for which the buffer must be large enough *)
(* for one output channel, does not look at the place of the tile.         *)
ByIm2Col(rep) ==
    rep.stride = <<1, 1>> /\ Prod(rep.dim_im_in) <= rep.ctxtBufferSize

ConvGradXKernel(rep) ==
    LET from == IF ByIm2Col(rep) THEN <<0, 0>> ELSE rep.offset_grad_in
        to == IF ByIm2Col(rep) THEN <<0, 0>> ELSE rep.offset_grad_out
    IN  {Write("grad_in", GradIn(rep, b, ci, i),
               {<<At("grad_out", GradOut(rep, b, co, s[2])),
                  At("weight", (co * rep.ch_im_in + ci) * Prod(rep.kernel) + Place(rep.kernel, s[1]))>> :
                   s \in Scattered(rep, from, to, i), co \in Alone(rep.ch_im_out)}) :
            b \in Alone(rep.batch), ci \in InChunks(rep.ch_im_in), i \in Image(rep.dim_im_in)}

DWConvGradXKernel(rep) ==
    LET multiplier == rep.ch_im_out \div rep.ch_im_in
    IN  {Write("grad_in", GradIn(rep, b, ci, i),
               {<<At("grad_out", GradOut(rep, b, co, s[2])),
                  At("weight", co * Prod(rep.kernel) + Place(rep.kernel, s[1]))>> :
                   s \in Scattered(rep, rep.offset_grad_in, rep.offset_grad_out, i),
                   co \in (ci * multiplier)..((ci + 1) * multiplier - 1)}) :
            b \in Alone(rep.batch), ci \in InChunks(rep.ch_im_in), i \in Image(rep.dim_im_in)}

PWConvGradXKernel(rep) ==
    {Write("grad_in", GradIn(rep, b, ci, o),
           {<<At("grad_out", GradOut(rep, b, co, o)), At("weight", co * rep.ch_im_in + ci)>> :
               co \in Alone(rep.ch_im_out)}) :
        b \in Alone(rep.batch), ci \in InChunks(rep.ch_im_in), o \in Image(rep.dim_im_out)}

(* Not in this repository: pulp-trainlib's gradients of the weights, of    *)
(* which each call adds one image to what the memset has left.             *)
ParamGrad(rep, at, co, ci, k, images) ==
    LET met(o) == [d \in Axes |-> o[d] * rep.stride[d] - rep.begin[d] + k[d]]
    IN  Write("grad_weight", at * Prod(rep.kernel) + Place(rep.kernel, k),
              {<<At("grad_out", GradOut(rep, b, co, o)), At("data_in", GradIn(rep, b, ci, met(o)))>> :
                  b \in images, o \in {o \in Image(rep.dim_im_out) : met(o) \in Image(rep.dim_im_in)}})

pulp_conv2d_fp32_bw_param_grads_cl(rep, images) ==
    {ParamGrad(rep, co * rep.ch_im_in + ci, co, ci, k, images) :
        co \in Alone(rep.ch_im_out), ci \in Alone(rep.ch_im_in), k \in Image(rep.kernel)}

pulp_conv_dw_fp32_bw_param_grads_cl(rep, images) ==
    {ParamGrad(rep, co, co, co, k, images) : co \in Alone(rep.ch_im_out), k \in Image(rep.kernel)}

pulp_conv_pw_fp32_bw_param_grads_cl(rep, images) ==
    pulp_conv2d_fp32_bw_param_grads_cl([rep EXCEPT !.kernel = <<1, 1>>, !.begin = <<0, 0>>], images)

ConvGradWKernel(rep) == pulp_conv2d_fp32_bw_param_grads_cl(rep, Alone(rep.batch))
DWConvGradWKernel(rep) == pulp_conv_dw_fp32_bw_param_grads_cl(rep, Alone(rep.batch))

(* The pointers move to the next image only after the loop over the batch. *)
PWConvGradWKernel(rep) == pulp_conv_pw_fp32_bw_param_grads_cl(rep, {0})

ConvGradBKernel(rep) ==
    {Write("grad_bias", c, {<<At("grad_out", GradOut(rep, b, c, o))>> :
                               b \in Alone(rep.batch), o \in Image(rep.dim_im_out)}) :
        c \in Alone(rep.ch_im_out)}
=============================================================================
