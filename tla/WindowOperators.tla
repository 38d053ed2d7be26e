-------------------------- MODULE WindowOperators --------------------------
(***************************************************************************)
(* Convolutions: the tiles overlap in the input, and only those at the     *)
(* border of the image are padded.  Images have channels last and weights  *)
(* output channels first; the same definitions serve one and two extents.  *)
(***************************************************************************)
EXTENDS ChannelOperators

(* The extents of an input tile that give `out` rows or columns: only a    *)
(* tile that spans the image is padded, any other loses the overlap.       *)
ConvExtents(rep, shape, d, out) ==
    LET full == shape.data_in[d + 1]
        K == rep.kernel[d]
        effective(e) == IF e = full THEN e + rep.begin[d] + rep.end[d] ELSE e - (K - 1)
    IN  {e \in 1..full : /\ out = (effective(e) - rep.dilation[d] * (K - 1) - 1) \div rep.stride[d] + 1
                         /\ effective(e) >= K
                         /\ effective(e) % rep.stride[d] = 0}

(* In the requantized convolutions no tile loses the overlap.              *)
RQConvExtents(rep, full, d, out) ==
    {e \in 1..full : /\ out = ((IF e = full THEN e + rep.begin[d] + rep.end[d] ELSE e) - rep.kernel[d])
                                  \div rep.stride[d] + 1
                     /\ e % rep.stride[d] = 0}

(* All choices of an extent for each axis. *)
Extending(rep, extents(_, _), t) ==
    {e \in [DOMAIN rep.kernel -> UNION {extents(d, t[d + 1]) : d \in DOMAIN rep.kernel}] :
        \A d \in DOMAIN rep.kernel : e[d] \in extents(d, t[d + 1])}

FilterTile(shape, t) == [shape.weight EXCEPT ![1] = Last(t)]

ConvTiles(rep, shape, t) ==
    {[data_in |-> <<t[1]>> \o e \o <<Last(shape.data_in)>>, weight |-> FilterTile(shape, t), data_out |-> t]
        @@ SameTile({"bias"} \cap DOMAIN shape, <<Last(t)>>) :
        e \in Extending(rep, LAMBDA d, out : ConvExtents(rep, shape, d, out), t)}

(* DWConv2DTileConstraint keeps all channels. *)
DWConvTiles(rep, shape, t) ==
    IF Last(t) = Last(shape.data_out) THEN ConvTiles(rep, shape, t) ELSE {}

(* addMinTileSizeConstraint *)
MinTileSize(size, tile, modulo) ==
    \E mul \in 1..size, add \in 0..size :
        add <= tile /\ (tile < size => add >= modulo) /\ size = mul * tile + add

RQConvTiles(rep, shape, t) ==
    LET channels == Last(shape.data_out)
        filters == SameTile({"mul", "add"}, <<Last(t)>>)
    IN  {[data_in |-> <<t[1]>> \o e \o <<Last(shape.data_in)>>, weight |-> FilterTile(shape, t), data_out |-> t]
             @@ filters :
            e \in {x \in Extending(rep, LAMBDA d, out : RQConvExtents(rep, shape.data_in[d + 1], d, out), t) :
                      /\ channels >= 8 => MinTileSize(channels, Last(t), 8)
                      /\ \A d \in DOMAIN x : x[d] >= rep.kernel[d]}}

RQConv1DTiles(rep, shape, t) == RQConvTiles(rep, shape, t)

RQDWConvTiles(rep, shape, t) ==
    {[data_in |-> <<t[1], Last(t)>> \o e, weight |-> FilterTile(shape, t), data_out |-> t]
        @@ SameTile({"mul", "add"}, <<Last(t)>>) :
        e \in {x \in Extending(rep, LAMBDA d, out : RQConvExtents(rep, shape.data_in[d + 2], d, out), t) :
                  \A d \in DOMAIN x : t[d + 1] >= 1 + (IF rep.begin[d] > rep.end[d] THEN rep.begin[d] ELSE rep.end[d])}}

-----------------------------------------------------------------------------
(* computeInputCube: the place and size of the input of an output cube,    *)
(* and the padding that the cube still needs; inputDims may be missing.    *)
NotBelow(a, b) == IF a < b THEN b ELSE a

PadAt(at, edge, pad) == IF at = edge THEN pad ELSE 0

ComputeInputCube(rep, cube, absolute, outputDims, inputDims) ==
    LET axes == DOMAIN rep.kernel
        begin == [d \in axes |-> PadAt(absolute[d + 1], 0, rep.begin[d])]
        end == [d \in axes |-> PadAt(absolute[d + 1] + cube.dims[d + 1], outputDims[d + 1], rep.end[d])]
        offset == [d \in axes |-> NotBelow(cube.offset[d + 1] * rep.stride[d] - rep.begin[d], 0)]
        worst == [d \in axes |-> cube.dims[d + 1] * rep.stride[d] + rep.kernel[d] - 1 - begin[d] - end[d]]
        size == [d \in axes |-> IF inputDims = <<>> THEN worst[d]
                                ELSE Smaller(worst[d], inputDims[d + 1] - offset[d])]
    IN  [offset |-> offset, size |-> size, begin |-> begin, end |-> end]

(* The numbers of a tile that its kernel is told. *)
ConvNumbers(in, cube) ==
    [dim_im_in |-> in.size, dim_im_out |-> Tail(Front(cube.dims)), ch_im_out |-> Last(cube.dims),
     begin |-> in.begin, end |-> in.end]

FilterCube(shape, cube) ==
    Cube(<<Last(cube.offset)>> \o Tail(Zeros(shape.weight)),
         <<Last(cube.dims)>> \o Tail(shape.weight))
PerFilter(roles, cube) == [r \in roles |-> Vector(Last(cube.offset), Last(cube.dims))]

ImageCube(in, cube, channels) ==
    Cube(<<cube.offset[1]>> \o in.offset \o <<0>>, <<cube.dims[1]>> \o in.size \o <<channels>>)

ConvSerialize(rep, shape, at) ==
    LET cube == at.rectangle
        in == ComputeInputCube(rep, cube, at.absolute, shape.data_out, shape.data_in)
        channels == Last(shape.weight) * rep.group
    IN  Step([data_in |-> ImageCube(in, cube, channels), weight |-> FilterCube(shape, cube), data_out |-> cube]
                 @@ PerFilter({"bias"} \cap DOMAIN shape, cube),
             ConvNumbers(in, cube) @@ [ch_im_in |-> channels])

(* These take the place inside the cube of the level above for the place   *)
(* in the tensor.                                                          *)
RQConvSerialize(rep, shape, cube) ==
    LET in == ComputeInputCube(rep, cube, cube.offset, shape.data_out, shape.data_in)
    IN  Step([data_in |-> ImageCube(in, cube, Last(shape.weight)), weight |-> FilterCube(shape, cube),
              data_out |-> cube] @@ PerFilter({"mul", "add"}, cube),
             ConvNumbers(in, cube))

RQConv1DSerialize(rep, shape, cube) == RQConvSerialize(rep, shape, cube)

RQDWConvSerialize(rep, shape, cube) ==
    LET in == ComputeInputCube(rep, cube, cube.offset, shape.data_out, <<>>)
    IN  Step([data_in |-> Cube(<<cube.offset[1], Last(cube.offset)>> \o in.offset,
                               <<cube.dims[1], Last(cube.dims)>> \o in.size),
              weight |-> FilterCube(shape, cube), data_out |-> cube] @@ PerFilter({"mul", "add"}, cube),
             ConvNumbers(in, cube) @@ [ch_im_in |-> Last(cube.dims)])

-----------------------------------------------------------------------------
(* Templates and kernels *)

Pair(x, one) == IF Len(x) = 1 THEN x \o <<one>> ELSE x
ConvView(rep) ==
    [size |-> Pair(rep.dim_im_in, 1), kernel |-> Pair(rep.kernel, 1), stride |-> Pair(rep.stride, 1),
     begin |-> Pair(rep.begin, 0), end |-> Pair(rep.end, 0)]

(* Which weight of a filter meets the place i in the window of o. *)
Tap(v, o, i) ==
    LET from(d) == o[d] * v.stride[d] - v.begin[d]
    IN  (i[1] - from(1)) * v.kernel[2] + i[2] - from(2)

(* One output value: channels are those a filter reads, at(i, c) is where  *)
(* a value of the image lies.                                              *)
Convolved(v, o, f, channels, at(_, _), more) ==
    {<<At("data_in", at(i, c)),
       At("weight", (f * Prod(v.kernel) + Tap(v, o, i)) * Cardinality(channels)
                        + (IF Cardinality(channels) = 1 THEN 0 ELSE c))>> \o more :
        i \in Window(v, o), c \in channels}

Biased(rep, f) == IF rep.has_bias THEN <<At("bias", f)>> ELSE <<>>

(* PULP_Conv2d_Im2Col_fp32_fp32_fp32_HWC for each image of the batch *)
FloatConvKernel(rep) ==
    LET v == ConvView(rep)
    IN  {Write("data_out", HWC(OutBase(rep, b), Pooled(v), rep.ch_im_out, o, f),
               Convolved(v, o, f, Alone(rep.ch_im_in),
                         LAMBDA i, c : HWC(InBase(rep, b), v.size, rep.ch_im_in, i, c), Biased(rep, f))) :
            b \in Alone(rep.batch), o \in Image(Pooled(v)), f \in InChunks(rep.ch_im_out)}

(* The output channels that a core reaches through the input channels of   *)
(* its share: the last of them is found by a division that rounds down.    *)
Reached(rep, core) ==
    LET share == Chunk(rep.ch_im_out, core)
        multiplier == rep.ch_im_out \div rep.ch_im_in
        stop == ChunkStart(rep.ch_im_out, core) + Cardinality(share)
    IN  {f \in share : f \div multiplier < (stop + 1) \div multiplier}

(* PULP_DW_Conv2d_Im2Col_fp32_fp32_fp32_HWC for each image of the batch *)
FloatDWConvKernel(rep) ==
    LET v == ConvView(rep)
    IN  {Write("data_out", HWC(OutBase(rep, b), Pooled(v), rep.ch_im_out, o, f),
               Convolved(v, o, f, {f \div (rep.ch_im_out \div rep.ch_im_in)},
                         LAMBDA i, c : HWC(InBase(rep, b), v.size, rep.ch_im_in, i, c), Biased(rep, f))) :
            b \in Alone(rep.batch), o \in Image(Pooled(v)),
            f \in UNION {Reached(rep, core) : core \in Cores}}

RequantizedBy(f) == <<At("mul", f), At("add", f)>>

(* Not in this repository: pulp_nn_conv and pulp_nn_depthwise, which take  *)
(* the extents of the output from the template, and one image.             *)
pulp_nn_conv(rep) ==
    LET v == ConvView(rep)
        out == Pair(rep.dim_im_out, 1)
    IN  {Write("data_out", HWC(0, out, rep.ch_im_out, o, f),
               Convolved(v, o, f, Alone(rep.ch_im_in),
                         LAMBDA i, c : HWC(0, v.size, rep.ch_im_in, i, c), RequantizedBy(f))) :
            o \in Image(out), f \in Alone(rep.ch_im_out)}

pulp_nn_depthwise(rep) ==
    LET v == ConvView(rep)
    IN  {Write("data_out", HWC(0, rep.dim_im_out, rep.ch_im_out, o, f),
               Convolved(v, o, f, {f}, LAMBDA i, c : CHW(rep, rep.ch_im_in, 0, c, i[1] * v.size[2] + i[2]),
                         RequantizedBy(f))) :
            o \in Image(rep.dim_im_out), f \in Alone(rep.ch_im_out)}

RQConvKernel(rep) == pulp_nn_conv(rep)
RQConv1DKernel(rep) == pulp_nn_conv(rep)
RQDWConvKernel(rep) == pulp_nn_depthwise(rep)
=============================================================================
