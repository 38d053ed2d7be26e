-------------------------- MODULE ElementOperators --------------------------
(***************************************************************************)
(* What the tile constraints and the kernels of all operators share, then  *)
(* the operators that compute each element from the elements at its place, *)
(* and those that work on rows, the runs of a tensor's last dimension:     *)
(* softmax, the normalisations and the cross-entropy loss.                 *)
(*                                                                         *)
(* A tile constraint of this project is two operators: XTiles, the tile    *)
(* shapes of all tensors that it admits beside a tile of the first output, *)
(* and XSerialize, the cubes of all tensors (and the numbers of the        *)
(* operator representation) that belong to one cube of that output.  A     *)
(* kernel is the set of elements that the cores write, each with the       *)
(* elements its value is made of, as addresses in the local buffers.       *)
(***************************************************************************)
EXTENDS Integers, Sequences, FiniteSets, TLC, TileGeometry

CONSTANT NumCores
ASSUME NumCoresAssumption == NumCores \in Nat \ {0}

Cores == 0..(NumCores - 1)

(* An element of a tensor or of a buffer. *)
At(role, i) == <<role, i>>

(* The value at an element: it is computed from the elements of each term  *)
(* in `of`, and by the number `by` (a divisor, say).                       *)
Value(of, by) == [of |-> of, by |-> by]

(* A store of a kernel; one that adds keeps what the element had.          *)
Write(role, i, of) == [to |-> At(role, i), value |-> Value(of, 1), adds |-> FALSE]
WriteBy(role, i, of, by) == [to |-> At(role, i), value |-> Value(of, by), adds |-> FALSE]
Add(role, i, of, first) == [to |-> At(role, i), value |-> Value(of, 1), adds |-> ~first]

(* The share of a core in `size` elements, by the shift and mask that the  *)
(* kernels round up with; NUM_CORES is a power of two.                     *)
ChunkStart(size, core) == Smaller(CeilDiv(size, NumCores) * core, size)

Chunk(size, core) ==
    ChunkStart(size, core)..(Smaller(ChunkStart(size, core) + CeilDiv(size, NumCores), size) - 1)

InChunks(size) == UNION {Chunk(size, core) : core \in Cores}

(* What one core computes alone. *)
Alone(size) == 0..(size - 1)

(* The same tile for several tensors of equal shape. *)
SameTile(roles, t) == [r \in roles |-> t]

(* A constraint admits these tiles when the condition holds. *)
AdmitIf(condition, tiles) == IF condition THEN {tiles} ELSE {}

(* One step of a tiling schedule with its variable replacements. *)
Step(cubes, rep) == [cubes |-> cubes, rep |-> rep]

Vector(offset, dim) == Cube(<<offset>>, <<dim>>)
FrontOf(cube) == Cube(Front(cube.offset), Front(cube.dims))

-----------------------------------------------------------------------------
(* Operators on elements. *)

(* UnaryTileConstraint *)
UnaryTiles(t) == {SameTile({"data_in", "data_out"}, t)}

UnarySerialize(cube) ==
    Step([data_in |-> cube, data_out |-> cube], [size |-> Prod(cube.dims)])

(* iHardswishTileConstraint *)
iHardswishTiles(t) == UnaryTiles(t)
iHardswishSerialize(cube) == UnarySerialize(cube)

(* BOPTileConstraint, for the three names that its subclasses choose *)
BOPTiles(names, t) == {SameTile(names, t)}

BOPSerialize(names, cube) == Step([r \in names |-> cube], [size |-> Prod(cube.dims)])

(* SGDTileConstraint: dimensions after the second are not tiled. *)
SGDTiles(shape, t) ==
    AdmitIf(\A d \in 3..Len(t) : t[d] = shape.weight[d],
            SameTile({"weight", "grad", "weight_updated"}, t))

(* InPlaceAccumulatorV2TileConstraint *)
InPlaceAccumulatorV2Tiles(shape, t) ==
    AdmitIf(\A d \in 3..Len(t) : t[d] = shape.accum_buffer[d],
            SameTile({"accum_buffer", "gradient", "data_out"}, t)
                @@ [lazy_reset_grad |-> shape.lazy_reset_grad])

InPlaceAccumulatorV2Serialize(shape, cube) ==
    Step([r \in {"accum_buffer", "gradient", "data_out"} |-> cube]
             @@ [lazy_reset_grad |-> WholeOf(shape.lazy_reset_grad)],
         [size |-> Prod(cube.dims)])

(* MSELossTileConstraint: the loss of a tile is not that of the tensor. *)
MSELossTiles(shape, t) ==
    {SameTile({"pred", "target"}, shape.pred) @@ [loss |-> <<1>>]}

MSELossSerialize(shape) ==
    Step([pred |-> WholeOf(shape.pred), target |-> WholeOf(shape.pred), loss |-> Vector(0, 1)],
         [num_elements |-> Prod(shape.pred)])

MSELossGradSerialize(cube) ==
    Step([r \in {"pred", "target", "grad"} |-> cube], [num_elements |-> Prod(cube.dims)])

(* RequantShiftTileConstraint *)
ChannelDim(n, s) == IF n.channels_first THEN 2 ELSE Len(s)

RequantShiftTiles(n, t) ==
    {SameTile({"data_in", "data_out"}, t) @@ SameTile({"mul", "add"}, <<t[ChannelDim(n, t)]>>)}

RequantShiftSerialize(n, cube) ==
    LET c == ChannelDim(n, cube.dims)
        size == Prod(Tail(cube.dims))
    IN  Step([data_in |-> cube, data_out |-> cube,
              mul |-> Vector(cube.offset[c], cube.dims[c]),
              add |-> Vector(cube.offset[c], cube.dims[c])],
             [size |-> size, channel_width |-> size \div cube.dims[c],
              channels |-> cube.dims[c]])

-----------------------------------------------------------------------------
(* Templates and kernels *)

ElementWise(out, ins, indices) ==
    {Write(out, i, {[k \in DOMAIN ins |-> At(ins[k], i)]}) : i \in indices}

FloatAddKernel(rep) == ElementWise("data_out", <<"data_in_1", "data_in_2">>, InChunks(rep.size))
AddKernel(rep) == ElementWise("data_out", <<"data_in_1", "data_in_2">>, Alone(rep.size))

(* A core that has nothing to do starts at `size`, and this bound lets it  *)
(* take the element behind the buffer; the same in RQiHardswish.           *)
ChunkPlusOne(size, core) ==
    ChunkStart(size, core)..
        (Smaller(ChunkStart(size, core) + CeilDiv(size, NumCores), size + 1) - 1)

MulKernel(rep) ==
    UNION {ElementWise("C", <<"A", "B">>, ChunkPlusOne(rep.size, core)) : core \in Cores}

(* The second factor is a scalar whatever its shape. *)
FloatMulKernel(rep) ==
    {Write("C", i, {<<At("A", i), At("B", 0)>>}) : i \in InChunks(rep.size)}

ReluKernel(rep) == ElementWise("data_out", <<"data_in">>, InChunks(rep.size))
(* One core does all of it. *)
QuantKernel(rep) == ElementWise("data_out", <<"data_in">>, Alone(rep.size))

ReluGradKernel(rep) == ElementWise("grad_in", <<"grad_out", "data_in">>, InChunks(rep.size))
GELUKernel(rep) == ElementWise("data_out", <<"data_in">>, InChunks(rep.size))
GELUGradKernel(rep) == ElementWise("grad_out", <<"grad_in", "data_in">>, InChunks(rep.size))
iHardswishKernel(rep) == ElementWise("data_out", <<"data_in">>, Alone(rep.size))

RQiHardswishKernel(rep) ==
    UNION {ElementWise("data_out", <<"data_in">>, ChunkPlusOne(rep.size, core)) : core \in Cores}

(* UniformRequantShift takes two elements at a time, the leftover of an odd *)
(* share with the element behind it.                                       *)
UniformRequantShiftKernel(rep) ==
    LET start(core) == ChunkStart(rep.size, core)
        stop(core) == Smaller(start(core) + CeilDiv(rep.size, NumCores), rep.size + 1)
        half == CeilDiv(rep.size, NumCores) \div 2
        leftover(core) == IF (stop(core) - start(core)) % 2 = 0 THEN {}
                          ELSE {stop(core) - 1, stop(core)}
    IN  UNION {ElementWise("data_out", <<"data_in">>,
                           start(core)..(start(core) + 2 * half - 1) \cup leftover(core)) :
                  core \in Cores}

(* RQGELU reads the first element of the tensors for requantization. *)
RQGELUKernel(rep) ==
    {Write("data_out", i, {<<At("data_in", i), At("mul", 0), At("add", 0), At("shift", 0)>>}) :
        i \in Alone(rep.size)}

SGDKernel(rep) == ElementWise("weight_updated", <<"weight", "grad">>, InChunks(rep.size))

InPlaceAccumulatorV2Kernel(rep) ==
    {Write("accum_buffer", i, {<<At("accum_buffer", i), At("gradient", i), At("lazy_reset_grad", 0)>>}) :
        i \in InChunks(rep.size)}

MSELossKernel(rep) ==
    {WriteBy("loss", 0, {<<At("pred", i), At("target", i)>> : i \in Alone(rep.num_elements)},
             rep.num_elements)}

MSELossGradKernel(rep) ==
    {WriteBy("grad", i, {<<At("pred", i), At("target", i)>>}, rep.num_elements) :
        i \in Alone(rep.num_elements)}

(* RequantShift_*_NCHW and RequantShift_*_NHWC *)
RequantShiftKernel(n, rep) ==
    LET channel(i) == IF n.channels_first THEN i \div rep.channel_width ELSE i % rep.channels
    IN  {Write("data_out", i, {<<At("data_in", i), At("mul", channel(i)), At("add", channel(i))>>}) :
            i \in Alone(rep.size)}

-----------------------------------------------------------------------------
(* Operators on rows. *)

(* A row is never cut. *)
WholeRows(t, shape) == Last(t) = Last(shape)

Elements(rep) == rep.size \div rep.lastDimLength
RowStart(rep, row) == row * rep.lastDimLength
Columns(rep) == 0..(rep.lastDimLength - 1)

(* iSoftmaxTileConstraint *)
iSoftmaxTiles(shape, t) ==
    AdmitIf(WholeRows(t, shape.data_in), SameTile({"data_in", "data_out"}, t))

iSoftmaxSerialize(cube) ==
    Step([data_in |-> cube, data_out |-> cube],
         [lastDimLength |-> Last(cube.dims), size |-> Prod(cube.dims)])

(* SoftmaxGradTileConstraint *)
SoftmaxGradTensors == {"upstream_grad", "softmax_output", "softmax_grad"}

SoftmaxGradTiles(shape, t) ==
    AdmitIf(WholeRows(t, shape.upstream_grad), SameTile(SoftmaxGradTensors, t))

SoftmaxGradSerialize(cube) ==
    Step([r \in SoftmaxGradTensors |-> cube],
         [lastDimLength |-> Last(cube.dims), size |-> Prod(cube.dims)])

(* iRMSNormTileConstraint *)
iRMSNormTiles(shape, t) ==
    AdmitIf(WholeRows(t, shape.data_in),
            SameTile({"data_in", "data_out"}, t) @@ [weight |-> <<Last(t)>>])

iRMSNormSerialize(cube) ==
    Step([data_in |-> cube, data_out |-> cube,
          weight |-> Vector(Last(cube.offset), Last(cube.dims))],
         [size |-> Prod(cube.dims)])

(* LayernormTileConstraint; the mean and the deviation of each row are     *)
(* further outputs when the node has them.                                 *)
Stash == {"mean", "inv_std_dev"}

LayernormTiles(shape, t) ==
    AdmitIf(WholeRows(t, shape.data_in),
            SameTile({"data_in", "data_out"}, t) @@ SameTile({"weight", "bias"}, <<Last(t)>>)
                @@ SameTile(Stash \cap DOMAIN shape, Front(t)))

LayernormSerialize(shape, cube) ==
    Step([r \in {"data_in", "data_out"} |-> cube]
             @@ [r \in {"weight", "bias"} |-> Vector(0, Last(cube.dims))]
             @@ [r \in Stash \cap DOMAIN shape |-> FrontOf(cube)],
         [size |-> Prod(cube.dims)])

(* LayernormGradTileConstraint; the gradients of the parameters stay in    *)
(* the local memory from tile to tile and are written back each time.      *)
LayernormGradTiles(shape, t) ==
    AdmitIf(WholeRows(t, shape.data_in),
            SameTile({"grad_in", "data_in", "grad_out"}, t)
                @@ SameTile({"weight", "weight_grad", "bias_grad"}, <<Last(t)>>)
                @@ SameTile(Stash, Front(t)))

LayernormGradSerialize(shape, cube) ==
    Step([r \in {"grad_in", "data_in", "grad_out"} |-> cube]
             @@ [r \in Stash |-> FrontOf(cube)]
             @@ [weight |-> Vector(0, Last(cube.dims))]
             @@ [r \in {"weight_grad", "bias_grad"} |-> WholeOf(shape[r])],
         [size |-> Prod(cube.dims)])

(* SoftmaxCrossEntropyTileConstraint: the scalar loss goes with each tile. *)
SoftmaxCrossEntropyTiles(shape, t) ==
    AdmitIf(WholeRows(t, shape.logits),
            SameTile({"logits", "log_prob"}, t) @@ [labels |-> <<t[1]>>, loss |-> <<1>>])

ClassesAndBatch(cube) == [num_classes |-> cube.dims[2], batch |-> cube.dims[1]]

SoftmaxCrossEntropySerialize(cube) ==
    Step([logits |-> cube, log_prob |-> cube,
          labels |-> Vector(cube.offset[1], cube.dims[1]), loss |-> Vector(0, 1)],
         ClassesAndBatch(cube))

(* SoftmaxCrossEntropyGradTileConstraint *)
SoftmaxCrossEntropyGradTiles(shape, t) ==
    AdmitIf(WholeRows(t, shape.log_prob),
            SameTile({"log_prob", "grad"}, t) @@ [labels |-> <<t[1]>>])

SoftmaxCrossEntropyGradSerialize(cube) ==
    Step([log_prob |-> cube, grad |-> cube, labels |-> Vector(cube.offset[1], cube.dims[1])],
         ClassesAndBatch(cube))

-----------------------------------------------------------------------------
(* Templates and kernels *)

(* Each element of the given rows: its own place, and the whole row.       *)
RowWise(out, in, rep, rows) ==
    {Write(out, RowStart(rep, row) + c,
           {<<At(in, RowStart(rep, row) + c), At(in, RowStart(rep, row) + j)>> :
               j \in Columns(rep)}) :
        row \in rows, c \in Columns(rep)}

(* PULPSoftmax_u8_u8, PULPSoftmax_i8_u8: the last core takes what is left. *)
iSoftmaxKernel(rep) ==
    LET chunk == Elements(rep) \div NumCores
        rows(core) == IF core < NumCores - 1 THEN core * chunk..((core + 1) * chunk - 1)
                      ELSE core * chunk..(Elements(rep) - 1)
    IN  UNION {RowWise("data_out", "data_in", rep, rows(core)) : core \in Cores}

SoftmaxKernel(rep) == RowWise("data_out", "data_in", rep, InChunks(Elements(rep)))

SoftmaxGradKernel(rep) ==
    {Write("softmax_grad", RowStart(rep, row) + c,
           {<<At("upstream_grad", RowStart(rep, row) + c), At("softmax_output", RowStart(rep, row) + c),
              At("upstream_grad", RowStart(rep, row) + j), At("softmax_output", RowStart(rep, row) + j)>> :
               j \in Columns(rep)}) :
        row \in Alone(Elements(rep)), c \in Columns(rep)}

(* iRMSnorm_s8_s8_plp: the cores share each row; the bound of a share is   *)
(* one beyond the row.                                                     *)
iRMSNormKernel(rep) ==
    LET stop(core) == Smaller(ChunkStart(rep.lastDimLength, core)
                                + CeilDiv(rep.lastDimLength, NumCores), rep.lastDimLength + 1)
    IN  UNION {{Write("data_out", RowStart(rep, row) + c,
                      {<<At("data_in", RowStart(rep, row) + c), At("weight", c),
                         At("data_in", RowStart(rep, row) + j)>> : j \in Columns(rep)}) :
                   row \in Alone(Elements(rep)),
                   c \in ChunkStart(rep.lastDimLength, core)..(stop(core) - 1)} :
                  core \in Cores}

(* The template names all three outputs: a node without the last two has   *)
(* no kernel.                                                              *)
LayernormKernel(rep) ==
    LET row(r) == {<<At("data_in", RowStart(rep, r) + j)>> : j \in Columns(rep)}
        rows == InChunks(Elements(rep))
    IN  {Write("data_out", RowStart(rep, r) + c,
               {<<At("data_in", RowStart(rep, r) + c), At("weight", c), At("bias", c)>> \o x : x \in row(r)}) :
            r \in rows, c \in Columns(rep)}
        \cup {Write(s, r, row(r)) : s \in Stash, r \in rows}

(* The gradient of the input by all cores, those of the parameters by core *)
(* 0, which adds to what the tiles before have left.                       *)
LayernormGradKernel(rep) ==
    LET stash(r) == <<At("mean", r), At("inv_std_dev", r)>>
        at(r, c) == RowStart(rep, r) + c
    IN  {Write("grad_out", at(r, c),
               {<<At("grad_in", at(r, c)), At("data_in", at(r, c)), At("weight", c)>> \o stash(r)
                   \o <<At("grad_in", at(r, j)), At("data_in", at(r, j)), At("weight", j)>> :
                   j \in Columns(rep)}) :
            r \in InChunks(Elements(rep)), c \in Columns(rep)}
        \cup {Add("weight_grad", c,
                  {<<At("grad_in", at(r, c)), At("data_in", at(r, c))>> \o stash(r) :
                      r \in Alone(Elements(rep))}, rep.first) : c \in Columns(rep)}
        \cup {Add("bias_grad", c, {<<At("grad_in", at(r, c))>> : r \in Alone(Elements(rep))},
                  rep.first) : c \in Columns(rep)}

Sample(rep, i, j) == i * rep.num_classes + j
Classes(rep) == 0..(rep.num_classes - 1)

SoftmaxCrossEntropyLossKernel(rep) ==
    LET logit(i, j) == At("logits", Sample(rep, i, j))
    IN  {Write("log_prob", Sample(rep, i, j), {<<logit(i, j), logit(i, c)>> : c \in Classes(rep)}) :
            i \in Alone(rep.batch), j \in Classes(rep)}
        \cup {WriteBy("loss", 0,
                      {<<logit(i, c), At("labels", i)>> : i \in Alone(rep.batch), c \in Classes(rep)},
                      rep.batch)}

SoftmaxCrossEntropyLossGradKernel(rep) ==
    {WriteBy("grad", Sample(rep, i, j), {<<At("log_prob", Sample(rep, i, j)), At("labels", i)>>},
             rep.total_batch) :
        i \in Alone(rep.batch), j \in Classes(rep)}
=============================================================================
