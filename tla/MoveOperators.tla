--------------------------- MODULE MoveOperators ---------------------------
(***************************************************************************)
(* Operators that move elements or reduce whole axes: concatenation,       *)
(* transposition, slices, means and sums over axes, and gathering, with    *)
(* their tile constraints, templates and kernels.  Axes are numbered from  *)
(* 0 in the program and from 1 here.                                       *)
(***************************************************************************)
EXTENDS ElementOperators

(* ConcatTileConstraint: from the axis on nothing is cut. *)
Along(axis, shape, t, r) == [d \in DOMAIN t |-> IF d = axis THEN shape[r][d] ELSE t[d]]
Inputs2 == {"data_in_1", "data_in_2"}

ConcatTiles(rep, shape, t) ==
    AdmitIf(\A d \in rep.axis..Len(t) : t[d] = shape.data_out[d],
            [data_out |-> t] @@ [r \in Inputs2 |-> Along(rep.axis, shape, t, r)])

ConcatSerialize(rep, shape, cube) ==
    LET dims(r) == Along(rep.axis, shape, cube.dims, r)
    IN  Step([data_out |-> cube] @@ [r \in Inputs2 |-> Cube(cube.offset, dims(r))],
             [iterations |-> Prod(SubSeq(cube.dims, 1, rep.axis - 1)),
              transferLength |->
                  [r \in Inputs2 |-> Prod(SubSeq(dims(r), rep.axis, Len(cube.dims)))]])

(* TransposeTileConstraint; dimension d of the output is rep.perm[d] of    *)
(* the input.                                                              *)
InversePermuted(perm, s) == [d \in DOMAIN s |-> s[CHOOSE p \in DOMAIN perm : perm[p] = d]]

TransposeTiles(rep, t) == {[data_in |-> InversePermuted(rep.perm, t), data_out |-> t]}

TransposeSerialize(rep, cube) ==
    LET in == Cube(InversePermuted(rep.perm, cube.offset), InversePermuted(rep.perm, cube.dims))
    IN  Step([data_in |-> in, data_out |-> cube], [dimLen |-> in.dims])

(* SliceTileConstraint: the kernel is told the size of the input's tile    *)
(* and nothing else about it.                                              *)
SliceTiles(rep, t) ==
    {[data_out |-> t,
      data_in |-> [d \in DOMAIN t |->
          IF d \in DOMAIN rep.slice THEN (t[d] - 1) * rep.slice[d].step + 1 ELSE t[d]]]}

SliceSerialize(rep, cube) ==
    LET in == Cube([d \in DOMAIN cube.dims |->
                       IF d \in DOMAIN rep.slice
                       THEN rep.slice[d].start + cube.offset[d] * rep.slice[d].step
                       ELSE cube.offset[d]],
                   [d \in DOMAIN cube.dims |->
                       IF d \in DOMAIN rep.slice THEN (cube.dims[d] - 1) * rep.slice[d].step + 1
                       ELSE cube.dims[d]])
    IN  Step([data_in |-> in, data_out |-> cube], [data_in_size |-> Prod(in.dims)])

(* The axes of a reduction's input that remain, and where each of them is  *)
(* in the output.                                                          *)
RestDims(rep) == DOMAIN rep.data_in_shape \ rep.axes
OutputDim(rep, d) ==
    IF rep.keepdims THEN d ELSE Cardinality({x \in RestDims(rep) : x <= d})

(* ReduceMeanTileConstraint: only the biggest axis that remains is cut.    *)
BiggestRest(rep) ==
    Min({d \in RestDims(rep) : \A x \in RestDims(rep) : rep.data_in_shape[x] <= rep.data_in_shape[d]})

FromOutput(rep, s, of) ==
    [d \in DOMAIN rep.data_in_shape |->
        IF d \in rep.axes THEN of[d] ELSE s[OutputDim(rep, d)]]

ReduceMeanTiles(rep, t) ==
    LET in == FromOutput(rep, t, rep.data_in_shape)
    IN  AdmitIf(\A d \in RestDims(rep) \ {BiggestRest(rep)} : in[d] = rep.data_in_shape[d],
                [data_in |-> in, data_out |-> t])

ReduceMeanSerialize(rep, cube) ==
    LET in == Cube(FromOutput(rep, cube.offset, Zeros(rep.data_in_shape)),
                   FromOutput(rep, cube.dims, rep.data_in_shape))
    IN  Step([data_in |-> in, data_out |-> cube], [dim_in |-> in.dims])

(* ReduceSumTileConstraint: it looks for an `axis` that the parser calls   *)
(* `axes`, so every dimension of the output's tile is one, and it loads    *)
(* and stores the whole tensors.  It leaves the input's tile free: here it *)
(* is the whole.                                                           *)
ReduceSumTiles(shape, t) ==
    AdmitIf(\A d \in DOMAIN t : t[d] = 1, [data_in |-> shape.data_in, data_out |-> t])

ReduceSumSerialize(shape) ==
    Step([data_in |-> WholeOf(shape.data_in), data_out |-> WholeOf(shape.data_out)],
         [data_in_shape |-> shape.data_in])

-----------------------------------------------------------------------------
(* Templates *)

ConcatKernel(rep) ==
    LET length == rep.transferLength
        block == length.data_in_1 + length.data_in_2
        put(r, from) ==
            {Write("data_out", i * block + from + j, {<<At(r, i * length[r] + j)>>}) :
                i \in 0..(rep.iterations - 1), j \in 0..(length[r] - 1)}
    IN  put("data_in_1", 0) \cup put("data_in_2", length.data_in_1)

(* The share of a core when the first cores take one more than the others. *)
BalancedChunk(size, core) ==
    LET base == size \div NumCores
        leftover == size - base * NumCores
        offset == base * core + Smaller(core, leftover)
    IN  offset..(offset + base - (IF core < leftover THEN 0 ELSE 1))

(* One loop per dimension of the input, that of the output's first         *)
(* dimension of at least eight (or its longest) shared by the cores.       *)
TransposeKernel(rep) ==
    LET out == [d \in DOMAIN rep.perm |-> rep.dimLen[rep.perm[d]]]
        long == {d \in DOMAIN out : rep.data_out_shape[d] >= 8}
        longest == {d \in DOMAIN out :
                       \A x \in DOMAIN out : rep.data_out_shape[x] <= rep.data_out_shape[d]}
        parallel == rep.perm[Min(IF long # {} THEN long ELSE longest)]
        mine == UNION {BalancedChunk(rep.dimLen[parallel], core) : core \in Cores}
    IN  {Write("data_out", FlatOffset([d \in DOMAIN out |-> i[rep.perm[d]]], StridesFromShape(out)),
               {<<At("data_in", FlatOffset(i, StridesFromShape(rep.dimLen)))>>}) :
            i \in {x \in Indices(rep.dimLen) : x[parallel] \in mine}}

(* The strides of a slice come from the size by divisions; the axes must   *)
(* follow each other.                                                      *)
SliceKernel(rep) ==
    LET shape == rep.data_in_shape
        step[d \in DOMAIN shape] ==
            IF d = 1 THEN rep.data_in_size \div shape[1] ELSE step[d - 1] \div shape[d]
        last == Max(DOMAIN rep.slice)
        length == step[last]
        run(d) == IF d \in DOMAIN rep.slice
                  THEN [i \in 1..CeilDiv(rep.slice[d].end - rep.slice[d].start, rep.slice[d].step) |->
                           rep.slice[d].start + (i - 1) * rep.slice[d].step]
                  ELSE [i \in 1..shape[d] |-> i - 1]
        counts == [d \in 1..last |-> Len(run(d))]
        from(i) == FlatOffset([d \in 1..last |-> run(d)[i[d] + 1]], step)
        nth(i) == FlatOffset(i, StridesFromShape(counts))
    IN  {Write("data_out", nth(i) * length + j, {<<At("data_in", from(i) + j)>>}) :
            i \in Indices(counts), j \in 0..(length - 1)}

(* Each element of the result from all elements along the axes; the input  *)
(* has the dimensions dims.                                                *)
Reduction(rep, dims, by, rest) ==
    LET order == SetToSortSeq(RestDims(rep), <)
        outDims == [i \in DOMAIN order |-> dims[order[i]]]
        outAt(i) == FlatOffset([x \in DOMAIN order |-> i[order[x]]], StridesFromShape(outDims))
        same(i, x) == \A d \in RestDims(rep) : i[d] = x[d]
        flat(i) == FlatOffset(i, StridesFromShape(dims))
        all == Indices(dims)
    IN  {WriteBy("data_out", outAt(i), {<<At("data_in", flat(x))>> : x \in {y \in all : same(i, y)}}, by) :
            i \in {x \in all : rest[x]}}

ReduceLength(rep) == Prod([i \in 1..Cardinality(rep.axes) |->
                              rep.data_in_shape[SetToSortSeq(rep.axes, <)[i]]])

(* The longest axis that remains (the last of several) is shared.          *)
FloatReduceMeanKernel(rep) ==
    LET parallel == Max({d \in RestDims(rep) : \A x \in RestDims(rep) :
                            rep.data_in_shape[x] <= rep.data_in_shape[d]})
    IN  Reduction(rep, rep.dim_in, ReduceLength(rep),
                  [i \in Indices(rep.dim_in) |-> i[parallel] \in InChunks(rep.dim_in[parallel])])

(* The integer template has the shape of the whole tensor in its loops.    *)
ReduceMeanKernel(rep) ==
    Reduction(rep, rep.data_in_shape, ReduceLength(rep), [i \in Indices(rep.data_in_shape) |-> TRUE])

FloatReduceSumKernel(rep) ==
    Reduction(rep, rep.data_in_shape, 1, [i \in Indices(rep.data_in_shape) |-> TRUE])

GatherKernel(rep) ==
    {Write("data_out", i * rep.axis_length + j,
           {<<At("data_in", i * rep.batch_length + rep.index * rep.axis_length + j)>>}) :
        i \in Alone(rep.batch), j \in Alone(rep.axis_length)}
=============================================================================
