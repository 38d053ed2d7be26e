---------------------------- MODULE TileGeometry ----------------------------
(***************************************************************************)
(* Hyperrectangles and what the tiling code generation computes with them  *)
(* (TilingCodegen.py, TileConstraint.py, TilingCodeGeneration.py and the   *)
(* adapter for transfers of any rank in AsyncDma.py): the cubes that a     *)
(* tensor is cut into, where each cube lies in memory, and the bytes that  *)
(* the transfers for it move.  Shapes and offsets are sequences with the   *)
(* outermost dimension first.                                              *)
(***************************************************************************)
EXTENDS Integers, Sequences, SequencesExt

Cube(offset, dims) == [offset |-> offset, dims |-> dims]

Prod(shape) == FoldLeft(LAMBDA a, b : a * b, 1, shape)
Zeros(shape) == [d \in DOMAIN shape |-> 0] \o <<>>
Smaller(a, b) == IF a < b THEN a ELSE b
CeilDiv(a, b) == (a + b - 1) \div b

(* A cube that is the whole of a tensor. *)
WholeOf(shape) == Cube(Zeros(shape), shape)

Shifted(offset, by) == [d \in DOMAIN offset |-> offset[d] + by[d]]

(* The indices inside a shape. *)
Indices(shape) ==
    {i \in [DOMAIN shape -> 0..(Prod(shape) - 1)] : \A d \in DOMAIN shape : i[d] < shape[d]}

-----------------------------------------------------------------------------
(* computeTileHyperRectangles: the k-th tile index (the first dimension    *)
(* runs fastest) and its cube, smaller where the tensor ends.              *)
TileIndex(ends, k) ==
    [d \in DOMAIN ends |-> (k \div Prod(SubSeq(ends, 1, d - 1))) % ends[d]]

(* Mutant of EdgeSize: every tile is taken for a full one. *)
FullSize(offset, large, small) == small

EdgeSize(offset, large, small) ==
    [d \in DOMAIN large |-> Smaller(small[d], large[d] - offset[d])]

ComputeTileHyperRectangles(large, small) ==
    LET ends == [d \in DOMAIN large |-> CeilDiv(large[d], small[d])]
        offset(k) == LET i == TileIndex(ends, k - 1)
                     IN  [d \in DOMAIN i |-> i[d] * small[d]]
    IN  [k \in 1..Prod(ends) |->
            Cube(offset(k), EdgeSize(offset(k), large, small))]

(* getMemoryTransfer: a cube that is anywhere smaller than the tile of the *)
(* level below is moved as a whole.                                        *)
TargetShape(source, tile) ==
    IF \E d \in DOMAIN source : tile[d] > source[d] THEN source ELSE tile

(* getCubeTransfers for one source cube; each cube keeps its place in the  *)
(* tensor besides that in the source cube.                                 *)
CubesInside(source, tile) ==
    [k \in DOMAIN ComputeTileHyperRectangles(source.dims, TargetShape(source.dims, tile)) |->
        LET c == ComputeTileHyperRectangles(source.dims, TargetShape(source.dims, tile))[k]
        IN  [rectangle |-> c, absolute |-> Shifted(source.offset, c.offset)]]

-----------------------------------------------------------------------------
(* stridesFromShape and calculateFlatOffset *)
StridesFromShape(shape) ==
    [d \in DOMAIN shape |-> Prod(SubSeq(shape, d + 1, Len(shape)))]

FlatOffset(offset, strides) ==
    FoldLeft(LAMBDA a, d : a + offset[d] * strides[d], 0, [d \in DOMAIN offset |-> d])

(* minimizeRectangle: from right to left, a dimension that the rectangle   *)
(* spans is merged into the next one to its left.                          *)
Minimized == [rect |-> Cube(<<>>, <<>>), outer |-> <<>>, collapsed |-> 1]

Collapse(min, rect, outer, d) ==
    IF rect.dims[d] = outer[d]
    THEN [min EXCEPT !.collapsed = @ * rect.dims[d]]
    ELSE [rect |-> Cube(<<min.collapsed * rect.offset[d]>> \o min.rect.offset,
                        <<min.collapsed * rect.dims[d]>> \o min.rect.dims),
          outer |-> <<min.collapsed * outer[d]>> \o min.outer,
          collapsed |-> 1]

MinimizeRectangle(rect, outer) ==
    LET min == FoldRight(LAMBDA d, m : Collapse(m, rect, outer, d),
                         [d \in DOMAIN outer |-> d], Minimized)
    IN  IF min.collapsed > 1 \/ min.rect.dims = <<>>
        THEN [rect |-> Cube(<<min.collapsed * rect.offset[1]>> \o min.rect.offset,
                            <<min.collapsed>> \o min.rect.dims),
              outer |-> <<min.collapsed>> \o min.outer]
        ELSE [rect |-> min.rect, outer |-> min.outer]

-----------------------------------------------------------------------------
(* padShape, padOffset and padStride *)
Padded(s, rank, with) == [d \in 1..(rank - Len(s)) |-> with] \o s

(* sizeInBytes of the innermost dimension. *)
InBytes(s, width) == [s EXCEPT ![Len(s)] = @ * width]

(* _legalizeTransfers: at the level next to the tensor's home the smallest *)
(* form of each rectangle, at other levels the tile as one run of bytes.   *)
Legalized(rects, shape, width, isFinalMemoryLevel) ==
    LET commonRank == Max({Len(shape)} \cup {Len(rects[k].dims) : k \in DOMAIN rects})
        outer == Padded(shape, commonRank, 1)
        padded(r) == Cube(Padded(r.offset, commonRank, 0), Padded(r.dims, commonRank, 1))
        min(r) == IF isFinalMemoryLevel THEN MinimizeRectangle(padded(r), outer)
                  ELSE [rect |-> Cube(<<0>>, <<Prod(r.dims)>>), outer |-> <<Prod(outer)>>]
    IN  [k \in DOMAIN rects |->
            LET m == min(rects[k])
            IN  [rect |-> Cube(InBytes(m.rect.offset, width), InBytes(m.rect.dims, width)),
                 outer |-> InBytes(m.outer, width)]]

(* "Currently support a single minimal outer shape." *)
SingleOuterShape(legal) == \A j, k \in DOMAIN legal : legal[j].outer = legal[k].outer

HasEmptyCube(legal) == \E k \in DOMAIN legal : \E n \in Range(legal[k].rect.dims) : n <= 0

(* Mutant of RelativeOffsets: the pointer stays where it is. *)
Unmoved(legal) == [k \in DOMAIN legal |-> 0]

(* _generateExternalReferenceUpdate: by how much the pointer to the        *)
(* external memory moves after each tile; the last entry is 0.             *)
RelativeOffsets(legal) ==
    LET at(k) == FlatOffset(legal[k].rect.offset, StridesFromShape(legal[k].outer))
    IN  [k \in DOMAIN legal |-> IF k = Len(legal) THEN 0 ELSE at(k + 1) - at(k)]

(* A transfer of rank two of the DMA, relative to its two pointers; the    *)
(* local side is contiguous.                                               *)
Transfer2D(shape, strideExt) ==
    {[ext |-> i * strideExt + j, loc |-> i * shape[2] + j] :
        i \in 0..(shape[1] - 1), j \in 0..(shape[2] - 1)}

(* nearestSupportedTransferRank *)
TransferRank(ranks, rank) ==
    IF \E r \in ranks : r <= rank THEN Max({r \in ranks : r <= rank}) ELSE Min(ranks)

(* AnydimAsyncDmaTransferAdapter.transfer: loops around the transfers of a *)
(* supported rank, or one transfer of a padded shape.                      *)
AnydimTransfer(ranks, rect, outer) ==
    LET rank == TransferRank(ranks, Len(rect.dims))
        shape == IF rank <= Len(rect.dims) THEN rect.dims ELSE Padded(rect.dims, rank, 1)
        ext == IF rank <= Len(rect.dims) THEN StridesFromShape(outer)
               ELSE Padded(StridesFromShape(outer), rank, Prod(outer))
        loc == StridesFromShape(shape)
        depth == Len(shape) - rank
        inner == IF rank = 1
                 THEN Transfer2D(<<1, shape[Len(shape)]>>, 0)
                 ELSE Transfer2D(SubSeq(shape, depth + 1, Len(shape)), ext[depth + 1])
    IN  {[ext |-> FlatOffset(i, SubSeq(ext, 1, depth)) + b.ext,
          loc |-> FlatOffset(i, SubSeq(loc, 1, depth)) + b.loc] :
            i \in IF depth = 0 THEN {<<>>} ELSE Indices(SubSeq(shape, 1, depth)),
            b \in inner}
=============================================================================
