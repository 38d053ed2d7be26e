--------------------------- MODULE MatrixOperators ---------------------------
(***************************************************************************)
(* Matrix products: A is M x N, B is N x O (or their transposes), with     *)
(* batch dimensions in front that may be missing or of length one.         *)
(***************************************************************************)
EXTENDS ElementOperators

BatchOf(s) == SubSeq(s, 1, Len(s) - 2)
RowsOf(s) == s[Len(s) - 1]

(* The matrix of A for rows m and the matrix of B for columns o.           *)
MatrixA(rep, m, n) == IF rep.transA THEN <<n, m>> ELSE <<m, n>>
MatrixB(rep, n, o) == IF rep.transB THEN <<o, n>> ELSE <<n, o>>

(* No constraint mentions these dimensions. *)
AnyTile(s) == {t \in [DOMAIN s -> 1..Prod(s)] : \A d \in DOMAIN s : t[d] <= s[d]}

(* The tiles of A and B beside a tile of the product, N never cut. *)
Products(rep, batchA, batchB, t) ==
    {[A |-> a \o MatrixA(rep, RowsOf(t), rep.N), B |-> b \o MatrixB(rep, rep.N, Last(t)), data_out |-> t] :
        a \in batchA, b \in batchB}

(* MatMulTileConstraint: batch dimensions follow the product's when those  *)
(* of A and B are equal.                                                   *)
MatMulTiles(rep, shape, t) ==
    LET batch(r) == IF BatchOf(shape.A) = BatchOf(shape.B) THEN {BatchOf(t)} ELSE AnyTile(BatchOf(shape[r]))
    IN  Products(rep, batch("A"), batch("B"), t)

(* The part of the product's batch cube that a factor needs, dimension by  *)
(* dimension from the right; a dimension of length one is all needed.      *)
Broadcast(s, out, x, one) ==
    [d \in 1..(Len(s) - 2) |->
        LET o == d + Len(out) - Len(s) IN IF s[d] = out[o] THEN x[o] ELSE one]

Factors(rep, cube, batchA, batchB) ==
    LET offset == cube.offset
        dims == cube.dims
    IN  [A |-> Cube(batchA.offset \o MatrixA(rep, RowsOf(offset), 0),
                    batchA.dims \o MatrixA(rep, RowsOf(dims), rep.N)),
         B |-> Cube(batchB.offset \o MatrixB(rep, 0, Last(offset)),
                    batchB.dims \o MatrixB(rep, rep.N, Last(dims))),
         data_out |-> cube]

Sizes(rep, cube, batch) == [M |-> RowsOf(cube.dims), O |-> Last(cube.dims), N |-> rep.N, batch |-> batch]

MatMulSerialize(rep, shape, cube) ==
    LET part(r) == Cube(Broadcast(shape[r], shape.data_out, cube.offset, 0),
                        Broadcast(shape[r], shape.data_out, cube.dims, 1))
    IN  Step(Factors(rep, cube, part("A"), part("B")), Sizes(rep, cube, Prod(BatchOf(cube.dims))))

(* addTileSizeDivisibleConstraint: the tiles are multiples of `modulo`,    *)
(* and the last one is no larger than the others.                          *)
TileSizeDivisible(size, tile, modulo) ==
    /\ tile % modulo = 0
    /\ \E mul \in 1..size, add \in 0..size : add <= tile /\ size = mul * tile + add

WideEnough(shape, t) ==
    Last(shape.data_out) >= 16 => TileSizeDivisible(Last(shape.data_out), Last(t), 16)

(* GEMMTileConstraint; C and mul hold one number per column. *)
GEMMTiles(rep, shape, t) ==
    IF WideEnough(shape, t)
    THEN {p @@ SameTile({"C", "mul"}, <<Last(t)>>) :
             p \in Products(rep, AnyTile(BatchOf(shape.A)), AnyTile(BatchOf(shape.B)), t)}
    ELSE {}

GEMMSerialize(rep, shape, cube) ==
    LET last(x, s) == SubSeq(BatchOf(x), Len(x) - Len(s) + 1, Len(x) - 2)
        part(r) == Cube(last(cube.offset, shape[r]), last(cube.dims, shape[r]))
        N == [rep EXCEPT !.N = Last(shape.A)]
    IN  Step(Factors(N, cube, part("A"), part("B"))
                 @@ [r \in {"C", "mul"} |-> Vector(Last(cube.offset), Last(cube.dims))],
             Sizes(N, cube, Prod(BatchOf(cube.dims))))

(* FloatGEMMTileConstraint; C, when there is one, has the product's shape. *)
FloatGEMMTiles(rep, shape, t) ==
    IF WideEnough(shape, t)
    THEN {p @@ SameTile({"C"} \cap DOMAIN shape,
                        SubSeq(BatchOf(t), Len(t) - Len(shape.C) + 1, Len(t) - 2) \o <<RowsOf(t), Last(t)>>) :
             p \in Products(rep, AnyTile(BatchOf(shape.A)), AnyTile(BatchOf(shape.B)), t)}
    ELSE {}

(* The cubes of A and B have four dimensions whatever the tensors have,    *)
(* and a product of three puts its batch in the first of them.             *)
FloatGEMMSerialize(rep, shape, cube) ==
    LET two(x, absent) == CASE Len(x) = 2 -> <<absent, absent>>
                            [] Len(x) = 3 -> <<x[1], absent>>
                            [] Len(x) = 4 -> <<x[1], x[2]>>
        part == Cube(two(cube.offset, 0), two(cube.dims, 1))
    IN  Step(Factors(rep, cube, part, part) @@ [r \in {"C"} \cap DOMAIN shape |-> cube],
             Sizes(rep, cube, part.dims[2]))

-----------------------------------------------------------------------------
(* Templates and kernels *)

Stride(batched, size) == IF batched THEN size ELSE 0

(* The terms of the sum for row i and column j of batch b. *)
Terms(rep, b, i, j) ==
    LET a == b * Stride(rep.A_batched, rep.M * rep.N)
        w == b * Stride(rep.B_batched, rep.N * rep.O)
    IN  {<<At("A", a + (IF rep.transA THEN k * rep.M + i ELSE i * rep.N + k)),
           At("B", w + (IF rep.transB THEN j * rep.N + k ELSE k * rep.O + j))>> : k \in Alone(rep.N)}

EachProduct(rep, batches, rows, value(_, _, _)) ==
    {Write("data_out", b * rep.M * rep.O + i * rep.O + j, value(b, i, j)) :
        b \in batches, i \in rows, j \in Alone(rep.O)}

(* PULP_MatMul_fp32_fp32_fp32_unroll1x7 for each batch *)
FloatMatMulKernel(rep) ==
    EachProduct(rep, Alone(rep.batch), InChunks(rep.M), LAMBDA b, i, j : Terms(rep, b, i, j))

(* MatMul_s8_s8_s32 on one core; both factors advance with the batch. *)
MatMulKernel(rep) ==
    LET both == [rep EXCEPT !.A_batched = TRUE, !.B_batched = TRUE]
    IN  EachProduct(rep, Alone(rep.batch), Alone(rep.M), LAMBDA b, i, j : Terms(both, b, i, j))

(* PULP_Gemm_fp32_fp32_fp32_fp32 for each batch; alpha and beta are not    *)
(* among its arguments.                                                    *)
FloatGEMMKernel(rep) ==
    LET bias(b, i, j) ==
            IF rep.has_bias
            THEN <<At("C", b * Stride(rep.C_batched, rep.M * rep.O) + i * rep.O + j)>> ELSE <<>>
    IN  EachProduct(rep, Alone(rep.batch), InChunks(rep.M),
                    LAMBDA b, i, j : {t \o bias(b, i, j) : t \in Terms(rep, b, i, j)})

(* A row of A against a row of B, whatever transA and transB say, and the  *)
(* numbers that requantize the result.                                     *)
RequantizedTerms(rep, b, i, j, scale) ==
    LET rows == [rep EXCEPT !.transA = FALSE, !.transB = TRUE, !.A_batched = TRUE]
    IN  {t \o <<At("mul", scale), At("C", scale)>> : t \in Terms(rows, b, i, j)}

(* pulp_nn_linear row by row; it splits the columns among the cores. *)
GEMMKernel(rep) ==
    EachProduct(rep, Alone(rep.batch), Alone(rep.M), LAMBDA b, i, j : RequantizedTerms(rep, b, i, j, j))

(* gemv_s8_s8_plp: two neurons at a time, and the odd one that is left     *)
(* takes the numbers of the first.                                         *)
Neuron(rep, j) == IF j = rep.O - 1 /\ rep.O % 2 = 1 THEN 0 ELSE j

(* The share of a core, whose end may lie one beyond the last.             *)
ShareWithOneMore(size, core) ==
    ChunkStart(size, core)..(Smaller(ChunkStart(size, core) + CeilDiv(size, NumCores), size + 1) - 1)

MatrixVecKernel(rep) ==
    EachProduct(rep, UNION {ShareWithOneMore(rep.batch, core) : core \in Cores}, Alone(rep.M),
                LAMBDA b, i, j : RequantizedTerms(rep, b, i, j, Neuron(rep, j)))

TallGEMMKernel(rep) ==
    EachProduct(rep, Alone(rep.batch), UNION {ShareWithOneMore(rep.M, core) : core \in Cores},
                LAMBDA b, i, j : RequantizedTerms(rep, b, i, j, Neuron(rep, j)))
=============================================================================
