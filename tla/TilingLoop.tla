----------------------------- MODULE TilingLoop -----------------------------
(***************************************************************************)
(* What the single- and double-buffered tile loops share                   *)
(* (CodeTransformationPasses/TilingCodeGeneration.py and                   *)
(* TilingHoistingMixIn.py): the numTiles array and its index, the tile     *)
(* loop, the moving references into external memory, and the kernel.       *)
(*                                                                         *)
(* The generated closure of a node runs once for each invocation.  With no *)
(* tensor in L3 it is called once and walks all the tiles; with an L3      *)
(* tensor an outer loop moves L2 tiles and calls it once per tile.         *)
(***************************************************************************)
EXTENDS AsyncDma

CONSTANTS
    L3Tensor,     \* tensors with a constraint in L3: the outer loop moves them
    Accumulates   \* the kernel is a weight gradient that adds to its output

ASSUME LoopAssumption ==
    /\ L3Tensor \subseteq Tensor
    /\ Accumulates \in BOOLEAN
    /\ Accumulates => Tiled \cap Output = {}

VARIABLES
    pc,        \* the next statement of the generated code
    tensor,    \* the tensor whose statements are being executed
    tileIdx,   \* *tileIdxPtr, the number of finished invocations
    i,         \* TILING_I
    cur,       \* the buffer each tensor's local reference points to
    extRef     \* the tile each tensor's external reference points to

loopVars == <<pc, tensor, tileIdx, i, cur, extRef>>

(* _hoistTileNumAndIdxPtr: one boundary per tile under an outer driver, the
   cumulative layout of the one schedule otherwise. *)
HasOuterDriver == L3Tensor # {}

numTiles ==
    IF HasOuterDriver
    THEN [n \in 0..NumTiles |-> n]
    ELSE [n \in 0..1 |-> n * NumTiles]

Invocations == IF HasOuterDriver THEN NumTiles ELSE 1

FirstTile == numTiles[tileIdx]

(* Mutant of LastTile: "<=" for "<" in the loop test. *)
OneTileMore == numTiles[tileIdx + 1]

LastTile  == numTiles[tileIdx + 1] - 1

(* The rectangle of the external buffer that the reference of t selects.  An
   L3 tensor's L2 buffer holds the tile of this invocation alone. *)
ExternalRect(t) ==
    IF t \in L3Tensor THEN Rect(t, tileIdx) ELSE Rect(t, extRef[t])

(* Mutant of UpdateReference: the update is not emitted. *)
KeepReference(t) == UNCHANGED extRef

(* _generateExternalReferenceUpdate: no update when no offset changes. *)
UpdateReference(t) ==
    extRef' = IF t \in Tiled /\ t \notin L3Tensor
              THEN [extRef EXCEPT ![t] = @ + 1]
              ELSE extRef

LoopTypeOK ==
    /\ tensor \in Tensor
    /\ tileIdx \in 0..Invocations
    /\ i \in 0..NumTiles
    /\ cur \in [Tensor -> Buffer]
    /\ extRef \in [Tensor -> 0..NumTiles]

LoopInit ==
    /\ pc = "call"
    /\ tensor = 1
    /\ tileIdx = 0
    /\ i = 0
    /\ cur = [t \in Tensor |-> 0]
    /\ extRef = [t \in Tensor |-> 0]

-----------------------------------------------------------------------------

(* The closure is entered: the futures are initialised and the references
   allocated for it point to the start of what they refer to. *)
EnterClosure(next) ==
    /\ pc = "call"
    /\ tileIdx < Invocations
    /\ channel' = [f \in Future |-> NoChannel]
    /\ cur' = [t \in Tensor |-> 0]
    /\ extRef' = [t \in Tensor |-> 0]
    /\ i' = FirstTile
    /\ tensor' = 1
    /\ pc' = next
    /\ UNCHANGED <<tileIdx, free, lastAlloc, pending, inBuf, outBuf, external>>

(* Every input's current buffer holds the rectangle of the current tile. *)
InputsLoaded == \A t \in Input : inBuf[t][cur[t]] = Rect(t, i)

(* What the kernel computes for the current tile. *)
TileResult == {IF InputsLoaded THEN i ELSE Junk}

(* Mutants of KeepsPartialSum: the gradient is reset at every tile, or never. *)
ResetEveryTile == FALSE
ResetNever     == Accumulates

(* A weight gradient is reset at the first tile and added to afterwards. *)
KeepsPartialSum == Accumulates /\ tileIdx # 0

RunKernel ==
    /\ pc = "kernel"
    /\ outBuf' = [o \in Output |->
           [outBuf[o] EXCEPT ![cur[o]] =
               IF KeepsPartialSum THEN @ \cup TileResult ELSE TileResult]]
    /\ UNCHANGED <<tensor, tileIdx, i, cur, extRef>>
    /\ UNCHANGED <<channel, free, lastAlloc, pending, inBuf, external>>

(* The loop is left: the next invocation starts at the next boundary. *)
CloseLoop ==
    /\ i > LastTile
    /\ tileIdx' = tileIdx + 1
    /\ UNCHANGED <<i, cur, extRef>>
    /\ UNCHANGED dmaVars

(* The DMA works while the core executes. *)
DmaStep ==
    /\ \E x \in pending : CompleteTransfer(x)
    /\ UNCHANGED loopVars

Finished == pc = "call" /\ tileIdx = Invocations

(* The program has returned for good. *)
Idle == Finished /\ UNCHANGED <<dmaVars, loopVars>>

-----------------------------------------------------------------------------
(* The tiles whose results belong in rectangle r of output o. *)
TilesOf(o, r) == {n \in Tile : Rect(o, n) = r}

ResultsInPlace ==
    \A o \in Output, r \in Tile : external[o][r] = TilesOf(o, r)

ChannelsHeld == Channel \ free
=============================================================================
