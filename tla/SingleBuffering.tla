-------------------------- MODULE SingleBuffering --------------------------
(***************************************************************************)
(* The tile loop of SingleBufferingTilingCodeGeneration._tilingLoop: load  *)
(* the tile, wait, run the kernel, store the result, wait.  The transfers  *)
(* of one tile's tensors are in flight together.  The numbers in the       *)
(* comments are those of the strategy in the source.                       *)
(***************************************************************************)
EXTENDS TilingLoop

vars == <<dmaVars, loopVars>>

ASSUME OneBuffer == BufferCount = 1

PC == {"call", "loop", "load", "wait_inputs", "kernel", "store",
       "wait_outputs"}

TypeOK ==
    /\ DmaTypeOK
    /\ LoopTypeOK
    /\ pc \in PC

Init == DmaInit /\ LoopInit

-----------------------------------------------------------------------------

(* 1) Initialise all futures. *)
Enter == EnterClosure("loop")

(* 2) The loop test. *)
OpenTile ==
    /\ pc = "loop"
    /\ i <= LastTile
    /\ tensor' = 1
    /\ pc' = "load"
    /\ UNCHANGED <<tileIdx, i, cur, extRef>>
    /\ UNCHANGED dmaVars

(* _generateTransferScheduleCalls for one tensor: allocate its future if it
   is the first to use it, issue the transfer, move the reference on. *)
TransferTensor ==
    /\ AllocFor(tensor)
    /\ Issue(tensor, cur[tensor], ExternalRect(tensor))
    /\ UpdateReference(tensor)

(* 2.1) Start the transfers of the current tile's inputs. *)
Load ==
    /\ pc = "load"
    /\ TransferTensor
    /\ IF tensor < NIn
       THEN tensor' = tensor + 1 /\ pc' = pc
       ELSE tensor' = 1 /\ pc' = "wait_inputs"
    /\ UNCHANGED <<tileIdx, i, cur>>

(* Wait on each future of the tensors first..last in turn. *)
WaitFutures(last, first, next) ==
    /\ IF UsesNewFuture(tensor) THEN WaitFuture(tensor) ELSE UNCHANGED dmaVars
    /\ IF tensor < last
       THEN tensor' = tensor + 1 /\ pc' = pc
       ELSE tensor' = first /\ pc' = next

WaitInputs ==
    /\ pc = "wait_inputs"
    /\ WaitFutures(NIn, NIn + 1, "kernel")
    /\ UNCHANGED <<tileIdx, i, cur, extRef>>

(* 2.2) Process the current tile. *)
Kernel ==
    /\ RunKernel
    /\ pc' = "store"

(* 2.3) Start the transfers of the current tile's outputs. *)
Store ==
    /\ pc = "store"
    /\ TransferTensor
    /\ IF tensor < NIn + NOut
       THEN tensor' = tensor + 1 /\ pc' = pc
       ELSE tensor' = NIn + 1 /\ pc' = "wait_outputs"
    /\ UNCHANGED <<tileIdx, i, cur>>

(* Mutant of WaitOutputs: the next tile starts while outputs are stored. *)
SkipOutputWaits ==
    /\ pc = "wait_outputs"
    /\ tensor' = 1 /\ pc' = "loop" /\ i' = i + 1
    /\ UNCHANGED dmaVars
    /\ UNCHANGED <<tileIdx, cur, extRef>>

WaitOutputs ==
    /\ pc = "wait_outputs"
    /\ WaitFutures(NIn + NOut, 1, "loop")
    /\ i' = IF pc' = "loop" THEN i + 1 ELSE i
    /\ UNCHANGED <<tileIdx, cur, extRef>>

(* The loop ends and *tileIdxPtr moves on. *)
LeaveLoop ==
    /\ pc = "loop"
    /\ CloseLoop
    /\ tensor' = 1
    /\ pc' = "call"

CoreStep ==
    \/ Enter \/ OpenTile \/ Load \/ WaitInputs \/ Kernel \/ Store
    \/ WaitOutputs \/ LeaveLoop

Next == CoreStep \/ DmaStep \/ Idle

(* The core always executes its next statement, and the DMA always finishes
   what it was given. *)
Fairness == WF_vars(CoreStep) /\ WF_vars(DmaStep)

Spec == Init /\ [][Next]_vars /\ Fairness

-----------------------------------------------------------------------------
(* With one buffer per tensor nothing may be in flight while the kernel runs,
   and the buffers hold the current tile, whichever futures were waited on. *)
KernelIsAlone == pc = "kernel" => InputsLoaded /\ pending = {}

(* Each wait is on a channel in use, transfers in flight are counted on
   channels in use, and a tile gives back every channel it took. *)
ChannelsAccounted ==
    /\ pc \in {"wait_inputs", "wait_outputs"} /\ UsesNewFuture(tensor) =>
           channel[tensor] \notin free
    /\ \A x \in pending : x.chan \notin free
    /\ pc \in {"call", "loop", "kernel"} => ChannelsHeld = {}

(* When the closures have returned, every rectangle of the external memory
   holds the results of all the tiles that belong in it. *)
OutputsComplete == Finished => ResultsInPlace /\ pending = {}

(* The program finishes. *)
Terminates == <>Finished

(* Each output receives its tiles in order and once. *)
Stream == INSTANCE TileStream WITH
    Outputs <- Output,
    Tiles   <- NumTiles,
    Place   <- [o \in Output |-> [n \in Tile |-> Rect(o, n)]],
    result  <- external

StreamSpec == Stream!Spec
=============================================================================
