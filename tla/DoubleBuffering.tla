-------------------------- MODULE DoubleBuffering --------------------------
(***************************************************************************)
(* The tile loop of DoubleBufferingTilingCodeGeneration._tilingLoop: the   *)
(* transfer that loads the next tile and the one that stores the previous  *)
(* result run while the kernel works on the current tile.  The numbers in  *)
(* the comments are those of the strategy in the source.                   *)
(***************************************************************************)
EXTENDS TilingLoop

VARIABLE nextBuf   \* the buffer each input's "_next" reference points to

vars == <<channel, free, lastAlloc, pending, inBuf, outBuf, external,
          pc, tensor, tileIdx, i, cur, extRef, nextBuf>>

ASSUME TwoBuffers == BufferCount = 2

PC == {"call", "load_first", "loop", "wait_input", "load_next", "kernel",
       "wait_output", "store", "drain"}

TypeOK ==
    /\ DmaTypeOK
    /\ LoopTypeOK
    /\ pc \in PC
    /\ nextBuf \in [Input -> Buffer]

Init ==
    /\ DmaInit
    /\ LoopInit
    /\ nextBuf = [t \in Input |-> 1]

(* Mutant of BufferOf: the local reference is never switched. *)
SameBuffer(tile) == 0 * tile

(* switch((TILING_I) % bufferCount) *)
BufferOf(tile) == tile % BufferCount

-----------------------------------------------------------------------------

(* 1) Initialise all futures. *)
Enter ==
    /\ EnterClosure("load_first")
    /\ nextBuf' = [t \in Input |-> 1]

(* 2) Start the transfer of the first tile, into the buffer the local
   reference was allocated with;  3) move the external reference on. *)
LoadFirstTile ==
    /\ pc = "load_first"
    /\ AllocFor(tensor)
    /\ Issue(tensor, cur[tensor], ExternalRect(tensor))
    /\ UpdateReference(tensor)
    /\ IF tensor < NIn
       THEN tensor' = tensor + 1 /\ pc' = pc
       ELSE tensor' = 1 /\ pc' = "loop"
    /\ UNCHANGED <<tileIdx, i, cur, nextBuf>>

(* 4) The loop test;  4.1) choose the buffers of the current tile. *)
OpenTile ==
    /\ pc = "loop"
    /\ i <= LastTile
    /\ cur' = [t \in Tensor |-> BufferOf(i)]
    /\ tensor' = 1
    /\ pc' = "wait_input"
    /\ UNCHANGED <<tileIdx, i, extRef, nextBuf>>
    /\ UNCHANGED dmaVars

(* 4.2.1) Wait for the current input tile. *)
WaitInput ==
    /\ pc = "wait_input"
    /\ IF UsesNewFuture(tensor) THEN WaitFuture(tensor) ELSE UNCHANGED dmaVars
    /\ pc' = "load_next"
    /\ UNCHANGED <<tensor, tileIdx, i, cur, extRef, nextBuf>>

(* 4.2.2) The next tile exists in this invocation. *)
HasNextTile == i + 1 <= LastTile

(* 4.2.3-5) Choose its buffer, start its transfer, move the reference on. *)
LoadNextTile(t) ==
    /\ nextBuf' = [nextBuf EXCEPT ![t] = BufferOf(i + 1)]
    /\ AllocFor(t)
    /\ Issue(t, nextBuf'[t], ExternalRect(t))
    /\ UpdateReference(t)

LoadNext ==
    /\ pc = "load_next"
    /\ IF HasNextTile
       THEN LoadNextTile(tensor)
       ELSE UNCHANGED <<dmaVars, extRef, nextBuf>>
    /\ IF tensor < NIn
       THEN tensor' = tensor + 1 /\ pc' = "wait_input"
       ELSE tensor' = tensor /\ pc' = "kernel"
    /\ UNCHANGED <<tileIdx, i, cur>>

(* 4.3) Process the current tile. *)
Kernel ==
    /\ RunKernel
    /\ pc' = "wait_output"
    /\ UNCHANGED nextBuf

(* The tensor whose egress statements come next. *)
Egress == IF tensor \in Output THEN tensor ELSE NIn + 1

(* Mutant of WaitOutput: the previous output tile is not waited for. *)
SkipOutputWait ==
    /\ pc = "wait_output"
    /\ tensor' = Egress
    /\ pc' = "store"
    /\ UNCHANGED dmaVars
    /\ UNCHANGED <<tileIdx, i, cur, extRef, nextBuf>>

(* 4.4.1) Wait for the previous output tile. *)
WaitOutput ==
    /\ pc = "wait_output"
    /\ IF UsesNewFuture(Egress) THEN WaitFuture(Egress) ELSE UNCHANGED dmaVars
    /\ tensor' = Egress
    /\ pc' = "store"
    /\ UNCHANGED <<tileIdx, i, cur, extRef, nextBuf>>

(* 4.4.2) Start the transfer of the current output tile;  4.4.3) move the
   reference on. *)
Store ==
    /\ pc = "store"
    /\ AllocFor(tensor)
    /\ Issue(tensor, cur[tensor], ExternalRect(tensor))
    /\ UpdateReference(tensor)
    /\ IF tensor < NIn + NOut
       THEN tensor' = tensor + 1 /\ i' = i /\ pc' = "wait_output"
       ELSE tensor' = 1 /\ i' = i + 1 /\ pc' = "loop"
    /\ UNCHANGED <<tileIdx, cur, nextBuf>>

(* The loop ends and *tileIdxPtr moves on. *)
LeaveLoop ==
    /\ pc = "loop"
    /\ CloseLoop
    /\ tensor' = NIn + 1
    /\ pc' = "drain"
    /\ UNCHANGED nextBuf

(* Mutant of Drain: the loop is left without a last wait. *)
SkipDrain ==
    /\ pc = "drain"
    /\ tensor' = 1 /\ pc' = "call"
    /\ UNCHANGED dmaVars
    /\ UNCHANGED <<tileIdx, i, cur, extRef, nextBuf>>

(* 5) Wait for the final output tile, on each egress future. *)
Drain ==
    /\ pc = "drain"
    /\ IF UsesNewFuture(tensor) THEN WaitFuture(tensor) ELSE UNCHANGED dmaVars
    /\ IF tensor < NIn + NOut
       THEN tensor' = tensor + 1 /\ pc' = pc
       ELSE tensor' = 1 /\ pc' = "call"
    /\ UNCHANGED <<tileIdx, i, cur, extRef, nextBuf>>

CoreStep ==
    \/ Enter \/ LoadFirstTile \/ OpenTile \/ WaitInput \/ LoadNext
    \/ Kernel \/ WaitOutput \/ Store \/ LeaveLoop \/ Drain

DmaRuns == DmaStep /\ UNCHANGED nextBuf

Stay == Idle /\ UNCHANGED nextBuf

Next == CoreStep \/ DmaRuns \/ Stay

(* The core always executes its next statement, and the DMA always finishes
   what it was given. *)
Fairness == WF_vars(CoreStep) /\ WF_vars(DmaRuns)

Spec == Init /\ [][Next]_vars /\ Fairness

-----------------------------------------------------------------------------
(* When the kernel runs, the current buffer of every input holds the current
   tile: the wait of 4.2.1 covered the transfer that loads it, whichever
   tensor's future was waited on. *)
KernelInputsCurrent == pc = "kernel" => InputsLoaded

(* While the kernel runs, the DMA only touches the buffers it does not use,
   and transfers in flight never meet in a buffer or in a rectangle. *)
NoBufferRace ==
    /\ TransfersDisjoint
    /\ pc = "kernel" => \A t \in Tensor : Quiet(t, cur[t])

(* A wait that is about to free a channel frees one that is in use, transfers
   in flight are counted on channels in use, every channel in use is named by
   a future, and between invocations all channels are free: none is freed
   twice, which would take it from somebody else, and none is leaked. *)
WaitsOn ==
    {f \in Future : \/ pc \in {"wait_input", "drain"} /\ f = tensor
                    \/ pc = "wait_output" /\ f = Egress}

ChannelsAccounted ==
    /\ \A f \in WaitsOn : channel[f] \notin free
    /\ \A x \in pending : x.chan \notin free
    /\ ChannelsHeld \subseteq {channel[f] : f \in Future}
    /\ pc = "call" => ChannelsHeld = {}

(* When the closures have returned, every result of every tile is in its
   rectangle of the external memory: nothing is still in a local buffer or
   in flight. *)
OutputsComplete == Finished => ResultsInPlace /\ pending = {}

(* The program finishes. *)
Terminates == <>Finished

(* Each output receives its tiles in order and once. *)
Stream == INSTANCE TileStream WITH
    Outputs <- Output,
    Tiles   <- NumTiles,
    Place   <- [o \in Output |-> [n \in Tile |-> Rect(o, n)]],
    result  <- external

StreamSpec == Stream!Spec
=============================================================================
