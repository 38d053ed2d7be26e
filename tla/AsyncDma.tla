------------------------------ MODULE AsyncDma ------------------------------
(***************************************************************************)
(* The DMA of a generated program and the futures its code waits on        *)
(* (Deeploy/TilingExtension/AsyncDma.py, Targets/PULPOpen/DMA/MchanDma.py, *)
(* Targets/GAP9/DMA/MchanDma.py), together with the memories a transfer    *)
(* moves data between: the local buffers of one node's tensors and their   *)
(* external counterparts.                                                  *)
(*                                                                         *)
(* Tensors are numbered in the order of the node's load schedules: the     *)
(* inputs first, then the outputs.  A future is named by the first tensor  *)
(* that uses it, so the code's "future not in ingressFutures" test reads   *)
(* FutureOf(t) = t.                                                        *)
(*                                                                         *)
(* The data are the tiles themselves: an input buffer holds the number of  *)
(* the rectangle loaded into it, an output buffer and an output rectangle  *)
(* in external memory the set of tiles whose results were put there.  Junk *)
(* is a tile number that does not exist: data no tile should ever see.     *)
(***************************************************************************)
EXTENDS Integers, FiniteSets

CONSTANTS
    NIn,              \* number of input tensors of the node
    NOut,             \* number of output tensors of the node
    NumTiles,         \* number of tiles of the node
    BufferCount,      \* local buffers of a tensor: 1 single, 2 double buffering
    WaitingStrategy,  \* "PerTensor" or "Direction"
    Tiled,            \* tensors whose rectangle differs from tile to tile
    Channel,          \* the DMA's channels
    NoChannel         \* the value -1 a future is initialised with

ASSUME DmaAssumption ==
    /\ NIn \in Nat \ {0} /\ NOut \in Nat \ {0} /\ NumTiles \in Nat \ {0}
    /\ BufferCount \in {1, 2}
    /\ WaitingStrategy \in {"PerTensor", "Direction"}
    /\ Tiled \subseteq 1..(NIn + NOut)
    /\ NoChannel \notin Channel

Input  == 1..NIn
Output == (NIn + 1)..(NIn + NOut)
Tensor == Input \cup Output

Buffer == 0..(BufferCount - 1)
Tile   == 0..(NumTiles - 1)
Junk   == NumTiles

(* The rectangle of tensor t that tile i loads or stores. *)
Rect(t, i) == IF t \in Tiled THEN i ELSE 0

(* getFuture: one future per tensor and direction, or one per direction. *)
FutureOf(t) ==
    IF WaitingStrategy = "PerTensor" THEN t
    ELSE IF t \in Input THEN 1 ELSE NIn + 1

UsesNewFuture(t) == FutureOf(t) = t

Future == {t \in Tensor : UsesNewFuture(t)}

Transfer == [tensor : Tensor, buf : Buffer, rect : Nat, chan : Channel]

VARIABLES
    channel,    \* the C variable of each future: the channel it was given
    free,       \* the channels the DMA may hand out
    lastAlloc,  \* the channel that the next commands are counted on
    pending,    \* transfers issued and not completed
    inBuf,      \* the rectangle in each buffer of each input
    outBuf,     \* the results in each buffer of each output
    external    \* the results in each rectangle of each output's external memory

dmaVars == <<channel, free, lastAlloc, pending, inBuf, outBuf, external>>

DmaTypeOK ==
    /\ channel \in [Future -> Channel \cup {NoChannel}]
    /\ free \subseteq Channel
    /\ lastAlloc \in Channel \cup {NoChannel}
    /\ pending \subseteq Transfer
    /\ inBuf \in [Input -> [Buffer -> Nat]]
    /\ outBuf \in [Output -> [Buffer -> SUBSET Nat]]
    /\ external \in [Output -> [Tile -> SUBSET Nat]]

DmaInit ==
    /\ channel = [f \in Future |-> NoChannel]
    /\ free = Channel
    /\ lastAlloc = NoChannel
    /\ pending = {}
    /\ inBuf = [t \in Input |-> [b \in Buffer |-> Junk]]
    /\ outBuf = [t \in Output |-> [b \in Buffer |-> {Junk}]]
    /\ external = [t \in Output |-> [r \in Tile |-> {}]]

-----------------------------------------------------------------------------
(* What the generated statements do to the DMA. *)

(* Future.alloc: mchan_channel_alloc takes a free channel, stalling while
   there is none; the commands that follow are counted on it. *)
AllocChannel(f) ==
    \E c \in free :
        /\ channel' = [channel EXCEPT ![f] = c]
        /\ free' = free \ {c}
        /\ lastAlloc' = c

(* Mutant of AllocFor: the "future not in ingressFutures" test is missing. *)
AllocEveryTime(t) == AllocChannel(FutureOf(t))

(* future.alloc() is emitted for the first tensor that uses the future only. *)
AllocFor(t) ==
    IF UsesNewFuture(t)
    THEN AllocChannel(t)
    ELSE UNCHANGED <<channel, free, lastAlloc>>

(* A transfer command for rectangle r of tensor t and its buffer b.  Until it
   completes, the buffer an input is loaded into holds nothing usable. *)
Issue(t, b, r) ==
    /\ pending' = pending \cup
           {[tensor |-> t, buf |-> b, rect |-> r, chan |-> lastAlloc']}
    /\ inBuf' = IF t \in Input THEN [inBuf EXCEPT ![t][b] = Junk] ELSE inBuf
    /\ UNCHANGED <<outBuf, external>>

(* Transfers still counted on the channel of future f. *)
Outstanding(f) == {x \in pending : x.chan = channel[f]}

(* Mutants of WaitFuture: the channel is freed but not waited for, and the
   channel is waited for but not freed. *)
FreeWithoutWaiting(f) ==
    /\ free' = IF channel[f] = NoChannel THEN free ELSE free \cup {channel[f]}
    /\ UNCHANGED <<channel, lastAlloc, pending, inBuf, outBuf, external>>

WaitWithoutFreeing(f) ==
    /\ channel[f] # NoChannel => Outstanding(f) = {}
    /\ UNCHANGED dmaVars

(* Future.wait: blocks until the channel has drained, then frees it.  The C
   variable keeps the channel's number.  A future never allocated is skipped. *)
WaitFuture(f) ==
    /\ channel[f] # NoChannel => Outstanding(f) = {}
    /\ free' = IF channel[f] = NoChannel THEN free ELSE free \cup {channel[f]}
    /\ UNCHANGED <<channel, lastAlloc, pending, inBuf, outBuf, external>>

(* The DMA finishes one transfer, in any order. *)
CompleteTransfer(x) ==
    /\ pending' = pending \ {x}
    /\ IF x.tensor \in Input
       THEN /\ inBuf' = [inBuf EXCEPT ![x.tensor][x.buf] = x.rect]
            /\ UNCHANGED external
       ELSE /\ external' = [external EXCEPT ![x.tensor][x.rect] =
                                outBuf[x.tensor][x.buf]]
            /\ UNCHANGED inBuf
    /\ UNCHANGED <<channel, free, lastAlloc, outBuf>>

-----------------------------------------------------------------------------
(* Two transfers in flight never touch the same buffer, nor the same
   rectangle of an output: the result would depend on their order. *)
TransfersDisjoint ==
    \A x, y \in pending :
        x # y /\ x.tensor = y.tensor =>
            /\ x.buf # y.buf
            /\ x.tensor \in Output => x.rect # y.rect

(* No transfer in flight touches buffer b of tensor t. *)
Quiet(t, b) == \A x \in pending : ~(x.tensor = t /\ x.buf = b)
=============================================================================
