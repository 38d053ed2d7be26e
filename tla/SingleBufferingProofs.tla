----------------------- MODULE SingleBufferingProofs -----------------------
(***************************************************************************)
(* Proofs about SingleBuffering, for every number of inputs, outputs and   *)
(* tiles, every set of channels and both waiting strategies.  The tiled    *)
(* tensors are all under an outer loop or none is.                         *)
(*                                                                         *)
(* The inductive invariant says for each tensor and each program point     *)
(* whether a transfer of it may be in flight, and which futures hold a     *)
(* channel at that point.                                                  *)
(***************************************************************************)
EXTENDS SingleBuffering, TLAPS

(* A tiled tensor without a constraint in L3 would start over at its first *)
(* tile in every call of the outer loop.                                   *)
UniformLevels == L3Tensor = {} \/ Tiled \subseteq L3Tensor

None(t) == \A x \in pending : x.tensor # t

(* Transfers of t in flight move the current tile, and t's future covers   *)
(* them.                                                                   *)
Only(t) ==
    \A x \in pending : x.tensor = t =>
        /\ x.buf = 0
        /\ x.rect = Rect(t, i)
        /\ x.chan = channel[FutureOf(t)]

Holds(t) == inBuf[t][0] = Rect(t, i)

(* The current tile of input t is on its way or there; it is there.        *)
Fetching(t) == Only(t) /\ (None(t) => Holds(t))
Ready(t)    == None(t) /\ Holds(t)

(* Control: which tensor and which tiles each program point is about.      *)
ControlInv ==
    /\ \A t \in Tensor : cur[t] = 0
    /\ pc # "call" => tileIdx < Invocations /\ FirstTile <= i /\ i <= LastTile + 1
    /\ pc \notin {"call", "loop"} => i <= LastTile
    /\ pc \in {"load", "wait_inputs"} => tensor \in Input
    /\ pc = "kernel" => tensor = NIn + 1
    /\ pc \in {"store", "wait_outputs"} => tensor \in Output

InputAt(t) ==
    /\ pc = "load" => IF t < tensor THEN Fetching(t) ELSE None(t)
    /\ pc = "wait_inputs" => IF FutureOf(t) < tensor THEN Ready(t) ELSE Fetching(t)
    /\ pc = "kernel" => Ready(t)
    /\ pc \in {"call", "loop", "store", "wait_outputs"} => None(t)

OutputAt(o) ==
    /\ pc = "store" => IF o < tensor THEN Only(o) ELSE None(o)
    /\ pc = "wait_outputs" => IF FutureOf(o) < tensor THEN None(o) ELSE Only(o)
    /\ pc \in {"call", "loop", "load", "wait_inputs", "kernel"} => None(o)

TransferInv ==
    /\ \A t \in Input : InputAt(t)
    /\ \A o \in Output : OutputAt(o)

(* The tile each moving reference points to.                               *)
RefAt(t) ==
    /\ pc = "loop" => extRef[t] = i
    /\ pc \in {"load", "store"} =>
           extRef[t] = IF t < tensor THEN i + 1 ELSE i
    /\ pc \in {"wait_inputs", "kernel"} =>
           extRef[t] = IF t \in Input THEN i + 1 ELSE i
    /\ pc = "wait_outputs" => extRef[t] = i + 1

ReferenceInv ==
    /\ \A t \in Tensor \ Tiled : extRef[t] = 0
    /\ \A t \in Tiled \ L3Tensor : RefAt(t)

(* The futures that hold a channel.                                        *)
Held(f) ==
    \/ pc = "load" /\ f < tensor
    \/ pc = "wait_inputs" /\ f \in Input /\ f >= tensor
    \/ pc = "store" /\ f \in Output /\ f < tensor
    \/ pc = "wait_outputs" /\ f >= tensor

(* The channels in use are those of the held futures, one each; the last   *)
(* one allocated is that of the future the next transfer may share.        *)
ChannelInv ==
    /\ \A f \in Future : Held(f) => channel[f] \in Channel \ free
    /\ \A f, g \in Future : Held(f) /\ Held(g) /\ f # g => channel[f] # channel[g]
    /\ \A c \in Channel \ free : \E f \in Future : Held(f) /\ channel[f] = c
    /\ pc \in {"load", "store"} /\ ~UsesNewFuture(tensor) =>
           lastAlloc = channel[FutureOf(tensor)] /\ lastAlloc \in Channel

IInv ==
    /\ TypeOK
    /\ ControlInv
    /\ TransferInv
    /\ ReferenceInv
    /\ ChannelInv

-----------------------------------------------------------------------------
(* Facts about the constants. *)

LEMMA TensorFacts ==
    /\ Tensor = 1..(NIn + NOut)
    /\ Input \subseteq Tensor /\ Output \subseteq Tensor /\ Tensor \subseteq Nat
    /\ \A t \in Tensor : t \in Input <=> t \notin Output
    /\ \A t \in Input, o \in Output : t < o
    /\ 1 \in Input /\ NIn \in Input /\ NIn + 1 \in Output /\ NIn + NOut \in Output
BY DmaAssumption DEF Tensor, Input, Output

(* A future is named by a tensor of the same direction that is no later. *)
LEMMA FutureFacts ==
    ASSUME NEW t \in Tensor
    PROVE  /\ FutureOf(t) \in Future
           /\ FutureOf(t) <= t
           /\ FutureOf(t) \in Tensor
           /\ t \in Input => FutureOf(t) \in Input
           /\ t \in Output => FutureOf(t) \in Output
           /\ UsesNewFuture(t) <=> t \in Future
BY DmaAssumption DEF FutureOf, Future, UsesNewFuture, Tensor, Input, Output

(* The first tensor of a direction uses a new future, and one that uses none *)
(* shares that of its predecessor.                                           *)
LEMMA SharedFuture ==
    /\ UsesNewFuture(1) /\ UsesNewFuture(NIn + 1)
    /\ \A t \in Tensor :
           ~UsesNewFuture(t + 1) /\ (t + 1 \in Input \/ (t \in Output /\ t + 1 \in Output)) =>
               FutureOf(t + 1) = FutureOf(t)
BY DmaAssumption DEF FutureOf, UsesNewFuture, Tensor, Input, Output

LEMMA OneBufferFacts == Buffer = {0}
BY OneBuffer DEF Buffer

LEMMA RectFacts == ASSUME NEW t \in Tensor, NEW j \in Nat PROVE Rect(t, j) \in Nat
BY DEF Rect

(* The boundaries of the invocations. *)
LEMMA Boundaries ==
    /\ Invocations \in Nat \ {0}
    /\ numTiles[0] = 0 /\ numTiles[Invocations] = NumTiles
    /\ \A n \in 0..Invocations : numTiles[n] \in 0..NumTiles
    /\ \A n \in 0..(Invocations - 1) : numTiles[n] < numTiles[n + 1]
    /\ ~HasOuterDriver => Invocations = 1
    /\ HasOuterDriver => \A n \in 0..Invocations : numTiles[n] = n
<1>1. CASE HasOuterDriver
  <2>1. numTiles = [n \in 0..NumTiles |-> n] /\ Invocations = NumTiles
      BY <1>1 DEF numTiles, Invocations
  <2>2. QED BY <1>1, <2>1, DmaAssumption
<1>2. CASE ~HasOuterDriver
  <2>1. numTiles = [n \in 0..1 |-> n * NumTiles] /\ Invocations = 1
      BY <1>2 DEF numTiles, Invocations
  <2>2. 0 * NumTiles = 0 /\ 1 * NumTiles = NumTiles
      BY DmaAssumption
  <2>3. QED BY <1>2, <2>1, <2>2, DmaAssumption
<1>3. QED BY <1>1, <1>2

(* Where an invocation starts and ends. *)
LEMMA InvocationFacts ==
    ASSUME TypeOK, tileIdx < Invocations
    PROVE  /\ tileIdx + 1 \in 0..Invocations
           /\ FirstTile \in Nat /\ LastTile \in Nat /\ LastTile < NumTiles
           /\ FirstTile <= LastTile
           /\ HasOuterDriver => FirstTile = tileIdx /\ LastTile = tileIdx
           /\ ~HasOuterDriver => FirstTile = 0
<1>1. tileIdx \in 0..(Invocations - 1) /\ tileIdx + 1 \in 0..Invocations
    BY Boundaries DEF TypeOK, LoopTypeOK
<1>2. QED BY <1>1, Boundaries DEF FirstTile, LastTile

(* Every transfer is for the current tile. *)
LEMMA CurrentRect ==
    ASSUME UniformLevels, IInv, pc \in {"load", "store"}
    PROVE  ExternalRect(tensor) = Rect(tensor, i) /\ cur[tensor] = 0
<1>0. TypeOK /\ ControlInv /\ ReferenceInv /\ tensor \in Tensor
    BY DEF IInv, TypeOK, LoopTypeOK
<1>1. tileIdx < Invocations /\ FirstTile <= i /\ i <= LastTile /\ cur[tensor] = 0
    BY <1>0 DEF ControlInv
<1>2. CASE tensor \in L3Tensor
  <2>0. HasOuterDriver /\ i \in Int /\ tileIdx \in Int
      BY <1>0, <1>2, DmaAssumption, Boundaries DEF HasOuterDriver, TypeOK, LoopTypeOK
  <2>1. i = tileIdx
      BY <1>0, <1>1, <2>0, InvocationFacts
  <2>2. QED BY <1>1, <1>2, <2>1 DEF ExternalRect
<1>3. CASE tensor \notin L3Tensor /\ tensor \in Tiled
  <2>0. RefAt(tensor) /\ tensor \in Nat
      BY <1>0, <1>3, TensorFacts DEF ReferenceInv
  <2>1. extRef[tensor] = i
      BY <2>0 DEF RefAt
  <2>2. QED BY <1>1, <1>3, <2>1 DEF ExternalRect
<1>4. CASE tensor \notin L3Tensor /\ tensor \notin Tiled
    BY <1>1, <1>4 DEF ExternalRect, Rect
<1>5. QED BY <1>2, <1>3, <1>4

-----------------------------------------------------------------------------
(* What the DMA statements do to the predicates of the invariant. *)

SharesChannel(t) == lastAlloc \in Channel /\ lastAlloc = channel[FutureOf(t)]

(* The effect of issuing the transfer of tensor t.                         *)
Issued(t) ==
    /\ DmaTypeOK'
    /\ Only(t)' /\ ~None(t)'
    /\ SharesChannel(t)'
    /\ \A u \in Tensor : u # t /\ None(u) => None(u)'
    /\ \A u \in Tensor : u # t /\ FutureOf(u) # t /\ Only(u) => Only(u)'
    /\ \A u \in Input : u # t /\ FutureOf(u) # t /\ Fetching(u) => Fetching(u)'

LEMMA IssueEffect ==
    ASSUME TypeOK, NEW t \in Tensor, i' = i,
           AllocFor(t), Issue(t, 0, Rect(t, i)), None(t),
           UsesNewFuture(t) \/ SharesChannel(t)
    PROVE  Issued(t)
<1> DEFINE x == [tensor |-> t, buf |-> 0, rect |-> Rect(t, i), chan |-> lastAlloc']
<1> USE DEF TypeOK, DmaTypeOK
<1>1. FutureOf(t) \in Future /\ (UsesNewFuture(t) => FutureOf(t) = t)
    BY FutureFacts DEF UsesNewFuture
<1>2. /\ lastAlloc' \in Channel /\ lastAlloc' = channel'[FutureOf(t)]
      /\ channel' \in [Future -> Channel \cup {NoChannel}]
      /\ free' \subseteq Channel
    BY <1>1 DEF AllocFor, AllocChannel, SharesChannel
<1>3. \A u \in Tensor : FutureOf(u) # t => channel'[FutureOf(u)] = channel[FutureOf(u)]
    BY FutureFacts DEF AllocFor, AllocChannel
<1>0. i \in Nat
    BY DmaAssumption DEF LoopTypeOK
<1>4. x \in Transfer
    BY <1>0, <1>2, OneBufferFacts, RectFacts DEF Transfer
<1>5. pending' = pending \cup {x}
    BY DEF Issue
<1>6. inBuf' \in [Input -> [Buffer -> Nat]]
    BY OneBufferFacts, DmaAssumption DEF Issue, Junk
<1>7. DmaTypeOK'
    BY <1>2, <1>4, <1>5, <1>6 DEF Issue
<1>8. Only(t)' /\ ~None(t)'
  <2>1. x \in pending' /\ \A y \in pending' : y.tensor = t => y = x
      BY <1>5 DEF None
  <2>2. x.tensor = t /\ x.buf = 0 /\ x.rect = Rect(t, i') /\ x.chan = channel'[FutureOf(t)]
      BY <1>2
  <2>3. QED BY <2>1, <2>2 DEF Only, None, Rect
<1>9. \A u \in Tensor : u # t => (None(u)' <=> None(u))
    BY <1>5 DEF None
<1>10. \A u \in Tensor : u # t /\ FutureOf(u) # t /\ Only(u) => Only(u)'
    BY <1>3, <1>5 DEF Only, Rect
<1>11. \A u \in Input : u # t /\ Holds(u) => Holds(u)'
    BY OneBufferFacts DEF Holds, Issue, Rect
<1>13. \A u \in Input : u # t /\ FutureOf(u) # t /\ Fetching(u) => Fetching(u)'
    BY <1>9, <1>10, <1>11, TensorFacts DEF Fetching
<1>14. QED BY <1>2, <1>7, <1>8, <1>9, <1>10, <1>13 DEF Issued, SharesChannel

(* The channels in use, without the last clause of ChannelInv. *)
ChannelsInUse ==
    /\ \A f \in Future : Held(f) => channel[f] \in Channel \ free
    /\ \A f, g \in Future : Held(f) /\ Held(g) /\ f # g => channel[f] # channel[g]
    /\ \A c \in Channel \ free : \E f \in Future : Held(f) /\ channel[f] = c

LEMMA AllocEffect ==
    ASSUME TypeOK, ChannelsInUse, NEW t \in Tensor, AllocFor(t), ~Held(t),
           \A f \in Future : Held(f)' <=> Held(f) \/ f = t
    PROVE  ChannelsInUse'
<1> USE DEF TypeOK, DmaTypeOK
<1>1. CASE UsesNewFuture(t)
  <2>0. t \in Future
      BY <1>1, FutureFacts
  <2>1. PICK c \in free : /\ channel' = [channel EXCEPT ![t] = c]
                          /\ free' = free \ {c}
      BY <1>1 DEF AllocFor, AllocChannel
  <2>2. /\ channel'[t] = c /\ c \in Channel \ free'
        /\ \A f \in Future \ {t} : channel'[f] = channel[f]
      BY <2>0, <2>1
  <2>3. \A f \in Future : Held(f) => f # t /\ channel[f] # c
      BY <2>1 DEF ChannelsInUse
  <2>4. \A f \in Future : Held(f)' => channel'[f] \in Channel \ free'
      BY <2>1, <2>2, <2>3 DEF ChannelsInUse
  <2>5. ASSUME NEW f \in Future, NEW g \in Future, Held(f)', Held(g)', f # g
        PROVE  channel'[f] # channel'[g]
      BY <2>2, <2>3, <2>5 DEF ChannelsInUse
  <2>6. ASSUME NEW d \in Channel \ free'
        PROVE  \E f \in Future : Held(f)' /\ channel'[f] = d
    <3>1. CASE d = c
        BY <2>0, <2>2, <3>1
    <3>2. CASE d # c
      <4>1. PICK f \in Future : Held(f) /\ channel[f] = d
          BY <2>1, <2>6, <3>2 DEF ChannelsInUse
      <4>2. QED BY <2>2, <2>3, <4>1
    <3>3. QED BY <3>1, <3>2
  <2>7. QED BY <2>4, <2>5, <2>6 DEF ChannelsInUse
<1>2. CASE ~UsesNewFuture(t)
  <2>1. channel' = channel /\ free' = free /\ t \notin Future
      BY <1>2, FutureFacts DEF AllocFor
  <2>2. \A f \in Future : Held(f)' <=> Held(f)
      BY <2>1
  <2>3. QED BY <2>1, <2>2 DEF ChannelsInUse
<1>3. QED BY <1>1, <1>2

(* Waiting, if t names a future, drains the tensors that use it and gives  *)
(* its channel back; nothing else changes.                                 *)
LEMMA WaitEffect ==
    ASSUME TypeOK, ChannelsInUse, NEW t \in Tensor, UsesNewFuture(t) => Held(t),
           IF UsesNewFuture(t) THEN WaitFuture(t) ELSE UNCHANGED dmaVars,
           \A f \in Future : Held(f)' <=> Held(f) /\ f # t
    PROVE  /\ DmaTypeOK'
           /\ ChannelsInUse'
           /\ \A u \in Tensor : FutureOf(u) = t /\ Only(u) => None(u)'
           /\ \A u \in Tensor : None(u) => None(u)'
           /\ i' = i => /\ \A u \in Tensor : Only(u) => Only(u)'
                        /\ \A u \in Input : /\ Holds(u) => Holds(u)'
                                            /\ Fetching(u) => Fetching(u)'
<1> USE DEF TypeOK, DmaTypeOK
<1>1. /\ UNCHANGED <<channel, lastAlloc, pending, inBuf, outBuf, external>>
      /\ UsesNewFuture(t) => /\ Outstanding(t) = {} \/ channel[t] = NoChannel
                             /\ free' = IF channel[t] = NoChannel THEN free
                                        ELSE free \cup {channel[t]}
      /\ ~UsesNewFuture(t) => free' = free
    BY DEF WaitFuture, dmaVars
<1>2. \A u \in Tensor : /\ None(u) => None(u)'
                        /\ i' = i /\ Only(u) => Only(u)'
    BY <1>1 DEF None, Only, Rect
<1>3. i' = i => \A u \in Input : Holds(u) => Holds(u)'
    BY <1>1 DEF Holds, Rect
<1>4. i' = i => \A u \in Input : Fetching(u) => Fetching(u)'
  <2>1. \A u \in Tensor : None(u)' => None(u)
      BY <1>1 DEF None
  <2>2. QED BY <1>2, <1>3, <2>1, TensorFacts DEF Fetching
<1>5. CASE UsesNewFuture(t)
  <2>0. t \in Future /\ Held(t)
      BY <1>5, FutureFacts
  <2>1. /\ channel[t] \in Channel \ free /\ channel[t] # NoChannel
        /\ Outstanding(t) = {} /\ free' = free \cup {channel[t]}
      BY <1>1, <1>5, <2>0, DmaAssumption DEF ChannelsInUse
  <2>2. \A u \in Tensor : FutureOf(u) = t /\ Only(u) => None(u)'
      BY <1>1, <2>1 DEF Only, None, Outstanding
  <2>3. \A f \in Future : Held(f)' => channel'[f] \in Channel \ free'
      BY <1>1, <2>0, <2>1 DEF ChannelsInUse
  <2>4. \A f, g \in Future : Held(f)' /\ Held(g)' /\ f # g => channel'[f] # channel'[g]
      BY <1>1 DEF ChannelsInUse
  <2>5. ASSUME NEW d \in Channel \ free'
        PROVE  \E f \in Future : Held(f)' /\ channel'[f] = d
    <3>1. PICK f \in Future : Held(f) /\ channel[f] = d
        BY <2>1, <2>5 DEF ChannelsInUse
    <3>2. f # t
        BY <2>1, <2>5, <3>1
    <3>3. QED BY <1>1, <3>1, <3>2
  <2>6. free' \subseteq Channel
      BY <2>1
  <2>7. QED BY <1>1, <1>2, <1>3, <1>4, <2>2, <2>3, <2>4, <2>5, <2>6 DEF ChannelsInUse
<1>6. CASE ~UsesNewFuture(t)
  <2>1. t \notin Future /\ \A u \in Tensor : FutureOf(u) # t
      BY <1>6, FutureFacts
  <2>2. \A f \in Future : Held(f)' <=> Held(f)
      BY <2>1
  <2>3. ChannelsInUse'
      BY <1>1, <1>6, <2>2 DEF ChannelsInUse
  <2>4. QED BY <1>1, <1>2, <1>3, <1>4, <1>6, <2>1, <2>3
<1>7. QED BY <1>5, <1>6

(* The DMA completing a transfer. *)
LEMMA CompleteEffect ==
    ASSUME TypeOK, NEW x \in pending, CompleteTransfer(x), i' = i
    PROVE  /\ DmaTypeOK'
           /\ \A u \in Tensor : /\ None(u) => None(u)'
                                /\ Only(u) => Only(u)'
           /\ \A u \in Input : /\ None(u) /\ Holds(u) => Holds(u)'
                               /\ Fetching(u) => Fetching(u)'
<1> USE DEF TypeOK, DmaTypeOK
<1>1. x \in Transfer /\ pending' = pending \ {x}
    BY DEF CompleteTransfer
<1>2. DmaTypeOK'
  <2>1. /\ x.tensor \in Tensor /\ x.buf \in Buffer /\ x.rect \in Nat
        /\ pending' \subseteq Transfer
      BY <1>1 DEF Transfer
  <2>2. CASE x.tensor \in Input
    <3>1. inBuf' = [inBuf EXCEPT ![x.tensor][x.buf] = x.rect]
        BY <2>2 DEF CompleteTransfer
    <3>2. inBuf' \in [Input -> [Buffer -> Nat]]
        BY ONLY <2>1, <2>2, <3>1, inBuf \in [Input -> [Buffer -> Nat]]
    <3>3. QED BY <2>1, <2>2, <3>2 DEF CompleteTransfer
  <2>3. CASE x.tensor \notin Input
    <3>1. x.tensor \in Output
        BY <2>1, <2>3, TensorFacts
    <3>2. outBuf[x.tensor][x.buf] \in SUBSET Nat
        BY <2>1, <3>1
    <3>3. external' = [external EXCEPT ![x.tensor] =
                           [external[x.tensor] EXCEPT ![x.rect] = outBuf[x.tensor][x.buf]]]
        BY <2>3 DEF CompleteTransfer
    <3>4. [external[x.tensor] EXCEPT ![x.rect] = outBuf[x.tensor][x.buf]]
              \in [Tile -> SUBSET Nat]
        BY <3>1, <3>2
    <3>5. external' \in [Output -> [Tile -> SUBSET Nat]]
        BY <3>1, <3>3, <3>4
    <3>6. QED BY <2>1, <2>3, <3>5 DEF CompleteTransfer
  <2>4. QED BY <2>2, <2>3
<1>3. \A u \in Tensor : None(u) => None(u)'
    BY <1>1 DEF None
<1>4. \A u \in Tensor : Only(u) => Only(u)'
    BY <1>1 DEF Only, CompleteTransfer, Rect
<1>5. \A u \in Input : None(u) /\ Holds(u) => Holds(u)'
    BY OneBufferFacts DEF None, Holds, CompleteTransfer, Rect
<1>6. \A u \in Input : Fetching(u) => Fetching(u)'
  <2> SUFFICES ASSUME NEW u \in Input, Fetching(u), None(u)'
               PROVE  Holds(u)'
      BY <1>4, TensorFacts DEF Fetching
  <2>1. CASE None(u)
      BY <2>1, <1>5 DEF Fetching
  <2>2. CASE ~None(u)
    <3>1. x.tensor = u
        BY <1>1, <2>2 DEF None
    <3>2. x.buf = 0 /\ x.rect = Rect(u, i)
        BY <3>1 DEF Fetching, Only
    <3>3. inBuf'[u][0] = Rect(u, i')
        BY <3>1, <3>2, OneBufferFacts DEF CompleteTransfer, Rect
    <3>4. QED BY <3>3 DEF Holds, Rect
  <2>3. QED BY <2>1, <2>2
<1>7. QED BY <1>2, <1>3, <1>4, <1>5, <1>6

-----------------------------------------------------------------------------
(* The invariant holds initially and every step preserves it. *)

LEMMA InitInv == ASSUME Init PROVE IInv
<1> USE DEF Init, DmaInit, LoopInit
<1>1. TypeOK
  <2>1. DmaTypeOK
    BY DmaAssumption DEF DmaTypeOK, Junk, Transfer
  <2>2. LoopTypeOK
    BY DmaAssumption, Boundaries, TensorFacts, OneBufferFacts DEF LoopTypeOK
  <2>3. QED BY <2>1, <2>2 DEF TypeOK, PC
<1>2. ControlInv BY DEF ControlInv
<1>3. TransferInv BY DEF TransferInv, InputAt, OutputAt, None
<1>4. ReferenceInv BY DEF ReferenceInv, RefAt
<1>5. ChannelInv BY DEF ChannelInv, Held
<1>6. QED BY <1>1, <1>2, <1>3, <1>4, <1>5 DEF IInv

LEMMA EnterInv == ASSUME UniformLevels, IInv, Enter PROVE IInv'
<1> USE DEF Enter, EnterClosure
<1>0. TypeOK /\ ControlInv /\ TransferInv /\ ChannelInv BY DEF IInv
<1>1. FirstTile \in Nat /\ FirstTile <= LastTile /\ LastTile < NumTiles /\ LastTile \in Nat
      /\ (~HasOuterDriver => FirstTile = 0)
    BY <1>0, InvocationFacts
<1>2. TypeOK'
  <2>1. DmaTypeOK'
    BY <1>0 DEF TypeOK, DmaTypeOK
  <2>2. LoopTypeOK'
    BY <1>0, <1>1, DmaAssumption, TensorFacts, OneBufferFacts DEF TypeOK, LoopTypeOK
  <2>3. QED BY <2>1, <2>2 DEF TypeOK, PC
<1>3. ControlInv' BY <1>1, DmaAssumption DEF ControlInv, FirstTile, LastTile
<1>4. TransferInv' BY <1>0 DEF TransferInv, InputAt, OutputAt, None
<1>5. ReferenceInv'
  <2>1. \A t \in Tensor : extRef'[t] = 0
      OBVIOUS
  <2>2. Tiled \ L3Tensor # {} => i' = 0
      BY <1>1 DEF UniformLevels, HasOuterDriver
  <2>3. QED BY <2>1, <2>2, DmaAssumption DEF ReferenceInv, RefAt, Tensor, Input, Output
<1>6. ChannelInv' BY <1>0 DEF ChannelInv, Held
<1>7. QED BY <1>2, <1>3, <1>4, <1>5, <1>6 DEF IInv

LEMMA OpenTileInv == ASSUME IInv, OpenTile PROVE IInv'
<1> USE DEF OpenTile
<1>0. TypeOK /\ ControlInv /\ TransferInv /\ ReferenceInv /\ ChannelInv BY DEF IInv
<1>1. TypeOK' BY <1>0, TensorFacts DEF TypeOK, LoopTypeOK, DmaTypeOK, PC, dmaVars
<1>2. ControlInv' BY <1>0, TensorFacts DEF ControlInv, FirstTile, LastTile
<1>3. TransferInv'
    BY <1>0, DmaAssumption DEF TransferInv, InputAt, OutputAt, None, dmaVars, Input
<1>4. ReferenceInv'
    BY <1>0, DmaAssumption DEF ReferenceInv, RefAt, Tensor, Input, Output
<1>5. ChannelInv'
  <2>1. \A f \in Future : ~Held(f) /\ ~Held(f)'
      BY DmaAssumption DEF Held, Future, Tensor, Input, Output
  <2>2. QED BY <1>0, <2>1, SharedFuture DEF ChannelInv, dmaVars
<1>6. QED BY <1>1, <1>2, <1>3, <1>4, <1>5 DEF IInv

(* What Load and Store have in common. *)
LEMMA TransferEffect ==
    ASSUME UniformLevels, IInv, pc \in {"load", "store"}, TransferTensor, i' = i,
           NEW s \in Tensor, s = tensor
    PROVE  Issued(s) /\ ~Held(s)
<1>0. TypeOK /\ ControlInv /\ TransferInv /\ ChannelInv
    BY DEF IInv
<1>1. AllocFor(s) /\ Issue(s, 0, Rect(s, i))
    BY CurrentRect DEF TransferTensor
<1>2. None(s)
    BY <1>0, TensorFacts DEF TransferInv, InputAt, OutputAt
<1>3. UsesNewFuture(s) \/ SharesChannel(s)
    BY <1>0 DEF ChannelInv, SharesChannel
<1>4. ~Held(s)
    BY <1>0, TensorFacts DEF Held
<1>5. QED BY <1>0, <1>1, <1>2, <1>3, <1>4, IssueEffect

LEMMA LoadInv == ASSUME UniformLevels, IInv, Load PROVE IInv'
<1>0. TypeOK /\ ControlInv /\ TransferInv /\ ReferenceInv /\ ChannelInv
    BY DEF IInv
<1>1. /\ pc = "load" /\ i' = i /\ cur' = cur /\ tileIdx' = tileIdx
      /\ tensor \in Input /\ tensor \in Tensor /\ tensor \in 1..NIn
      /\ TransferTensor
    BY <1>0, TensorFacts DEF Load, ControlInv, Input
<1>a. PICK s \in Input : s = tensor
    BY <1>1
<1>2. Issued(s) /\ ~Held(s) /\ s \in Tensor
    BY <1>1, <1>a, TensorFacts, TransferEffect
<1>3. \/ tensor < NIn /\ tensor' = tensor + 1 /\ pc' = "load"
      \/ tensor = NIn /\ tensor' = 1 /\ pc' = "wait_inputs"
    BY <1>1, DmaAssumption DEF Load
<1>4. extRef' = IF tensor \in Tiled /\ tensor \notin L3Tensor
                THEN [extRef EXCEPT ![tensor] = @ + 1] ELSE extRef
    BY <1>1 DEF TransferTensor, UpdateReference
<1>b. s \in Nat /\ \A u \in Tensor : u \in Nat /\ u # s => (u < s \/ u > s)
    BY <1>1, <1>a, TensorFacts
<1>5. TypeOK'
  <2>1. extRef' \in [Tensor -> 0..NumTiles]
    <3>1. tensor \in Tiled /\ tensor \notin L3Tensor => extRef[tensor] = i
        BY <1>0, <1>1, TensorFacts DEF ReferenceInv, RefAt
    <3>2. i \in Nat /\ i + 1 \in 0..NumTiles
        BY <1>0, <1>1, InvocationFacts, DmaAssumption DEF ControlInv, TypeOK, LoopTypeOK
    <3>3. QED BY <1>0, <1>1, <1>4, <3>1, <3>2 DEF TypeOK, LoopTypeOK
  <2>2. tensor' \in Tensor
      BY <1>1, <1>3, TensorFacts, DmaAssumption DEF Input
  <2>3. QED BY <1>0, <1>1, <1>2, <1>3, <2>1, <2>2 DEF TypeOK, LoopTypeOK, PC, Issued
<1>6. ControlInv'
    BY <1>0, <1>1, <1>3, DmaAssumption DEF ControlInv, Input, FirstTile, LastTile
<1>7. TransferInv'
  <2>1. ASSUME NEW t \in Input PROVE InputAt(t)'
    <3>1. t <= s => Fetching(t)'
      <4>1. CASE t = s
        <5>1. Only(s)' /\ ~None(s)'
            BY <1>2, <1>a DEF Issued
        <5>2. Fetching(s)'
            BY <5>1 DEF Fetching
        <5>3. QED BY <4>1, <5>2
      <4>2. CASE t < s
        <5>1. Fetching(t) /\ FutureOf(t) # s /\ t # s
            BY <1>0, <1>1, <1>a, <4>2, FutureFacts, TensorFacts DEF TransferInv, InputAt
        <5>2. QED BY <1>2, <1>a, <5>1 DEF Issued
      <4>3. QED BY <4>1, <4>2, <1>b, TensorFacts
    <3>2. t > s => None(t)'
        BY <1>0, <1>1, <1>2, <1>a, <1>b, TensorFacts DEF Issued, TransferInv, InputAt
    <3>3. t \in Nat /\ t <= NIn /\ FutureOf(t) \in Nat /\ FutureOf(t) >= 1
        BY TensorFacts, FutureFacts, DmaAssumption DEF Input
    <3>4. QED BY <1>1, <1>3, <1>a, <1>b, <3>1, <3>2, <3>3, DmaAssumption DEF InputAt
  <2>2. ASSUME NEW o \in Output PROVE OutputAt(o)'
      BY <1>0, <1>1, <1>2, <1>3, <1>a, TensorFacts DEF Issued, TransferInv, OutputAt
  <2>3. QED BY <2>1, <2>2 DEF TransferInv
<1>8. ReferenceInv'
  <2>1. \A t \in Tensor \ Tiled : extRef'[t] = 0
      BY <1>0, <1>4 DEF ReferenceInv, TypeOK, LoopTypeOK
  <2>2. ASSUME NEW t \in Tiled \ L3Tensor PROVE RefAt(t)'
    <3>1. t \in Tensor /\ t \in Nat
        BY TensorFacts, DmaAssumption DEF Tensor
    <3>2. extRef'[t] = IF t = tensor THEN extRef[t] + 1 ELSE extRef[t]
        BY <1>0, <1>4, <2>2, <3>1 DEF TypeOK, LoopTypeOK
    <3>3. extRef[t] = IF t < tensor THEN i + 1 ELSE i
        BY <1>0, <1>1, <2>2 DEF ReferenceInv, RefAt
    <3>4. extRef'[t] = IF t < tensor + 1 THEN i + 1 ELSE i
        BY <1>1, <3>1, <3>2, <3>3
    <3>5. t \in Input <=> t < NIn + 1
        BY <3>1, DmaAssumption DEF Input, Tensor, Output
    <3>6. QED BY <1>1, <1>3, <3>1, <3>4, <3>5, DmaAssumption DEF RefAt
  <2>3. QED BY <2>1, <2>2 DEF ReferenceInv
<1>9. ChannelInv'
  <2>1. \A f \in Future : Held(f)' <=> Held(f) \/ f = s
      BY <1>1, <1>3, <1>a, TensorFacts, DmaAssumption DEF Held, Future, Input, Output, Tensor
  <2>2. ChannelsInUse'
      BY <1>0, <1>1, <1>2, <1>a, <2>1, AllocEffect DEF ChannelInv, ChannelsInUse, TransferTensor
  <2>3. pc' = "load" /\ ~UsesNewFuture(tensor') => SharesChannel(s)' /\ FutureOf(tensor') = FutureOf(s)
    <3>1. pc' = "load" => tensor' = tensor + 1 /\ tensor + 1 \in Input
        BY <1>1, <1>3, DmaAssumption DEF Input
    <3>2. QED BY <1>1, <1>2, <1>a, <3>1, SharedFuture DEF Issued
  <2>4. QED BY <1>3, <2>2, <2>3 DEF ChannelInv, ChannelsInUse, SharesChannel
<1>10. QED BY <1>5, <1>6, <1>7, <1>8, <1>9 DEF IInv

LEMMA WaitInputsInv == ASSUME IInv, WaitInputs PROVE IInv'
<1>0. TypeOK /\ ControlInv /\ TransferInv /\ ReferenceInv /\ ChannelInv
    BY DEF IInv
<1>1. /\ pc = "wait_inputs" /\ UNCHANGED <<i, cur, tileIdx, extRef>>
      /\ tensor \in Input /\ tensor \in Tensor /\ tensor \in 1..NIn
      /\ IF UsesNewFuture(tensor) THEN WaitFuture(tensor) ELSE UNCHANGED dmaVars
    BY <1>0, TensorFacts DEF WaitInputs, WaitFutures, ControlInv, Input
<1>2. \/ tensor < NIn /\ tensor' = tensor + 1 /\ pc' = "wait_inputs"
      \/ tensor = NIn /\ tensor' = NIn + 1 /\ pc' = "kernel"
    BY <1>1, DmaAssumption DEF WaitInputs, WaitFutures
<1>3. \A f \in Future : Held(f)' <=> Held(f) /\ f # tensor
    BY <1>1, <1>2, TensorFacts, DmaAssumption DEF Held, Future, Input, Output, Tensor
<1>4. UsesNewFuture(tensor) => Held(tensor)
    BY <1>1 DEF Held
<1>5. ChannelsInUse
    BY <1>0 DEF ChannelInv, ChannelsInUse
<1>6. /\ DmaTypeOK'
      /\ ChannelsInUse'
      /\ \A u \in Tensor : FutureOf(u) = tensor /\ Only(u) => None(u)'
      /\ \A u \in Tensor : /\ None(u) => None(u)'
                           /\ Only(u) => Only(u)'
      /\ \A u \in Input : /\ Holds(u) => Holds(u)'
                          /\ Fetching(u) => Fetching(u)'
    BY <1>0, <1>1, <1>3, <1>4, <1>5, WaitEffect
<1>a. PICK s \in Input : s = tensor
    BY <1>1
<1>b. s \in Nat /\ s <= NIn /\ NIn \in Nat
    BY <1>a, <1>1, DmaAssumption
<1>7. TypeOK'
  <2>1. tensor' \in Tensor
      BY <1>1, <1>2, TensorFacts, DmaAssumption DEF Input
  <2>2. QED BY <1>0, <1>1, <1>2, <1>6, <2>1 DEF TypeOK, LoopTypeOK, PC
<1>8. ControlInv'
    BY <1>0, <1>1, <1>2, DmaAssumption DEF ControlInv, Input, FirstTile, LastTile
<1>9. TransferInv'
  <2>1. ASSUME NEW t \in Input PROVE InputAt(t)'
    <3>0. t \in Tensor /\ FutureOf(t) \in Nat /\ FutureOf(t) <= NIn
        BY TensorFacts, FutureFacts, DmaAssumption DEF Input
    <3>1. IF FutureOf(t) < s THEN Ready(t) ELSE Fetching(t)
        BY <1>0, <1>1, <1>a DEF TransferInv, InputAt
    <3>2. FutureOf(t) < s + 1 => Ready(t)'
      <4>1. CASE FutureOf(t) < s
        <5>1. None(t) /\ Holds(t)
            BY <3>1, <4>1 DEF Ready
        <5>2. None(t)' /\ Holds(t)'
            BY <1>6, <3>0, <5>1
        <5>3. QED BY <5>2 DEF Ready
      <4>2. CASE FutureOf(t) = s
        <5>1. Fetching(t)
            BY <1>b, <3>1, <4>2
        <5>2. None(t)' /\ Fetching(t)'
            BY <1>6, <1>a, <3>0, <4>2, <5>1 DEF Fetching
        <5>3. QED BY <5>2 DEF Ready, Fetching
      <4>3. QED BY <1>b, <3>0, <4>1, <4>2
    <3>3. ~(FutureOf(t) < s + 1) => Fetching(t)'
        BY <1>6, <1>b, <3>0, <3>1
    <3>4. QED BY <1>1, <1>2, <1>a, <1>b, <3>0, <3>2, <3>3 DEF InputAt
  <2>2. ASSUME NEW o \in Output PROVE OutputAt(o)'
      BY <1>0, <1>1, <1>2, <1>6, TensorFacts DEF TransferInv, OutputAt
  <2>3. QED BY <2>1, <2>2 DEF TransferInv
<1>10. ReferenceInv'
    BY <1>0, <1>1, <1>2 DEF ReferenceInv, RefAt
<1>11. ChannelInv'
    BY <1>2, <1>6 DEF ChannelInv, ChannelsInUse
<1>12. QED BY <1>7, <1>8, <1>9, <1>10, <1>11 DEF IInv

LEMMA KernelInv == ASSUME IInv, Kernel PROVE IInv'
<1> USE DEF Kernel, RunKernel
<1>0. TypeOK /\ ControlInv /\ TransferInv /\ ReferenceInv /\ ChannelInv
    BY DEF IInv
<1>a. tensor = NIn + 1 /\ i \in Nat
    BY <1>0, DmaAssumption DEF ControlInv, TypeOK, LoopTypeOK
<1>1. TypeOK'
  <2>1. TileResult \subseteq Nat
      BY <1>a, DmaAssumption DEF TileResult, Junk
  <2>2. outBuf' \in [Output -> [Buffer -> SUBSET Nat]]
    <3>1. /\ outBuf \in [Output -> [Buffer -> SUBSET Nat]]
          /\ cur \in [Tensor -> Buffer]
        BY <1>0 DEF TypeOK, DmaTypeOK, LoopTypeOK
    <3>2. ASSUME NEW o \in Output
          PROVE  [outBuf[o] EXCEPT ![cur[o]] =
                     IF KeepsPartialSum
                     THEN outBuf[o][cur[o]] \cup TileResult ELSE TileResult]
                 \in [Buffer -> SUBSET Nat]
      <4>1. outBuf[o] \in [Buffer -> SUBSET Nat] /\ o \in Tensor
          BY <3>1, TensorFacts
      <4>2. cur[o] \in Buffer /\ outBuf[o][cur[o]] \in SUBSET Nat
          BY <3>1, <4>1
      <4>3. outBuf[o][cur[o]] \cup TileResult \in SUBSET Nat
          BY <2>1, <4>2
      <4>4. QED BY <2>1, <4>1, <4>2, <4>3
    <3>3. QED BY <3>2
  <2>3. QED BY <1>0, <2>2 DEF TypeOK, DmaTypeOK, LoopTypeOK, PC
<1>2. ControlInv'
    BY <1>0, TensorFacts DEF ControlInv, FirstTile, LastTile
<1>3. TransferInv'
  <2>1. ASSUME NEW t \in Input PROVE InputAt(t)'
      BY <1>0 DEF TransferInv, InputAt, Ready, None
  <2>2. ASSUME NEW o \in Output PROVE OutputAt(o)'
      BY <1>0, <1>a, DmaAssumption DEF TransferInv, OutputAt, None, Output
  <2>3. QED BY <2>1, <2>2 DEF TransferInv
<1>4. ReferenceInv'
  <2>1. ASSUME NEW t \in Tiled \ L3Tensor PROVE RefAt(t)'
    <3>1. t \in Tensor /\ (t \in Input <=> t < NIn + 1)
        BY DmaAssumption DEF Input, Tensor, Output
    <3>2. QED BY <1>0, <1>a, <2>1, <3>1 DEF ReferenceInv, RefAt
  <2>2. QED BY <1>0, <2>1 DEF ReferenceInv
<1>5. ChannelInv'
  <2>1. \A f \in Future : ~Held(f) /\ ~Held(f)'
      BY <1>a, DmaAssumption DEF Held, Future, Tensor, Input, Output
  <2>2. QED BY <1>0, <1>a, <2>1, SharedFuture DEF ChannelInv
<1>6. QED BY <1>1, <1>2, <1>3, <1>4, <1>5 DEF IInv

LEMMA StoreInv == ASSUME UniformLevels, IInv, Store PROVE IInv'
<1>0. TypeOK /\ ControlInv /\ TransferInv /\ ReferenceInv /\ ChannelInv
    BY DEF IInv
<1>1. /\ pc = "store" /\ i' = i /\ cur' = cur /\ tileIdx' = tileIdx
      /\ tensor \in Output /\ tensor \in Tensor /\ tensor \in (NIn + 1)..(NIn + NOut)
      /\ TransferTensor
    BY <1>0, TensorFacts DEF Store, ControlInv, Output
<1>a. PICK s \in Output : s = tensor
    BY <1>1
<1>2. Issued(s) /\ ~Held(s) /\ s \in Tensor
    BY <1>1, <1>a, TensorFacts, TransferEffect
<1>3. \/ tensor < NIn + NOut /\ tensor' = tensor + 1 /\ pc' = "store"
      \/ tensor = NIn + NOut /\ tensor' = NIn + 1 /\ pc' = "wait_outputs"
    BY <1>1, DmaAssumption DEF Store
<1>4. extRef' = IF tensor \in Tiled /\ tensor \notin L3Tensor
                THEN [extRef EXCEPT ![tensor] = @ + 1] ELSE extRef
    BY <1>1 DEF TransferTensor, UpdateReference
<1>b. s \in Nat /\ \A u \in Tensor : u \in Nat /\ u # s => (u < s \/ u > s)
    BY <1>1, <1>a, TensorFacts
<1>5. TypeOK'
  <2>1. extRef' \in [Tensor -> 0..NumTiles]
    <3>1. tensor \in Tiled /\ tensor \notin L3Tensor => extRef[tensor] = i
        BY <1>0, <1>1, TensorFacts DEF ReferenceInv, RefAt
    <3>2. i \in Nat /\ i + 1 \in 0..NumTiles
        BY <1>0, <1>1, InvocationFacts, DmaAssumption DEF ControlInv, TypeOK, LoopTypeOK
    <3>3. QED BY <1>0, <1>1, <1>4, <3>1, <3>2 DEF TypeOK, LoopTypeOK
  <2>2. tensor' \in Tensor
      BY <1>1, <1>3, TensorFacts, DmaAssumption DEF Output
  <2>3. QED BY <1>0, <1>1, <1>2, <1>3, <2>1, <2>2 DEF TypeOK, LoopTypeOK, PC, Issued
<1>6. ControlInv'
    BY <1>0, <1>1, <1>3, DmaAssumption DEF ControlInv, Output, FirstTile, LastTile
<1>7. TransferInv'
  <2>1. ASSUME NEW o \in Output PROVE OutputAt(o)'
    <3>1. o <= s => Only(o)'
      <4>1. CASE o = s
        <5>1. Only(s)'
            BY <1>2, <1>a DEF Issued
        <5>2. QED BY <4>1, <5>1
      <4>2. CASE o < s
        <5>1. Only(o) /\ FutureOf(o) # s /\ o # s
            BY <1>0, <1>1, <1>a, <4>2, FutureFacts, TensorFacts DEF TransferInv, OutputAt
        <5>2. QED BY <1>2, <1>a, <5>1, TensorFacts DEF Issued
      <4>3. QED BY <4>1, <4>2, <1>b, TensorFacts
    <3>2. o > s => None(o)'
        BY <1>0, <1>1, <1>2, <1>a, <1>b, TensorFacts DEF Issued, TransferInv, OutputAt
    <3>3. o \in Nat /\ o <= NIn + NOut /\ FutureOf(o) \in Nat /\ FutureOf(o) >= NIn + 1
        BY TensorFacts, FutureFacts, DmaAssumption DEF Output
    <3>4. QED BY <1>1, <1>3, <1>a, <1>b, <3>1, <3>2, <3>3, DmaAssumption DEF OutputAt
  <2>2. ASSUME NEW t \in Input PROVE InputAt(t)'
      BY <1>0, <1>1, <1>2, <1>3, <1>a, TensorFacts DEF Issued, TransferInv, InputAt
  <2>3. QED BY <2>1, <2>2 DEF TransferInv
<1>8. ReferenceInv'
  <2>1. \A t \in Tensor \ Tiled : extRef'[t] = 0
      BY <1>0, <1>4 DEF ReferenceInv, TypeOK, LoopTypeOK
  <2>2. ASSUME NEW t \in Tiled \ L3Tensor PROVE RefAt(t)'
    <3>1. t \in Tensor /\ t \in Nat /\ t <= NIn + NOut
        BY TensorFacts, DmaAssumption DEF Tensor
    <3>2. extRef'[t] = IF t = tensor THEN extRef[t] + 1 ELSE extRef[t]
        BY <1>0, <1>4, <2>2, <3>1 DEF TypeOK, LoopTypeOK
    <3>3. extRef[t] = IF t < tensor THEN i + 1 ELSE i
        BY <1>0, <1>1, <2>2 DEF ReferenceInv, RefAt
    <3>4. extRef'[t] = IF t < tensor + 1 THEN i + 1 ELSE i
        BY <1>1, <3>1, <3>2, <3>3
    <3>5. QED BY <1>1, <1>3, <3>1, <3>4, DmaAssumption DEF RefAt
  <2>3. QED BY <2>1, <2>2 DEF ReferenceInv
<1>9. ChannelInv'
  <2>1. \A f \in Future : Held(f)' <=> Held(f) \/ f = s
      BY <1>1, <1>3, <1>a, TensorFacts, DmaAssumption DEF Held, Future, Input, Output, Tensor
  <2>2. ChannelsInUse'
      BY <1>0, <1>1, <1>2, <1>a, <2>1, AllocEffect DEF ChannelInv, ChannelsInUse, TransferTensor
  <2>3. pc' = "store" /\ ~UsesNewFuture(tensor') => SharesChannel(s)' /\ FutureOf(tensor') = FutureOf(s)
    <3>1. pc' = "store" => tensor' = tensor + 1 /\ tensor + 1 \in Output
        BY <1>1, <1>3, DmaAssumption DEF Output
    <3>2. QED BY <1>1, <1>2, <1>a, <3>1, SharedFuture DEF Issued
  <2>4. QED BY <1>3, <2>2, <2>3 DEF ChannelInv, ChannelsInUse, SharesChannel
<1>10. QED BY <1>5, <1>6, <1>7, <1>8, <1>9 DEF IInv

LEMMA WaitOutputsInv == ASSUME IInv, WaitOutputs PROVE IInv'
<1>0. TypeOK /\ ControlInv /\ TransferInv /\ ReferenceInv /\ ChannelInv
    BY DEF IInv
<1>1. /\ pc = "wait_outputs" /\ UNCHANGED <<cur, tileIdx, extRef>>
      /\ tensor \in Output /\ tensor \in Tensor /\ tensor \in (NIn + 1)..(NIn + NOut)
      /\ IF UsesNewFuture(tensor) THEN WaitFuture(tensor) ELSE UNCHANGED dmaVars
    BY <1>0, TensorFacts DEF WaitOutputs, WaitFutures, ControlInv, Output
<1>2. \/ tensor < NIn + NOut /\ tensor' = tensor + 1 /\ pc' = "wait_outputs" /\ i' = i
      \/ tensor = NIn + NOut /\ tensor' = 1 /\ pc' = "loop" /\ i' = i + 1
    BY <1>1, DmaAssumption DEF WaitOutputs, WaitFutures
<1>3. \A f \in Future : Held(f)' <=> Held(f) /\ f # tensor
    BY <1>1, <1>2, TensorFacts, DmaAssumption DEF Held, Future, Input, Output, Tensor
<1>4. UsesNewFuture(tensor) => Held(tensor)
    BY <1>1 DEF Held
<1>5. ChannelsInUse
    BY <1>0 DEF ChannelInv, ChannelsInUse
<1>c. i \in Nat /\ i + 1 \in 0..NumTiles /\ tileIdx < Invocations
    BY <1>0, <1>1, InvocationFacts, DmaAssumption DEF ControlInv, TypeOK, LoopTypeOK
<1>6. /\ DmaTypeOK'
      /\ ChannelsInUse'
      /\ \A u \in Tensor : FutureOf(u) = tensor /\ Only(u) => None(u)'
      /\ \A u \in Tensor : None(u) => None(u)'
      /\ i' = i => \A u \in Tensor : Only(u) => Only(u)'
    BY <1>0, <1>1, <1>3, <1>4, <1>5, WaitEffect
<1>a. PICK s \in Output : s = tensor
    BY <1>1
<1>b. s \in Nat /\ s <= NIn + NOut /\ NIn \in Nat /\ NOut \in Nat
    BY <1>a, <1>1, DmaAssumption
<1>7. TypeOK'
  <2>1. tensor' \in Tensor
      BY <1>1, <1>2, TensorFacts, DmaAssumption DEF Output
  <2>2. i' \in 0..NumTiles
      BY <1>2, <1>c, DmaAssumption
  <2>3. QED BY <1>0, <1>1, <1>2, <1>6, <2>1, <2>2 DEF TypeOK, LoopTypeOK, PC
<1>8. ControlInv'
  <2>1. FirstTile \in Nat /\ LastTile \in Nat /\ FirstTile <= i /\ i <= LastTile
      BY <1>0, <1>1, <1>c, InvocationFacts DEF ControlInv
  <2>2. FirstTile' = FirstTile /\ LastTile' = LastTile
      BY <1>1 DEF FirstTile, LastTile
  <2>3. tensor' \in Output \/ pc' = "loop"
      BY <1>1, <1>2, DmaAssumption DEF Output
  <2>4. QED BY <1>0, <1>1, <1>2, <1>c, <2>1, <2>2, <2>3 DEF ControlInv
<1>9. TransferInv'
  <2>1. ASSUME NEW o \in Output PROVE OutputAt(o)'
    <3>0. o \in Tensor /\ FutureOf(o) \in Nat /\ FutureOf(o) <= NIn + NOut
        BY TensorFacts, FutureFacts, DmaAssumption DEF Output
    <3>1. IF FutureOf(o) < s THEN None(o) ELSE Only(o)
        BY <1>0, <1>1, <1>a DEF TransferInv, OutputAt
    <3>2. FutureOf(o) < s + 1 => None(o)'
      <4>1. CASE FutureOf(o) < s
          BY <1>6, <3>0, <3>1, <4>1
      <4>2. CASE FutureOf(o) = s
          BY <1>6, <1>a, <1>b, <3>0, <3>1, <4>2
      <4>3. QED BY <1>b, <3>0, <4>1, <4>2
    <3>3. ~(FutureOf(o) < s + 1) /\ i' = i => Only(o)'
        BY <1>6, <1>b, <3>0, <3>1
    <3>4. QED BY <1>1, <1>2, <1>a, <1>b, <3>0, <3>2, <3>3 DEF OutputAt
  <2>2. ASSUME NEW t \in Input PROVE InputAt(t)'
      BY <1>0, <1>1, <1>2, <1>6, TensorFacts DEF TransferInv, InputAt
  <2>3. QED BY <2>1, <2>2 DEF TransferInv
<1>10. ReferenceInv'
    BY <1>0, <1>1, <1>2 DEF ReferenceInv, RefAt
<1>11. ChannelInv'
    BY <1>2, <1>6 DEF ChannelInv, ChannelsInUse
<1>12. QED BY <1>7, <1>8, <1>9, <1>10, <1>11 DEF IInv

LEMMA LeaveLoopInv == ASSUME IInv, LeaveLoop PROVE IInv'
<1> USE DEF LeaveLoop, CloseLoop
<1>0. TypeOK /\ ControlInv /\ TransferInv /\ ReferenceInv /\ ChannelInv
    BY DEF IInv
<1>1. TypeOK'
  <2>1. tileIdx' \in 0..Invocations
      BY <1>0, Boundaries DEF ControlInv, TypeOK, LoopTypeOK
  <2>2. QED BY <1>0, <2>1, TensorFacts DEF TypeOK, LoopTypeOK, DmaTypeOK, PC, dmaVars
<1>2. ControlInv'
    BY <1>0 DEF ControlInv
<1>3. TransferInv'
    BY <1>0 DEF TransferInv, InputAt, OutputAt, None, dmaVars
<1>4. ReferenceInv'
    BY <1>0 DEF ReferenceInv, RefAt
<1>5. ChannelInv'
  <2>1. \A f \in Future : ~Held(f) /\ ~Held(f)'
      BY DEF Held
  <2>2. QED BY <1>0, <2>1 DEF ChannelInv, dmaVars
<1>6. QED BY <1>1, <1>2, <1>3, <1>4, <1>5 DEF IInv

LEMMA DmaInv == ASSUME IInv, DmaStep PROVE IInv'
<1>0. TypeOK /\ ControlInv /\ TransferInv /\ ReferenceInv /\ ChannelInv
    BY DEF IInv
<1>a. UNCHANGED loopVars /\ UNCHANGED <<pc, tensor, tileIdx, i, cur, extRef>>
    BY DEF DmaStep, loopVars
<1>b. PICK x \in pending : CompleteTransfer(x)
    BY DEF DmaStep
<1>c. /\ DmaTypeOK'
      /\ \A u \in Tensor : /\ None(u) => None(u)'
                           /\ Only(u) => Only(u)'
      /\ \A u \in Input : /\ None(u) /\ Holds(u) => Holds(u)'
                          /\ Fetching(u) => Fetching(u)'
    BY <1>0, <1>a, <1>b, CompleteEffect
<1>1. TypeOK'
    BY <1>0, <1>a, <1>c DEF TypeOK, LoopTypeOK
<1>2. ControlInv'
    BY <1>0, <1>a DEF ControlInv, FirstTile, LastTile
<1>3. TransferInv'
  <2>1. ASSUME NEW t \in Input PROVE InputAt(t)'
    <3>1. Ready(t) => Ready(t)'
        BY <1>c, TensorFacts DEF Ready
    <3>2. /\ None(t) => None(t)'
          /\ Fetching(t) => Fetching(t)'
        BY <1>c, TensorFacts
    <3>3. InputAt(t)
        BY <1>0 DEF TransferInv
    <3>4. QED BY <1>a, <3>1, <3>2, <3>3 DEF InputAt
  <2>2. ASSUME NEW o \in Output PROVE OutputAt(o)'
    <3>1. /\ None(o) => None(o)'
          /\ Only(o) => Only(o)'
        BY <1>c, TensorFacts
    <3>2. OutputAt(o)
        BY <1>0 DEF TransferInv
    <3>3. QED BY <1>a, <3>1, <3>2 DEF OutputAt
  <2>3. QED BY <2>1, <2>2 DEF TransferInv
<1>4. ReferenceInv'
    BY <1>0, <1>a DEF ReferenceInv, RefAt
<1>5. ChannelInv'
    BY <1>0, <1>a, <1>b DEF ChannelInv, Held, CompleteTransfer
<1>6. QED BY <1>1, <1>2, <1>3, <1>4, <1>5 DEF IInv

LEMMA StutterInv == ASSUME IInv, UNCHANGED vars PROVE IInv'
<1> USE DEF IInv, vars, dmaVars, loopVars
<1>1. TypeOK' BY DEF TypeOK, DmaTypeOK, LoopTypeOK
<1>2. ControlInv' BY DEF ControlInv, FirstTile, LastTile
<1>3. TransferInv'
    BY DEF TransferInv, InputAt, OutputAt, None, Only, Holds, Fetching, Ready
<1>4. ReferenceInv' BY DEF ReferenceInv, RefAt
<1>5. ChannelInv' BY DEF ChannelInv, Held
<1>6. QED BY <1>1, <1>2, <1>3, <1>4, <1>5

LEMMA StepInv == ASSUME UniformLevels, IInv, [Next]_vars PROVE IInv'
<1>1. ASSUME CoreStep PROVE IInv'
    BY <1>1, EnterInv, OpenTileInv, LoadInv, WaitInputsInv, KernelInv, StoreInv,
       WaitOutputsInv, LeaveLoopInv DEF CoreStep
<1>2. ASSUME Idle PROVE IInv'
    BY <1>2, StutterInv DEF Idle, vars
<1>3. QED BY <1>1, <1>2, DmaInv, StutterInv DEF Next

LEMMA Invariant == ASSUME UniformLevels PROVE Spec => []IInv
<1>1. Init => IInv BY InitInv
<1>2. IInv /\ [Next]_vars => IInv' BY StepInv
<1>3. QED BY <1>1, <1>2, PTL DEF Spec

-----------------------------------------------------------------------------
(* The state of the single-buffered loop always has its type.              *)
THEOREM TypesKept == ASSUME UniformLevels PROVE Spec => []TypeOK
<1>1. IInv => TypeOK BY DEF IInv
<1>2. QED BY <1>1, Invariant, PTL

(* Whenever the kernel runs, its inputs are those of its tile and the DMA  *)
(* is idle.                                                                *)
THEOREM KernelAlone == ASSUME UniformLevels PROVE Spec => []KernelIsAlone
<1>1. IInv => KernelIsAlone
  <2> SUFFICES ASSUME IInv, pc = "kernel" PROVE InputsLoaded /\ pending = {}
      BY DEF KernelIsAlone
  <2>1. \A t \in Input : Ready(t)
      BY DEF IInv, TransferInv, InputAt
  <2>2. \A t \in Tensor : None(t)
      BY <2>1, TensorFacts DEF IInv, TransferInv, OutputAt, Ready, Tensor
  <2>3. pending = {}
      BY <2>2 DEF None, IInv, TypeOK, DmaTypeOK, Transfer
  <2>4. InputsLoaded
      BY <2>1, TensorFacts DEF InputsLoaded, Ready, Holds, IInv, ControlInv
  <2>5. QED BY <2>3, <2>4
<1>2. QED BY <1>1, Invariant, PTL

(* Each wait is on a channel in use and every channel taken for a tile is  *)
(* given back: the loop can run for ever on the channels there are.        *)
THEOREM ChannelsKept == ASSUME UniformLevels PROVE Spec => []ChannelsAccounted
<1>1. IInv => ChannelsAccounted
  <2> SUFFICES ASSUME IInv PROVE ChannelsAccounted
      OBVIOUS
  <2>1. pc \in {"wait_inputs", "wait_outputs"} /\ UsesNewFuture(tensor) => channel[tensor] \notin free
    <3>1. tensor \in Tensor
        BY DEF IInv, TypeOK, LoopTypeOK
    <3>2. QED BY <3>1, FutureFacts, TensorFacts DEF IInv, ChannelInv, ControlInv, Held
  <2>2. ASSUME NEW x \in pending PROVE x.chan \notin free
    <3>1. x.tensor \in Tensor /\ ~None(x.tensor)
        BY <2>2 DEF IInv, TypeOK, DmaTypeOK, Transfer, None
    <3>2. PICK t \in Tensor : t = x.tensor
        BY <3>1
    <3>3. Only(t) /\ Held(FutureOf(t))
      <4>1. CASE t \in Input
          BY <3>1, <3>2, <4>1, FutureFacts, TensorFacts
          DEF IInv, TypeOK, LoopTypeOK, PC, TransferInv, InputAt, Fetching, Ready, Held
      <4>2. CASE t \in Output
          BY <3>1, <3>2, <4>2, FutureFacts, TensorFacts
          DEF IInv, TypeOK, LoopTypeOK, PC, TransferInv, OutputAt, Held
      <4>3. QED BY <4>1, <4>2, TensorFacts DEF Tensor
    <3>4. x.chan = channel[FutureOf(t)]
        BY <2>2, <3>2, <3>3 DEF Only
    <3>5. QED BY <3>3, <3>4, FutureFacts DEF IInv, ChannelInv
  <2>3. pc \in {"call", "loop", "kernel"} => ChannelsHeld = {}
      BY DEF IInv, ChannelInv, Held, ChannelsHeld
  <2>4. QED BY <2>1, <2>2, <2>3 DEF ChannelsAccounted
<1>2. QED BY <1>1, Invariant, PTL

-----------------------------------------------------------------------------
(***************************************************************************)
(* What the single-buffered loop delivers, proved on top of the invariant  *)
(* of SingleBufferingProofs: after n tiles every rectangle of an output    *)
(* holds the results of those of the n tiles that belong in it, also when  *)
(* a weight gradient adds tile after tile to the one rectangle it has, and *)
(* also over the invocations of an outer loop.                             *)
(***************************************************************************)

(* Each tile has a rectangle of its own, or the kernel accumulates over the *)
(* invocations of the outer loop, one tile each.                            *)
Delivering ==
    /\ UniformLevels
    /\ IF Accumulates THEN HasOuterDriver ELSE Output \subseteq Tiled

(* The number of tiles computed, and of tiles of o whose store was issued.  *)
Done ==
    IF pc = "call" THEN numTiles[tileIdx]
    ELSE IF pc \in {"store", "wait_outputs"} THEN i + 1 ELSE i

Sent(o) == IF pc = "store" /\ o >= tensor THEN i ELSE Done

(* The number of tiles of o that have arrived. *)
Arrived(o) == IF None(o) THEN Sent(o) ELSE Sent(o) - 1

(* The first n tiles' results in rectangle r of output o. *)
Upto(o, n, r) == {m \in Tile : m < n /\ Rect(o, m) = r}

ResultAt(o) ==
    /\ \A r \in Tile : external[o][r] = Upto(o, Arrived(o), r)
    /\ Done # 0 => outBuf[o][0] = Upto(o, Done, Rect(o, Done - 1))

ResultInv == \A o \in Output : ResultAt(o)

RInv == IInv /\ ResultInv

-----------------------------------------------------------------------------
LEMMA UptoFacts ==
    ASSUME NEW o \in Output, NEW n \in Tile
    PROVE  /\ n \in Nat /\ Rect(o, n) \in Tile
           /\ Upto(o, n + 1, Rect(o, n)) = Upto(o, n, Rect(o, n)) \cup {n}
           /\ \A r \in Tile : r # Rect(o, n) => Upto(o, n + 1, r) = Upto(o, n, r)
<1>1. n \in Nat /\ 0 \in Tile /\ \A m \in Tile : m \in Nat /\ (m < n + 1 <=> m < n \/ m = n)
    BY DmaAssumption DEF Tile
<1>2. QED BY <1>1 DEF Upto, Rect

LEMMA DoneFacts == ASSUME IInv PROVE Done \in Nat /\ i \in Nat
BY Boundaries, DmaAssumption DEF IInv, TypeOK, LoopTypeOK, Done

(* The values that ResultAt is about, when a step computes and stores        *)
(* nothing.                                                                  *)
LEMMA SameResults ==
    ASSUME RInv, UNCHANGED <<outBuf, external>>, Done' = Done,
           \A o \in Output : Arrived(o)' = Arrived(o)
    PROVE  ResultInv'
<1> SUFFICES ASSUME NEW o \in Output PROVE ResultAt(o)'
    BY DEF ResultInv
<1>1. ResultAt(o)
    BY DEF RInv, ResultInv
<1>2. \A n, r : Upto(o, n, r)' = Upto(o, n, r)
    BY DEF Upto, Rect
<1>a. PICK a, d : a = Arrived(o) /\ d = Done
    OBVIOUS
<1>3. /\ \A r \in Tile : external'[o][r] = Upto(o, a, r)
      /\ d # 0 => outBuf'[o][0] = Upto(o, d, Rect(o, d - 1))
    BY <1>1, <1>a DEF ResultAt
<1>4. Arrived(o)' = a /\ Done' = d
    BY <1>a
<1>5. QED BY <1>3, <1>4 DEF ResultAt

LEMMA InitResults == ASSUME Init PROVE ResultInv
<1> USE DEF Init, DmaInit, LoopInit
<1>1. Done = 0 /\ \A o \in Output : Arrived(o) = 0
    BY Boundaries DEF Done, Arrived, Sent, None
<1>2. \A o \in Output, r \in Tile : external[o][r] = {} /\ Upto(o, 0, r) = {}
    BY DmaAssumption DEF Upto, Tile
<1>3. QED BY <1>1, <1>2 DEF ResultInv, ResultAt

LEMMA EnterResults == ASSUME RInv, Enter PROVE ResultInv'
<1> USE DEF Enter, EnterClosure
<1>1. UNCHANGED <<outBuf, external>> /\ Done' = Done
    BY DEF Done, FirstTile
<1>2. ASSUME NEW o \in Output PROVE Arrived(o)' = Arrived(o)
    BY <1>1 DEF Arrived, Sent, None, Done
<1>3. QED BY <1>1, <1>2, SameResults

LEMMA OpenTileResults == ASSUME RInv, OpenTile PROVE ResultInv'
<1> USE DEF OpenTile, dmaVars
<1>1. UNCHANGED <<outBuf, external>> /\ Done' = Done
    BY DEF Done
<1>2. ASSUME NEW o \in Output PROVE Arrived(o)' = Arrived(o)
    BY <1>1 DEF Arrived, Sent, None, Done
<1>3. QED BY <1>1, <1>2, SameResults

LEMMA LoadResults == ASSUME RInv, Load PROVE ResultInv'
<1>0. tensor \in Input /\ pc = "load" /\ pc' \in {"load", "wait_inputs"} /\ i' = i
    BY DEF RInv, IInv, ControlInv, Load
<1>1. UNCHANGED <<outBuf, external>> /\ Done' = Done
    BY <1>0 DEF Done, Load, TransferTensor, Issue
<1>2. ASSUME NEW o \in Output PROVE Arrived(o)' = Arrived(o)
  <2>1. None(o)' <=> None(o)
      BY <1>0, TensorFacts DEF None, Load, TransferTensor, Issue
  <2>2. QED BY <1>0, <1>1, <2>1 DEF Arrived, Sent
<1>3. QED BY <1>1, <1>2, SameResults

LEMMA WaitInputsResults == ASSUME RInv, WaitInputs PROVE ResultInv'
<1>0. /\ pc = "wait_inputs" /\ pc' \in {"wait_inputs", "kernel"} /\ i' = i
      /\ UNCHANGED <<pending, outBuf, external>>
    BY DEF WaitInputs, WaitFutures, WaitFuture, dmaVars
<1>1. Done' = Done
    BY <1>0 DEF Done
<1>2. ASSUME NEW o \in Output PROVE Arrived(o)' = Arrived(o)
    BY <1>0, <1>1 DEF Arrived, Sent, None
<1>3. QED BY <1>0, <1>1, <1>2, SameResults

LEMMA KernelResults == ASSUME Delivering, RInv, Kernel PROVE ResultInv'
<1> USE DEF Kernel, RunKernel
<1>0. /\ pc = "kernel" /\ pc' = "store" /\ i' = i /\ tensor' = NIn + 1
      /\ tileIdx < Invocations /\ FirstTile <= i /\ i <= LastTile
      /\ \A t \in Tensor : cur[t] = 0
      /\ TypeOK /\ UNCHANGED <<pending, external>>
    BY DEF RInv, IInv, ControlInv
<1>a. PICK n \in Tile : n = i
    BY <1>0, InvocationFacts, DmaAssumption DEF TypeOK, LoopTypeOK, Tile
<1>1. TileResult = {n}
  <2>1. \A t \in Input : inBuf[t][cur[t]] = Rect(t, i)
      BY <1>0, TensorFacts DEF RInv, IInv, TransferInv, InputAt, Ready, Holds
  <2>2. QED BY <1>a, <2>1 DEF TileResult, InputsLoaded
<1>2. ASSUME NEW o \in Output PROVE ResultAt(o)'
  <2>0. o \in Tensor /\ o >= NIn + 1 /\ n \in Nat
      BY <1>a, UptoFacts, TensorFacts, DmaAssumption DEF Output
  <2>1. Done = n /\ Done' = n + 1
      BY <1>0, <1>a DEF Done
  <2>2. ResultAt(o)
      BY DEF RInv, ResultInv
  <2>3. outBuf[o] \in [Buffer -> SUBSET Nat] /\ cur[o] = 0
      BY <1>0, <2>0 DEF TypeOK, DmaTypeOK
  <2>4. outBuf'[o][0] = IF KeepsPartialSum THEN outBuf[o][0] \cup {n} ELSE {n}
      BY <1>1, <2>3, OneBufferFacts
  <2>5. outBuf'[o][0] = Upto(o, n + 1, Rect(o, n))
    <3>1. CASE KeepsPartialSum
      <4>1. HasOuterDriver /\ tileIdx # 0 /\ o \notin Tiled
          BY <3>1, LoopAssumption DEF KeepsPartialSum, Delivering
      <4>2. n = tileIdx /\ n # 0
          BY <1>0, <1>a, <2>0, <4>1, InvocationFacts DEF TypeOK, LoopTypeOK
      <4>3. outBuf[o][0] = Upto(o, n, Rect(o, n))
          BY <2>1, <2>2, <4>1, <4>2 DEF ResultAt, Rect
      <4>4. QED BY <2>4, <3>1, <4>3, UptoFacts
    <3>2. CASE ~KeepsPartialSum
      <4>1. Upto(o, n, Rect(o, n)) = {}
        <5>1. CASE Accumulates
          <6>1. tileIdx = 0 /\ HasOuterDriver
              BY <3>2, <5>1 DEF KeepsPartialSum, Delivering
          <6>2. n = 0
              BY <1>0, <1>a, <2>0, <6>1, InvocationFacts DEF TypeOK, LoopTypeOK
          <6>3. QED BY <6>2, DmaAssumption DEF Upto, Tile
        <5>2. CASE ~Accumulates
          <6>1. o \in Tiled
              BY <5>2 DEF Delivering
          <6>2. QED BY <2>0, <6>1, DmaAssumption DEF Upto, Rect, Tile
        <5>3. QED BY <5>1, <5>2
      <4>2. QED BY <2>4, <3>2, <4>1, UptoFacts
    <3>3. QED BY <3>1, <3>2
  <2>6. Sent(o)' = n /\ Sent(o) = n
      BY <1>0, <1>a, <2>0, <2>1 DEF Sent
  <2>7. Arrived(o)' = n /\ Arrived(o) = n
    <3>1. None(o) /\ (None(o)' <=> None(o))
        BY <1>0 DEF None, RInv, IInv, TransferInv, OutputAt
    <3>2. QED BY <2>6, <3>1 DEF Arrived
  <2>8. \A r \in Tile : external'[o][r] = Upto(o, n, r)
      BY <1>0, <2>2, <2>7 DEF ResultAt
  <2>9. (n + 1) - 1 = n
      BY <2>0
  <2>10. QED BY <2>1, <2>5, <2>7, <2>8, <2>9 DEF ResultAt
<1>3. QED BY <1>2 DEF ResultInv

LEMMA StoreResults == ASSUME Delivering, RInv, Store PROVE ResultInv'
<1>0. /\ pc = "store" /\ i' = i /\ i \in Nat
      /\ tensor \in Output /\ TransferTensor
      /\ UNCHANGED <<outBuf, external>>
    BY DoneFacts DEF RInv, IInv, ControlInv, Store, TransferTensor, Issue
<1>a. PICK s \in Output, n \in Nat : s = tensor /\ n = i
    BY <1>0
<1>b. s \in Tensor /\ s \in Nat /\ \A o \in Output : o \in Nat /\ o <= NIn + NOut
    BY TensorFacts, DmaAssumption DEF Output
<1>1. \/ pc' = "store" /\ tensor' = s + 1
      \/ pc' = "wait_outputs" /\ s = NIn + NOut
    BY <1>a, <1>b, DmaAssumption DEF Store
<1>2. Done = n + 1 /\ Done' = n + 1
    BY <1>0, <1>1, <1>a DEF Done
<1>3. None(s) /\ ~None(s)'
  <2>1. Issued(s)
      BY <1>0, <1>a, <1>b, TransferEffect DEF RInv, Delivering
  <2>2. None(s)
      BY <1>0, <1>a, <1>b DEF RInv, IInv, TransferInv, OutputAt
  <2>3. QED BY <2>1, <2>2 DEF Issued
<1>4. ASSUME NEW o \in Output PROVE Arrived(o)' = Arrived(o)
  <2>1. CASE o = s
    <3>1. Sent(s) = n
        BY <1>0, <1>a, <1>b DEF Sent
    <3>2. Sent(s)' = n + 1
        BY <1>1, <1>2, <1>b DEF Sent
    <3>3. QED BY <1>3, <1>a, <2>1, <3>1, <3>2 DEF Arrived
  <2>2. CASE o # s
    <3>1. None(o)' <=> None(o)
        BY <1>0, <1>a, <2>2 DEF None, TransferTensor, Issue
    <3>2. Sent(o)' = Sent(o)
        BY <1>0, <1>1, <1>2, <1>a, <1>b, <2>2 DEF Sent
    <3>3. QED BY <3>1, <3>2 DEF Arrived
  <2>3. QED BY <2>1, <2>2
<1>5. QED BY <1>0, <1>2, <1>4, SameResults

LEMMA WaitOutputsResults == ASSUME RInv, WaitOutputs PROVE ResultInv'
<1>0. /\ pc = "wait_outputs"
      /\ \/ pc' = "wait_outputs" /\ i' = i
         \/ pc' = "loop" /\ i' = i + 1
      /\ UNCHANGED <<pending, outBuf, external>>
    BY DEF WaitOutputs, WaitFutures, WaitFuture, dmaVars
<1>1. Done' = Done
    BY <1>0 DEF Done
<1>2. ASSUME NEW o \in Output PROVE Arrived(o)' = Arrived(o)
    BY <1>0, <1>1 DEF Arrived, Sent, None
<1>3. QED BY <1>0, <1>1, <1>2, SameResults

LEMMA LeaveLoopResults == ASSUME RInv, LeaveLoop PROVE ResultInv'
<1> USE DEF LeaveLoop, CloseLoop, dmaVars
<1>0. /\ pc = "loop" /\ pc' = "call" /\ UNCHANGED <<pending, outBuf, external>>
      /\ TypeOK /\ tileIdx < Invocations /\ i <= LastTile + 1 /\ i > LastTile
    BY DEF RInv, IInv, ControlInv
<1>1. Done' = Done
  <2>1. i = LastTile + 1 /\ LastTile = numTiles[tileIdx + 1] - 1
      BY <1>0, InvocationFacts, DoneFacts DEF LastTile, RInv
  <2>2. numTiles[tileIdx + 1] \in Int
      BY <1>0, InvocationFacts, Boundaries
  <2>3. i = numTiles[tileIdx']
      BY <2>1, <2>2
  <2>4. QED BY <1>0, <2>3 DEF Done, numTiles
<1>2. ASSUME NEW o \in Output PROVE Arrived(o)' = Arrived(o)
    BY <1>0, <1>1 DEF Arrived, Sent, None
<1>3. QED BY <1>0, <1>1, <1>2, SameResults

(* The transfer of an output that completes is that of the current tile,   *)
(* the next one to arrive.                                                 *)
LEMMA CompletedOutput ==
    ASSUME RInv, NEW x \in pending, CompleteTransfer(x),
           NEW o \in Output, x.tensor = o
    PROVE  \E n \in Tile :
               /\ n = i /\ Sent(o) = n + 1 /\ Done = n + 1 /\ Arrived(o) = n
               /\ outBuf[o][0] = Upto(o, n + 1, Rect(o, n))
               /\ \A r \in Tile : external[o][r] = Upto(o, n, r)
               /\ external' = [external EXCEPT ![o][Rect(o, n)] = Upto(o, n + 1, Rect(o, n))]
               /\ None(o)'
<1>0. /\ ~None(o) /\ ResultAt(o) /\ o \in Tensor
      /\ TypeOK /\ ControlInv /\ OutputAt(o) /\ i \in Nat
    BY TensorFacts, DoneFacts DEF None, RInv, IInv, TransferInv, ResultInv
<1>1. Only(o) /\ ((pc = "store" /\ o < tensor) \/ pc = "wait_outputs")
    BY <1>0 DEF OutputAt, TypeOK, PC
<1>2. PICK n \in Tile : n = i
    BY <1>0, <1>1, InvocationFacts, DmaAssumption DEF ControlInv, Tile
<1>3. o \in Nat /\ tensor \in Nat /\ n \in Nat
    BY <1>0, <1>2, TensorFacts, UptoFacts DEF TypeOK, LoopTypeOK
<1>4. Done = n + 1 /\ Sent(o) = n + 1 /\ Arrived(o) = n
    BY <1>0, <1>1, <1>2, <1>3 DEF Done, Sent, Arrived
<1>5. outBuf[o][0] = Upto(o, n + 1, Rect(o, n))
  <2>1. Done # 0 /\ Done - 1 = n
      BY <1>3, <1>4
  <2>2. QED BY <1>0, <1>4, <2>1 DEF ResultAt
<1>6. x.buf = 0 /\ x.rect = Rect(o, n)
    BY <1>1, <1>2 DEF Only
<1>7. external' = [external EXCEPT ![o][Rect(o, n)] = Upto(o, n + 1, Rect(o, n))]
    BY <1>5, <1>6, TensorFacts, <1>0 DEF CompleteTransfer
<1>8. None(o)'
  <2> SUFFICES ASSUME NEW y \in pending, y.tensor = o PROVE y = x
      BY DEF None, CompleteTransfer
  <2>1. x \in Transfer /\ y \in Transfer
      BY <1>0 DEF TypeOK, DmaTypeOK
  <2>2. x.buf = y.buf /\ x.rect = y.rect /\ x.chan = y.chan
      BY <1>1 DEF Only
  <2>3. QED BY <2>1, <2>2 DEF Transfer
<1>9. \A r \in Tile : external[o][r] = Upto(o, n, r)
    BY <1>0, <1>4 DEF ResultAt
<1>10. QED BY <1>2, <1>4, <1>5, <1>7, <1>8, <1>9

LEMMA DmaResults == ASSUME RInv, DmaStep PROVE ResultInv'
<1>1. PICK x \in pending : CompleteTransfer(x)
    BY DEF DmaStep
<1>2. /\ pc' = pc /\ tensor' = tensor /\ tileIdx' = tileIdx /\ i' = i
      /\ outBuf' = outBuf /\ pending' = pending \ {x}
      /\ external \in [Output -> [Tile -> SUBSET Nat]]
    BY <1>1 DEF CompleteTransfer, DmaStep, loopVars, RInv, IInv, TypeOK, DmaTypeOK
<1>3. Done' = Done
    BY <1>2 DEF Done, numTiles
<1>4. ASSUME NEW o \in Output PROVE ResultAt(o)'
  <2>0. ResultAt(o) /\ Sent(o)' = Sent(o)
      BY <1>2, <1>3 DEF RInv, ResultInv, Sent
  <2>1. CASE x.tensor = o
    <3>1. PICK n \in Tile :
              /\ n = i /\ Sent(o) = n + 1 /\ Done = n + 1 /\ Arrived(o) = n
              /\ outBuf[o][0] = Upto(o, n + 1, Rect(o, n))
              /\ \A r \in Tile : external[o][r] = Upto(o, n, r)
              /\ external' = [external EXCEPT ![o][Rect(o, n)] = Upto(o, n + 1, Rect(o, n))]
              /\ None(o)'
        BY <1>1, <2>1, CompletedOutput
    <3>2. Arrived(o)' = n + 1 /\ Done' = n + 1 /\ (n + 1) - 1 = n
        BY <1>3, <2>0, <3>1, UptoFacts DEF Arrived
    <3>3. \A r \in Tile : external'[o][r] = Upto(o, n + 1, r)
        BY <1>2, <3>1, UptoFacts
    <3>4. outBuf'[o][0] = Upto(o, n + 1, Rect(o, n))
        BY <1>2, <3>1
    <3>5. QED BY <3>2, <3>3, <3>4 DEF ResultAt
  <2>2. CASE x.tensor # o
    <3>1. None(o)' <=> None(o)
        BY <1>2, <2>2 DEF None
    <3>2. external'[o] = external[o]
        BY <1>1, <1>2, <2>2 DEF CompleteTransfer
    <3>a. PICK a, d : a = Arrived(o) /\ d = Done
        OBVIOUS
    <3>3. Arrived(o)' = a /\ Done' = d
        BY <1>3, <2>0, <3>1, <3>a DEF Arrived
    <3>4. /\ \A r \in Tile : external'[o][r] = Upto(o, a, r)
          /\ d # 0 => outBuf'[o][0] = Upto(o, d, Rect(o, d - 1))
        BY <1>2, <2>0, <3>2, <3>a DEF ResultAt
    <3>5. QED BY <3>3, <3>4 DEF ResultAt
  <2>3. QED BY <2>1, <2>2
<1>5. QED BY <1>4 DEF ResultInv

LEMMA StutterResults == ASSUME RInv, UNCHANGED vars PROVE ResultInv'
<1> USE DEF vars, dmaVars, loopVars
<1>1. Done' = Done
    BY DEF Done, numTiles
<1>2. ASSUME NEW o \in Output PROVE Arrived(o)' = Arrived(o)
    BY <1>1 DEF Arrived, Sent, None
<1>3. QED BY <1>1, <1>2, SameResults

LEMMA ResultStep == ASSUME Delivering, RInv, [Next]_vars PROVE ResultInv'
<1>1. ASSUME CoreStep PROVE ResultInv'
    BY <1>1, EnterResults, OpenTileResults, LoadResults, WaitInputsResults,
       KernelResults, StoreResults, WaitOutputsResults, LeaveLoopResults DEF CoreStep
<1>2. ASSUME Idle PROVE ResultInv'
    BY <1>2, StutterResults DEF Idle, vars
<1>3. QED BY <1>1, <1>2, DmaResults, StutterResults DEF Next

LEMMA Results == ASSUME Delivering PROVE Spec => []RInv
<1>1. Init => ResultInv
    BY InitResults
<1>2. Spec => []IInv
    BY Invariant DEF Delivering
<1>3. IInv /\ ResultInv /\ [Next]_vars => ResultInv'
    BY ResultStep DEF RInv
<1>4. RInv <=> IInv /\ ResultInv
    BY DEF RInv
<1>5. QED BY <1>1, <1>2, <1>3, <1>4, PTL DEF Spec

-----------------------------------------------------------------------------
(* The theorems. *)

(* When the last invocation has returned, every rectangle holds the results *)
(* of all the tiles that belong in it and the DMA is idle: no partial sum   *)
(* of a weight gradient is lost between invocations, none is added twice.   *)
THEOREM ResultsComplete == ASSUME Delivering PROVE Spec => []OutputsComplete
<1>1. RInv => OutputsComplete
  <2> SUFFICES ASSUME RInv, Finished PROVE ResultsInPlace /\ pending = {}
      BY DEF OutputsComplete
  <2>1. pc = "call" /\ Done = NumTiles
      BY Boundaries DEF Finished, Done
  <2>2. \A t \in Tensor : None(t)
      BY <2>1 DEF RInv, IInv, TransferInv, InputAt, OutputAt, Tensor
  <2>3. pending = {}
      BY <2>2 DEF None, RInv, IInv, TypeOK, DmaTypeOK, Transfer
  <2>4. ASSUME NEW o \in Output, NEW r \in Tile PROVE external[o][r] = TilesOf(o, r)
    <3>1. Arrived(o) = NumTiles
        BY <2>1, <2>2, TensorFacts DEF Arrived, Sent
    <3>2. external[o][r] = Upto(o, NumTiles, r)
        BY <3>1 DEF RInv, ResultInv, ResultAt
    <3>3. Upto(o, NumTiles, r) = TilesOf(o, r)
        BY DmaAssumption DEF Upto, TilesOf, Tile
    <3>4. QED BY <3>2, <3>3
  <2>5. QED BY <2>3, <2>4 DEF ResultsInPlace
<1>2. QED BY <1>1, Results, PTL

(* The single-buffered loop implements the abstract stream, up to its       *)
(* fairness: each step delivers the next tile of one output to the          *)
(* rectangle it belongs in, or leaves the external memory alone.            *)
THEOREM ImplementsStream ==
    ASSUME Delivering
    PROVE  Spec => Stream!Init /\ [][Stream!Next]_external
<1>1. Init => Stream!Init
    BY DmaAssumption DEF Init, DmaInit, Stream!Init, Stream!Rectangle, Tile
<1>2. RInv /\ [Next]_vars => [Stream!Next]_external
  <2> SUFFICES ASSUME RInv, [Next]_vars, external' # external
               PROVE  Stream!Next
      OBVIOUS
  <2>1. PICK x \in pending : CompleteTransfer(x)
    <3>1. ~CoreStep
        BY DEF CoreStep, Enter, EnterClosure, OpenTile, Load, TransferTensor, WaitInputs,
           WaitFutures, Kernel, RunKernel, Store, WaitOutputs, LeaveLoop, CloseLoop,
           WaitFuture, Issue, dmaVars
    <3>2. ~Idle /\ ~UNCHANGED vars
        BY DEF Idle, dmaVars, vars
    <3>3. QED BY <3>1, <3>2 DEF Next, DmaStep
  <2>2. PICK o \in Output : o = x.tensor
    <3>1. x \in Transfer
        BY DEF RInv, IInv, TypeOK, DmaTypeOK
    <3>2. QED BY <2>1, <3>1, TensorFacts DEF CompleteTransfer, Transfer, Tensor
  <2>3. PICK n \in Tile :
            /\ \A r \in Tile : external[o][r] = Upto(o, n, r)
            /\ external' = [external EXCEPT ![o][Rect(o, n)] = Upto(o, n + 1, Rect(o, n))]
      BY <2>1, <2>2, CompletedOutput
  <2>4. Stream!Delivered(o) = 0..(n - 1)
    <3>1. Stream!Delivered(o) = UNION {external[o][r] : r \in Tile}
        BY DEF Stream!Delivered, Stream!Rectangle, Tile
    <3>2. ASSUME NEW m
          PROVE  m \in UNION {external[o][r] : r \in Tile} <=> m \in 0..(n - 1)
      <4>1. m \in UNION {external[o][r] : r \in Tile} <=>
                \E r \in Tile : m \in Tile /\ m < n /\ Rect(o, m) = r
          BY <2>3 DEF Upto
      <4>2. m \in Tile => Rect(o, m) \in Tile
          BY UptoFacts
      <4>3. m \in Tile /\ m < n <=> m \in 0..(n - 1)
          BY DmaAssumption DEF Tile
      <4>4. QED BY <4>1, <4>2, <4>3
    <3>3. QED BY <3>1, <3>2
  <2>5. external' = [external EXCEPT
                         ![o][[p \in Output |-> [m \in Tile |-> Rect(p, m)]][o][n]] =
                             @ \cup {n}]
    <3>1. [p \in Output |-> [m \in Tile |-> Rect(p, m)]][o][n] = Rect(o, n)
        OBVIOUS
    <3>2. external[o][Rect(o, n)] \cup {n} = Upto(o, n + 1, Rect(o, n))
        BY <2>3, UptoFacts
    <3>3. QED BY <2>3, <3>1, <3>2
  <2>6. Stream!Deliver(o, n)
      BY <2>4, <2>5 DEF Stream!Deliver
  <2>7. QED BY <2>6 DEF Stream!Next, Stream!Rectangle, Tile
<1>3. QED BY <1>1, <1>2, Results, PTL DEF Spec
=============================================================================
