----------------------- MODULE DoubleBufferingProofs -----------------------
(***************************************************************************)
(* Proofs about DoubleBuffering, for every number of inputs, outputs and   *)
(* tiles, every set of channels, both waiting strategies and any choice of *)
(* the tensors that are tiled, when no tensor has a constraint in L3, and  *)
(* about SnitchCluster, for every number of compute cores besides.         *)
(*                                                                         *)
(* The inductive invariant says, for each tensor and each program point,   *)
(* which transfer of it may be in flight.  Fetching and Storing describe   *)
(* that transfer; the future it is counted on matters because the code     *)
(* waits once for all tensors that share a future.  On a cluster the       *)
(* statements of the data-movement core preserve that invariant; what is   *)
(* new there is the second part.                                           *)
(***************************************************************************)
EXTENDS SnitchCluster, TLAPS

(* No transfer of tensor t is in flight. *)
None(t) == \A x \in pending : x.tensor # t

(* Transfers of t in flight move tile j, and t's future covers them. *)
Only(t, j) ==
    \A x \in pending : x.tensor = t =>
        /\ x.buf = BufferOf(j)
        /\ x.rect = Rect(t, j)
        /\ x.chan = channel[FutureOf(t)]

Holds(t, j) == inBuf[t][BufferOf(j)] = Rect(t, j)

(* Tile j of input t is in its buffer or on its way there. *)
Fetching(t, j) == Only(t, j) /\ (None(t) => Holds(t, j))

(* Tile j of input t is in its buffer, and nothing of t is in flight. *)
Ready(t, j) == None(t) /\ Holds(t, j)

(* Input t holds the current tile, and the next one, if any, is coming. *)
Advanced(t) ==
    /\ Holds(t, i)
    /\ IF i + 1 < NumTiles THEN Fetching(t, i + 1) ELSE None(t)

(* The previous tile's transfer of output o may still be in flight. *)
Storing(o) == IF i = 0 THEN None(o) ELSE Only(o, i - 1)

(* Control: which tensor and which tile each program point is about. *)
ControlInv ==
    /\ pc = "call" => pending = {}
    /\ pc \in {"load_first", "loop", "wait_input", "load_next", "kernel",
               "wait_output", "store"} => tileIdx = 0
    /\ pc = "drain" => tileIdx = 1 /\ i = NumTiles
    /\ pc = "load_first" => i = 0 /\ \A t \in Tensor : cur[t] = 0
    /\ pc \in {"load_first", "wait_input", "load_next"} => tensor \in Input
    /\ pc = "kernel" => tensor = NIn
    /\ pc = "wait_output" => tensor >= NIn
    /\ pc \in {"store", "drain"} => tensor \in Output
    /\ pc \in {"wait_input", "load_next", "kernel", "wait_output", "store"} =>
           i < NumTiles /\ \A t \in Tensor : cur[t] = BufferOf(i)

InputAt(t) ==
    /\ pc = "load_first" => IF t < tensor THEN Fetching(t, 0) ELSE None(t)
    /\ pc = "loop" => IF i < NumTiles THEN Fetching(t, i) ELSE None(t)
    /\ pc = "wait_input" =>
           IF t < tensor THEN Advanced(t)
           ELSE IF FutureOf(t) < tensor THEN Ready(t, i)
           ELSE Fetching(t, i)
    /\ pc = "load_next" =>
           IF t < tensor THEN Advanced(t)
           ELSE IF FutureOf(t) <= tensor THEN Ready(t, i)
           ELSE Fetching(t, i)
    /\ pc \in {"kernel", "wait_output", "store"} => Advanced(t)
    /\ pc = "drain" => None(t)

InputInv == \A t \in Input : InputAt(t)

OutputAt(o) ==
    /\ pc = "load_first" => None(o)
    /\ pc \in {"loop", "wait_input", "load_next", "kernel"} => Storing(o)
    /\ pc = "wait_output" =>
           IF o < Egress THEN Only(o, i)
           ELSE IF FutureOf(o) < Egress THEN None(o)
           ELSE Storing(o)
    /\ pc = "store" =>
           IF o < tensor THEN Only(o, i)
           ELSE IF FutureOf(o) <= tensor THEN None(o)
           ELSE Storing(o)
    /\ pc = "drain" =>
           IF FutureOf(o) < tensor THEN None(o) ELSE Storing(o)

OutputInv == \A o \in Output : OutputAt(o)

(* The tile each moving reference points to: the next one to transfer. *)
NextTile == IF i + 1 < NumTiles THEN i + 2 ELSE NumTiles

InRefAt(t) ==
    /\ pc = "load_first" => extRef[t] = IF t < tensor THEN 1 ELSE 0
    /\ pc = "loop" /\ i < NumTiles => extRef[t] = i + 1
    /\ pc \in {"wait_input", "load_next"} =>
           extRef[t] = IF t < tensor THEN NextTile ELSE i + 1
    /\ pc \in {"kernel", "wait_output", "store"} => extRef[t] = NextTile

OutRefAt(o) ==
    /\ pc = "load_first" => extRef[o] = 0
    /\ pc \in {"loop", "wait_input", "load_next", "kernel"} => extRef[o] = i
    /\ pc = "wait_output" => extRef[o] = IF o < Egress THEN i + 1 ELSE i
    /\ pc = "store" => extRef[o] = IF o < tensor THEN i + 1 ELSE i

ReferenceInv ==
    /\ \A t \in Tensor \ Tiled : extRef[t] = 0
    /\ \A t \in Input \cap Tiled : InRefAt(t)
    /\ \A o \in Output \cap Tiled : OutRefAt(o)

(* A transfer whose future was allocated for an earlier tensor is counted on
   that future's channel: nothing else was allocated since. *)
SharesChannel(t) == lastAlloc \in Channel /\ lastAlloc = channel[FutureOf(t)]

AllocInv ==
    /\ pc = "load_first" /\ ~UsesNewFuture(tensor) => SharesChannel(tensor)
    /\ pc \in {"wait_input", "load_next"} /\ i + 1 < NumTiles
           /\ ~UsesNewFuture(tensor) => SharesChannel(tensor)
    /\ pc \in {"wait_output", "store"} /\ ~UsesNewFuture(Egress) =>
           SharesChannel(Egress)

IInv ==
    /\ TypeOK
    /\ ControlInv
    /\ InputInv
    /\ OutputInv
    /\ ReferenceInv
    /\ AllocInv

-----------------------------------------------------------------------------
(* Facts about the constants. *)

(* With no L3 tensor there is one invocation, which walks all the tiles. *)
LEMMA OneInvocation ==
    ASSUME L3Tensor = {}
    PROVE  /\ Invocations = 1
           /\ numTiles[0] = 0
           /\ numTiles[1] = NumTiles
<1> USE DmaAssumption
<1>1. numTiles = [n \in 0..1 |-> n * NumTiles] /\ Invocations = 1
    BY DEF numTiles, Invocations, HasOuterDriver
<1>2. 0 \in 0..1 /\ 1 \in 0..1 /\ 0 * NumTiles = 0 /\ 1 * NumTiles = NumTiles
    OBVIOUS
<1>3. QED BY <1>1, <1>2

(* Inputs and outputs are disjoint ranges of natural numbers. *)
LEMMA TensorFacts ==
    /\ Tensor = 1..(NIn + NOut)
    /\ Input \subseteq Tensor /\ Output \subseteq Tensor
    /\ \A t \in Tensor : t \in Input <=> t \notin Output
    /\ 1 \in Input /\ NIn \in Input /\ NIn + 1 \in Output /\ NIn + NOut \in Output
BY DmaAssumption DEF Tensor, Input, Output

(* A future is named by a tensor of the same direction that is no later. *)
LEMMA FutureFacts ==
    ASSUME NEW t \in Tensor
    PROVE  /\ FutureOf(t) \in Future
           /\ FutureOf(t) <= t
           /\ t \in Input => FutureOf(t) \in Input
           /\ t \in Output => FutureOf(t) \in Output
BY DmaAssumption DEF FutureOf, Future, UsesNewFuture, Tensor, Input, Output

(* A tensor that uses no new future shares that of its predecessor. *)
LEMMA SharedFuture ==
    ASSUME NEW t \in Tensor, ~UsesNewFuture(t + 1),
           t + 1 \in Input \/ (t \in Output /\ t + 1 \in Output)
    PROVE  FutureOf(t + 1) = FutureOf(t)
BY DmaAssumption DEF FutureOf, UsesNewFuture, Tensor, Input, Output

(* Consecutive tiles use different buffers. *)
LEMMA BufferFacts ==
    ASSUME NEW j \in Nat
    PROVE  /\ BufferOf(j) \in Buffer
           /\ BufferOf(j) # BufferOf(j + 1)
BY TwoBuffers DEF BufferOf, Buffer

LEMMA BufferZero == BufferOf(0) = 0 /\ 0 \in Buffer /\ 1 \in Buffer
BY TwoBuffers DEF BufferOf, Buffer

LEMMA RectFacts == ASSUME NEW t \in Tensor, NEW j \in Nat PROVE Rect(t, j) \in Nat
BY DEF Rect

-----------------------------------------------------------------------------
(* What the DMA statements do to the predicates of the invariant. *)

(* The effect of issuing the transfer of tile j of tensor t. *)
Issued(t, j) ==
    /\ DmaTypeOK'
    /\ Only(t, j)' /\ ~None(t)'
    /\ SharesChannel(t)'
    /\ \A u \in Tensor : u # t /\ None(u) => None(u)'
    /\ \A u \in Tensor, m \in Nat :
           u # t /\ FutureOf(u) # t /\ Only(u, m) => Only(u, m)'
    /\ \A u \in Input, m \in Nat :
           (u # t \/ BufferOf(m) # BufferOf(j)) /\ Holds(u, m) => Holds(u, m)'
    /\ \A u \in Input, m \in Nat :
           u # t /\ FutureOf(u) # t /\ Fetching(u, m) => Fetching(u, m)'

LEMMA IssueEffect ==
    ASSUME TypeOK, NEW t \in Tensor, NEW j \in Nat,
           AllocFor(t), Issue(t, BufferOf(j), Rect(t, j)), None(t),
           UsesNewFuture(t) \/ SharesChannel(t)
    PROVE  Issued(t, j)
<1> DEFINE x == [tensor |-> t, buf |-> BufferOf(j), rect |-> Rect(t, j),
                 chan |-> lastAlloc']
<1> USE DEF TypeOK, DmaTypeOK
<1>1. FutureOf(t) \in Future /\ (UsesNewFuture(t) => FutureOf(t) = t)
    BY FutureFacts DEF UsesNewFuture
<1>2. /\ lastAlloc' \in Channel /\ lastAlloc' = channel'[FutureOf(t)]
      /\ channel' \in [Future -> Channel \cup {NoChannel}]
      /\ free' \subseteq Channel
    BY <1>1 DEF AllocFor, AllocChannel, SharesChannel
<1>3. \A u \in Tensor : FutureOf(u) # t => channel'[FutureOf(u)] = channel[FutureOf(u)]
    BY FutureFacts DEF AllocFor, AllocChannel
<1>4. x \in Transfer
    BY <1>2, BufferFacts, RectFacts DEF Transfer
<1>5. pending' = pending \cup {x}
    BY DEF Issue
<1>6. inBuf' \in [Input -> [Buffer -> Nat]]
    BY BufferFacts, DmaAssumption DEF Issue, Junk
<1>7. DmaTypeOK'
    BY <1>2, <1>4, <1>5, <1>6 DEF Issue
<1>8. Only(t, j)' /\ ~None(t)'
  <2>1. x \in pending' /\ \A y \in pending' : y.tensor = t => y = x
      BY <1>5 DEF None
  <2>2. /\ x.tensor = t /\ x.buf = BufferOf(j) /\ x.rect = Rect(t, j)
        /\ x.chan = channel'[FutureOf(t)]
      BY <1>2
  <2>3. QED BY <2>1, <2>2 DEF Only, None
<1>9. \A u \in Tensor : u # t /\ None(u) => None(u)'
    BY <1>5 DEF None
<1>10. \A u \in Tensor, m \in Nat :
          u # t /\ FutureOf(u) # t /\ Only(u, m) => Only(u, m)'
    BY <1>3, <1>5 DEF Only
<1>11. \A u \in Input, m \in Nat :
          (u # t \/ BufferOf(m) # BufferOf(j)) /\ Holds(u, m) => Holds(u, m)'
    BY BufferFacts DEF Holds, Issue
<1>12. \A u \in Tensor : u # t /\ None(u)' => None(u)
    BY <1>5 DEF None
<1>13. \A u \in Input, m \in Nat :
          u # t /\ FutureOf(u) # t /\ Fetching(u, m) => Fetching(u, m)'
    BY <1>10, <1>11, <1>12, TensorFacts DEF Fetching
<1>14. QED BY <1>2, <1>7, <1>8, <1>9, <1>10, <1>11, <1>13 DEF Issued, SharesChannel

(* Waiting on a future drains every tensor that uses it. *)
LEMMA WaitEffect ==
    ASSUME TypeOK, NEW f \in Future, WaitFuture(f)
    PROVE  /\ DmaTypeOK'
           /\ \A t \in Tensor, j \in Nat :
                  FutureOf(t) = f /\ Only(t, j) => None(t)
<1> USE DEF TypeOK, DmaTypeOK
<1>1. DmaTypeOK'
    BY DEF WaitFuture
<1>2. \A t \in Tensor, j \in Nat : FutureOf(t) = f /\ Only(t, j) => None(t)
    BY DmaAssumption DEF WaitFuture, Outstanding, Only, None, Transfer
<1>3. QED BY <1>1, <1>2

(* The DMA completing a transfer. *)
LEMMA CompleteEffect ==
    ASSUME TypeOK, NEW x \in pending, CompleteTransfer(x)
    PROVE  /\ DmaTypeOK'
           /\ \A u \in Tensor : None(u) => None(u)'
           /\ \A u \in Tensor, m \in Nat : Only(u, m) => Only(u, m)'
           /\ \A u \in Input, m \in Nat : Fetching(u, m) => Fetching(u, m)'
           /\ \A u \in Input, m \in Nat : None(u) /\ Holds(u, m) => Holds(u, m)'
           /\ \A u \in Input, m \in Nat, n \in Nat :
                  Only(u, n) /\ BufferOf(m) # BufferOf(n) /\ Holds(u, m) => Holds(u, m)'
<1> USE DEF TypeOK, DmaTypeOK
<1>1. x \in Transfer /\ pending' = pending \ {x}
    BY DEF CompleteTransfer
<1>2. DmaTypeOK'
  <2>1. /\ x.tensor \in Tensor /\ x.buf \in Buffer /\ x.rect \in Nat
        /\ pending' \subseteq Transfer
      BY <1>1 DEF Transfer
  <2>2. CASE x.tensor \in Input
    <3>1. inBuf' = [inBuf EXCEPT ![x.tensor][x.buf] = x.rect]
        BY <2>2 DEF CompleteTransfer
    <3>2. inBuf' \in [Input -> [Buffer -> Nat]]
        BY ONLY <2>1, <2>2, <3>1, inBuf \in [Input -> [Buffer -> Nat]]
    <3>3. QED BY <2>1, <2>2, <3>2 DEF CompleteTransfer
  <2>3. CASE x.tensor \notin Input
    <3>1. x.tensor \in Output
        BY <2>1, <2>3, TensorFacts
    <3>2. outBuf[x.tensor][x.buf] \in SUBSET Nat
        BY <2>1, <3>1
    <3>3. external' = [external EXCEPT ![x.tensor] =
                           [external[x.tensor] EXCEPT ![x.rect] = outBuf[x.tensor][x.buf]]]
        BY <2>3 DEF CompleteTransfer
    <3>4. [external[x.tensor] EXCEPT ![x.rect] = outBuf[x.tensor][x.buf]]
              \in [Tile -> SUBSET Nat]
        BY <3>1, <3>2
    <3>5. external' \in [Output -> [Tile -> SUBSET Nat]]
        BY <3>1, <3>3, <3>4
    <3>6. QED BY <2>1, <2>3, <3>5 DEF CompleteTransfer
  <2>4. QED BY <2>2, <2>3
<1>3. \A u \in Tensor : None(u) => None(u)'
    BY <1>1 DEF None
<1>4. \A u \in Tensor, m \in Nat : Only(u, m) => Only(u, m)'
    BY <1>1 DEF Only, CompleteTransfer
<1>5. \A u \in Input, m \in Nat : None(u) /\ Holds(u, m) => Holds(u, m)'
    BY BufferFacts DEF None, Holds, CompleteTransfer
<1>6. \A u \in Input, m \in Nat, n \in Nat :
          Only(u, n) /\ BufferOf(m) # BufferOf(n) /\ Holds(u, m) => Holds(u, m)'
  <2> SUFFICES ASSUME NEW u \in Input, NEW m \in Nat, NEW n \in Nat,
                      Only(u, n), BufferOf(m) # BufferOf(n), Holds(u, m)
               PROVE  Holds(u, m)'
      OBVIOUS
  <2>1. x.tensor # u \/ x.buf # BufferOf(m)
      BY DEF Only
  <2>2. inBuf'[u][BufferOf(m)] = inBuf[u][BufferOf(m)]
      BY <2>1, BufferFacts DEF CompleteTransfer
  <2>3. QED BY <2>2 DEF Holds
<1>7. \A u \in Input, m \in Nat : Fetching(u, m) => Fetching(u, m)'
  <2> SUFFICES ASSUME NEW u \in Input, NEW m \in Nat, Fetching(u, m), None(u)'
               PROVE  Holds(u, m)'
      BY <1>4, TensorFacts DEF Fetching
  <2>1. CASE None(u)
      BY <2>1, <1>5 DEF Fetching
  <2>2. CASE ~None(u)
    <3>1. x.tensor = u
        BY <1>1, <2>2 DEF None
    <3>2. QED BY <3>1, <1>1, BufferFacts DEF Fetching, Only, Holds, CompleteTransfer
  <2>3. QED BY <2>1, <2>2
<1>8. QED BY <1>2, <1>3, <1>4, <1>5, <1>6, <1>7

-----------------------------------------------------------------------------
(* The invariant holds initially and every step preserves it. *)

LEMMA InitInv == ASSUME L3Tensor = {}, Init PROVE IInv
<1> USE DEF Init, DmaInit, LoopInit
<1>1. TypeOK
  <2>1. DmaTypeOK
    BY DmaAssumption DEF DmaTypeOK, Junk, Transfer
  <2>2. LoopTypeOK
    BY DmaAssumption, OneInvocation, TensorFacts, BufferZero DEF LoopTypeOK
  <2>3. QED BY <2>1, <2>2, BufferZero DEF TypeOK, PC
<1>2. ControlInv BY DEF ControlInv
<1>3. InputInv /\ OutputInv BY DEF InputInv, OutputInv, InputAt, OutputAt
<1>4. ReferenceInv BY DEF ReferenceInv, InRefAt, OutRefAt
<1>5. AllocInv BY DEF AllocInv
<1>6. QED BY <1>1, <1>2, <1>3, <1>4, <1>5 DEF IInv

LEMMA EnterInv == ASSUME L3Tensor = {}, IInv, Enter PROVE IInv'
<1> USE DEF Enter, EnterClosure
<1>0. TypeOK /\ ControlInv BY DEF IInv
<1>1. pending = {} /\ tileIdx = 0 /\ FirstTile = 0
    BY <1>0, OneInvocation
    DEF TypeOK, LoopTypeOK, ControlInv, FirstTile
<1>2. TypeOK'
  <2>1. DmaTypeOK'
    BY <1>0 DEF TypeOK, DmaTypeOK
  <2>2. LoopTypeOK'
    BY <1>0, <1>1, DmaAssumption, TensorFacts, BufferZero DEF TypeOK, LoopTypeOK
  <2>3. QED BY <2>1, <2>2, BufferZero DEF TypeOK, PC
<1>3. ControlInv' BY <1>1, TensorFacts DEF ControlInv
<1>4. InputInv' BY <1>1 DEF InputInv, InputAt, None, Input
<1>5. OutputInv' BY <1>1 DEF OutputInv, OutputAt, None
<1>6. ReferenceInv' BY <1>1, TensorFacts DEF ReferenceInv, InRefAt, OutRefAt, Input
<1>7. AllocInv'
    BY DmaAssumption DEF AllocInv, UsesNewFuture, FutureOf, Input
<1>8. QED BY <1>2, <1>3, <1>4, <1>5, <1>6, <1>7 DEF IInv


LEMMA LoadFirstInv == ASSUME L3Tensor = {}, IInv, LoadFirstTile PROVE IInv'
<1> USE DEF LoadFirstTile
<1>0. TypeOK /\ ControlInv /\ InputInv /\ OutputInv /\ ReferenceInv /\ AllocInv
    BY DEF IInv
<1>1. /\ pc = "load_first" /\ tensor \in Input
      /\ i = 0 /\ tileIdx = 0 /\ \A t \in Tensor : cur[t] = 0
    BY <1>0 DEF ControlInv
<1>2. tensor \in Tensor /\ tensor \in Nat /\ NumTiles > 0
    BY <1>1, TensorFacts, DmaAssumption DEF Input
<1>a. PICK s \in Input : s = tensor
    BY <1>1
<1>3. Issued(s, 0)
  <2>1. cur[tensor] = BufferOf(0)
      BY <1>1, <1>2, BufferZero
  <2>2. ExternalRect(tensor) = Rect(tensor, 0)
      BY <1>0, <1>1, <1>2 DEF ExternalRect, Rect, ReferenceInv, InRefAt
  <2>3. None(tensor)
      BY <1>0, <1>1, <1>2 DEF InputInv, InputAt
  <2>4. UsesNewFuture(tensor) \/ SharesChannel(tensor)
      BY <1>0, <1>1 DEF AllocInv
  <2>5. Issue(tensor, BufferOf(0), Rect(tensor, 0)) /\ AllocFor(tensor)
      BY <2>1, <2>2
  <2>6. QED BY <1>0, <1>2, <1>a, <2>3, <2>4, <2>5, IssueEffect
<1>4. Fetching(s, 0)'
    BY <1>3 DEF Issued, Fetching
<1>5. \A u \in Input : u < s => Fetching(u, 0)'
  <2>1. \A u \in Input : u < s => FutureOf(u) # s /\ u # s
      BY <1>2, <1>a, FutureFacts, TensorFacts DEF Input
  <2>2. \A u \in Input : u < s => Fetching(u, 0)
      BY <1>0, <1>1, <1>a DEF InputInv, InputAt
  <2>3. QED BY <2>1, <2>2, <1>3 DEF Issued
<1>6. \A u \in Tensor : u # s /\ None(u) => None(u)'
    BY <1>3 DEF Issued
<1>7. \/ tensor < NIn /\ tensor' = tensor + 1 /\ pc' = "load_first"
      \/ tensor = NIn /\ tensor' = 1 /\ pc' = "loop"
    BY <1>1, DmaAssumption DEF Input
<1>8. TypeOK'
  <2>1. extRef' \in [Tensor -> 0..NumTiles]
      BY <1>0, <1>1, <1>2, DmaAssumption
      DEF TypeOK, LoopTypeOK, UpdateReference, ReferenceInv, InRefAt
  <2>2. tensor' \in Tensor
      BY <1>1, <1>7, TensorFacts, DmaAssumption DEF Input
  <2>3. QED BY <1>0, <1>3, <1>7, <2>1, <2>2 DEF TypeOK, LoopTypeOK, PC, Issued
<1>9. ControlInv'
    BY <1>1, <1>2, <1>7, DmaAssumption DEF ControlInv, Input
<1>10. InputInv'
  <2> SUFFICES ASSUME NEW t \in Input PROVE InputAt(t)'
      BY DEF InputInv
  <2>1. t \in Nat /\ t <= NIn /\ t \in Tensor
      BY TensorFacts, DmaAssumption DEF Input
  <2>2. t <= s => Fetching(t, 0)'
      BY <1>2, <1>4, <1>5, <1>a, <2>1
  <2>3. t > s => None(t)'
    <3>1. t > s => None(t)
        BY <1>0, <1>1, <1>2, <1>a, <2>1 DEF InputInv, InputAt
    <3>2. QED BY <3>1, <1>2, <1>6, <1>a, <2>1
  <2>4. QED BY <1>1, <1>2, <1>7, <1>a, <2>1, <2>2, <2>3, DmaAssumption DEF InputAt
<1>11. OutputInv'
    BY <1>0, <1>1, <1>6, <1>7, <1>a, TensorFacts DEF OutputInv, OutputAt, Storing
<1>12. ReferenceInv'
  <2>1. \A t \in Tensor \ Tiled : extRef'[t] = 0
      BY <1>0, <1>2 DEF ReferenceInv, UpdateReference, TypeOK, LoopTypeOK
  <2>2. ASSUME NEW t \in Input \cap Tiled PROVE InRefAt(t)'
    <3>1. t \in Tensor /\ t \in Nat /\ t <= NIn
        BY TensorFacts, DmaAssumption DEF Input
    <3>2. extRef'[t] = IF t <= tensor THEN 1 ELSE 0
        BY <1>0, <1>1, <1>2, <3>1
        DEF ReferenceInv, InRefAt, UpdateReference, TypeOK, LoopTypeOK
    <3>3. QED BY <1>1, <1>2, <1>7, <3>1, <3>2, DmaAssumption DEF InRefAt
  <2>3. ASSUME NEW o \in Output \cap Tiled PROVE OutRefAt(o)'
      BY <1>0, <1>1, <1>2, <1>7, TensorFacts
      DEF ReferenceInv, OutRefAt, UpdateReference, TypeOK, LoopTypeOK
  <2>4. QED BY <2>1, <2>2, <2>3 DEF ReferenceInv
<1>13. AllocInv'
    BY <1>1, <1>3, <1>7, <1>a, SharedFuture, TensorFacts, DmaAssumption
    DEF AllocInv, SharesChannel, UsesNewFuture, Issued, Input
<1>14. QED BY <1>8, <1>9, <1>10, <1>11, <1>12, <1>13 DEF IInv

(* Steps that touch no transfer, buffer or future leave these unchanged. *)
LEMMA SameTransfers ==
    ASSUME UNCHANGED <<channel, pending, inBuf>>
    PROVE  /\ \A u \in Tensor : None(u)' <=> None(u)
           /\ \A u \in Tensor, m \in Nat : Only(u, m)' <=> Only(u, m)
           /\ \A u \in Input, m \in Nat : Holds(u, m)' <=> Holds(u, m)
           /\ \A u \in Input, m \in Nat : Fetching(u, m)' <=> Fetching(u, m)
BY DEF None, Only, Holds, Fetching

(* The loop of the only invocation runs over all the tiles. *)
LEMMA LoopBounds ==
    ASSUME L3Tensor = {}, tileIdx = 0
    PROVE  FirstTile = 0 /\ LastTile = NumTiles - 1
BY OneInvocation DEF FirstTile, LastTile

LEMMA OpenTileInv == ASSUME L3Tensor = {}, IInv, OpenTile PROVE IInv'
<1> USE DEF OpenTile, dmaVars
<1>0. TypeOK /\ ControlInv /\ InputInv /\ OutputInv /\ ReferenceInv /\ AllocInv
    BY DEF IInv
<1>1. /\ pc = "loop" /\ pc' = "wait_input" /\ tileIdx = 0 /\ i' = i
      /\ tensor' = 1 /\ extRef' = extRef
    BY <1>0 DEF ControlInv
<1>2. i \in Nat /\ i < NumTiles
    BY <1>0, <1>1, LoopBounds, DmaAssumption DEF TypeOK, LoopTypeOK
<1>3. TypeOK'
  <2>1. DmaTypeOK'  BY <1>0 DEF TypeOK, DmaTypeOK
  <2>2. cur' \in [Tensor -> Buffer]  BY <1>2, BufferFacts
  <2>3. QED BY <1>0, <1>1, <2>1, <2>2, TensorFacts DEF TypeOK, LoopTypeOK, PC
<1>4. ControlInv'  BY <1>1, <1>2, TensorFacts DEF ControlInv
<1>5. InputInv'
  <2> SUFFICES ASSUME NEW t \in Input PROVE InputAt(t)'
      BY DEF InputInv
  <2>1. t \in Tensor /\ FutureOf(t) \in Nat /\ FutureOf(t) >= 1 /\ t \in Nat /\ t >= 1
      BY TensorFacts, FutureFacts DEF Input
  <2>2. Fetching(t, i)'
      BY <1>0, <1>1, <1>2, SameTransfers DEF InputInv, InputAt
  <2>3. QED BY <1>1, <2>1, <2>2 DEF InputAt
<1>6. OutputInv'
    BY <1>0, <1>1, <1>2, SameTransfers, TensorFacts
    DEF OutputInv, OutputAt, Storing
<1>7. ReferenceInv'
    BY <1>0, <1>1, <1>2, TensorFacts DEF ReferenceInv, InRefAt, OutRefAt, Input
<1>8. AllocInv'
    BY <1>1, DmaAssumption DEF AllocInv, UsesNewFuture, FutureOf, Input
<1>9. QED BY <1>3, <1>4, <1>5, <1>6, <1>7, <1>8 DEF IInv

LEMMA WaitInputInv == ASSUME L3Tensor = {}, IInv, WaitInput PROVE IInv'
<1> USE DEF WaitInput, dmaVars
<1>0. TypeOK /\ ControlInv /\ InputInv /\ OutputInv /\ ReferenceInv /\ AllocInv
    BY DEF IInv
<1>1. /\ pc = "wait_input" /\ pc' = "load_next" /\ tileIdx = 0
      /\ tensor \in Input /\ tensor \in Tensor /\ i < NumTiles /\ i \in Nat
      /\ tensor' = tensor /\ i' = i /\ extRef' = extRef /\ cur' = cur
    BY <1>0, TensorFacts DEF ControlInv, TypeOK, LoopTypeOK
<1>2. UNCHANGED <<channel, lastAlloc, pending, inBuf, outBuf, external>>
    BY DEF WaitFuture
<1>3. DmaTypeOK'
    BY <1>0, <1>1, WaitEffect DEF TypeOK, DmaTypeOK, Future
<1>4. TypeOK'  BY <1>0, <1>1, <1>3 DEF TypeOK, LoopTypeOK, PC
<1>5. ControlInv'  BY <1>0, <1>1 DEF ControlInv
<1>6. InputInv'
  <2> SUFFICES ASSUME NEW t \in Input PROVE InputAt(t)'
      BY DEF InputInv
  <2>1. t \in Tensor /\ FutureOf(t) \in Nat /\ t \in Nat /\ tensor \in Nat
      BY <1>1, TensorFacts, FutureFacts DEF Input
  <2>2. CASE t < tensor
    <3>1. Advanced(t)  BY <1>0, <1>1, <2>2 DEF InputInv, InputAt
    <3>2. Advanced(t)'
        BY <3>1, <1>1, <1>2, <2>1, SameTransfers DEF Advanced
    <3>3. QED BY <1>1, <2>2, <3>2 DEF InputAt
  <2>3. CASE t >= tensor /\ FutureOf(t) > tensor
    <3>1. Fetching(t, i)  BY <1>0, <1>1, <2>1, <2>3 DEF InputInv, InputAt
    <3>2. QED BY <1>1, <1>2, <2>1, <2>3, <3>1, SameTransfers DEF InputAt
  <2>4. CASE t >= tensor /\ FutureOf(t) <= tensor
    <3>1. Ready(t, i)
      <4>1. CASE FutureOf(t) < tensor
          BY <1>0, <1>1, <2>1, <2>4, <4>1 DEF InputInv, InputAt
      <4>2. CASE FutureOf(t) = tensor
        <5>1. tensor \in Future /\ UsesNewFuture(tensor)
            BY <2>1, <4>2, FutureFacts DEF Future
        <5>2. Fetching(t, i)
            BY <1>0, <1>1, <2>1, <2>4, <4>2 DEF InputInv, InputAt
        <5>3. None(t)
            BY <1>0, <1>1, <2>1, <4>2, <5>1, <5>2, WaitEffect DEF Fetching
        <5>4. QED BY <5>2, <5>3 DEF Fetching, Ready
      <4>3. QED BY <2>1, <2>4, <4>1, <4>2
    <3>2. Ready(t, i)'
        BY <3>1, <1>1, <1>2, <2>1, SameTransfers DEF Ready
    <3>3. QED BY <1>1, <2>1, <2>4, <3>2 DEF InputAt
  <2>5. QED BY <2>1, <2>2, <2>3, <2>4
<1>7. OutputInv'
    BY <1>0, <1>1, <1>2, SameTransfers, TensorFacts
    DEF OutputInv, OutputAt, Storing
<1>8. ReferenceInv'
    BY <1>0, <1>1 DEF ReferenceInv, InRefAt, OutRefAt, NextTile
<1>9. AllocInv'
    BY <1>0, <1>1, <1>2 DEF AllocInv, SharesChannel
<1>10. QED BY <1>4, <1>5, <1>6, <1>7, <1>8, <1>9 DEF IInv

LEMMA LoadNextInv == ASSUME L3Tensor = {}, IInv, LoadNext PROVE IInv'
<1> USE DEF LoadNext, dmaVars
<1>0. TypeOK /\ ControlInv /\ InputInv /\ OutputInv /\ ReferenceInv /\ AllocInv
    BY DEF IInv
<1>1. /\ pc = "load_next" /\ tileIdx = 0 /\ i < NumTiles /\ i \in Nat
      /\ tensor \in Input /\ i' = i /\ cur' = cur /\ tileIdx' = tileIdx
      /\ \A t \in Tensor : cur[t] = BufferOf(i)
    BY <1>0 DEF ControlInv, TypeOK, LoopTypeOK
<1>a. PICK s \in Input : s = tensor
    BY <1>1
<1>b. PICK n \in Nat : n = i + 1
    BY <1>1
<1>2. s \in Tensor /\ s \in Nat /\ s <= NIn /\ NumTiles \in Nat /\ NIn \in Nat
    BY TensorFacts, DmaAssumption DEF Input
<1>3. HasNextTile <=> n < NumTiles
    BY <1>1, <1>2, <1>b, LoopBounds DEF HasNextTile
<1>4. \/ s < NIn /\ tensor' = s + 1 /\ pc' = "wait_input"
      \/ s = NIn /\ tensor' = s /\ pc' = "kernel"
    BY <1>1, <1>2, <1>a
<1>5. Ready(s, i)
    BY <1>0, <1>1, <1>2, <1>a, FutureFacts DEF InputInv, InputAt
<1>6. HasNextTile => Issued(s, n)
  <2> SUFFICES ASSUME HasNextTile PROVE Issued(s, n)
      OBVIOUS
  <2> USE DEF LoadNextTile
  <2>1. nextBuf'[s] = BufferOf(n)
      BY <1>0, <1>a, <1>b DEF TypeOK
  <2>2. ExternalRect(s) = Rect(s, n)
      BY <1>0, <1>1, <1>2, <1>a, <1>b
      DEF ExternalRect, Rect, ReferenceInv, InRefAt
  <2>3. UsesNewFuture(s) \/ SharesChannel(s)
      BY <1>0, <1>1, <1>3, <1>a, <1>b DEF AllocInv
  <2>4. AllocFor(s) /\ Issue(s, BufferOf(n), Rect(s, n))
      BY <1>a, <2>1, <2>2
  <2>5. QED BY <1>0, <1>2, <1>5, <2>3, <2>4, IssueEffect DEF Ready
<1>7. ~HasNextTile => UNCHANGED <<channel, lastAlloc, pending, inBuf, extRef, nextBuf>>
    OBVIOUS
<1>8. TypeOK'
  <2>1. DmaTypeOK'
      BY <1>0, <1>6 DEF TypeOK, DmaTypeOK, Issued
  <2>2. nextBuf' \in [Input -> Buffer]
      BY <1>0, <1>b, BufferFacts DEF TypeOK, LoadNextTile
  <2>3. extRef' \in [Tensor -> 0..NumTiles]
      BY <1>0, <1>1, <1>2, <1>3, <1>a, <1>b
      DEF TypeOK, LoopTypeOK, UpdateReference, LoadNextTile, ReferenceInv, InRefAt
  <2>4. tensor' \in Tensor
      BY <1>2, <1>4, TensorFacts DEF Input
  <2>5. QED BY <1>0, <1>4, <2>1, <2>2, <2>3, <2>4 DEF TypeOK, LoopTypeOK, PC
<1>9. ControlInv'
    BY <1>1, <1>2, <1>4 DEF ControlInv, Input
<1>10. \A t \in Input : t < s => Advanced(t)'
  <2> SUFFICES ASSUME NEW t \in Input, t < s PROVE Advanced(t)'
      OBVIOUS
  <2>1. Advanced(t) /\ t \in Tensor /\ t # s /\ FutureOf(t) # s
      BY <1>0, <1>1, <1>2, <1>a, TensorFacts, FutureFacts
      DEF InputInv, InputAt, Input
  <2>2. CASE HasNextTile
    <3>1. Holds(t, i) /\ Fetching(t, n)
        BY <1>1, <1>3, <1>b, <2>1, <2>2 DEF Advanced
    <3>2. \A m \in Nat : m = i => Holds(t, m)'
        BY <1>1, <1>6, <2>1, <2>2, <3>1 DEF Issued
    <3>3. Fetching(t, n)'
        BY <1>6, <2>1, <2>2, <3>1 DEF Issued
    <3>4. QED BY <1>1, <1>3, <1>b, <2>2, <3>2, <3>3 DEF Advanced
  <2>3. CASE ~HasNextTile
      BY <1>1, <1>7, <2>1, <2>3, SameTransfers DEF Advanced
  <2>4. QED BY <2>2, <2>3
<1>11. Advanced(s)'
  <2>1. CASE HasNextTile
    <3>1. \A m \in Nat : m = i => Holds(s, m)'
        BY <1>1, <1>5, <1>6, <1>b, <2>1, BufferFacts DEF Issued, Ready
    <3>2. Fetching(s, n)'
        BY <1>6, <2>1 DEF Issued, Fetching
    <3>3. QED BY <1>1, <1>3, <1>b, <2>1, <3>1, <3>2 DEF Advanced
  <2>2. CASE ~HasNextTile
      BY <1>1, <1>2, <1>3, <1>5, <1>7, <1>b, <2>2, SameTransfers DEF Advanced, Ready
  <2>3. QED BY <2>1, <2>2
<1>12. \A t \in Input : t > s =>
          IF FutureOf(t) <= s THEN Ready(t, i)' ELSE Fetching(t, i)'
  <2> SUFFICES ASSUME NEW t \in Input, t > s
               PROVE  IF FutureOf(t) <= s THEN Ready(t, i)' ELSE Fetching(t, i)'
      OBVIOUS
  <2>1. t \in Tensor /\ t # s /\ FutureOf(t) \in Nat
      BY <1>2, TensorFacts, FutureFacts DEF Input
  <2>2. IF FutureOf(t) <= s THEN Ready(t, i) ELSE Fetching(t, i)
      BY <1>0, <1>1, <1>2, <1>a, <2>1 DEF InputInv, InputAt, Input
  <2>3. CASE HasNextTile
    <3>1. None(t) => None(t)'
        BY <1>6, <2>1, <2>3 DEF Issued
    <3>2. \A m \in Nat : Holds(t, m) => Holds(t, m)'
        BY <1>6, <2>1, <2>3 DEF Issued
    <3>3. \A m \in Nat : FutureOf(t) # s /\ Fetching(t, m) => Fetching(t, m)'
        BY <1>6, <2>1, <2>3 DEF Issued
    <3>4. \A m \in Nat : m = i => IF FutureOf(t) <= s THEN None(t)' /\ Holds(t, m)'
                                  ELSE Fetching(t, m)'
        BY <1>2, <2>1, <2>2, <3>1, <3>2, <3>3 DEF Ready
    <3>5. QED BY <1>1, <3>4 DEF Ready
  <2>4. CASE ~HasNextTile
      BY <1>1, <1>7, <2>1, <2>2, <2>4, SameTransfers DEF Ready
  <2>5. QED BY <2>3, <2>4
<1>13. InputInv'
  <2> SUFFICES ASSUME NEW t \in Input PROVE InputAt(t)'
      BY DEF InputInv
  <2>1. t \in Nat /\ t <= NIn /\ FutureOf(t) \in Nat
      BY <1>2, TensorFacts, FutureFacts DEF Input
  <2>2. t <= s => Advanced(t)'
      BY <1>2, <1>10, <1>11, <2>1
  <2>3. QED BY <1>2, <1>4, <1>12, <2>1, <2>2 DEF InputAt
<1>14. OutputInv'
  <2> SUFFICES ASSUME NEW o \in Output PROVE Storing(o)'
      BY <1>4 DEF OutputInv, OutputAt
  <2>1. o \in Tensor /\ o # s /\ FutureOf(o) # s /\ Storing(o)
      BY <1>0, <1>1, TensorFacts, FutureFacts DEF OutputInv, OutputAt
  <2>2. CASE HasNextTile
    <3>1. None(o) => None(o)'
        BY <1>6, <2>1, <2>2 DEF Issued
    <3>2. \A m \in Nat : m = i - 1 /\ Only(o, m) => Only(o, m)'
        BY <1>6, <2>1, <2>2 DEF Issued
    <3>3. QED BY <1>1, <2>1, <3>1, <3>2 DEF Storing
  <2>3. CASE ~HasNextTile
      BY <1>1, <1>7, <2>1, <2>3, SameTransfers DEF Storing
  <2>4. QED BY <2>2, <2>3
<1>15. ReferenceInv'
  <2>1. \A t \in Tensor \ Tiled : extRef'[t] = 0
      BY <1>0, <1>2, <1>a
      DEF ReferenceInv, UpdateReference, LoadNextTile, TypeOK, LoopTypeOK
  <2>2. ASSUME NEW t \in Input \cap Tiled PROVE InRefAt(t)'
    <3>1. t \in Tensor /\ t \in Nat /\ t <= NIn
        BY <1>2, TensorFacts DEF Input
    <3>2. extRef[t] = IF t < s THEN NextTile ELSE n
        BY <1>0, <1>1, <1>2, <1>a, <1>b, <3>1 DEF ReferenceInv, InRefAt
    <3>3. extRef'[t] = IF t <= s THEN NextTile ELSE n
      <4>1. CASE HasNextTile
        <5>1. NextTile = n + 1
            BY <1>1, <1>3, <1>b, <4>1 DEF NextTile
        <5>2. QED BY <1>0, <1>2, <1>a, <3>1, <3>2, <4>1, <5>1
                  DEF UpdateReference, LoadNextTile, TypeOK, LoopTypeOK
      <4>2. CASE ~HasNextTile
        <5>1. NextTile = n
            BY <1>1, <1>2, <1>3, <1>b, <4>2 DEF NextTile
        <5>2. QED BY <1>7, <3>2, <4>2, <5>1
      <4>3. QED BY <4>1, <4>2
    <3>4. NextTile' = NextTile
        BY <1>1 DEF NextTile
    <3>5. QED BY <1>1, <1>2, <1>4, <1>b, <3>1, <3>3, <3>4 DEF InRefAt
  <2>3. ASSUME NEW o \in Output \cap Tiled PROVE OutRefAt(o)'
    <3>1. o \in Tensor /\ o # s
        BY TensorFacts
    <3>2. extRef'[o] = extRef[o]
        BY <1>0, <1>2, <1>a, <3>1
        DEF UpdateReference, LoadNextTile, TypeOK, LoopTypeOK
    <3>3. QED BY <1>0, <1>1, <1>4, <3>2 DEF ReferenceInv, OutRefAt
  <2>4. QED BY <2>1, <2>2, <2>3 DEF ReferenceInv
<1>16. AllocInv'
  <2> SUFFICES ASSUME pc' = "wait_input", i + 1 < NumTiles, ~UsesNewFuture(s + 1)
               PROVE  SharesChannel(s + 1)'
      BY <1>1, <1>4 DEF AllocInv
  <2>1. SharesChannel(s)'
      BY <1>3, <1>6, <1>b DEF Issued
  <2>2. FutureOf(s + 1) = FutureOf(s)
      BY <1>2, <1>4, SharedFuture, DmaAssumption DEF Input
  <2>3. QED BY <2>1, <2>2 DEF SharesChannel
<1>17. QED BY <1>8, <1>9, <1>13, <1>14, <1>15, <1>16 DEF IInv

(* The kernel ends: whatever it wrote to the output buffers. *)
LEMMA KernelEnds ==
    ASSUME IInv, pc = "kernel", pc' = "wait_output",
           outBuf' \in [Output -> [Buffer -> SUBSET Nat]],
           UNCHANGED <<channel, free, lastAlloc, pending, inBuf, external,
                       tensor, tileIdx, i, cur, extRef, nextBuf>>
    PROVE  IInv'
<1>0. TypeOK /\ ControlInv /\ InputInv /\ OutputInv /\ ReferenceInv /\ AllocInv
    BY DEF IInv
<1>1. /\ pc = "kernel" /\ pc' = "wait_output" /\ tensor = NIn /\ i' = i
      /\ tensor' = tensor /\ extRef' = extRef /\ cur' = cur /\ tileIdx' = tileIdx
      /\ i \in Nat
    BY <1>0 DEF ControlInv, TypeOK, LoopTypeOK
<1>2. NIn \in Nat /\ NIn \notin Output /\ NIn + 1 \in Output
    BY TensorFacts, DmaAssumption
<1>3. Egress' = NIn + 1
    BY <1>1, <1>2 DEF Egress
<1>4. TypeOK'
    BY <1>0, <1>1 DEF TypeOK, DmaTypeOK, LoopTypeOK, PC
<1>5. ControlInv'  BY <1>0, <1>1, <1>2 DEF ControlInv
<1>6. InputInv'
    BY <1>0, <1>1, SameTransfers, TensorFacts DEF InputInv, InputAt, Advanced
<1>7. OutputInv'
  <2> SUFFICES ASSUME NEW o \in Output PROVE OutputAt(o)'
      BY DEF OutputInv
  <2>1. o \in Nat /\ o > NIn /\ FutureOf(o) \in Nat /\ FutureOf(o) > NIn
      BY <1>2, TensorFacts, FutureFacts, DmaAssumption DEF Output
  <2>2. Storing(o)'
      BY <1>0, <1>1, SameTransfers, TensorFacts DEF OutputInv, OutputAt, Storing
  <2>3. QED BY <1>1, <1>2, <1>3, <2>1, <2>2 DEF OutputAt
<1>8. ReferenceInv'
  <2> USE <1>1, <1>2, <1>3
  <2>1. \A o \in Output : o > NIn /\ o \in Nat  BY DmaAssumption DEF Output
  <2>2. QED BY <1>0, <2>1 DEF ReferenceInv, InRefAt, OutRefAt, NextTile
<1>9. AllocInv'
  <2>1. UsesNewFuture(NIn + 1)
      BY <1>2, DmaAssumption DEF UsesNewFuture, FutureOf, Input
  <2>2. QED BY <1>1, <1>3, <2>1 DEF AllocInv
<1>10. QED BY <1>4, <1>5, <1>6, <1>7, <1>8, <1>9 DEF IInv

LEMMA KernelInv == ASSUME L3Tensor = {}, IInv, Kernel PROVE IInv'
<1> USE DEF Kernel, RunKernel
<1>0. TypeOK /\ i \in Nat /\ cur \in [Tensor -> Buffer]
    BY DEF IInv, TypeOK, LoopTypeOK
<1>1. TileResult \in SUBSET Nat
    BY <1>0, DmaAssumption DEF TileResult, Junk
<1>2. ASSUME NEW o \in Output
      PROVE  [outBuf[o] EXCEPT ![cur[o]] =
                 IF KeepsPartialSum THEN @ \cup TileResult ELSE TileResult]
             \in [Buffer -> SUBSET Nat]
  <2>1. outBuf[o] \in [Buffer -> SUBSET Nat] /\ o \in Tensor
      BY <1>0, TensorFacts DEF TypeOK, DmaTypeOK
  <2>2. cur[o] \in Buffer /\ outBuf[o][cur[o]] \in SUBSET Nat
      BY <1>0, <2>1
  <2>3. outBuf[o][cur[o]] \cup TileResult \in SUBSET Nat
      BY <1>1, <2>2
  <2>4. QED BY <1>1, <2>1, <2>2, <2>3
<1>3. outBuf' \in [Output -> [Buffer -> SUBSET Nat]]
    BY <1>2
<1>4. QED BY <1>3, KernelEnds

LEMMA WaitOutputInv == ASSUME L3Tensor = {}, IInv, WaitOutput PROVE IInv'
<1> USE DEF WaitOutput, dmaVars
<1>0. TypeOK /\ ControlInv /\ InputInv /\ OutputInv /\ ReferenceInv /\ AllocInv
    BY DEF IInv
<1>a. PICK s \in Output : s = Egress
    BY TensorFacts DEF Egress
<1>1. /\ pc = "wait_output" /\ pc' = "store" /\ tensor' = s /\ i' = i
      /\ extRef' = extRef /\ cur' = cur /\ tileIdx' = tileIdx /\ i \in Nat
      /\ s \in Tensor /\ s \in Nat
    BY <1>0, <1>a, TensorFacts DEF TypeOK, LoopTypeOK, Output
<1>2. UNCHANGED <<channel, lastAlloc, pending, inBuf, outBuf, external>>
    BY DEF WaitFuture
<1>3. Egress' = s
    BY <1>1 DEF Egress
<1>4. UsesNewFuture(s) => WaitFuture(s)
    BY <1>a
<1>5. DmaTypeOK'
    BY <1>0, <1>1, <1>4, <1>a, WaitEffect DEF TypeOK, DmaTypeOK, Future
<1>6. TypeOK'  BY <1>0, <1>1, <1>5 DEF TypeOK, LoopTypeOK, PC
<1>7. ControlInv'  BY <1>0, <1>1 DEF ControlInv
<1>8. InputInv'
    BY <1>0, <1>1, <1>2, SameTransfers, TensorFacts DEF InputInv, InputAt, Advanced
<1>9. OutputInv'
  <2> SUFFICES ASSUME NEW o \in Output PROVE OutputAt(o)'
      BY DEF OutputInv
  <2>1. o \in Tensor /\ FutureOf(o) \in Nat /\ o \in Nat
      BY TensorFacts, FutureFacts DEF Output
  <2>2. CASE o < s
    <3>1. Only(o, i)  BY <1>0, <1>1, <1>a, <2>2 DEF OutputInv, OutputAt
    <3>2. Only(o, i)'  BY <3>1, <1>1, <1>2, <2>1, SameTransfers
    <3>3. QED BY <1>1, <2>2, <3>2 DEF OutputAt
  <2>3. CASE o >= s /\ FutureOf(o) > s
    <3>1. Storing(o)  BY <1>0, <1>1, <1>a, <2>1, <2>3 DEF OutputInv, OutputAt
    <3>2. Storing(o)'
        BY <3>1, <1>1, <1>2, <2>1, SameTransfers DEF Storing
    <3>3. QED BY <1>1, <2>1, <2>3, <3>2 DEF OutputAt
  <2>4. CASE o >= s /\ FutureOf(o) <= s
    <3>1. None(o)
      <4>1. CASE FutureOf(o) < s
          BY <1>0, <1>1, <1>a, <2>1, <2>4, <4>1 DEF OutputInv, OutputAt
      <4>2. CASE FutureOf(o) = s
        <5>1. s \in Future /\ UsesNewFuture(s)
            BY <2>1, <4>2, FutureFacts DEF Future
        <5>2. Storing(o)
            BY <1>0, <1>1, <1>a, <2>1, <2>4, <4>2 DEF OutputInv, OutputAt
        <5>3. \A j \in Nat : Only(o, j) => None(o)
            BY <1>0, <1>4, <2>1, <4>2, <5>1, WaitEffect
        <5>4. QED BY <1>1, <5>2, <5>3 DEF Storing
      <4>3. QED BY <2>1, <2>4, <4>1, <4>2, <1>1
    <3>2. None(o)'  BY <3>1, <1>2, <2>1, SameTransfers
    <3>3. QED BY <1>1, <2>1, <2>4, <3>2 DEF OutputAt
  <2>5. QED BY <1>1, <2>1, <2>2, <2>3, <2>4
<1>10. ReferenceInv'
    BY <1>0, <1>1, <1>a DEF ReferenceInv, InRefAt, OutRefAt, NextTile
<1>11. AllocInv'
    BY <1>0, <1>1, <1>2, <1>3, <1>a DEF AllocInv, SharesChannel
<1>12. QED BY <1>6, <1>7, <1>8, <1>9, <1>10, <1>11 DEF IInv

LEMMA StoreInv == ASSUME L3Tensor = {}, IInv, Store PROVE IInv'
<1> USE DEF Store
<1>0. TypeOK /\ ControlInv /\ InputInv /\ OutputInv /\ ReferenceInv /\ AllocInv
    BY DEF IInv
<1>1. /\ pc = "store" /\ tileIdx = 0 /\ i < NumTiles /\ i \in Nat
      /\ tensor \in Output /\ cur' = cur /\ tileIdx' = tileIdx
      /\ \A t \in Tensor : cur[t] = BufferOf(i)
    BY <1>0 DEF ControlInv, TypeOK, LoopTypeOK
<1>a. PICK s \in Output : s = tensor
    BY <1>1
<1>b. PICK n \in Nat : n = i
    BY <1>1
<1>2. /\ s \in Tensor /\ s \in Nat /\ s > NIn /\ s <= NIn + NOut
      /\ NumTiles \in Nat /\ NIn \in Nat /\ NOut \in Nat
    BY TensorFacts, DmaAssumption DEF Output
<1>3. Egress = s
    BY <1>a DEF Egress
<1>4. \/ s < NIn + NOut /\ tensor' = s + 1 /\ i' = i /\ pc' = "wait_output"
      \/ s = NIn + NOut /\ tensor' = 1 /\ i' = i + 1 /\ pc' = "loop"
    BY <1>1, <1>2, <1>a
<1>5. Issued(s, n)
  <2>1. cur[s] = BufferOf(n) /\ ExternalRect(s) = Rect(s, n)
      BY <1>0, <1>1, <1>2, <1>a, <1>b
      DEF ExternalRect, Rect, ReferenceInv, OutRefAt
  <2>2. None(s)
      BY <1>0, <1>1, <1>2, <1>a, FutureFacts DEF OutputInv, OutputAt
  <2>3. UsesNewFuture(s) \/ SharesChannel(s)
      BY <1>0, <1>1, <1>3 DEF AllocInv
  <2>4. AllocFor(s) /\ Issue(s, BufferOf(n), Rect(s, n))
      BY <1>a, <2>1
  <2>5. QED BY <1>0, <1>2, <2>2, <2>3, <2>4, IssueEffect
<1>6. TypeOK'
  <2>1. extRef' \in [Tensor -> 0..NumTiles]
      BY <1>0, <1>1, <1>2, <1>a
      DEF TypeOK, LoopTypeOK, UpdateReference, ReferenceInv, OutRefAt
  <2>2. tensor' \in Tensor /\ i' \in 0..NumTiles
      BY <1>1, <1>2, <1>4, TensorFacts DEF Output
  <2>3. QED BY <1>0, <1>4, <1>5, <2>1, <2>2
            DEF TypeOK, LoopTypeOK, PC, Issued
<1>7. ControlInv'
  <2>1. s < NIn + NOut => s + 1 >= NIn
      BY <1>2
  <2>2. QED BY <1>1, <1>2, <1>4, <2>1 DEF ControlInv
<1>8. InputInv'
  <2> SUFFICES ASSUME NEW t \in Input PROVE InputAt(t)'
      BY DEF InputInv
  <2>1. t \in Tensor /\ t # s /\ FutureOf(t) # s
      BY TensorFacts, FutureFacts
  <2>2. Advanced(t)
      BY <1>0, <1>1 DEF InputInv, InputAt
  <2>3. \A m \in Nat : Holds(t, m) => Holds(t, m)'
      BY <1>5, <2>1 DEF Issued
  <2>4. \A m \in Nat : Fetching(t, m) => Fetching(t, m)'
      BY <1>5, <2>1 DEF Issued
  <2>5. None(t) => None(t)'
      BY <1>5, <2>1 DEF Issued
  <2>6. CASE pc' = "wait_output"
      BY <1>1, <1>4, <2>2, <2>3, <2>4, <2>5, <2>6 DEF InputAt, Advanced
  <2>7. CASE pc' = "loop"
    <3>1. \A m \in Nat : m = i + 1 =>
              IF m < NumTiles THEN Fetching(t, m)' ELSE None(t)'
        BY <2>2, <2>4, <2>5 DEF Advanced
    <3>2. i' = i + 1
        BY <1>4, <2>7
    <3>3. QED BY <1>1, <2>7, <3>1, <3>2 DEF InputAt
  <2>8. QED BY <1>4, <2>6, <2>7
<1>9. OutputInv'
  <2> SUFFICES ASSUME NEW o \in Output PROVE OutputAt(o)'
      BY DEF OutputInv
  <2>1. o \in Tensor /\ o \in Nat /\ o <= NIn + NOut /\ FutureOf(o) \in Nat
      BY <1>2, TensorFacts, FutureFacts DEF Output
  <2>2. o <= s => Only(o, n)'
    <3>1. CASE o = s
        BY <1>5, <3>1 DEF Issued
    <3>2. CASE o < s
      <4>1. Only(o, n)
          BY <1>0, <1>1, <1>a, <1>b, <3>2 DEF OutputInv, OutputAt
      <4>2. FutureOf(o) # s
          BY <1>2, <2>1, <3>2, FutureFacts
      <4>3. QED BY <1>2, <1>5, <2>1, <3>2, <4>1, <4>2 DEF Issued
    <3>3. QED BY <1>2, <2>1, <3>1, <3>2
  <2>3. CASE pc' = "wait_output"
    <3>1. Egress' = s + 1
        BY <1>2, <1>4, <2>3 DEF Egress, Output
    <3>2. o > s => IF FutureOf(o) < s + 1 THEN None(o)' ELSE Storing(o)'
      <4> SUFFICES ASSUME o > s
                   PROVE  IF FutureOf(o) < s + 1 THEN None(o)' ELSE Storing(o)'
          OBVIOUS
      <4>1. IF FutureOf(o) <= s THEN None(o) ELSE Storing(o)
          BY <1>0, <1>1, <1>2, <1>a, <2>1 DEF OutputInv, OutputAt
      <4>2. None(o) => None(o)'
          BY <1>2, <1>5, <2>1 DEF Issued
      <4>3. \A m \in Nat : FutureOf(o) # s /\ Only(o, m) => Only(o, m)'
          BY <1>2, <1>5, <2>1 DEF Issued
      <4>4. FutureOf(o) > s => Storing(o)'
        <5>1. \A m \in Nat : m = i - 1 /\ FutureOf(o) > s /\ Only(o, m) => Only(o, m)'
            BY <1>2, <4>3
        <5>2. i' = i
            BY <1>4, <2>3
        <5>3. QED BY <1>1, <1>2, <2>1, <4>1, <4>2, <5>1, <5>2 DEF Storing
      <4>5. QED BY <1>2, <2>1, <4>1, <4>2, <4>4
    <3>3. QED BY <1>2, <1>4, <1>b, <2>1, <2>2, <2>3, <3>1, <3>2 DEF OutputAt
  <2>4. CASE pc' = "loop"
    <3>1. Only(o, n)' /\ i' = n + 1
        BY <1>4, <1>b, <2>1, <2>2, <2>4
    <3>2. Storing(o)'
      <4>1. i' # 0 /\ i' - 1 = n
          BY <3>1
      <4>2. QED BY <3>1, <4>1 DEF Storing
    <3>3. QED BY <2>4, <3>2 DEF OutputAt
  <2>5. QED BY <1>4, <2>3, <2>4
<1>10. ReferenceInv'
  <2>1. \A t \in Tensor \ Tiled : extRef'[t] = 0
      BY <1>0, <1>2, <1>a DEF ReferenceInv, UpdateReference, TypeOK, LoopTypeOK
  <2>2. ASSUME NEW t \in Input \cap Tiled PROVE InRefAt(t)'
    <3>1. t \in Tensor /\ t # s
        BY TensorFacts
    <3>2. extRef'[t] = NextTile
        BY <1>0, <1>1, <1>a, <3>1
        DEF ReferenceInv, InRefAt, UpdateReference, TypeOK, LoopTypeOK
    <3>3. CASE pc' = "wait_output"
      <4>1. NextTile' = NextTile
          BY <1>4, <3>3 DEF NextTile
      <4>2. QED BY <3>2, <3>3, <4>1 DEF InRefAt
    <3>4. CASE pc' = "loop"
      <4>1. i' = i + 1
          BY <1>4, <3>4
      <4>2. i + 1 < NumTiles => NextTile = (i + 1) + 1
          BY <1>1 DEF NextTile
      <4>3. QED BY <1>1, <3>2, <3>4, <4>1, <4>2 DEF InRefAt
    <3>5. QED BY <1>4, <3>3, <3>4
  <2>3. ASSUME NEW o \in Output \cap Tiled PROVE OutRefAt(o)'
    <3>1. o \in Tensor /\ o \in Nat /\ o <= NIn + NOut
        BY <1>2, TensorFacts DEF Output
    <3>2. extRef'[o] = IF o <= s THEN i + 1 ELSE i
        BY <1>0, <1>1, <1>2, <1>a, <3>1
        DEF ReferenceInv, OutRefAt, UpdateReference, TypeOK, LoopTypeOK
    <3>3. CASE pc' = "wait_output"
      <4>1. Egress' = s + 1
          BY <1>2, <1>4, <3>3 DEF Egress, Output
      <4>2. QED BY <1>2, <1>4, <3>1, <3>2, <3>3, <4>1 DEF OutRefAt
    <3>4. CASE pc' = "loop"
        BY <1>4, <3>1, <3>2, <3>4 DEF OutRefAt
    <3>5. QED BY <1>4, <3>3, <3>4
  <2>4. QED BY <2>1, <2>2, <2>3 DEF ReferenceInv
<1>11. AllocInv'
  <2> SUFFICES ASSUME pc' = "wait_output", ~UsesNewFuture(Egress)'
               PROVE  SharesChannel(Egress)'
      BY <1>4 DEF AllocInv
  <2>1. Egress' = s + 1 /\ s + 1 \in Output
      BY <1>2, <1>4 DEF Egress, Output
  <2>2. FutureOf(s + 1) = FutureOf(s)
      BY <1>2, <2>1, SharedFuture DEF UsesNewFuture
  <2>3. SharesChannel(s)'
      BY <1>5 DEF Issued
  <2>4. QED BY <2>1, <2>2, <2>3 DEF SharesChannel
<1>12. QED BY <1>6, <1>7, <1>8, <1>9, <1>10, <1>11 DEF IInv

LEMMA LeaveLoopInv == ASSUME L3Tensor = {}, IInv, LeaveLoop PROVE IInv'
<1> USE DEF LeaveLoop, CloseLoop, dmaVars
<1>0. TypeOK /\ ControlInv /\ InputInv /\ OutputInv /\ ReferenceInv /\ AllocInv
    BY DEF IInv
<1>1. /\ pc = "loop" /\ pc' = "drain" /\ tileIdx = 0 /\ tileIdx' = 1
      /\ i' = i /\ extRef' = extRef /\ cur' = cur /\ tensor' = NIn + 1
    BY <1>0 DEF ControlInv
<1>2. i = NumTiles /\ NumTiles > 0 /\ NumTiles \in Nat
    BY <1>0, <1>1, LoopBounds, DmaAssumption DEF TypeOK, LoopTypeOK
<1>3. TypeOK'
  <2>1. 1 \in 0..Invocations
      BY OneInvocation
  <2>2. QED BY <1>0, <1>1, <2>1, TensorFacts DEF TypeOK, DmaTypeOK, LoopTypeOK, PC
<1>4. ControlInv'  BY <1>1, <1>2, TensorFacts DEF ControlInv
<1>5. InputInv'
  <2> SUFFICES ASSUME NEW t \in Input PROVE None(t)'
      BY <1>1 DEF InputInv, InputAt
  <2>1. None(t)  BY <1>0, <1>1, <1>2 DEF InputInv, InputAt
  <2>2. QED BY <2>1, SameTransfers, TensorFacts
<1>6. OutputInv'
  <2> SUFFICES ASSUME NEW o \in Output PROVE OutputAt(o)'
      BY DEF OutputInv
  <2>1. FutureOf(o) \in Nat /\ FutureOf(o) >= NIn + 1
      BY TensorFacts, FutureFacts, DmaAssumption DEF Output
  <2>2. Storing(o)'
      BY <1>0, <1>1, <1>2, SameTransfers, TensorFacts
      DEF OutputInv, OutputAt, Storing
  <2>3. QED BY <1>1, <2>1, <2>2, DmaAssumption DEF OutputAt
<1>7. ReferenceInv'
    BY <1>0, <1>1 DEF ReferenceInv, InRefAt, OutRefAt
<1>8. AllocInv'  BY <1>1 DEF AllocInv
<1>9. QED BY <1>3, <1>4, <1>5, <1>6, <1>7, <1>8 DEF IInv

LEMMA DrainInv == ASSUME L3Tensor = {}, IInv, Drain PROVE IInv'
<1> USE DEF Drain, dmaVars
<1>0. TypeOK /\ ControlInv /\ InputInv /\ OutputInv /\ ReferenceInv /\ AllocInv
    BY DEF IInv
<1>1. /\ pc = "drain" /\ tileIdx = 1 /\ tileIdx' = 1 /\ i' = i /\ i = NumTiles
      /\ extRef' = extRef /\ cur' = cur /\ tensor \in Output
    BY <1>0 DEF ControlInv
<1>a. PICK s \in Output : s = tensor
    BY <1>1
<1>2. /\ s \in Tensor /\ s \in Nat /\ s >= NIn + 1 /\ s <= NIn + NOut
      /\ NIn \in Nat /\ NOut \in Nat /\ NumTiles \in Nat /\ NumTiles > 0
    BY TensorFacts, DmaAssumption DEF Output
<1>3. \/ s < NIn + NOut /\ tensor' = s + 1 /\ pc' = "drain"
      \/ s = NIn + NOut /\ tensor' = 1 /\ pc' = "call"
    BY <1>1, <1>2, <1>a
<1>4. UNCHANGED <<channel, lastAlloc, pending, inBuf, outBuf, external>>
    BY DEF WaitFuture
<1>5. DmaTypeOK'
  <2>1. CASE UsesNewFuture(s)
      BY <1>0, <1>2, <1>a, <2>1, WaitEffect DEF TypeOK, Future
  <2>2. CASE ~UsesNewFuture(s)
      BY <1>0, <1>a, <2>2 DEF TypeOK, DmaTypeOK
  <2>3. QED BY <2>1, <2>2
<1>6. TypeOK'
  <2>1. tensor' \in Tensor
      BY <1>2, <1>3, TensorFacts DEF Output
  <2>2. QED BY <1>0, <1>3, <1>5, <2>1 DEF TypeOK, LoopTypeOK, PC
<1>7. \A t \in Input : None(t)
    BY <1>0, <1>1 DEF InputInv, InputAt
<1>8. \A o \in Output : FutureOf(o) <= s => None(o)
  <2> SUFFICES ASSUME NEW o \in Output, FutureOf(o) <= s PROVE None(o)
      OBVIOUS
  <2>1. o \in Tensor /\ FutureOf(o) \in Nat
      BY TensorFacts, FutureFacts DEF Output
  <2>2. CASE FutureOf(o) < s
      BY <1>0, <1>1, <1>a, <2>1, <2>2 DEF OutputInv, OutputAt
  <2>3. CASE FutureOf(o) = s
    <3>1. s \in Future /\ UsesNewFuture(s)
        BY <2>1, <2>3, FutureFacts DEF Future
    <3>2. Storing(o)
        BY <1>0, <1>1, <1>2, <1>a, <2>3 DEF OutputInv, OutputAt
    <3>3. \A j \in Nat : Only(o, j) => None(o)
        BY <1>0, <1>a, <2>1, <2>3, <3>1, WaitEffect
    <3>4. i - 1 \in Nat
        BY <1>1, <1>2
    <3>5. QED BY <3>2, <3>3, <3>4 DEF Storing
  <2>4. QED BY <1>2, <2>1, <2>2, <2>3
<1>9. pc' = "call" => pending' = {}
  <2> SUFFICES ASSUME pc' = "call" PROVE \A t \in Tensor : None(t)
      BY <1>0, <1>4 DEF None, TypeOK, DmaTypeOK, Transfer
  <2>1. s = NIn + NOut
      BY <1>3
  <2>2. \A o \in Output : FutureOf(o) <= s
      BY <1>2, <2>1, TensorFacts, FutureFacts DEF Output
  <2>3. QED BY <1>7, <1>8, <2>2, TensorFacts
<1>10. ControlInv'
    BY <1>0, <1>1, <1>2, <1>3, <1>9, TensorFacts DEF ControlInv, Output
<1>11. InputInv'
    BY <1>3, <1>4, <1>7, SameTransfers, TensorFacts DEF InputInv, InputAt
<1>12. OutputInv'
  <2> SUFFICES ASSUME NEW o \in Output, pc' = "drain" PROVE OutputAt(o)'
      BY <1>3 DEF OutputInv, OutputAt
  <2>1. o \in Tensor /\ FutureOf(o) \in Nat
      BY TensorFacts, FutureFacts DEF Output
  <2>2. FutureOf(o) <= s => None(o)'
      BY <1>4, <1>8, <2>1, SameTransfers
  <2>3. FutureOf(o) > s => Storing(o)'
    <3>1. FutureOf(o) > s => Storing(o)
        BY <1>0, <1>1, <1>2, <1>a, <2>1 DEF OutputInv, OutputAt
    <3>2. i - 1 \in Nat
        BY <1>1, <1>2
    <3>3. QED BY <1>1, <1>4, <2>1, <3>1, <3>2, SameTransfers DEF Storing
  <2>4. QED BY <1>2, <1>3, <2>1, <2>2, <2>3 DEF OutputAt
<1>13. ReferenceInv'
    BY <1>0, <1>1, <1>3 DEF ReferenceInv, InRefAt, OutRefAt
<1>14. AllocInv'  BY <1>3 DEF AllocInv
<1>15. QED BY <1>6, <1>10, <1>11, <1>12, <1>13, <1>14 DEF IInv

LEMMA DmaRunsInv == ASSUME L3Tensor = {}, IInv, DmaRuns PROVE IInv'
<1> USE DEF DmaRuns, DmaStep, loopVars
<1>0. TypeOK /\ ControlInv /\ InputInv /\ OutputInv /\ ReferenceInv /\ AllocInv
    BY DEF IInv
<1>1. PICK x \in pending : CompleteTransfer(x)
    OBVIOUS
<1>2. /\ pc' = pc /\ tensor' = tensor /\ tileIdx' = tileIdx /\ i' = i
      /\ cur' = cur /\ extRef' = extRef /\ nextBuf' = nextBuf
      /\ channel' = channel /\ lastAlloc' = lastAlloc
    BY <1>1 DEF CompleteTransfer
<1>3. DmaTypeOK'
    BY <1>0, <1>1, CompleteEffect
<1>4. TypeOK'
    BY <1>0, <1>2, <1>3 DEF TypeOK, LoopTypeOK
<1>5. ControlInv'
    BY <1>0, <1>1, <1>2 DEF ControlInv
<1>6. i \in Nat
    BY <1>0 DEF TypeOK, LoopTypeOK
<1>7. \A t \in Input :
          /\ None(t) => None(t)'
          /\ \A m \in Nat : Fetching(t, m) => Fetching(t, m)'
          /\ \A m \in Nat : None(t) /\ Holds(t, m) => Holds(t, m)'
    BY <1>0, <1>1, TensorFacts, CompleteEffect
<1>8. \A t \in Input : Advanced(t) => Advanced(t)'
  <2> SUFFICES ASSUME NEW t \in Input, Advanced(t) PROVE Advanced(t)'
      OBVIOUS
  <2>a. PICK m \in Nat, n \in Nat : m = i /\ n = i + 1
      BY <1>6
  <2>1. CASE n < NumTiles
    <3>1. Holds(t, m) /\ Fetching(t, n)
        BY <2>1, <2>a DEF Advanced
    <3>2. BufferOf(m) # BufferOf(n)
        BY <2>a, BufferFacts
    <3>3. Holds(t, m)'
        BY <1>0, <1>1, <3>1, <3>2, TensorFacts, CompleteEffect DEF Fetching
    <3>4. Fetching(t, n)'
        BY <1>7, <3>1
    <3>5. QED BY <1>2, <2>1, <2>a, <3>3, <3>4 DEF Advanced
  <2>2. CASE ~(n < NumTiles)
    <3>1. Holds(t, m) /\ None(t)
        BY <2>2, <2>a DEF Advanced
    <3>2. Holds(t, m)' /\ None(t)'
        BY <1>7, <3>1
    <3>3. QED BY <1>2, <2>2, <2>a, <3>2 DEF Advanced
  <2>3. QED BY <2>1, <2>2
<1>9. \A t \in Input :
          /\ Fetching(t, i) => Fetching(t, i)'
          /\ Ready(t, i) => Ready(t, i)'
          /\ Fetching(t, 0) => Fetching(t, 0)'
  <2>a. PICK m \in Nat : m = i
      BY <1>6
  <2>1. QED BY <1>2, <1>7, <2>a DEF Ready
<1>10. InputInv'
    BY <1>0, <1>2, <1>7, <1>8, <1>9 DEF InputInv, InputAt
<1>11. \A o \in Output :
          /\ None(o) => None(o)'
          /\ Only(o, i) => Only(o, i)'
          /\ Storing(o) => Storing(o)'
  <2> SUFFICES ASSUME NEW o \in Output
               PROVE  /\ None(o) => None(o)'
                      /\ Only(o, i) => Only(o, i)'
                      /\ Storing(o) => Storing(o)'
      OBVIOUS
  <2>1. None(o) => None(o)'
      BY <1>0, <1>1, TensorFacts, CompleteEffect
  <2>2. \A m \in Nat : Only(o, m) => Only(o, m)'
      BY <1>0, <1>1, TensorFacts, CompleteEffect
  <2>3. Only(o, i) => Only(o, i)'
    <3>a. PICK m \in Nat : m = i
        BY <1>6
    <3>1. QED BY <1>2, <2>2, <3>a
  <2>4. i # 0 /\ Only(o, i - 1) => Only(o, i - 1)'
    <3> SUFFICES ASSUME i # 0 PROVE Only(o, i - 1) => Only(o, i - 1)'
        OBVIOUS
    <3>a. PICK m \in Nat : m = i - 1
        BY <1>6
    <3>1. QED BY <1>2, <2>2, <3>a
  <2>5. QED BY <1>2, <2>1, <2>3, <2>4 DEF Storing
<1>12. OutputInv'
  <2>1. Egress' = Egress
      BY <1>2 DEF Egress
  <2>2. QED BY <1>0, <1>2, <1>11, <2>1 DEF OutputInv, OutputAt
<1>13. ReferenceInv'
    BY <1>0, <1>2 DEF ReferenceInv, InRefAt, OutRefAt, NextTile, Egress
<1>14. AllocInv'
    BY <1>0, <1>2 DEF AllocInv, SharesChannel, Egress
<1>15. QED BY <1>4, <1>5, <1>10, <1>12, <1>13, <1>14 DEF IInv

-----------------------------------------------------------------------------
(* The theorems. *)

LEMMA StutterInv == ASSUME IInv, UNCHANGED vars PROVE IInv'
<1>1. IInv /\ UNCHANGED vars => IInv'
    BY SameTransfers DEF vars, IInv, TypeOK, DmaTypeOK, LoopTypeOK, ControlInv,
       InputInv, InputAt, OutputInv, OutputAt, ReferenceInv, InRefAt, OutRefAt,
       AllocInv, SharesChannel, Advanced, Storing, Ready, Fetching, Only, None,
       Holds, Egress, NextTile
<1>2. QED BY <1>1

LEMMA Inductive == ASSUME L3Tensor = {} PROVE Spec => []IInv
<1>1. Init => IInv
    BY InitInv
<1>2. IInv /\ [Next]_vars => IInv'
  <2> SUFFICES ASSUME IInv, [Next]_vars PROVE IInv'
      OBVIOUS
  <2>1. CASE CoreStep
      BY <2>1, EnterInv, LoadFirstInv, OpenTileInv, WaitInputInv, LoadNextInv,
         KernelInv, WaitOutputInv, StoreInv, LeaveLoopInv, DrainInv DEF CoreStep
  <2>2. CASE DmaRuns
      BY <2>2, DmaRunsInv
  <2>3. CASE Stay
      BY <2>3, StutterInv DEF Stay, Idle, vars, dmaVars, loopVars
  <2>4. CASE UNCHANGED vars
      BY <2>4, StutterInv
  <2>5. QED BY <2>1, <2>2, <2>3, <2>4 DEF Next
<1>3. QED BY <1>1, <1>2, PTL DEF Spec

(* Every variable keeps to its type: the buffer, tile and channel numbers the
   generated loop computes stay in range for any number of tiles. *)
THEOREM TypeCorrect == ASSUME L3Tensor = {} PROVE Spec => []TypeOK
<1>1. IInv => TypeOK
    BY DEF IInv
<1>2. QED BY <1>1, Inductive, PTL

LEMMA KernelReady == ASSUME IInv PROVE KernelInputsCurrent
<1> SUFFICES ASSUME pc = "kernel", NEW t \in Input
             PROVE  inBuf[t][cur[t]] = Rect(t, i)
    BY DEF KernelInputsCurrent, InputsLoaded
<1>1. Advanced(t)
    BY DEF IInv, InputInv, InputAt
<1>2. cur[t] = BufferOf(i)
    BY TensorFacts DEF IInv, ControlInv
<1>3. QED BY <1>1, <1>2 DEF Advanced, Holds

(* _tilingLoop never starts the kernel before the current tile of every input
   has arrived, although it waits only once for inputs that share a future. *)
THEOREM InputsArrive == ASSUME L3Tensor = {} PROVE Spec => []KernelInputsCurrent
BY KernelReady, Inductive, PTL

(* At most one transfer of a tensor is in flight, and the invariant knows its
   tile. *)
LEMMA OneTransfer ==
    ASSUME IInv, NEW t \in Tensor
    PROVE  None(t) \/ \E j \in Nat : Only(t, j)
<1>0. TypeOK /\ ControlInv /\ InputInv /\ OutputInv
    BY DEF IInv
<1>1. i \in Nat /\ i + 1 \in Nat /\ (i # 0 => i - 1 \in Nat) /\ 0 \in Nat
    BY <1>0 DEF TypeOK, LoopTypeOK
<1>2. CASE pc = "call"
    BY <1>0, <1>2 DEF ControlInv, None
<1>3. CASE pc # "call" /\ t \in Input
  <2>1. InputAt(t)
      BY <1>0, <1>3 DEF InputInv
  <2>2. Advanced(t) => None(t) \/ Only(t, i + 1)
      BY DEF Advanced, Fetching
  <2>3. QED BY <1>0, <1>1, <1>3, <2>1, <2>2 DEF InputAt, Fetching, Ready, TypeOK, PC
<1>4. CASE pc # "call" /\ t \in Output
  <2>1. OutputAt(t)
      BY <1>0, <1>4 DEF OutputInv
  <2>2. Storing(t) => None(t) \/ (i # 0 /\ Only(t, i - 1))
      BY DEF Storing
  <2>3. QED BY <1>0, <1>1, <1>4, <2>1, <2>2 DEF OutputAt, TypeOK, PC
<1>5. QED BY <1>2, <1>3, <1>4, TensorFacts

(* No transfer in flight meets another, nor the buffers of a running kernel. *)
LEMMA Apart == ASSUME IInv PROVE NoBufferRace
<1>1. IInv => TransfersDisjoint
  <2> SUFFICES ASSUME IInv, NEW x \in pending, NEW y \in pending,
                      x.tensor = y.tensor
               PROVE  x = y
      BY DEF TransfersDisjoint
  <2>1. x \in Transfer /\ y \in Transfer
      BY DEF IInv, TypeOK, DmaTypeOK
  <2>2. PICK j \in Nat : Only(x.tensor, j)
      BY <2>1, OneTransfer DEF None, Transfer
  <2>3. x.buf = y.buf /\ x.rect = y.rect /\ x.chan = y.chan
      BY <2>2 DEF Only
  <2>4. QED BY <2>1, <2>3 DEF Transfer
<1>2. IInv /\ pc = "kernel" => \A t \in Tensor : Quiet(t, cur[t])
  <2> SUFFICES ASSUME IInv, pc = "kernel", NEW t \in Tensor, NEW x \in pending,
                      x.tensor = t
               PROVE  x.buf # cur[t]
      BY DEF Quiet
  <2>0. ControlInv /\ InputInv /\ OutputInv /\ i \in Nat
      BY DEF IInv, TypeOK, LoopTypeOK
  <2>1. cur[t] = BufferOf(i) /\ ~None(t)
      BY <2>0 DEF ControlInv, None
  <2>2. CASE t \in Input
    <3>1. x.buf = BufferOf(i + 1)
        BY <2>0, <2>1, <2>2 DEF InputInv, InputAt, Advanced, Fetching, Only
    <3>2. QED BY <2>0, <2>1, <3>1, BufferFacts
  <2>3. CASE t \in Output
    <3>1. i # 0 /\ x.buf = BufferOf(i - 1)
        BY <2>0, <2>1, <2>3 DEF OutputInv, OutputAt, Storing, Only
    <3>a. PICK m \in Nat : m = i - 1
        BY <2>0, <3>1
    <3>2. i = m + 1
        BY <2>0, <3>a
    <3>3. QED BY <2>1, <3>1, <3>2, <3>a, BufferFacts
  <2>4. QED BY <2>2, <2>3, TensorFacts
<1>3. QED BY <1>1, <1>2 DEF NoBufferRace

(* While the kernel runs on one buffer of each tensor the DMA works on the
   other, and no two transfers in flight meet in a buffer or a rectangle. *)
THEOREM BuffersApart == ASSUME L3Tensor = {} PROVE Spec => []NoBufferRace
BY Apart, Inductive, PTL

-----------------------------------------------------------------------------
(* The channels.  A future holds one from the allocation for the first      *)
(* tensor that uses it to the wait on it, which is a whole tile later.      *)

InputHeld(f) ==
    \/ pc = "load_first" /\ f < tensor
    \/ pc = "loop" /\ i < NumTiles
    \/ pc \in {"wait_input", "load_next"} /\ f < tensor /\ i + 1 < NumTiles
    \/ pc = "wait_input" /\ f >= tensor
    \/ pc = "load_next" /\ f > tensor
    \/ pc \in {"kernel", "wait_output", "store"} /\ i + 1 < NumTiles

OutputHeld(f) ==
    \/ pc \in {"loop", "wait_input", "load_next", "kernel"} /\ i # 0
    \/ pc = "wait_output" /\ (f < Egress \/ i # 0)
    \/ pc = "store" /\ (f < tensor \/ (f > tensor /\ i # 0))
    \/ pc = "drain" /\ f >= tensor

Held(f) == \/ f \in Input /\ InputHeld(f)
           \/ f \in Output /\ OutputHeld(f)

(* No output future is waited on at the first tile except in vain.          *)
FirstTileOf(f) == f \in Output /\ pc # "call" /\ i = 0 /\ ~Held(f)

ChannelInv ==
    /\ \A f \in Future : Held(f) => channel[f] \in Channel \ free
    /\ \A f, g \in Future : Held(f) /\ Held(g) /\ f # g => channel[f] # channel[g]
    /\ \A c \in Channel \ free : \E f \in Future : Held(f) /\ channel[f] = c
    /\ \A f \in Future : FirstTileOf(f) => channel[f] = NoChannel

LEMMA SameChannels ==
    ASSUME ChannelInv, UNCHANGED <<channel, free>>,
           \A f \in Future : /\ Held(f)' <=> Held(f)
                             /\ FirstTileOf(f)' => FirstTileOf(f)
    PROVE  ChannelInv'
BY DEF ChannelInv

LEMMA AllocChannels ==
    ASSUME TypeOK, ChannelInv, NEW t \in Tensor, AllocFor(t), ~Held(t),
           \A f \in Future : /\ Held(f)' <=> Held(f) \/ f = t
                             /\ FirstTileOf(f)' => FirstTileOf(f)
    PROVE  ChannelInv'
<1> USE DEF TypeOK, DmaTypeOK
<1>1. CASE UsesNewFuture(t)
  <2>0. t \in Future
      BY <1>1 DEF Future
  <2>1. PICK c \in free : /\ channel' = [channel EXCEPT ![t] = c]
                          /\ free' = free \ {c}
      BY <1>1 DEF AllocFor, AllocChannel
  <2>2. /\ channel'[t] = c /\ c \in Channel \ free'
        /\ \A f \in Future \ {t} : channel'[f] = channel[f]
      BY <2>0, <2>1
  <2>3. \A f \in Future : Held(f) => f # t /\ channel[f] # c
      BY <2>1 DEF ChannelInv
  <2>4. \A f \in Future : Held(f)' => channel'[f] \in Channel \ free'
      BY <2>1, <2>2, <2>3 DEF ChannelInv
  <2>5. ASSUME NEW f \in Future, NEW g \in Future, Held(f)', Held(g)', f # g
        PROVE  channel'[f] # channel'[g]
      BY <2>2, <2>3, <2>5 DEF ChannelInv
  <2>6. ASSUME NEW d \in Channel \ free'
        PROVE  \E f \in Future : Held(f)' /\ channel'[f] = d
    <3>1. CASE d = c
        BY <2>0, <2>2, <3>1
    <3>2. CASE d # c
      <4>1. PICK f \in Future : Held(f) /\ channel[f] = d
          BY <2>1, <2>6, <3>2 DEF ChannelInv
      <4>2. QED BY <2>2, <2>3, <4>1
    <3>3. QED BY <3>1, <3>2
  <2>7. ASSUME NEW f \in Future, FirstTileOf(f)' PROVE channel'[f] = NoChannel
    <3>1. FirstTileOf(f) /\ ~Held(f)'
        BY <2>7 DEF FirstTileOf
    <3>2. f # t
        BY <3>1
    <3>3. QED BY <2>2, <3>1, <3>2 DEF ChannelInv
  <2>8. QED BY <2>4, <2>5, <2>6, <2>7 DEF ChannelInv
<1>2. CASE ~UsesNewFuture(t)
  <2>1. channel' = channel /\ free' = free /\ t \notin Future
      BY <1>2 DEF AllocFor, Future
  <2>2. QED BY <2>1, SameChannels
<1>3. QED BY <1>1, <1>2

LEMMA WaitChannels ==
    ASSUME TypeOK, ChannelInv, NEW t \in Tensor,
           IF UsesNewFuture(t) THEN WaitFuture(t) ELSE UNCHANGED dmaVars,
           UsesNewFuture(t) => Held(t) \/ channel[t] = NoChannel,
           \A f \in Future : /\ Held(f)' <=> Held(f) /\ f # t
                             /\ FirstTileOf(f)' => f = t \/ FirstTileOf(f),
           FirstTileOf(t)' => FirstTileOf(t)
    PROVE  ChannelInv'
<1> USE DEF TypeOK, DmaTypeOK
<1>1. CASE UsesNewFuture(t)
  <2>0. t \in Future /\ channel' = channel
      BY <1>1 DEF Future, WaitFuture
  <2>1. CASE Held(t)
    <3>1. /\ channel[t] \in Channel \ free /\ channel[t] # NoChannel
          /\ free' = free \cup {channel[t]}
        BY <1>1, <2>0, <2>1, DmaAssumption DEF ChannelInv, WaitFuture
    <3>2. \A f \in Future : Held(f)' => channel'[f] \in Channel \ free'
        BY <2>0, <2>1, <3>1 DEF ChannelInv
    <3>3. \A f, g \in Future : Held(f)' /\ Held(g)' /\ f # g => channel'[f] # channel'[g]
        BY <2>0 DEF ChannelInv
    <3>4. ASSUME NEW d \in Channel \ free'
          PROVE  \E f \in Future : Held(f)' /\ channel'[f] = d
      <4>1. PICK f \in Future : Held(f) /\ channel[f] = d
          BY <3>1, <3>4 DEF ChannelInv
      <4>2. f # t
          BY <3>1, <3>4, <4>1
      <4>3. QED BY <2>0, <4>1, <4>2
    <3>5. \A f \in Future : FirstTileOf(f)' => channel'[f] = NoChannel
        BY <2>0 DEF ChannelInv
    <3>6. QED BY <3>2, <3>3, <3>4, <3>5 DEF ChannelInv
  <2>2. CASE ~Held(t)
    <3>1. channel[t] = NoChannel /\ free' = free
        BY <1>1, <2>2 DEF WaitFuture
    <3>2. \A f \in Future : Held(f)' <=> Held(f)
        BY <2>2
    <3>3. QED BY <2>0, <3>1, <3>2, SameChannels
  <2>3. QED BY <2>1, <2>2
<1>2. CASE ~UsesNewFuture(t)
  <2>1. channel' = channel /\ free' = free /\ t \notin Future
      BY <1>2 DEF Future, dmaVars
  <2>2. QED BY <2>1, SameChannels
<1>3. QED BY <1>1, <1>2

LEMMA CoreChannels ==
    ASSUME L3Tensor = {}, IInv, ChannelInv, CoreStep
    PROVE  ChannelInv'
<1> USE DmaAssumption DEF Held, FirstTileOf, InputHeld, OutputHeld, Tensor, Input, Output
<1>0. /\ TypeOK /\ ControlInv /\ i \in 0..NumTiles /\ tensor \in Tensor /\ pc \in PC
      /\ Future \subseteq Tensor /\ tileIdx \in 0..1
    BY OneInvocation DEF IInv, TypeOK, LoopTypeOK, Future
<1>1. pc # "call" => tileIdx \in 0..1 /\ (pc # "drain" => LastTile = NumTiles - 1)
    BY <1>0, OneInvocation DEF ControlInv, LastTile, PC
<1>a. PICK s \in Tensor, n \in 0..NumTiles : s = tensor /\ n = i
    BY <1>0
<1>2. CASE Enter
  <2>1. pc = "call" /\ pc' = "load_first" /\ tensor' = 1 /\ free' = free
        /\ channel' = [f \in Future |-> NoChannel]
      BY <1>2 DEF Enter, EnterClosure
  <2>2. \A f \in Future : ~Held(f) /\ ~Held(f)'
      BY <1>0, <2>1
  <2>3. QED BY <2>1, <2>2 DEF ChannelInv
<1>3. CASE LoadFirstTile
  <2>1. /\ pc = "load_first" /\ AllocFor(s) /\ i = 0 /\ i' = i /\ s \in Input
        /\ \/ s < NIn /\ tensor' = s + 1 /\ pc' = "load_first"
           \/ s = NIn /\ pc' = "loop"
      BY <1>0, <1>a, <1>3 DEF LoadFirstTile, ControlInv
  <2>2. ~Held(s)
      BY <1>a, <2>1
  <2>3. \A f \in Future : /\ Held(f)' <=> Held(f) \/ f = s
                          /\ FirstTileOf(f)' => FirstTileOf(f)
      BY <1>0, <1>a, <2>1
  <2>4. QED BY <1>0, <2>1, <2>2, <2>3, AllocChannels
<1>4. CASE OpenTile
  <2>1. /\ pc = "loop" /\ pc' = "wait_input" /\ tensor' = 1 /\ i' = i
        /\ i < NumTiles /\ UNCHANGED <<channel, free>>
      BY <1>0, <1>1, <1>4 DEF OpenTile, dmaVars
  <2>2. \A f \in Future : /\ Held(f)' <=> Held(f)
                          /\ FirstTileOf(f)' => FirstTileOf(f)
      BY <1>0, <2>1
  <2>3. QED BY <2>1, <2>2, SameChannels
<1>5. CASE WaitInput
  <2>1. /\ pc = "wait_input" /\ pc' = "load_next" /\ tensor' = tensor /\ i' = i
        /\ s \in Input
        /\ IF UsesNewFuture(s) THEN WaitFuture(s) ELSE UNCHANGED dmaVars
      BY <1>0, <1>a, <1>5 DEF WaitInput, ControlInv
  <2>2. Held(s)
      BY <1>a, <2>1
  <2>3. /\ \A f \in Future : /\ Held(f)' <=> Held(f) /\ f # s
                             /\ FirstTileOf(f)' => f = s \/ FirstTileOf(f)
        /\ ~FirstTileOf(s)'
      BY <1>0, <1>a, <2>1
  <2>4. QED BY <1>0, <2>1, <2>2, <2>3, WaitChannels
<1>6. CASE LoadNext
  <2>1. /\ pc = "load_next" /\ i' = i /\ s \in Input /\ i < NumTiles
        /\ \/ s < NIn /\ tensor' = s + 1 /\ pc' = "wait_input"
           \/ s = NIn /\ pc' = "kernel"
      BY <1>0, <1>a, <1>6 DEF LoadNext, ControlInv
  <2>2. CASE HasNextTile
    <3>1. AllocFor(s) /\ i + 1 < NumTiles
        BY <1>0, <1>1, <1>a, <1>6, <2>1, <2>2 DEF LoadNext, LoadNextTile, HasNextTile
    <3>2. ~Held(s)
        BY <1>a, <2>1
    <3>3. \A f \in Future : /\ Held(f)' <=> Held(f) \/ f = s
                            /\ FirstTileOf(f)' => FirstTileOf(f)
        BY <1>0, <1>a, <2>1, <3>1
    <3>4. QED BY <1>0, <3>1, <3>2, <3>3, AllocChannels
  <2>3. CASE ~HasNextTile
    <3>1. UNCHANGED <<channel, free>> /\ ~(i + 1 < NumTiles)
        BY <1>0, <1>1, <1>6, <2>1, <2>3 DEF LoadNext, HasNextTile, dmaVars
    <3>2. \A f \in Future : /\ Held(f)' <=> Held(f)
                            /\ FirstTileOf(f)' => FirstTileOf(f)
        BY <1>0, <1>a, <2>1, <3>1
    <3>3. QED BY <3>1, <3>2, SameChannels
  <2>4. QED BY <2>2, <2>3
<1>7. CASE Kernel
  <2>1. /\ pc = "kernel" /\ pc' = "wait_output" /\ tensor = NIn /\ tensor' = tensor
        /\ i' = i /\ UNCHANGED <<channel, free>>
      BY <1>0, <1>7 DEF Kernel, RunKernel, ControlInv
  <2>2. Egress' = NIn + 1
      BY <2>1 DEF Egress
  <2>3. \A f \in Future : /\ Held(f)' <=> Held(f)
                          /\ FirstTileOf(f)' => FirstTileOf(f)
      BY <1>0, <2>1, <2>2
  <2>4. QED BY <2>1, <2>3, SameChannels
<1>8. CASE WaitOutput
  <2>1. PICK e \in Output : e = Egress
      BY <1>0 DEF Egress
  <2>2. /\ pc = "wait_output" /\ pc' = "store" /\ tensor' = e /\ i' = i
        /\ IF UsesNewFuture(e) THEN WaitFuture(e) ELSE UNCHANGED dmaVars
      BY <1>8, <2>1 DEF WaitOutput
  <2>3. UsesNewFuture(e) => Held(e) \/ channel[e] = NoChannel
      BY <1>0, <2>1, <2>2 DEF ChannelInv, Future
  <2>4. /\ \A f \in Future : /\ Held(f)' <=> Held(f) /\ f # e
                             /\ FirstTileOf(f)' => f = e \/ FirstTileOf(f)
        /\ FirstTileOf(e)' => FirstTileOf(e)
      BY <1>0, <2>1, <2>2
  <2>5. QED BY <1>0, <2>2, <2>3, <2>4, WaitChannels
<1>9. CASE Store
  <2>1. /\ pc = "store" /\ s \in Output /\ AllocFor(s) /\ i < NumTiles
        /\ \/ s < NIn + NOut /\ tensor' = s + 1 /\ i' = n /\ pc' = "wait_output"
           \/ s = NIn + NOut /\ i' = n + 1 /\ pc' = "loop"
      BY <1>0, <1>a, <1>9 DEF Store, ControlInv
  <2>2. pc' = "wait_output" => Egress' = s + 1
      BY <2>1 DEF Egress
  <2>3. ~Held(s)
      BY <1>a, <2>1
  <2>4. \A f \in Future : /\ Held(f)' <=> Held(f) \/ f = s
                          /\ FirstTileOf(f)' => FirstTileOf(f)
      BY <1>0, <1>a, <2>1, <2>2
  <2>5. QED BY <1>0, <2>1, <2>3, <2>4, AllocChannels
<1>10. CASE LeaveLoop
  <2>1. /\ pc = "loop" /\ pc' = "drain" /\ tensor' = NIn + 1 /\ i' = i
        /\ i = NumTiles /\ UNCHANGED <<channel, free>>
      BY <1>0, <1>1, <1>10 DEF LeaveLoop, CloseLoop, dmaVars
  <2>2. \A f \in Future : /\ Held(f)' <=> Held(f)
                          /\ FirstTileOf(f)' => FirstTileOf(f)
      BY <1>0, <2>1
  <2>3. QED BY <2>1, <2>2, SameChannels
<1>11. CASE Drain
  <2>1. /\ pc = "drain" /\ s \in Output /\ i' = i /\ i = NumTiles
        /\ IF UsesNewFuture(s) THEN WaitFuture(s) ELSE UNCHANGED dmaVars
        /\ \/ s < NIn + NOut /\ tensor' = s + 1 /\ pc' = "drain"
           \/ s = NIn + NOut /\ pc' = "call"
      BY <1>0, <1>a, <1>11 DEF Drain, ControlInv
  <2>2. Held(s)
      BY <1>a, <2>1
  <2>3. /\ \A f \in Future : /\ Held(f)' <=> Held(f) /\ f # s
                             /\ FirstTileOf(f)' => f = s \/ FirstTileOf(f)
        /\ ~FirstTileOf(s)'
      BY <1>0, <1>a, <2>1
  <2>4. QED BY <1>0, <2>1, <2>2, <2>3, WaitChannels
<1>12. QED BY <1>2, <1>3, <1>4, <1>5, <1>6, <1>7, <1>8, <1>9, <1>10, <1>11 DEF CoreStep

LEMMA ChannelsInvariant == ASSUME L3Tensor = {} PROVE Spec => []ChannelInv
<1>1. Init => ChannelInv
    BY DEF Init, DmaInit, LoopInit, ChannelInv, Held, InputHeld, OutputHeld, FirstTileOf
<1>2. IInv /\ ChannelInv /\ [Next]_vars => ChannelInv'
  <2> SUFFICES ASSUME IInv, ChannelInv, [Next]_vars PROVE ChannelInv'
      OBVIOUS
  <2>1. CASE CoreStep
      BY <2>1, CoreChannels
  <2>2. CASE ~CoreStep
    <3>1. UNCHANGED <<channel, free, pc, tensor, i>>
        BY <2>2 DEF Next, DmaRuns, DmaStep, CompleteTransfer, Stay, Idle, vars,
           dmaVars, loopVars
    <3>2. QED BY <3>1 DEF ChannelInv, Held, InputHeld, OutputHeld, FirstTileOf, Egress
  <2>3. QED BY <2>1, <2>2
<1>3. QED BY <1>1, <1>2, Inductive, PTL DEF Spec

(* A tensor whose transfer is in flight keeps the channel of its future. *)
LEMMA TransfersHeld ==
    ASSUME IInv, NEW t \in Tensor, ~None(t)
    PROVE  Held(FutureOf(t)) /\ \A x \in pending :
               x.tensor = t => x.chan = channel[FutureOf(t)]
<1>0. /\ TypeOK /\ ControlInv /\ InputInv /\ OutputInv /\ i \in 0..NumTiles
      /\ pc \in PC /\ tensor \in Tensor
    BY DEF IInv, TypeOK, LoopTypeOK
<1>a. /\ tensor \in Nat /\ t \in Nat /\ FutureOf(t) \in Nat /\ FutureOf(t) \in Tensor
      /\ NumTiles \in Nat \ {0}
  <2>1. \A u \in Tensor : u \in Nat
      BY DmaAssumption DEF Tensor, Input, Output
  <2>2. FutureOf(t) \in Tensor
      BY FutureFacts DEF Future
  <2>3. QED BY <1>0, <2>1, <2>2, DmaAssumption
<1>1. FutureOf(t) <= t /\ (t \in Input => FutureOf(t) \in Input)
      /\ (t \in Output => FutureOf(t) \in Output)
    BY FutureFacts
<1>2. \A x \in pending : x.tensor = t => x.chan = channel[FutureOf(t)]
    BY OneTransfer DEF Only
<1>3. pc # "call"
    BY <1>0 DEF ControlInv, None
<1>4. CASE t \in Input
  <2>1. InputAt(t)
      BY <1>0, <1>4 DEF InputInv
  <2>2. Advanced(t) => i + 1 < NumTiles
      BY DEF Advanced
  <2>3. InputHeld(FutureOf(t))
      BY <1>0, <1>a, <1>1, <1>3, <2>1, <2>2 DEF InputAt, InputHeld, Ready, PC
  <2>4. QED BY <1>1, <1>2, <1>4, <2>3 DEF Held
<1>5. CASE t \in Output
  <2>1. OutputAt(t)
      BY <1>0, <1>5 DEF OutputInv
  <2>2. Storing(t) => i # 0
      BY DEF Storing
  <2>3. Egress \in Nat
      BY <1>a, DmaAssumption DEF Egress
  <2>4. OutputHeld(FutureOf(t))
      BY <1>0, <1>a, <1>1, <1>3, <2>1, <2>2, <2>3 DEF OutputAt, OutputHeld, PC
  <2>5. QED BY <1>1, <1>2, <1>5, <2>4 DEF Held
<1>6. QED BY <1>4, <1>5, TensorFacts

(* Every wait that frees a channel frees one in use, every transfer in flight
   is counted on one, and the closure gives all of them back, although they
   are taken and given back a whole tile apart. *)
THEOREM ChannelsKept == ASSUME L3Tensor = {} PROVE Spec => []ChannelsAccounted
<1>1. IInv /\ ChannelInv => ChannelsAccounted
  <2> SUFFICES ASSUME IInv, ChannelInv PROVE ChannelsAccounted
      OBVIOUS
  <2>0. /\ TypeOK /\ ControlInv /\ i \in 0..NumTiles /\ free \subseteq Channel
        /\ NumTiles \in Nat \ {0} /\ tensor \in Tensor
      BY DmaAssumption DEF IInv, TypeOK, LoopTypeOK, DmaTypeOK
  <2>a. tensor \in Nat
      BY <2>0, DmaAssumption DEF Tensor, Input, Output
  <2>1. ASSUME NEW f \in WaitsOn PROVE channel[f] \notin free
    <3>1. f \in Future
        BY DEF WaitsOn
    <3>2. CASE pc \in {"wait_input", "drain"}
      <4>1. f = tensor /\ Held(f)
          BY <2>0, <2>a, <3>2 DEF WaitsOn, ControlInv, Held, InputHeld, OutputHeld
      <4>2. QED BY <3>1, <4>1 DEF ChannelInv
    <3>3. CASE pc = "wait_output"
      <4>1. f = Egress /\ f \in Output
          BY <3>3, TensorFacts DEF WaitsOn, Egress
      <4>2. Held(f) \/ FirstTileOf(f)
          BY <2>0, <3>3, <4>1 DEF Held, OutputHeld, FirstTileOf
      <4>3. QED BY <2>0, <3>1, <4>2, DmaAssumption DEF ChannelInv
    <3>4. QED BY <3>2, <3>3 DEF WaitsOn
  <2>2. ASSUME NEW x \in pending PROVE x.chan \notin free
    <3>1. PICK t \in Tensor : t = x.tensor
        BY DEF IInv, TypeOK, DmaTypeOK, Transfer
    <3>2. Held(FutureOf(t)) /\ x.chan = channel[FutureOf(t)]
        BY <3>1, TransfersHeld DEF None
    <3>3. QED BY <3>2, FutureFacts DEF ChannelInv
  <2>3. ChannelsHeld \subseteq {channel[f] : f \in Future}
      BY DEF ChannelInv, ChannelsHeld
  <2>4. pc = "call" => ChannelsHeld = {}
      BY DEF ChannelInv, ChannelsHeld, Held, InputHeld, OutputHeld
  <2>5. QED BY <2>1, <2>2, <2>3, <2>4 DEF ChannelsAccounted
<1>2. QED BY <1>1, Inductive, ChannelsInvariant, PTL

-----------------------------------------------------------------------------
(***************************************************************************)
(* What the loop delivers, on top of the invariant above: every result     *)
(* reaches its own rectangle, once and in the order of the tiles, so the   *)
(* loop's safety part implements the abstract stream of TileStream.        *)
(*                                                                         *)
(* The assumptions are those of an ordinary node: no tensor in L3, every   *)
(* output tiled (each tile has a rectangle of its own) and a kernel that   *)
(* overwrites its output.                                                  *)
(***************************************************************************)
OrdinaryNode == L3Tensor = {} /\ Output \subseteq Tiled /\ ~Accumulates

(* The store of the current tile of output o has been issued. *)
StoredNow(o) ==
    \/ pc = "wait_output" /\ o < Egress
    \/ pc = "store" /\ o < tensor

(* The number of tiles of o whose store has been issued. *)
Sent(o) == IF StoredNow(o) THEN i + 1 ELSE i

(* Where the first n results of output o are: all in place, except perhaps
   the last, which is still in its buffer while its transfer is in flight. *)
Streamed(o, n) ==
    \A r \in Tile :
        /\ r >= n => external[o][r] = {}
        /\ r + 1 < n => external[o][r] = {r}
        /\ r + 1 = n /\ None(o) => external[o][r] = {r}
        /\ r + 1 = n /\ ~None(o) =>
               external[o][r] = {} /\ outBuf[o][BufferOf(r)] = {r}

(* A result computed and not stored yet is in the current buffer. *)
Computed(o) ==
    pc \in {"wait_output", "store"} /\ ~StoredNow(o) =>
        outBuf[o][BufferOf(i)] = {i}

CallInv == pc = "call" => i = IF tileIdx = 0 THEN 0 ELSE NumTiles

ResultInv == CallInv /\ \A o \in Output : Streamed(o, Sent(o)) /\ Computed(o)

RInv == IInv /\ ResultInv

-----------------------------------------------------------------------------
(* Streamed depends on the transfers and buffers of its output alone. *)
LEMMA SameStream ==
    ASSUME NEW o \in Output, NEW n \in Nat, Streamed(o, n),
           None(o)' <=> None(o), external'[o] = external[o],
           outBuf'[o] = outBuf[o]
    PROVE  Streamed(o, n)'
BY DEF Streamed

(* A step that neither stores nor computes keeps the invariant. *)
LEMMA SameResults ==
    ASSUME RInv, CallInv',
           UNCHANGED <<outBuf, external>>,
           \A o \in Output : /\ None(o)' <=> None(o)
                             /\ Sent(o)' = Sent(o)
                             /\ Computed(o)'
    PROVE  ResultInv'
<1> SUFFICES ASSUME NEW o \in Output PROVE Streamed(o, Sent(o))'
    BY DEF ResultInv
<1>1. i \in Nat /\ Streamed(o, Sent(o))
    BY DEF RInv, IInv, TypeOK, LoopTypeOK, ResultInv
<1>a. PICK n \in Nat : n = Sent(o)
    BY <1>1 DEF Sent
<1>2. Streamed(o, n)'
    BY <1>1, <1>a, SameStream
<1>3. n = Sent(o)'
    BY <1>a
<1>4. QED BY <1>2, <1>3 DEF Streamed

(* Every output comes after every input. *)
LEMMA OutputFacts ==
    ASSUME NEW o \in Output
    PROVE  o \in Tensor /\ o \in Nat /\ o > NIn /\ o <= NIn + NOut /\ o \notin Input
BY TensorFacts, DmaAssumption DEF Output

(* A tiled output's transfer in flight is that of the last tile sent. *)
LEMMA LastSent ==
    ASSUME IInv, NEW o \in Output, ~None(o)
    PROVE  \E m \in Nat : Sent(o) = m + 1 /\ Only(o, m)
<1>0. TypeOK /\ ControlInv /\ OutputAt(o)
    BY DEF IInv, OutputInv
<1>1. i \in Nat /\ pc \in PC /\ pc # "call"
    BY <1>0 DEF TypeOK, LoopTypeOK, ControlInv, None
<1>2. Storing(o) => \E m \in Nat : i = m + 1 /\ Only(o, m)
  <2> SUFFICES ASSUME i # 0, Only(o, i - 1)
               PROVE \E m \in Nat : i = m + 1 /\ Only(o, m)
      BY DEF Storing
  <2>1. i - 1 \in Nat /\ i = (i - 1) + 1
      BY <1>1
  <2>2. QED BY <2>1
<1>3. CASE StoredNow(o)
  <2>1. Only(o, i)
      BY <1>0, <1>3 DEF StoredNow, OutputAt
  <2>2. QED BY <1>1, <1>3, <2>1 DEF Sent
<1>4. CASE ~StoredNow(o)
  <2>1. Storing(o)
      BY <1>0, <1>1, <1>4 DEF StoredNow, OutputAt, PC
  <2>2. QED BY <1>2, <1>4, <2>1 DEF Sent
<1>5. QED BY <1>3, <1>4

-----------------------------------------------------------------------------
(* The invariant holds initially and every step preserves it. *)

LEMMA InitResults == ASSUME L3Tensor = {}, Init PROVE ResultInv
<1> USE DEF Init, DmaInit, LoopInit
<1>1. CallInv
    BY DEF CallInv
<1>2. ASSUME NEW o \in Output PROVE Streamed(o, Sent(o)) /\ Computed(o)
  <2>1. Sent(o) = 0
      BY DEF Sent, StoredNow
  <2>2. Streamed(o, 0)
      BY DmaAssumption DEF Streamed, Tile
  <2>3. QED BY <2>1, <2>2 DEF Computed
<1>3. QED BY <1>1, <1>2 DEF ResultInv

LEMMA EnterResults == ASSUME L3Tensor = {}, RInv, Enter PROVE ResultInv'
<1>1. TypeOK /\ ControlInv /\ CallInv
    BY DEF RInv, IInv, ResultInv
<1>2. /\ pc = "call" /\ pc' = "load_first" /\ tileIdx < Invocations
      /\ i' = FirstTile /\ UNCHANGED <<pending, outBuf, external>>
    BY DEF Enter, EnterClosure
<1>3. i = 0 /\ i' = 0
    BY <1>1, <1>2, OneInvocation DEF TypeOK, LoopTypeOK, CallInv, FirstTile
<1>4. ASSUME NEW o \in Output
      PROVE  /\ None(o)' <=> None(o)
             /\ Sent(o)' = Sent(o)
             /\ Computed(o)'
    BY <1>2, <1>3 DEF None, Sent, StoredNow, Computed
<1>5. CallInv'
    BY <1>2 DEF CallInv
<1>6. QED BY <1>2, <1>4, <1>5, SameResults

LEMMA LoadFirstResults == ASSUME L3Tensor = {}, RInv, LoadFirstTile PROVE ResultInv'
<1> USE DEF LoadFirstTile, Issue
<1>1. pc = "load_first" /\ pc' \in {"load_first", "loop"} /\ tensor \in Input /\ i' = i
    BY DEF RInv, IInv, ControlInv
<1>2. ASSUME NEW o \in Output
      PROVE  /\ None(o)' <=> None(o)
             /\ Sent(o)' = Sent(o)
             /\ Computed(o)'
    BY <1>1, OutputFacts DEF None, Sent, StoredNow, Computed
<1>3. QED BY <1>1, <1>2, SameResults DEF CallInv

LEMMA LoadNextResults == ASSUME L3Tensor = {}, RInv, LoadNext PROVE ResultInv'
<1> USE DEF LoadNext, LoadNextTile, Issue, dmaVars
<1>1. pc = "load_next" /\ pc' \in {"wait_input", "kernel"} /\ tensor \in Input /\ i' = i
    BY DEF RInv, IInv, ControlInv
<1>2. ASSUME NEW o \in Output
      PROVE  /\ None(o)' <=> None(o)
             /\ Sent(o)' = Sent(o)
             /\ Computed(o)'
    BY <1>1, OutputFacts DEF None, Sent, StoredNow, Computed
<1>3. QED BY <1>1, <1>2, SameResults DEF CallInv

LEMMA OpenTileResults == ASSUME L3Tensor = {}, RInv, OpenTile PROVE ResultInv'
<1> USE DEF OpenTile, dmaVars
<1>1. ASSUME NEW o \in Output
      PROVE  /\ None(o)' <=> None(o)
             /\ Sent(o)' = Sent(o)
             /\ Computed(o)'
    BY DEF None, Sent, StoredNow, Computed
<1>2. QED BY <1>1, SameResults DEF CallInv

LEMMA WaitInputResults == ASSUME L3Tensor = {}, RInv, WaitInput PROVE ResultInv'
<1> USE DEF WaitInput, WaitFuture, dmaVars
<1>1. ASSUME NEW o \in Output
      PROVE  /\ None(o)' <=> None(o)
             /\ Sent(o)' = Sent(o)
             /\ Computed(o)'
    BY DEF None, Sent, StoredNow, Computed
<1>2. QED BY <1>1, SameResults DEF CallInv

LEMMA WaitOutputResults == ASSUME L3Tensor = {}, RInv, WaitOutput PROVE ResultInv'
<1> USE DEF WaitOutput, WaitFuture, dmaVars
<1>1. ASSUME NEW o \in Output
      PROVE  /\ None(o)' <=> None(o)
             /\ Sent(o)' = Sent(o)
             /\ Computed(o)'
  <2>1. Computed(o)
      BY DEF RInv, ResultInv
  <2>2. StoredNow(o)' <=> StoredNow(o)
      BY DEF StoredNow
  <2>3. QED BY <2>1, <2>2 DEF None, Sent, Computed
<1>2. QED BY <1>1, SameResults DEF CallInv

LEMMA LeaveLoopResults == ASSUME L3Tensor = {}, RInv, LeaveLoop PROVE ResultInv'
<1> USE DEF LeaveLoop, CloseLoop, dmaVars
<1>1. ASSUME NEW o \in Output
      PROVE  /\ None(o)' <=> None(o)
             /\ Sent(o)' = Sent(o)
             /\ Computed(o)'
    BY DEF None, Sent, StoredNow, Computed
<1>2. QED BY <1>1, SameResults DEF CallInv

LEMMA DrainResults == ASSUME L3Tensor = {}, RInv, Drain PROVE ResultInv'
<1> USE DEF Drain, WaitFuture, dmaVars
<1>1. pc = "drain" /\ tileIdx' = 1 /\ i' = NumTiles /\ pc' \in {"drain", "call"}
    BY DEF RInv, IInv, ControlInv
<1>2. ASSUME NEW o \in Output
      PROVE  /\ None(o)' <=> None(o)
             /\ Sent(o)' = Sent(o)
             /\ Computed(o)'
    BY <1>1 DEF None, Sent, StoredNow, Computed
<1>3. QED BY <1>1, <1>2, SameResults DEF CallInv

LEMMA KernelResults ==
    ASSUME OrdinaryNode, RInv, Kernel
    PROVE  ResultInv'
<1> USE DEF Kernel, RunKernel
<1>1. /\ pc = "kernel" /\ pc' = "wait_output" /\ i' = i /\ i \in Nat
      /\ tensor' = NIn /\ \A t \in Tensor : cur[t] = BufferOf(i)
    BY DEF RInv, IInv, ControlInv, TypeOK, LoopTypeOK
<1>2. CallInv'
    BY <1>1 DEF CallInv
<1>3. TileResult = {i} /\ ~KeepsPartialSum
    BY <1>1, KernelReady
    DEF RInv, KernelInputsCurrent, TileResult, KeepsPartialSum, OrdinaryNode
<1>4. Egress' = NIn + 1
    BY <1>1, TensorFacts, OutputFacts, DmaAssumption DEF Egress
<1> SUFFICES ASSUME NEW o \in Output
             PROVE  Streamed(o, Sent(o))' /\ Computed(o)'
    BY <1>2 DEF ResultInv
<1>5. ~StoredNow(o)'
    BY <1>1, <1>4, OutputFacts, DmaAssumption DEF StoredNow
<1>6. Streamed(o, i)
    BY <1>1 DEF RInv, ResultInv, Sent, StoredNow
<1>7. outBuf[o] \in [Buffer -> SUBSET Nat] /\ cur[o] = BufferOf(i)
    BY <1>1, OutputFacts DEF RInv, IInv, TypeOK, DmaTypeOK
<1>8. outBuf'[o] = [outBuf[o] EXCEPT ![BufferOf(i)] = {i}]
    BY <1>3, <1>7
<1>9. outBuf'[o][BufferOf(i)] = {i}
    BY <1>1, <1>7, <1>8, BufferFacts
<1>10. ASSUME NEW r \in Tile, r + 1 = i
       PROVE  outBuf'[o][BufferOf(r)] = outBuf[o][BufferOf(r)]
  <2>1. r \in Nat
      BY DEF Tile
  <2>2. BufferOf(r) \in Buffer /\ BufferOf(r) # BufferOf(i)
      BY <1>10, <2>1, BufferFacts
  <2>3. QED BY <1>7, <1>8, <2>2
<1>11. None(o)' <=> None(o)
    BY DEF None
<1>a. PICK n \in Nat : n = i
    BY <1>1
<1>12. Streamed(o, n)'
    BY <1>6, <1>10, <1>11, <1>a DEF Streamed
<1>13. Sent(o)' = n
    BY <1>1, <1>5, <1>a DEF Sent
<1>14. Streamed(o, Sent(o))'
    BY <1>12, <1>13 DEF Streamed
<1>15. QED BY <1>1, <1>9, <1>14 DEF Computed

LEMMA StoreResults ==
    ASSUME OrdinaryNode, RInv, Store
    PROVE  ResultInv'
<1> USE DEF Store
<1>0. TypeOK /\ ControlInv /\ OutputInv /\ ReferenceInv /\ AllocInv
    BY DEF RInv, IInv
<1>1. /\ pc = "store" /\ i \in Nat /\ tensor \in Output /\ tileIdx = 0
      /\ \A t \in Tensor : cur[t] = BufferOf(i)
    BY <1>0 DEF ControlInv, TypeOK, LoopTypeOK
<1>a. PICK s \in Output, n \in Nat : s = tensor /\ n = i
    BY <1>1
<1>2. \/ s < NIn + NOut /\ tensor' = s + 1 /\ i' = i /\ pc' = "wait_output"
      \/ s = NIn + NOut /\ i' = i + 1 /\ pc' = "loop"
    BY <1>a, OutputFacts, DmaAssumption
<1>3. CallInv'
    BY <1>2 DEF CallInv
<1>4. outBuf' = outBuf /\ external' = external
    BY DEF Issue
<1>5. ASSUME NEW o \in Output
      PROVE  Sent(o) = (IF o < s THEN n + 1 ELSE n)
    BY <1>1, <1>a DEF Sent, StoredNow
<1>6. ASSUME NEW o \in Output
      PROVE  Sent(o)' = (IF o <= s THEN n + 1 ELSE n)
  <2>1. CASE pc' = "wait_output"
    <3>1. Egress' = s + 1
        BY <1>2, <2>1, OutputFacts, DmaAssumption DEF Egress, Output
    <3>2. StoredNow(o)' <=> o <= s
        BY <2>1, <3>1, OutputFacts DEF StoredNow
    <3>3. QED BY <1>2, <1>a, <2>1, <3>2 DEF Sent
  <2>2. CASE pc' = "loop"
      BY <1>2, <1>a, <2>2, OutputFacts DEF Sent, StoredNow
  <2>3. QED BY <1>2, <2>1, <2>2
<1>7. None(s) /\ ~None(s)'
  <2>1. None(s)
      BY <1>0, <1>1, <1>a, FutureFacts, OutputFacts, DmaAssumption
      DEF OutputInv, OutputAt, Output
  <2>2. \E x \in pending' : x.tensor = s
    <3>1. PICK x : pending' = pending \cup {x} /\ x.tensor = s
      <4> DEFINE y == [tensor |-> tensor, buf |-> cur[tensor],
                       rect |-> ExternalRect(tensor), chan |-> lastAlloc']
      <4>1. pending' = pending \cup {y} /\ y.tensor = s
          BY <1>a DEF Issue
      <4>2. QED BY <4>1
    <3>2. QED BY <3>1
  <2>3. QED BY <2>1, <2>2 DEF None
<1>8. ASSUME NEW o \in Output, o # s PROVE None(o)' <=> None(o)
    BY <1>8, <1>a DEF None, Issue
<1>9. Streamed(s, n + 1)'
  <2>1. Streamed(s, n) /\ outBuf[s][BufferOf(n)] = {n}
    <3>1. ~StoredNow(s) /\ Sent(s) = n
        BY <1>1, <1>5, <1>a, OutputFacts DEF StoredNow
    <3>2. QED BY <1>1, <1>a, <3>1 DEF RInv, ResultInv, Computed
  <2>2. QED BY <1>4, <1>7, <2>1 DEF Streamed, Tile
<1> SUFFICES ASSUME NEW o \in Output
             PROVE  Streamed(o, Sent(o))' /\ Computed(o)'
    BY <1>3 DEF ResultInv
<1>10. Streamed(o, Sent(o))'
  <2>1. CASE o = s
    <3>1. Sent(o)' = n + 1
        BY <1>6, <2>1, OutputFacts
    <3>2. QED BY <1>9, <2>1, <3>1 DEF Streamed
  <2>2. CASE o # s
    <3>1. PICK m \in Nat : m = Sent(o)
        BY <1>5
    <3>2. Sent(o)' = m
        BY <1>5, <1>6, <2>2, <3>1, OutputFacts
    <3>3. Streamed(o, m)
        BY <3>1 DEF RInv, ResultInv
    <3>4. Streamed(o, m)'
        BY <1>4, <1>8, <2>2, <3>3, SameStream
    <3>5. QED BY <3>2, <3>4 DEF Streamed
  <2>3. QED BY <2>1, <2>2
<1>11. Computed(o)'
  <2> SUFFICES ASSUME pc' = "wait_output", ~StoredNow(o)'
               PROVE  outBuf'[o][BufferOf(n)] = {n}
      BY <1>2, <1>a DEF Computed
  <2>1. i' = i /\ ~(o <= s)
      BY <1>2, <1>6, <1>a, OutputFacts DEF Sent
  <2>2. ~StoredNow(o)
      BY <1>1, <1>a, <2>1, OutputFacts DEF StoredNow
  <2>3. outBuf[o][BufferOf(i)] = {i}
      BY <1>1, <2>2 DEF RInv, ResultInv, Computed
  <2>4. QED BY <1>4, <1>a, <2>3
<1>12. QED BY <1>10, <1>11

(* The transfer of an output that completes is that of its last tile sent. *)
LEMMA CompletedOutput ==
    ASSUME OrdinaryNode, RInv, NEW x \in pending, CompleteTransfer(x),
           x.tensor \in Output
    PROVE  \E m \in Tile :
               /\ Sent(x.tensor) = m + 1
               /\ x.rect = m /\ x.buf = BufferOf(m)
               /\ external[x.tensor][m] = {}
               /\ outBuf[x.tensor][BufferOf(m)] = {m}
               /\ external' = [external EXCEPT ![x.tensor][m] = {m}]
               /\ None(x.tensor)'
<1>1. PICK o \in Output : o = x.tensor
    OBVIOUS
<1>2. ~None(o)
    BY <1>1 DEF None
<1>3. PICK m \in Nat : Sent(o) = m + 1 /\ Only(o, m)
    BY <1>2, LastSent DEF RInv
<1>4. x.rect = m /\ x.buf = BufferOf(m)
    BY <1>1, <1>3 DEF Only, Rect, OrdinaryNode
<1>5. m \in Tile
  <2>1. i \in 0..NumTiles /\ (StoredNow(o) => i < NumTiles)
      BY DEF RInv, IInv, TypeOK, LoopTypeOK, ControlInv, StoredNow
  <2>2. QED BY <1>3, <2>1, DmaAssumption DEF Sent, Tile
<1>6. Streamed(o, m + 1)
    BY <1>3 DEF RInv, ResultInv
<1>7. external[o][m] = {} /\ outBuf[o][BufferOf(m)] = {m}
    BY <1>2, <1>5, <1>6 DEF Streamed
<1>8. external' = [external EXCEPT ![o][m] = {m}]
    BY <1>1, <1>4, <1>7, OutputFacts DEF CompleteTransfer
<1>9. None(o)'
  <2> SUFFICES ASSUME NEW y \in pending, y.tensor = o PROVE y = x
      BY DEF None, CompleteTransfer
  <2>1. x \in Transfer /\ y \in Transfer
      BY DEF RInv, IInv, TypeOK, DmaTypeOK
  <2>2. x.buf = y.buf /\ x.rect = y.rect /\ x.chan = y.chan
      BY <1>1, <1>3 DEF Only
  <2>3. QED BY <1>1, <2>1, <2>2 DEF Transfer
<1>10. QED BY <1>1, <1>3, <1>4, <1>5, <1>7, <1>8, <1>9

LEMMA DmaRunsResults ==
    ASSUME OrdinaryNode, RInv, DmaRuns
    PROVE  ResultInv'
<1> USE DEF DmaRuns, DmaStep, loopVars
<1>1. PICK x \in pending : CompleteTransfer(x)
    OBVIOUS
<1>2. /\ pc' = pc /\ tensor' = tensor /\ tileIdx' = tileIdx /\ i' = i
      /\ outBuf' = outBuf /\ pending' = pending \ {x} /\ i \in Nat
    BY <1>1 DEF CompleteTransfer, RInv, IInv, TypeOK, LoopTypeOK
<1>3. CallInv'
    BY <1>2 DEF RInv, ResultInv, CallInv
<1> SUFFICES ASSUME NEW o \in Output
             PROVE  Streamed(o, Sent(o))' /\ Computed(o)'
    BY <1>3 DEF ResultInv
<1>4. Sent(o)' = Sent(o) /\ (StoredNow(o)' <=> StoredNow(o))
    BY <1>2 DEF Sent, StoredNow, Egress
<1>5. Streamed(o, Sent(o)) /\ Computed(o)
    BY DEF RInv, ResultInv
<1>6. Computed(o)'
    BY <1>2, <1>4, <1>5 DEF Computed
<1>a. PICK n \in Nat : n = Sent(o)
    BY <1>2 DEF Sent
<1>7. Streamed(o, n)'
  <2>0. external \in [Output -> [Tile -> SUBSET Nat]]
      BY DEF RInv, IInv, TypeOK, DmaTypeOK
  <2>1. CASE x.tensor = o
    <3>1. PICK m \in Tile :
              /\ Sent(o) = m + 1
              /\ external' = [external EXCEPT ![o][m] = {m}]
              /\ None(o)'
        BY <1>1, <2>1, CompletedOutput
    <3>2. \A r \in Tile : external'[o][r] = IF r = m THEN {m} ELSE external[o][r]
        BY <2>0, <3>1
    <3>3. QED BY <1>5, <1>a, <3>1, <3>2 DEF Streamed, Tile
  <2>2. CASE x.tensor # o
    <3>1. None(o)' <=> None(o)
        BY <1>2, <2>2 DEF None
    <3>2. external'[o] = external[o]
        BY <1>1, <2>0, <2>2 DEF CompleteTransfer
    <3>3. QED BY <1>2, <1>5, <1>a, <3>1, <3>2, SameStream
  <2>3. QED BY <2>1, <2>2
<1>8. QED BY <1>4, <1>6, <1>7, <1>a DEF Streamed

LEMMA StutterResults == ASSUME RInv, UNCHANGED vars PROVE ResultInv'
<1>1. CallInv' /\ UNCHANGED <<outBuf, external>>
    BY DEF RInv, ResultInv, CallInv, vars
<1>2. ASSUME NEW o \in Output
      PROVE  /\ None(o)' <=> None(o)
             /\ Sent(o)' = Sent(o)
             /\ Computed(o)'
  <2>1. Computed(o)
      BY DEF RInv, ResultInv
  <2>2. QED BY <2>1 DEF None, Sent, StoredNow, Egress, Computed, vars
<1>3. QED BY <1>1, <1>2, SameResults

LEMMA ResultStep == ASSUME OrdinaryNode, RInv, [Next]_vars PROVE ResultInv'
<1>1. L3Tensor = {}
    BY DEF OrdinaryNode
<1>2. CASE CoreStep
    BY <1>1, <1>2, EnterResults, LoadFirstResults, OpenTileResults,
       WaitInputResults, LoadNextResults, KernelResults, WaitOutputResults,
       StoreResults, LeaveLoopResults, DrainResults DEF CoreStep
<1>3. CASE DmaRuns
    BY <1>3, DmaRunsResults
<1>4. CASE Stay
    BY <1>4, StutterResults DEF Stay, Idle, vars, dmaVars, loopVars
<1>5. CASE UNCHANGED vars
    BY <1>5, StutterResults
<1>6. QED BY <1>2, <1>3, <1>4, <1>5 DEF Next

LEMMA Results == ASSUME OrdinaryNode PROVE Spec => []RInv
<1>1. Init => ResultInv
    BY InitResults DEF OrdinaryNode
<1>2. Spec => []IInv
    BY Inductive DEF OrdinaryNode
<1>3. IInv /\ ResultInv /\ [Next]_vars => ResultInv'
    BY ResultStep DEF RInv
<1>4. RInv <=> IInv /\ ResultInv
    BY DEF RInv
<1>5. QED BY <1>1, <1>2, <1>3, <1>4, PTL DEF Spec

-----------------------------------------------------------------------------
(* What the invariant says of the end. *)
LEMMA AllInPlace == ASSUME OrdinaryNode, RInv PROVE OutputsComplete
<1> SUFFICES ASSUME RInv, Finished PROVE ResultsInPlace /\ pending = {}
    BY DEF OutputsComplete
<1>1. pc = "call" /\ tileIdx = 1 /\ pending = {}
    BY OneInvocation DEF Finished, OrdinaryNode, RInv, IInv, ControlInv
<1>2. ASSUME NEW o \in Output, NEW r \in Tile
      PROVE  external[o][r] = TilesOf(o, r)
  <2>1. Sent(o) = NumTiles /\ None(o)
      BY <1>1 DEF RInv, ResultInv, CallInv, Sent, StoredNow, None
  <2>2. external[o][r] = {r}
      BY <2>1, DmaAssumption DEF RInv, ResultInv, Streamed, Tile
  <2>3. TilesOf(o, r) = {r}
      BY OutputFacts DEF TilesOf, Rect, OrdinaryNode
  <2>4. QED BY <2>2, <2>3
<1>3. QED BY <1>1, <1>2 DEF ResultsInPlace

(* A step of the DMA delivers the next tile of an output. *)
LEMMA DeliversNext == ASSUME OrdinaryNode, RInv, DmaRuns PROVE [Stream!Next]_external
<1> SUFFICES ASSUME external' # external
             PROVE  Stream!Next
    OBVIOUS
<1>1. PICK x \in pending : CompleteTransfer(x)
    BY DEF DmaRuns, DmaStep
<1>2. x.tensor \in Output
  <2>1. x \in Transfer
      BY DEF RInv, IInv, TypeOK, DmaTypeOK
  <2>2. QED BY <1>1, <2>1, TensorFacts DEF CompleteTransfer, Transfer
<1>3. PICK o \in Output : o = x.tensor
    BY <1>2
<1>4. PICK m \in Tile :
          /\ Sent(o) = m + 1
          /\ external[o][m] = {}
          /\ external' = [external EXCEPT ![o][m] = {m}]
    BY <1>1, <1>3, CompletedOutput
<1>5. \A r \in Tile : external[o][r] = IF r < m THEN {r} ELSE {}
  <2>1. Streamed(o, m + 1)
      BY <1>4 DEF RInv, ResultInv
  <2>2. external[o][m] = {}
      BY <1>4
  <2>3. \A r \in Tile : r >= m + 1 => external[o][r] = {}
      BY <2>1 DEF Streamed
  <2>4. \A r \in Tile : r + 1 < m + 1 => external[o][r] = {r}
      BY <2>1 DEF Streamed
  <2>5. ASSUME NEW r \in Tile
        PROVE  external[o][r] = IF r < m THEN {r} ELSE {}
    <3>1. r \in Int /\ m \in Int
        BY DmaAssumption DEF Tile
    <3>2. CASE r < m
        BY <2>4, <3>1, <3>2
    <3>3. CASE r = m
        BY <2>2, <3>1, <3>3
    <3>4. CASE r > m
      <4>1. r >= m + 1 /\ ~(r < m)
          BY <3>1, <3>4
      <4>2. external[o][r] = {}
          BY <2>3, <4>1
      <4>3. QED BY <4>1, <4>2
    <3>5. QED BY <3>1, <3>2, <3>3, <3>4
  <2>6. QED BY <2>5
<1>6. Stream!Delivered(o) = 0..(m - 1)
  <2>1. Stream!Delivered(o) = UNION {external[o][r] : r \in Tile}
      BY DEF Stream!Delivered, Stream!Rectangle, Tile
  <2>2. ASSUME NEW n
        PROVE  n \in UNION {external[o][r] : r \in Tile} <=> n \in 0..(m - 1)
    <3>1. m \in 0..(NumTiles - 1) /\ NumTiles \in Nat
        BY DmaAssumption DEF Tile
    <3>2. n \in UNION {external[o][r] : r \in Tile} <=>
              \E r \in Tile : r < m /\ n = r
        BY <1>5
    <3>3. QED BY <3>1, <3>2 DEF Tile
  <2>3. QED BY <2>1, <2>2
<1>7. Rect(o, m) = m
    BY OutputFacts DEF Rect, OrdinaryNode
<1>8. external' = [external EXCEPT
                       ![o][[p \in Output |-> [n \in Tile |-> Rect(p, n)]][o][m]] =
                           @ \cup {m}]
  <2>1. [p \in Output |-> [n \in Tile |-> Rect(p, n)]][o][m] = m
      BY <1>7
  <2>2. external[o][m] \cup {m} = {m}
      BY <1>4
  <2>3. external \in [Output -> [Tile -> SUBSET Nat]]
      BY DEF RInv, IInv, TypeOK, DmaTypeOK
  <2>4. QED BY <1>4, <2>1, <2>2, <2>3
<1>9. Stream!Deliver(o, m)
    BY <1>6, <1>8 DEF Stream!Deliver
<1>10. QED BY <1>9 DEF Stream!Next, Stream!Rectangle, Tile

-----------------------------------------------------------------------------
(* The theorems. *)

(* When the closure of an ordinary node has returned, every tile's result is
   in its own rectangle of the external memory and the DMA is idle: the waits
   of step 5 cover every output, also when they share a future. *)
THEOREM ResultsComplete ==
    ASSUME OrdinaryNode PROVE Spec => []OutputsComplete
<1>1. RInv => OutputsComplete
    BY AllInPlace
<1>2. QED BY <1>1, Results, PTL

(* The tile loop implements the abstract stream, up to its fairness: every
   step delivers the next tile of one output to its own rectangle, or leaves
   the external memory alone.  No tile is stored twice or out of order. *)
THEOREM ImplementsStream ==
    ASSUME OrdinaryNode
    PROVE  Spec => Stream!Init /\ [][Stream!Next]_external
<1>1. Init => Stream!Init
    BY DmaAssumption DEF Init, DmaInit, Stream!Init, Stream!Rectangle, Tile
<1>2. RInv /\ [Next]_vars => [Stream!Next]_external
  <2> SUFFICES ASSUME RInv, [Next]_vars, external' # external
               PROVE  Stream!Next
      OBVIOUS
  <2>1. DmaRuns
    <3>1. ~CoreStep
        BY DEF CoreStep, Enter, EnterClosure, LoadFirstTile, OpenTile,
           WaitInput, LoadNext, LoadNextTile, Kernel, RunKernel, WaitOutput,
           Store, LeaveLoop, CloseLoop, Drain, WaitFuture, Issue, dmaVars
    <3>2. ~Stay /\ ~UNCHANGED vars
        BY DEF Stay, Idle, dmaVars, vars
    <3>3. QED BY <3>1, <3>2 DEF Next
  <2>2. QED BY <2>1, DeliversNext
<1>3. QED BY <1>1, <1>2, Results, PTL DEF Spec

-----------------------------------------------------------------------------
(***************************************************************************)
(* The cluster.  The cores run in lockstep: between two barriers each      *)
(* compute core is at the tile that the data-movement core is at, so those *)
(* that meet at a barrier come from the same place of the code although    *)
(* nothing but the barriers orders them.                                   *)
(***************************************************************************)

(* The number of tiles whose kernel the data-movement core has passed. *)
Passed == IF pc \in {"wait_output", "store"} THEN i + 1 ELSE i

PosTypeOK ==
    /\ pos \in [Core -> {"code", "kernel", "out"} \cup Barrier]
    /\ waiting \subseteq Core
    /\ at \in [Compute -> 0..NumTiles]
    /\ share \in [Buffer -> [Compute -> 0..NumTiles]]

(* The data-movement core calls the kernel's closure at its place in the    *)
(* loop and leaves when the loop is over.                                   *)
DmInv ==
    /\ pos[Dm] # "kernel"
    /\ pos[Dm] \in {"first", "second"} => pc = "kernel"
    /\ pos[Dm] \in {"last", "out"} => Finished

(* Where a compute core may be, given where the data-movement core is.      *)
CoreInv(c) ==
    /\ at[c] = Passed
    /\ pos[c] \in {"kernel", "second"} <=> pos[Dm] = "second"
    /\ pos[c] = "out" <=> pos[Dm] = "out"
    /\ pos[c] = "first" => at[c] < NumTiles
    /\ pos[c] \in {"last", "out"} => at[c] = NumTiles

LockInv ==
    /\ DmInv
    /\ \A c \in Compute : CoreInv(c)
    /\ \A c \in waiting : pos[c] \in Barrier

CInv == IInv /\ CallInv /\ PosTypeOK /\ LockInv

-----------------------------------------------------------------------------
LEMMA CoreFacts ==
    /\ Dm \in Core /\ Compute \subseteq Core /\ Dm \notin Compute
    /\ \A c \in Core : c = Dm \/ c \in Compute
    /\ L3Tensor = {}
BY ClusterAssumption DEF Core

(* What is known of the loop's counters. *)
LEMMA LoopFacts ==
    ASSUME CInv
    PROVE  /\ i \in Nat /\ NumTiles \in Nat /\ i <= NumTiles /\ Passed \in Nat
           /\ pc = "kernel" => i < NumTiles /\ Passed = i
           /\ Finished => Passed = NumTiles
<1>1. i \in 0..NumTiles /\ NumTiles \in Nat
    BY DmaAssumption DEF CInv, IInv, TypeOK, LoopTypeOK
<1>2. pc = "kernel" => i < NumTiles
    BY DEF CInv, IInv, ControlInv
<1>3. Finished => pc = "call" /\ tileIdx = 1
    BY OneInvocation, CoreFacts DEF Finished
<1>4. Finished => i = NumTiles
    BY <1>3 DEF CInv, CallInv
<1>5. QED BY <1>1, <1>2, <1>3, <1>4 DEF Passed

(* The lockstep invariant depends on these values alone. *)
LEMMA SameLock ==
    ASSUME CInv, UNCHANGED <<pos, waiting, at>>, Passed' = Passed, DmInv'
    PROVE  LockInv'
<1>1. LockInv
    BY DEF CInv
<1>2. ASSUME NEW c \in Compute PROVE CoreInv(c)'
    BY <1>1 DEF LockInv, CoreInv
<1>3. QED BY <1>1, <1>2 DEF LockInv

-----------------------------------------------------------------------------
(* The invariant holds initially and every step preserves it. *)

LEMMA ClusterInitInv == ASSUME ClusterInit PROVE CInv
<1> USE DEF ClusterInit
<1>1. IInv
    BY InitInv, CoreFacts
<1>2. pc = "call" /\ i = 0 /\ tileIdx = 0
    BY DEF Init, LoopInit
<1>3. PosTypeOK
    BY DmaAssumption DEF PosTypeOK, Junk
<1>4. LockInv
  <2>1. Passed = 0
      BY <1>2 DEF Passed
  <2>2. DmInv
      BY CoreFacts DEF DmInv
  <2>3. ASSUME NEW c \in Compute PROVE CoreInv(c)
      BY <2>1, CoreFacts DEF CoreInv
  <2>4. QED BY <2>2, <2>3 DEF LockInv
<1>5. QED BY <1>1, <1>2, <1>3, <1>4 DEF CInv, CallInv

(* A statement of the tile loop is a step of the double-buffered loop that *)
(* does not run the kernel.                                                *)
LEMMA StatementEffect ==
    ASSUME CInv, DmStatement
    PROVE  IInv' /\ CallInv' /\ Passed' = Passed
<1>0. TypeOK /\ ControlInv /\ CallInv /\ IInv
    BY DEF CInv, IInv
<1>1. CASE Enter
  <2>1. tileIdx = 0 /\ FirstTile = 0
      BY <1>0, <1>1, OneInvocation, CoreFacts
      DEF Enter, EnterClosure, TypeOK, LoopTypeOK, FirstTile
  <2>2. i = 0 /\ i' = 0 /\ pc = "call" /\ pc' = "load_first"
      BY <1>0, <1>1, <2>1 DEF Enter, EnterClosure, CallInv
  <2>3. QED BY <1>0, <1>1, <2>2, EnterInv, CoreFacts DEF CallInv, Passed
<1>2. CASE LoadFirstTile
    BY <1>0, <1>2, LoadFirstInv, CoreFacts DEF LoadFirstTile, CallInv, Passed
<1>3. CASE OpenTile
    BY <1>0, <1>3, OpenTileInv, CoreFacts DEF OpenTile, CallInv, Passed
<1>4. CASE WaitInput
    BY <1>0, <1>4, WaitInputInv, CoreFacts DEF WaitInput, CallInv, Passed
<1>5. CASE LoadNext
  <2>1. pc = "load_next" /\ pc' \in {"wait_input", "kernel"} /\ i' = i
      BY <1>5 DEF LoadNext
  <2>2. QED BY <1>0, <1>5, <2>1, LoadNextInv, CoreFacts DEF CallInv, Passed
<1>6. CASE WaitOutput
    BY <1>0, <1>6, WaitOutputInv, CoreFacts DEF WaitOutput, CallInv, Passed
<1>7. CASE Store
  <2>1. pc = "store" /\ \/ pc' = "wait_output" /\ i' = i
                        \/ pc' = "loop" /\ i' = i + 1
      BY <1>7 DEF Store
  <2>2. QED BY <1>0, <1>7, <2>1, StoreInv, CoreFacts DEF CallInv, Passed
<1>8. CASE LeaveLoop
    BY <1>0, <1>8, LeaveLoopInv, CoreFacts DEF LeaveLoop, CloseLoop, CallInv, Passed
<1>9. CASE Drain
  <2>1. /\ pc = "drain" /\ pc' \in {"drain", "call"} /\ i' = i
        /\ i = NumTiles /\ tileIdx' = 1
      BY <1>0, <1>9 DEF Drain, ControlInv
  <2>2. QED BY <1>0, <1>9, <2>1, DrainInv, CoreFacts DEF CallInv, Passed
<1>10. QED BY <1>1, <1>2, <1>3, <1>4, <1>5, <1>6, <1>7, <1>8, <1>9 DEF DmStatement

LEMMA DmStatementInv == ASSUME CInv, DmStatement PROVE CInv'
<1>1. IInv' /\ CallInv' /\ Passed' = Passed
    BY StatementEffect
<1>2. pos[Dm] = "code" /\ UNCHANGED <<pos, waiting, at, share>>
    BY DEF DmStatement, clusterVars
<1>3. PosTypeOK'
    BY <1>2 DEF CInv, PosTypeOK
<1>4. DmInv'
    BY <1>2 DEF DmInv
<1>5. QED BY <1>1, <1>2, <1>3, <1>4, SameLock DEF CInv

(* What a change of the data-movement core's variables does not touch. *)
LEMMA SameLoop ==
    ASSUME CInv, UNCHANGED vars
    PROVE  /\ IInv' /\ CallInv' /\ Passed' = Passed
           /\ pc' = pc /\ (Finished' <=> Finished)
<1>1. IInv' BY StutterInv DEF CInv
<1>2. QED BY <1>1 DEF CInv, CallInv, Passed, Finished, vars

LEMMA DmCallsBodyInv == ASSUME CInv, DmCallsBody PROVE CInv'
<1> USE DEF DmCallsBody, BodyStart
<1>0. PosTypeOK /\ LockInv
    BY DEF CInv
<1>1. IInv' /\ CallInv' /\ Passed' = Passed /\ pc' = "kernel"
    BY SameLoop
<1>2. /\ pos'[Dm] = "first" /\ pos[Dm] = "code"
      /\ \A c \in Compute : pos'[c] = pos[c]
    BY <1>0, CoreFacts DEF PosTypeOK
<1>3. PosTypeOK'
    BY <1>0, CoreFacts DEF PosTypeOK, Barrier
<1>4. DmInv'
    BY <1>1, <1>2 DEF DmInv
<1>5. ASSUME NEW c \in Compute PROVE CoreInv(c)'
    BY <1>0, <1>1, <1>2 DEF LockInv, CoreInv
<1>6. ASSUME NEW c \in waiting PROVE pos'[c] \in Barrier
    BY <1>0, <1>2, CoreFacts DEF LockInv, PosTypeOK, Barrier
<1>7. QED BY <1>1, <1>3, <1>4, <1>5, <1>6 DEF CInv, LockInv

LEMMA DmReturnsInv == ASSUME CInv, DmReturns PROVE CInv'
<1> USE DEF DmReturns
<1>0. PosTypeOK /\ LockInv
    BY DEF CInv
<1>1. IInv' /\ CallInv' /\ Passed' = Passed /\ Finished'
    BY SameLoop
<1>2. /\ pos'[Dm] = "last" /\ pos[Dm] = "code"
      /\ \A c \in Compute : pos'[c] = pos[c]
    BY <1>0, CoreFacts DEF PosTypeOK
<1>3. PosTypeOK'
    BY <1>0, CoreFacts DEF PosTypeOK, Barrier
<1>4. DmInv'
    BY <1>1, <1>2 DEF DmInv
<1>5. ASSUME NEW c \in Compute PROVE CoreInv(c)'
    BY <1>0, <1>1, <1>2 DEF LockInv, CoreInv
<1>6. ASSUME NEW c \in waiting PROVE pos'[c] \in Barrier
    BY <1>0, <1>2, CoreFacts DEF LockInv, PosTypeOK, Barrier
<1>7. QED BY <1>1, <1>3, <1>4, <1>5, <1>6 DEF CInv, LockInv

LEMMA ComputeLoopInv ==
    ASSUME CInv, NEW c \in Compute, ComputeLoop(c)
    PROVE  CInv'
<1> USE DEF ComputeLoop, BodyStart
<1>0. PosTypeOK /\ LockInv
    BY DEF CInv
<1>1. IInv' /\ CallInv' /\ Passed' = Passed /\ pc' = pc /\ (Finished' <=> Finished)
    BY SameLoop
<1>2. /\ pos[c] = "code" /\ pos'[Dm] = pos[Dm]
      /\ \A d \in Core : d # c => pos'[d] = pos[d]
      /\ \/ pos'[c] = "first" /\ at[c] < NumTiles
         \/ pos'[c] = "last" /\ at[c] = NumTiles
  <2>1. HasTile(c) <=> at[c] < NumTiles
      BY <1>0, OneInvocation, CoreFacts, DmaAssumption DEF HasTile, PosTypeOK
  <2>2. at[c] \in 0..NumTiles /\ NumTiles \in Nat
      BY <1>0, DmaAssumption DEF PosTypeOK
  <2>3. QED BY <1>0, <2>1, <2>2, CoreFacts DEF PosTypeOK
<1>3. PosTypeOK'
    BY <1>0, CoreFacts DEF PosTypeOK, Barrier
<1>4. DmInv'
    BY <1>0, <1>1, <1>2 DEF DmInv, LockInv
<1>5. ASSUME NEW d \in Compute PROVE CoreInv(d)'
  <2>1. CASE d = c
      BY <1>0, <1>1, <1>2, <2>1 DEF LockInv, CoreInv
  <2>2. CASE d # c
      BY <1>0, <1>1, <1>2, <2>2, CoreFacts DEF LockInv, CoreInv
  <2>3. QED BY <2>1, <2>2
<1>6. ASSUME NEW d \in waiting PROVE pos'[d] \in Barrier
    BY <1>0, <1>2, CoreFacts DEF LockInv, PosTypeOK, Barrier
<1>7. QED BY <1>1, <1>3, <1>4, <1>5, <1>6 DEF CInv, LockInv

(* The kernel of one core changes its share and the output buffers alone. *)
LEMMA KernelEffect ==
    ASSUME CInv, NEW c \in Compute, ComputeKernel(c)
    PROVE  /\ BufferOf(at[c]) \in Buffer /\ at[c] \in Nat
           /\ at[c] = i /\ pc = "kernel" /\ InputsLoadedFor(c)
           /\ share' \in [Buffer -> [Compute -> 0..NumTiles]]
           /\ \A d \in Compute : share'[BufferOf(i)][d] =
                  IF d = c THEN i ELSE share[BufferOf(i)][d]
           /\ outBuf' \in [Output -> [Buffer -> SUBSET Nat]]
           /\ \A o \in Output, b \in Buffer :
                  b # BufferOf(i) => outBuf'[o][b] = outBuf[o][b]
           /\ (\A d \in Compute : share'[BufferOf(i)][d] = i) =>
                  \A o \in Output : outBuf'[o][BufferOf(i)] = {i}
           /\ pos' = [pos EXCEPT ![c] = "second"]
           /\ UNCHANGED <<waiting, at, nextBuf, pc, tensor, tileIdx, i, cur, extRef,
                          channel, free, lastAlloc, pending, inBuf, external>>
<1>0. IInv /\ TypeOK /\ PosTypeOK /\ DmInv /\ CoreInv(c)
    BY DEF CInv, IInv, LockInv
<1>1. pos[c] = "kernel" /\ pc = "kernel"
    BY <1>0 DEF ComputeKernel, CoreInv, DmInv
<1>2. at[c] = i /\ i \in Nat /\ at[c] \in 0..NumTiles /\ BufferOf(i) \in Buffer
    BY <1>0, <1>1, LoopFacts, BufferFacts DEF CoreInv, PosTypeOK
<1>3. InputsLoadedFor(c)
  <2>1. KernelInputsCurrent /\ \A t \in Tensor : cur[t] = BufferOf(i)
      BY <1>0, <1>1, KernelReady DEF IInv, ControlInv
  <2>2. QED BY <1>1, <1>2, <2>1, TensorFacts DEF KernelInputsCurrent, InputsLoaded, InputsLoadedFor
<1>4. share' = [share EXCEPT ![BufferOf(i)][c] = i]
    BY <1>2, <1>3 DEF ComputeKernel
<1>5. PICK v \in SUBSET Nat :
          /\ outBuf' = [o \in Output |-> [outBuf[o] EXCEPT ![BufferOf(i)] = v]]
          /\ (\A d \in Compute : share'[BufferOf(i)][d] = i) => v = {i}
  <2> DEFINE w == {IF \A d \in Compute : share'[BufferOf(i)][d] = i THEN i ELSE Junk}
  <2>1. outBuf' = [o \in Output |-> [outBuf[o] EXCEPT ![BufferOf(i)] = w]]
      BY <1>2 DEF ComputeKernel
  <2>2. w \in SUBSET Nat
      BY <1>2, DmaAssumption DEF Junk
  <2>3. QED BY <2>1, <2>2
<1>6. outBuf \in [Output -> [Buffer -> SUBSET Nat]]
    BY <1>0 DEF TypeOK, DmaTypeOK
<1>7. share \in [Buffer -> [Compute -> 0..NumTiles]] /\ i \in 0..NumTiles
    BY <1>0, <1>2 DEF PosTypeOK
<1>8. share' \in [Buffer -> [Compute -> 0..NumTiles]]
      /\ \A d \in Compute : share'[BufferOf(i)][d] =
             IF d = c THEN i ELSE share[BufferOf(i)][d]
    BY ONLY <1>2, <1>4, <1>7, c \in Compute
<1>9. /\ outBuf' \in [Output -> [Buffer -> SUBSET Nat]]
      /\ \A o \in Output : outBuf'[o][BufferOf(i)] = v
      /\ \A o \in Output, b \in Buffer : b # BufferOf(i) => outBuf'[o][b] = outBuf[o][b]
    BY <1>2, <1>5, <1>6
<1>10. QED BY <1>1, <1>2, <1>3, <1>5, <1>8, <1>9 DEF ComputeKernel, loopVars

LEMMA ComputeKernelInv ==
    ASSUME CInv, NEW c \in Compute, ComputeKernel(c)
    PROVE  CInv'
<1>0. IInv /\ PosTypeOK /\ LockInv /\ CallInv
    BY DEF CInv
<1>1. /\ share' \in [Buffer -> [Compute -> 0..NumTiles]]
      /\ outBuf' \in [Output -> [Buffer -> SUBSET Nat]]
      /\ pos' = [pos EXCEPT ![c] = "second"]
      /\ UNCHANGED <<waiting, at, nextBuf, pc, tensor, tileIdx, i, cur, extRef,
                     channel, free, lastAlloc, pending, inBuf, external>>
    BY KernelEffect
<1>2. IInv'
  <2>1. TypeOK'
      BY <1>0, <1>1 DEF IInv, TypeOK, DmaTypeOK, LoopTypeOK
  <2>2. QED BY <1>0, <1>1, <2>1, SameTransfers
        DEF IInv, ControlInv, InputInv, InputAt, OutputInv, OutputAt, ReferenceInv,
            InRefAt, OutRefAt, AllocInv, SharesChannel, Advanced, Storing, Ready,
            Fetching, Only, None, Holds, Egress, NextTile
<1>3. CallInv' /\ Passed' = Passed /\ pc' = pc /\ (Finished' <=> Finished)
    BY <1>0, <1>1 DEF CallInv, Passed, Finished
<1>4. /\ pos[c] = "kernel" /\ pos'[c] = "second" /\ pos'[Dm] = pos[Dm]
      /\ \A d \in Core : d # c => pos'[d] = pos[d]
    BY <1>0, <1>1, CoreFacts DEF ComputeKernel, PosTypeOK
<1>5. PosTypeOK'
    BY <1>0, <1>1, CoreFacts DEF PosTypeOK, Barrier
<1>6. DmInv'
    BY <1>0, <1>3, <1>4 DEF DmInv, LockInv
<1>7. ASSUME NEW d \in Compute PROVE CoreInv(d)'
  <2>1. CASE d = c
      BY <1>0, <1>1, <1>3, <1>4, <2>1 DEF LockInv, CoreInv
  <2>2. CASE d # c
      BY <1>0, <1>1, <1>3, <1>4, <2>2, CoreFacts DEF LockInv, CoreInv
  <2>3. QED BY <2>1, <2>2
<1>8. ASSUME NEW d \in waiting' PROVE pos'[d] \in Barrier
    BY <1>0, <1>1, <1>4, CoreFacts DEF LockInv, PosTypeOK, Barrier
<1>9. QED BY <1>2, <1>3, <1>5, <1>6, <1>7, <1>8 DEF CInv, LockInv

(* The cores that meet are all at the same barrier. *)
LEMMA Meeting ==
    ASSUME CInv, \A c \in Core : pos[c] \in Barrier
    PROVE  \/ pos[Dm] = "first" /\ \A c \in Compute : pos[c] = "first"
           \/ pos[Dm] = "second" /\ \A c \in Compute : pos[c] = "second"
           \/ pos[Dm] = "last" /\ \A c \in Compute : pos[c] = "last"
<1>0. DmInv /\ pos[Dm] \in {"first", "second", "last"}
    BY CoreFacts DEF CInv, LockInv, Barrier
<1>1. ASSUME NEW c \in Compute
      PROVE  CoreInv(c) /\ pos[c] \in {"first", "second", "last"}
    BY CoreFacts DEF CInv, LockInv, Barrier
<1>2. CASE pos[Dm] = "first"
  <2>1. Passed < NumTiles
      BY <1>0, <1>2, LoopFacts DEF DmInv
  <2>2. ASSUME NEW c \in Compute PROVE pos[c] = "first"
      BY <1>1, <1>2, <2>1, LoopFacts DEF CoreInv
  <2>3. QED BY <1>2, <2>2
<1>3. CASE pos[Dm] = "second"
    BY <1>1, <1>3 DEF CoreInv
<1>4. CASE pos[Dm] = "last"
  <2>1. Passed = NumTiles
      BY <1>0, <1>4, LoopFacts DEF DmInv
  <2>2. ASSUME NEW c \in Compute PROVE pos[c] = "last"
      BY <1>1, <1>4, <2>1, LoopFacts DEF CoreInv
  <2>3. QED BY <1>4, <2>2
<1>5. QED BY <1>0, <1>2, <1>3, <1>4

(* The last core to arrive lets all of them go. *)
Release ==
    /\ \A c \in Core : pos[c] \in Barrier
    /\ waiting' = {}
    /\ pos' = [d \in Core |-> Released(d)]
    /\ at' = [d \in Compute |-> IF pos[d] = "second" THEN at[d] + 1 ELSE at[d]]
    /\ pc' = IF pos[Dm] = "second" THEN "wait_output" ELSE pc
    /\ UNCHANGED <<share, nextBuf, tensor, tileIdx, i, cur, extRef>>
    /\ UNCHANGED dmaVars

LEMMA ArriveCases ==
    ASSUME CInv, NEW c \in Core, Arrive(c)
    PROVE  \/ Release
           \/ /\ waiting' = waiting \cup {c} /\ pos[c] \in Barrier
              /\ UNCHANGED <<pos, at, share>> /\ UNCHANGED vars
<1>1. CASE waiting \cup {c} = Core
  <2>1. \A d \in Core : pos[d] \in Barrier
      BY <1>1 DEF CInv, LockInv, Arrive
  <2>2. QED BY <1>1, <2>1 DEF Arrive, Release
<1>2. CASE waiting \cup {c} # Core
    BY <1>2 DEF Arrive, vars, dmaVars
<1>3. QED BY <1>1, <1>2

(* The three barriers. *)
LEMMA ReleaseEffect ==
    ASSUME CInv, Release
    PROVE  \/ /\ pos[Dm] = "first" /\ pos'[Dm] = "second" /\ at' = at
              /\ \A c \in Compute : pos'[c] = "kernel"
              /\ UNCHANGED vars
           \/ /\ pos[Dm] = "second" /\ pos'[Dm] = "code" /\ pc' = "wait_output"
              /\ \A c \in Compute : /\ pos[c] = "second" /\ pos'[c] = "code"
                                    /\ at'[c] = at[c] + 1
           \/ /\ pos[Dm] = "last" /\ pos'[Dm] = "out" /\ at' = at
              /\ \A c \in Compute : pos[c] = "last" /\ pos'[c] = "out"
              /\ UNCHANGED vars
<1>0. at \in [Compute -> 0..NumTiles]
    BY DEF CInv, PosTypeOK
<1>1. CASE pos[Dm] = "first" /\ \A c \in Compute : pos[c] = "first"
  <2>1. at' = at /\ UNCHANGED vars
      BY <1>0, <1>1 DEF Release, vars, dmaVars
  <2>2. QED BY <1>1, <2>1, CoreFacts DEF Release, Released, KernelFilter
<1>2. CASE pos[Dm] = "second" /\ \A c \in Compute : pos[c] = "second"
    BY <1>2, CoreFacts DEF Release, Released
<1>3. CASE pos[Dm] = "last" /\ \A c \in Compute : pos[c] = "last"
  <2>1. at' = at /\ UNCHANGED vars
      BY <1>0, <1>3 DEF Release, vars, dmaVars
  <2>2. QED BY <1>3, <2>1, CoreFacts DEF Release, Released
<1>4. QED BY <1>1, <1>2, <1>3, Meeting DEF Release

LEMMA ReleaseInv == ASSUME CInv, Release PROVE CInv'
<1>0. IInv /\ PosTypeOK /\ LockInv /\ CallInv /\ DmInv /\ \A c \in Compute : CoreInv(c)
    BY DEF CInv, LockInv
<1>1. waiting' = {} /\ share' = share
      /\ pos' \in [Core -> {"code", "kernel", "out"} \cup Barrier]
    BY CoreFacts DEF Release, Released, KernelFilter, Barrier
<1>2. CASE /\ pos[Dm] = "first" /\ pos'[Dm] = "second" /\ at' = at
           /\ \A c \in Compute : pos'[c] = "kernel"
           /\ UNCHANGED vars
  <2>1. IInv' /\ CallInv' /\ Passed' = Passed /\ pc' = pc
      BY <1>2, SameLoop
  <2>2. DmInv' /\ PosTypeOK'
      BY <1>0, <1>1, <1>2, <2>1 DEF DmInv, PosTypeOK
  <2>3. ASSUME NEW c \in Compute PROVE CoreInv(c)'
      BY <1>0, <1>2, <2>1 DEF CoreInv
  <2>4. QED BY <1>1, <2>1, <2>2, <2>3 DEF CInv, LockInv
<1>3. CASE /\ pos[Dm] = "second" /\ pos'[Dm] = "code" /\ pc' = "wait_output"
           /\ \A c \in Compute : /\ pos[c] = "second" /\ pos'[c] = "code"
                                 /\ at'[c] = at[c] + 1
  <2>1. pc = "kernel" /\ i < NumTiles /\ Passed = i /\ i \in Nat /\ i' = i
      BY <1>0, <1>3, LoopFacts DEF DmInv, Release
  <2>2. outBuf' \in [Output -> [Buffer -> SUBSET Nat]]
      BY <1>0 DEF Release, dmaVars, IInv, TypeOK, DmaTypeOK
  <2>3. IInv'
      BY <1>0, <1>3, <2>1, <2>2, KernelEnds DEF Release, dmaVars
  <2>4. CallInv' /\ Passed' = Passed + 1
      BY <1>3, <2>1 DEF CallInv, Passed
  <2>5. \A c \in Compute : at[c] = i
      BY <1>0, <2>1 DEF CoreInv
  <2>6. DmInv' /\ PosTypeOK'
      BY <1>0, <1>1, <1>3, <2>1, <2>5, DmaAssumption DEF DmInv, PosTypeOK, Release
  <2>7. ASSUME NEW c \in Compute PROVE CoreInv(c)'
      BY <1>3, <2>1, <2>4, <2>5 DEF CoreInv
  <2>8. QED BY <1>1, <2>3, <2>4, <2>6, <2>7 DEF CInv, LockInv
<1>4. CASE /\ pos[Dm] = "last" /\ pos'[Dm] = "out" /\ at' = at
           /\ \A c \in Compute : pos[c] = "last" /\ pos'[c] = "out"
           /\ UNCHANGED vars
  <2>1. IInv' /\ CallInv' /\ Passed' = Passed /\ (Finished' <=> Finished)
      BY <1>4, SameLoop
  <2>2. DmInv' /\ PosTypeOK'
      BY <1>0, <1>1, <1>4, <2>1 DEF DmInv, PosTypeOK
  <2>3. ASSUME NEW c \in Compute PROVE CoreInv(c)'
      BY <1>0, <1>4, <2>1 DEF CoreInv
  <2>4. QED BY <1>1, <2>1, <2>2, <2>3 DEF CInv, LockInv
<1>5. QED BY <1>2, <1>3, <1>4, ReleaseEffect

LEMMA ArriveInv == ASSUME CInv, NEW c \in Core, Arrive(c) PROVE CInv'
<1>1. CASE Release
    BY <1>1, ReleaseInv
<1>2. CASE /\ waiting' = waiting \cup {c} /\ pos[c] \in Barrier
           /\ UNCHANGED <<pos, at, share>> /\ UNCHANGED vars
  <2>0. PosTypeOK /\ LockInv
      BY DEF CInv
  <2>1. IInv' /\ CallInv' /\ Passed' = Passed /\ pc' = pc /\ (Finished' <=> Finished)
      BY <1>2, SameLoop
  <2>2. DmInv' /\ PosTypeOK'
      BY <1>2, <2>0, <2>1 DEF DmInv, PosTypeOK, LockInv
  <2>3. ASSUME NEW d \in Compute PROVE CoreInv(d)'
      BY <1>2, <2>0, <2>1 DEF CoreInv, LockInv
  <2>4. QED BY <1>2, <2>0, <2>1, <2>2, <2>3 DEF CInv, LockInv
<1>3. QED BY <1>1, <1>2, ArriveCases

LEMMA DmaMovesInv == ASSUME CInv, DmaMoves PROVE CInv'
<1>0. PosTypeOK /\ LockInv /\ IInv /\ CallInv
    BY DEF CInv
<1>1. /\ DmaRuns /\ UNCHANGED <<pos, waiting, at, share>>
      /\ UNCHANGED <<pc, tensor, tileIdx, i, cur, extRef>>
    BY DEF DmaMoves, clusterVars, DmaRuns, DmaStep, loopVars
<1>2. IInv' /\ CallInv' /\ Passed' = Passed
    BY <1>0, <1>1, DmaRunsInv, CoreFacts DEF CallInv, Passed
<1>3. DmInv' /\ PosTypeOK'
    BY <1>0, <1>1 DEF DmInv, LockInv, PosTypeOK, Finished
<1>4. QED BY <1>1, <1>2, <1>3, SameLock DEF CInv

LEMMA ClusterStutterInv == ASSUME CInv, UNCHANGED snitchVars PROVE CInv'
<1>0. PosTypeOK /\ LockInv
    BY DEF CInv
<1>1. UNCHANGED vars /\ UNCHANGED <<pos, waiting, at, share>>
    BY DEF snitchVars, clusterVars
<1>2. IInv' /\ CallInv' /\ Passed' = Passed /\ pc' = pc /\ (Finished' <=> Finished)
    BY <1>1, SameLoop
<1>3. DmInv' /\ PosTypeOK'
    BY <1>0, <1>1, <1>2 DEF DmInv, LockInv, PosTypeOK
<1>4. QED BY <1>1, <1>2, <1>3, SameLock DEF CInv

LEMMA ClusterStepInv == ASSUME CInv, [ClusterNext]_snitchVars PROVE CInv'
<1>1. CASE DmStep
    BY <1>1, DmStatementInv, DmCallsBodyInv, DmReturnsInv, ArriveInv, CoreFacts DEF DmStep
<1>2. ASSUME NEW c \in Compute, ComputeStep(c) PROVE CInv'
    BY <1>2, ComputeLoopInv, ComputeKernelInv, ArriveInv, CoreFacts DEF ComputeStep
<1>3. CASE ClusterStays
    BY <1>3, ClusterStutterInv DEF ClusterStays
<1>4. QED BY <1>1, <1>2, <1>3, DmaMovesInv, ClusterStutterInv DEF ClusterNext

LEMMA ClusterInvariant == ClusterSpec => []CInv
<1>1. ClusterInit => CInv BY ClusterInitInv
<1>2. CInv /\ [ClusterNext]_snitchVars => CInv' BY ClusterStepInv
<1>3. QED BY <1>1, <1>2, PTL DEF ClusterSpec

-----------------------------------------------------------------------------
(* The state of the cluster always has its type. *)
THEOREM ClusterTypes == ClusterSpec => []ClusterTypeOK
<1>1. CInv => ClusterTypeOK
    BY DEF CInv, IInv, PosTypeOK, ClusterTypeOK
<1>2. QED BY <1>1, ClusterInvariant, PTL

(* No compute core runs on a tile that has not arrived, although it never  *)
(* looks at the DMA.                                                       *)
THEOREM InputsSeen == ClusterSpec => []ComputeSeesInputs
<1>1. CInv => ComputeSeesInputs
  <2> SUFFICES ASSUME CInv, NEW c \in Compute, pos[c] = "kernel"
               PROVE  InputsLoadedFor(c)
      BY DEF ComputeSeesInputs
  <2>1. pc = "kernel" /\ at[c] = i
      BY LoopFacts DEF CInv, LockInv, DmInv, CoreInv
  <2>2. KernelInputsCurrent /\ \A t \in Tensor : cur[t] = BufferOf(i)
      BY <2>1, KernelReady DEF CInv, IInv, ControlInv
  <2>3. QED BY <2>1, <2>2, TensorFacts DEF KernelInputsCurrent, InputsLoaded, InputsLoadedFor
<1>2. QED BY <1>1, ClusterInvariant, PTL

(* While a compute core is in the kernel no transfer touches the buffers   *)
(* of its tile.                                                            *)
THEOREM ClusterApart == ClusterSpec => []NoClusterRace
<1>1. CInv => NoClusterRace
  <2> SUFFICES ASSUME CInv PROVE NoClusterRace
      OBVIOUS
  <2>1. NoBufferRace
      BY Apart DEF CInv
  <2>2. ASSUME NEW c \in Compute, pos[c] = "kernel", NEW t \in Tensor
        PROVE  Quiet(t, BufferOf(at[c]))
    <3>1. pc = "kernel" /\ at[c] = i
        BY <2>2, LoopFacts DEF CInv, LockInv, DmInv, CoreInv
    <3>2. cur[t] = BufferOf(i)
        BY <3>1 DEF CInv, IInv, ControlInv
    <3>3. QED BY <2>1, <3>1, <3>2 DEF NoBufferRace
  <2>3. QED BY <2>1, <2>2 DEF NoClusterRace, NoBufferRace
<1>2. QED BY <1>1, ClusterInvariant, PTL

(* The barrier only counts arrivals; the code makes those that it counts    *)
(* together the same one.                                                   *)
THEOREM BarriersMatch == ClusterSpec => []SameBarrier
<1>1. CInv => SameBarrier
  <2> SUFFICES ASSUME CInv, NEW c \in waiting, NEW d \in waiting
               PROVE  /\ pos[c] = pos[d]
                      /\ c \in Compute /\ pos[c] \in {"first", "second"} =>
                             at[c] = (IF d = Dm THEN i ELSE at[d])
      BY DEF SameBarrier
  <2>0. /\ c \in Core /\ d \in Core /\ pos[c] \in {"first", "second", "last"}
        /\ pos[d] \in {"first", "second", "last"} /\ DmInv
        /\ \A e \in Compute : CoreInv(e)
      BY DEF CInv, LockInv, PosTypeOK, Barrier
  <2>1. pos[c] = "second" <=> pos[Dm] = "second"
      BY <2>0, CoreFacts DEF CoreInv
  <2>2. pos[d] = "second" <=> pos[Dm] = "second"
      BY <2>0, CoreFacts DEF CoreInv
  <2>3. pos[c] = "first" => Passed < NumTiles
      BY <2>0, CoreFacts, LoopFacts DEF CoreInv, DmInv
  <2>4. pos[d] = "first" => Passed < NumTiles
      BY <2>0, CoreFacts, LoopFacts DEF CoreInv, DmInv
  <2>5. pos[c] = "last" => Passed = NumTiles
      BY <2>0, CoreFacts, LoopFacts DEF CoreInv, DmInv
  <2>6. pos[d] = "last" => Passed = NumTiles
      BY <2>0, CoreFacts, LoopFacts DEF CoreInv, DmInv
  <2>7. pos[c] = pos[d]
      BY <2>0, <2>1, <2>2, <2>3, <2>4, <2>5, <2>6, LoopFacts
  <2>8. ASSUME c \in Compute, pos[c] \in {"first", "second"}
        PROVE  at[c] = (IF d = Dm THEN i ELSE at[d])
    <3>1. CASE d = Dm
        BY <2>0, <2>7, <2>8, <3>1, LoopFacts DEF CoreInv, DmInv
    <3>2. CASE d # Dm
        BY <2>0, <2>8, <3>2, CoreFacts DEF CoreInv
    <3>3. QED BY <3>1, <3>2
  <2>9. QED BY <2>7, <2>8
<1>2. QED BY <1>1, ClusterInvariant, PTL

-----------------------------------------------------------------------------
(* The results of an ordinary node: every output is tiled and there is a    *)
(* core to compute it.                                                      *)
Computing == OrdinaryNode /\ Compute # {}

(* The shares written for the current tile, and the buffer they make up.    *)
ShareInv ==
    pos[Dm] = "second" =>
        /\ \A c \in Compute : pos[c] = "second" => share[BufferOf(i)][c] = i
        /\ (\A c \in Compute : pos[c] = "second") =>
               \A o \in Output : outBuf[o][BufferOf(i)] = {i}

CRInv == CInv /\ ResultInv /\ ShareInv

(* A step that leaves the variables of the loop alone. *)
LEMMA SameLoopResults ==
    ASSUME CRInv, UNCHANGED vars
    PROVE  RInv /\ ResultInv'
BY StutterResults DEF CRInv, CInv, RInv

LEMMA StatementResults ==
    ASSUME Computing, CRInv, DmStatement
    PROVE  ResultInv' /\ ShareInv' /\ external' = external
<1>1. RInv /\ L3Tensor = {}
    BY DEF CRInv, CInv, RInv, Computing, OrdinaryNode
<1>2. ResultInv'
    BY <1>1, EnterResults, LoadFirstResults, OpenTileResults, WaitInputResults,
       LoadNextResults, WaitOutputResults, StoreResults, LeaveLoopResults,
       DrainResults DEF DmStatement, Computing
<1>3. ShareInv'
    BY DEF DmStatement, clusterVars, ShareInv
<1>4. external' = external
    BY DEF DmStatement, Enter, EnterClosure, LoadFirstTile, OpenTile, WaitInput,
       LoadNext, LoadNextTile, WaitOutput, Store, LeaveLoop, CloseLoop, Drain,
       WaitFuture, Issue, dmaVars
<1>5. QED BY <1>2, <1>3, <1>4

LEMMA CallResults ==
    ASSUME CRInv, DmCallsBody \/ DmReturns
    PROVE  ResultInv' /\ ShareInv' /\ external' = external
<1>1. ResultInv' /\ external' = external
    BY SameLoopResults DEF DmCallsBody, DmReturns, vars
<1>2. pos'[Dm] # "second"
    BY CoreFacts DEF DmCallsBody, DmReturns, BodyStart, CRInv, CInv, PosTypeOK
<1>3. QED BY <1>1, <1>2 DEF ShareInv

LEMMA ComputeLoopResults ==
    ASSUME CRInv, NEW c \in Compute, ComputeLoop(c)
    PROVE  ResultInv' /\ ShareInv' /\ external' = external
<1>1. ResultInv' /\ external' = external
    BY SameLoopResults DEF ComputeLoop, vars
<1>2. pos[Dm] # "second"
    BY DEF ComputeLoop, CRInv, CInv, LockInv, CoreInv
<1>3. pos'[Dm] = pos[Dm]
    BY CoreFacts DEF ComputeLoop, CRInv, CInv, PosTypeOK
<1>4. QED BY <1>1, <1>2, <1>3 DEF ShareInv

(* The kernel of a core writes the buffer of its tile, and the last share   *)
(* completes it; the result still on its way is in the other buffer.        *)
LEMMA ComputeKernelResults ==
    ASSUME CRInv, NEW c \in Compute, ComputeKernel(c)
    PROVE  ResultInv' /\ ShareInv' /\ external' = external
<1>0. CInv /\ ResultInv /\ ShareInv /\ CoreInv(c) /\ pos[c] = "kernel"
    BY DEF CRInv, CInv, LockInv, ComputeKernel
<1>1. /\ i \in Nat /\ i' = i /\ pc = "kernel" /\ pc' = pc /\ tileIdx' = tileIdx
      /\ external' = external /\ pending' = pending
      /\ pos' = [pos EXCEPT ![c] = "second"]
      /\ \A o \in Output, b \in Buffer :
             b # BufferOf(i) => outBuf'[o][b] = outBuf[o][b]
    BY <1>0, KernelEffect
<1>2. CallInv'
    BY <1>1 DEF CallInv
<1>3. ASSUME NEW o \in Output PROVE Streamed(o, Sent(o))' /\ Computed(o)'
  <2>1. Streamed(o, i)
      BY <1>0, <1>1 DEF ResultInv, Sent, StoredNow
  <2>2. ASSUME NEW r \in Tile, r + 1 = i
        PROVE  outBuf'[o][BufferOf(r)] = outBuf[o][BufferOf(r)]
    <3>1. r \in Nat
        BY DEF Tile
    <3>2. BufferOf(r) \in Buffer /\ BufferOf(r) # BufferOf(i)
        BY <2>2, <3>1, BufferFacts
    <3>3. QED BY <1>1, <3>2
  <2>3. None(o)' <=> None(o)
      BY <1>1 DEF None
  <2>4. PICK n \in Nat : n = i
      BY <1>1
  <2>5. Streamed(o, n)'
      BY <1>1, <2>1, <2>2, <2>3, <2>4 DEF Streamed
  <2>6. Sent(o)' = n
      BY <1>1, <2>4 DEF Sent, StoredNow
  <2>7. Computed(o)'
      BY <1>1 DEF Computed
  <2>8. QED BY <2>5, <2>6, <2>7 DEF Streamed
<1>4. ShareInv'
  <2>1. /\ \A d \in Compute : share'[BufferOf(i)][d] =
               IF d = c THEN i ELSE share[BufferOf(i)][d]
        /\ (\A d \in Compute : share'[BufferOf(i)][d] = i) =>
               \A o \in Output : outBuf'[o][BufferOf(i)] = {i}
      BY <1>0, KernelEffect
  <2>2. pos[Dm] = "second"
      BY <1>0 DEF CoreInv
  <2>3. ASSUME NEW d \in Compute, pos'[d] = "second"
        PROVE  share'[BufferOf(i)][d] = i
    <3>1. CASE d = c
        BY <2>1, <3>1
    <3>2. CASE d # c
      <4>1. pos[d] = "second"
          BY <1>0, <1>1, <2>3, <3>2, CoreFacts DEF CInv, PosTypeOK
      <4>2. QED BY <1>0, <2>1, <2>2, <2>3, <3>2, <4>1 DEF ShareInv
    <3>3. QED BY <3>1, <3>2
  <2>4. QED BY <1>1, <2>1, <2>3 DEF ShareInv, BufferOf
<1>5. QED BY <1>1, <1>2, <1>3, <1>4 DEF ResultInv

(* The second barrier hands the complete tile to the data-movement core. *)
LEMMA ReleaseResults ==
    ASSUME Computing, CRInv, Release
    PROVE  ResultInv' /\ ShareInv' /\ external' = external
<1>0. CInv /\ ResultInv /\ ShareInv /\ external' = external
    BY DEF CRInv, Release, dmaVars
<1>1. CASE /\ pos[Dm] = "first" /\ pos'[Dm] = "second" /\ at' = at
           /\ \A c \in Compute : pos'[c] = "kernel"
           /\ UNCHANGED vars
  <2>1. ShareInv'
      BY <1>1 DEF ShareInv, Computing
  <2>2. QED BY <1>0, <1>1, <2>1, SameLoopResults
<1>2. CASE /\ pos[Dm] = "second" /\ pos'[Dm] = "code" /\ pc' = "wait_output"
           /\ \A c \in Compute : /\ pos[c] = "second" /\ pos'[c] = "code"
                                 /\ at'[c] = at[c] + 1
  <2>1. /\ pc = "kernel" /\ i \in Nat /\ i' = i /\ tensor = NIn /\ tensor' = tensor
        /\ outBuf' = outBuf /\ external' = external /\ pending' = pending
      BY <1>0, <1>2, LoopFacts
      DEF CInv, LockInv, DmInv, IInv, ControlInv, Release, dmaVars
  <2>2. CallInv' /\ ShareInv'
      BY <1>2 DEF CallInv, ShareInv
  <2>3. ASSUME NEW o \in Output PROVE Streamed(o, Sent(o))' /\ Computed(o)'
    <3>1. Egress' = NIn + 1
        BY <2>1, OutputFacts, DmaAssumption DEF Egress, Output
    <3>2. ~StoredNow(o)'
        BY <1>2, <3>1, OutputFacts, DmaAssumption DEF StoredNow
    <3>3. PICK n \in Nat : n = i
        BY <2>1
    <3>4. Streamed(o, n)
        BY <1>0, <2>1, <3>3 DEF ResultInv, Sent, StoredNow
    <3>5. Streamed(o, n)' /\ Sent(o)' = n
        BY <2>1, <3>2, <3>3, <3>4 DEF Streamed, None, Sent
    <3>6. outBuf[o][BufferOf(i)] = {i}
        BY <1>0, <1>2 DEF ShareInv
    <3>7. QED BY <2>1, <3>5, <3>6 DEF Computed, Streamed
  <2>4. QED BY <1>0, <2>2, <2>3 DEF ResultInv
<1>3. CASE /\ pos[Dm] = "last" /\ pos'[Dm] = "out" /\ at' = at
           /\ \A c \in Compute : pos[c] = "last" /\ pos'[c] = "out"
           /\ UNCHANGED vars
    BY <1>0, <1>3, SameLoopResults DEF ShareInv
<1>4. QED BY <1>0, <1>1, <1>2, <1>3, ReleaseEffect

LEMMA ArriveResults ==
    ASSUME Computing, CRInv, NEW c \in Core, Arrive(c)
    PROVE  ResultInv' /\ ShareInv' /\ external' = external
<1>1. CASE UNCHANGED <<pos, at, share>> /\ UNCHANGED vars
  <2>1. ShareInv' /\ external' = external
      BY <1>1 DEF CRInv, ShareInv, vars, BufferOf
  <2>2. QED BY <1>1, <2>1, SameLoopResults
<1>2. QED BY <1>1, ArriveCases, ReleaseResults DEF CRInv

LEMMA DmaMovesResults ==
    ASSUME Computing, CRInv, DmaMoves
    PROVE  ResultInv' /\ ShareInv' /\ [Stream!Next]_external
<1>1. RInv /\ OrdinaryNode /\ DmaRuns
    BY DEF CRInv, CInv, RInv, Computing, DmaMoves
<1>2. UNCHANGED <<pos, share, i, outBuf>>
    BY DEF DmaMoves, clusterVars, DmaRuns, DmaStep, loopVars, CompleteTransfer
<1>3. ShareInv'
    BY <1>2 DEF CRInv, ShareInv, BufferOf
<1>4. QED BY <1>1, <1>3, DmaRunsResults, DeliversNext

LEMMA ClusterResultStep ==
    ASSUME Computing, CRInv, [ClusterNext]_snitchVars
    PROVE  CRInv' /\ [Stream!Next]_external
<1>0. CInv'
    BY ClusterStepInv DEF CRInv
<1>1. CASE DmStep
    BY <1>0, <1>1, StatementResults, CallResults, ArriveResults, CoreFacts DEF DmStep, CRInv
<1>2. ASSUME NEW c \in Compute, ComputeStep(c)
      PROVE  CRInv' /\ [Stream!Next]_external
    BY <1>0, <1>2, ComputeLoopResults, ComputeKernelResults, ArriveResults, CoreFacts
    DEF ComputeStep, CRInv
<1>3. CASE DmaMoves
    BY <1>0, <1>3, DmaMovesResults DEF CRInv
<1>4. CASE UNCHANGED snitchVars
  <2>1. UNCHANGED vars /\ UNCHANGED <<pos, share>>
      BY <1>4 DEF snitchVars, clusterVars
  <2>2. ShareInv' /\ external' = external
      BY <2>1 DEF CRInv, ShareInv, vars, BufferOf
  <2>3. QED BY <1>0, <2>1, <2>2, SameLoopResults DEF CRInv
<1>5. QED BY <1>1, <1>2, <1>3, <1>4 DEF ClusterNext, ClusterStays

LEMMA ClusterResultInit == ASSUME Computing, ClusterInit PROVE CRInv
<1>1. CInv /\ Init
    BY ClusterInitInv DEF ClusterInit
<1>2. ResultInv
    BY <1>1, InitResults DEF Computing, OrdinaryNode
<1>3. ShareInv
    BY CoreFacts DEF ShareInv, ClusterInit
<1>4. QED BY <1>1, <1>2, <1>3 DEF CRInv

LEMMA ClusterResults == ASSUME Computing PROVE ClusterSpec => []CRInv
<1>1. ClusterInit => CRInv BY ClusterResultInit
<1>2. CRInv /\ [ClusterNext]_snitchVars => CRInv' BY ClusterResultStep
<1>3. QED BY <1>1, <1>2, PTL DEF ClusterSpec

(* Every core that has passed the barrier of main.c finds all the results   *)
(* in place, although only the data-movement core waited for the transfers  *)
(* that put them there.                                                     *)
THEOREM ResultsSeen ==
    ASSUME Computing PROVE ClusterSpec => []ResultsVisible
<1>1. CRInv => ResultsVisible
  <2> SUFFICES ASSUME CRInv, NEW c \in Core, pos[c] = "out"
               PROVE  ResultsInPlace /\ pending = {}
      BY DEF ResultsVisible
  <2>1. pos[Dm] = "out"
      BY CoreFacts DEF CRInv, CInv, LockInv, CoreInv
  <2>2. Finished
      BY <2>1 DEF CRInv, CInv, LockInv, DmInv
  <2>3. OutputsComplete
      BY AllInPlace DEF CRInv, CInv, RInv, Computing
  <2>4. QED BY <2>2, <2>3 DEF OutputsComplete
<1>2. QED BY <1>1, ClusterResults, PTL

(* The cluster implements the abstract stream, up to its fairness: the      *)
(* shares of the compute cores leave the local memory as whole tiles, each  *)
(* once and in order.                                                       *)
THEOREM ClusterImplementsStream ==
    ASSUME Computing
    PROVE  ClusterSpec => Stream!Init /\ [][Stream!Next]_external
<1>1. ClusterInit => Stream!Init
    BY DmaAssumption
    DEF ClusterInit, Init, DmaInit, Stream!Init, Stream!Rectangle, Tile
<1>2. CRInv /\ [ClusterNext]_snitchVars => [Stream!Next]_external
    BY ClusterResultStep
<1>3. QED BY <1>1, <1>2, ClusterResults, PTL DEF ClusterSpec
=============================================================================
