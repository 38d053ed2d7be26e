-------------------------- MODULE DeploymentProofs --------------------------
(***************************************************************************)
(* Proofs about what the tool chain makes of a deployment: memory plan,    *)
(* program and tiles.  The plan is sound for every set of blocks, every    *)
(* lifetime and cost, and every order in which the blocks are taken: the   *)
(* solver and the random shuffle only decide how good it is.  The          *)
(* lifetimes cover every use of a tensor in every network, through all     *)
(* views, and the program runs every node in order, behind the allocation  *)
(* of what it writes.  Whatever tiles the solver chooses, their copies     *)
(* keep apart, start on words and lie in an arena that fits its level.     *)
(***************************************************************************)
EXTENDS TrainingHarness, TileMemory, NaturalLemmas, SequenceTheorems

-----------------------------------------------------------------------------
(* The memory scheduler on its own. *)

(* The vectors H and addrSpace agree on the end of a block. *)
EndsAgree == \A b \in Block : Located(b) => addrSpace[b].hi = height[b]

PlacementTypeOK ==
    /\ block \in [Block -> BlockRecord]
    /\ placed \subseteq Block
    /\ height \in [Block -> Nat]
    /\ addrSpace \in [Block -> [lo : Nat, hi : Nat]]

(* What the steps preserve. *)
PlacementInv == PlacementTypeOK /\ EndsAgree /\ NoCollision /\ LargeEnough

(* Two blocks are both alive at some step of one arena, or neither is. *)
LEMMA InterferesSymmetric ==
    ASSUME NEW a \in Block, NEW b \in Block
    PROVE  Interferes(a, b) <=> Interferes(b, a)
BY DEF Interferes

(* The values that PlaceBlock gives to the block it takes: it starts above *)
(* its obstacles, and ends its cost above its rivals, which are at least   *)
(* as high.                                                                *)
LEMMA PlacedAbove ==
    ASSUME PlacementInv, NEW b \in Block, PlaceBlock(b)
    PROVE  \E below \in Nat, lower \in Nat :
              /\ lower <= below
              /\ \A c \in Obstacles(b) : addrSpace[c].hi <= lower
              /\ height' = [height EXCEPT ![b] = below + block[b].cost]
              /\ addrSpace' = [addrSpace EXCEPT ![b] =
                     IF block[b].resolved THEN NoSpace
                     ELSE [lo |-> lower, hi |-> below + block[b].cost]]
<1>. DEFINE Ends == {0} \cup {height[c] : c \in Rivals(b)}
            Tops == {0} \cup {addrSpace[c].hi : c \in Obstacles(b)}
<1>1. PICK below \in Ends, lower \in Tops :
          /\ Greatest(below, Ends)
          /\ Greatest(lower, Tops)
          /\ height' = [height EXCEPT ![b] = below + block[b].cost]
          /\ addrSpace' = [addrSpace EXCEPT ![b] =
                 IF block[b].resolved THEN NoSpace
                 ELSE [lo |-> lower, hi |-> below + block[b].cost]]
  BY DEF PlaceBlock
<1>2. Rivals(b) \subseteq placed /\ Obstacles(b) \subseteq Rivals(b) /\ placed \subseteq Block
  BY DEF Rivals, Obstacles, PlacementInv, PlacementTypeOK
<1>3. \A c \in Obstacles(b) : addrSpace[c].hi = height[c]
  BY <1>2 DEF Obstacles, Located, EndsAgree, PlacementInv
<1>4. Tops \subseteq Ends
  BY <1>2, <1>3
<1>5. Ends \subseteq Nat
  BY <1>2 DEF PlacementInv, PlacementTypeOK
<1>6. below \in Nat /\ lower \in Nat /\ lower <= below
  BY <1>1, <1>4, <1>5 DEF Greatest
<1>7. \A c \in Obstacles(b) : addrSpace[c].hi <= lower
  BY <1>1 DEF Greatest
<1>. QED BY <1>1, <1>6, <1>7

(* Taking one more block preserves the invariant. *)
LEMMA PlaceBlockInv ==
    ASSUME PlacementInv, NEW b \in Block, PlaceBlock(b)
    PROVE  PlacementInv'
<1>1. PICK below \in Nat, lower \in Nat :
          /\ lower <= below
          /\ \A c \in Obstacles(b) : addrSpace[c].hi <= lower
          /\ height' = [height EXCEPT ![b] = below + block[b].cost]
          /\ addrSpace' = [addrSpace EXCEPT ![b] =
                 IF block[b].resolved THEN NoSpace
                 ELSE [lo |-> lower, hi |-> below + block[b].cost]]
  BY PlacedAbove
<1>2. /\ block' = block /\ Block' = Block
      /\ placed' = placed \cup {b} /\ b \notin placed
  BY DEF PlaceBlock, Block
<1>3. block[b] \in BlockRecord /\ block[b].cost \in Nat
  BY DEF PlacementInv, PlacementTypeOK, BlockRecord
<1>4. PlacementTypeOK'
  <2>1. height' \in [Block -> Nat]
    BY <1>1, <1>3 DEF PlacementInv, PlacementTypeOK
  <2>2. addrSpace' \in [Block -> [lo : Nat, hi : Nat]]
    BY <1>1, <1>3 DEF PlacementInv, PlacementTypeOK, NoSpace
  <2>3. BlockRecord' = BlockRecord
    BY <1>2 DEF BlockRecord, Arena
  <2>. QED BY <1>2, <2>1, <2>2, <2>3 DEF PlacementInv, PlacementTypeOK
<1>5. \A c \in Block \ {b} :
          height'[c] = height[c] /\ addrSpace'[c] = addrSpace[c]
  BY <1>1 DEF PlacementInv, PlacementTypeOK
<1>6. ~ block[b].resolved =>
          /\ height'[b] = below + block[b].cost
          /\ addrSpace'[b] = [lo |-> lower, hi |-> below + block[b].cost]
  BY <1>1 DEF PlacementInv, PlacementTypeOK
<1>7. \A c \in Block : Located(c)' <=> (Located(c) \/ (c = b /\ ~ block[b].resolved))
  BY <1>2 DEF Located
<1>8. EndsAgree'
  <2>1. ASSUME NEW c \in Block, Located(c)'
        PROVE  addrSpace'[c].hi = height'[c]
    <3>1. CASE c = b
      BY <1>2, <1>6, <1>7, <2>1, <3>1 DEF Located
    <3>2. CASE c # b
      BY <1>5, <1>7, <2>1, <3>2 DEF EndsAgree, PlacementInv
    <3>. QED BY <3>1, <3>2
  <2>. QED BY <1>2, <2>1 DEF EndsAgree
<1>9. LargeEnough'
  <2>1. ASSUME NEW c \in Block, Located(c)'
        PROVE  addrSpace'[c].hi - addrSpace'[c].lo >= block[c].cost
    <3>1. CASE c = b
      BY <1>1, <1>3, <1>6, <1>7, <2>1, <3>1 DEF Located
    <3>2. CASE c # b
      BY <1>5, <1>7, <2>1, <3>2 DEF LargeEnough, PlacementInv
    <3>. QED BY <3>1, <3>2
  <2>. QED BY <1>2, <2>1 DEF LargeEnough
<1>10. NoCollision'
  \* the new block starts above every block it interferes with
  <2>1. ASSUME NEW c \in Block, c # b, Located(c), ~ block[b].resolved, Interferes(b, c)
        PROVE  addrSpace'[c].hi <= addrSpace'[b].lo
    <3>1. c \in Obstacles(b)
      BY <2>1 DEF Obstacles, Rivals, Located
    <3>. QED BY <1>1, <1>5, <1>6, <2>1, <3>1
  <2>2. ASSUME NEW a \in Block, NEW c \in Block, a # c,
               Located(a)', Located(c)', Interferes(a, c)
        PROVE  addrSpace'[a].hi <= addrSpace'[c].lo \/ addrSpace'[c].hi <= addrSpace'[a].lo
    <3>1. CASE a = b
      <4>1. c # b /\ Located(c) /\ ~ block[b].resolved
        BY <1>2, <1>7, <2>2, <3>1 DEF Located
      <4>. QED BY <2>1, <2>2, <3>1, <4>1
    <3>2. CASE c = b
      <4>1. a # b /\ Located(a) /\ ~ block[b].resolved
        BY <1>2, <1>7, <2>2, <3>2 DEF Located
      <4>2. Interferes(b, a)
        BY <2>2, <3>2, InterferesSymmetric
      <4>. QED BY <2>1, <3>2, <4>1, <4>2
    <3>3. CASE a # b /\ c # b
      <4>1. Located(a) /\ Located(c)
        BY <1>7, <2>2, <3>3
      <4>. QED BY <1>5, <2>2, <3>3, <4>1 DEF NoCollision, PlacementInv
    <3>. QED BY <3>1, <3>2, <3>3
  <2>3. \A a, c \in Block : Interferes(a, c)' <=> Interferes(a, c)
    BY <1>2 DEF Interferes
  <2>. QED BY <1>2, <2>2, <2>3 DEF NoCollision
<1>. QED BY <1>4, <1>8, <1>9, <1>10 DEF PlacementInv

(* Whatever blocks the scheduler is given and in whatever order it takes   *)
(* them, blocks that live at the same step are apart and every block has   *)
(* the room its tensor needs.                                              *)
THEOREM PlacementSound == PlacementSpec => []PlanSound
<1>1. PlacementInit /\ block \in [Block -> BlockRecord] => PlacementInv
  BY DEF PlacementInit, PlacementInv, PlacementTypeOK, EndsAgree, NoCollision,
         LargeEnough, Located, NoSpace
<1>2. PlacementInv /\ [PlacementNext]_placementVars => PlacementInv'
  <2>1. CASE UNCHANGED placementVars
    BY <2>1 DEF placementVars, PlacementInv, PlacementTypeOK, EndsAgree, NoCollision,
                LargeEnough, Located, Block, Interferes, BlockRecord, Arena
  <2>. QED BY <2>1, PlaceBlockInv DEF PlacementNext
<1>3. PlacementInv => PlanSound
  BY DEF PlacementInv, PlanSound
<1>. QED BY <1>1, <1>2, <1>3, PTL DEF PlacementSpec

-----------------------------------------------------------------------------
(* Sequences. *)

(* What Append adds. *)
LEMMA AppendRange ==
    ASSUME NEW X, NEW s \in Seq(X), NEW x \in X
    PROVE  Range(Append(s, x)) = Range(s) \cup {x}
<1>1. /\ Len(s) \in Nat /\ DOMAIN s = 1..Len(s)
      /\ DOMAIN Append(s, x) = 1..(Len(s) + 1)
      /\ \A i \in 1..Len(s) : Append(s, x)[i] = s[i]
      /\ Append(s, x)[Len(s) + 1] = x
  OBVIOUS
<1>2. 1..(Len(s) + 1) = (1..Len(s)) \cup {Len(s) + 1}
  BY <1>1
<1> QED BY <1>1, <1>2 DEF Range

(* A sequence that names nothing twice. *)
Once(s) == \A j, k \in DOMAIN s : s[j] = s[k] => j = k

LEMMA AppendOnce ==
    ASSUME NEW X, NEW s \in Seq(X), Once(s), NEW x \in X, x \notin Range(s)
    PROVE  Once(Append(s, x))
<1>1. /\ DOMAIN Append(s, x) = 1..(Len(s) + 1) /\ Append(s, x)[Len(s) + 1] = x
      /\ \A j \in 1..Len(s) : Append(s, x)[j] = s[j] /\ s[j] \in Range(s)
  BY DEF Range
<1>2. DOMAIN s = 1..Len(s) /\ \A j \in 1..(Len(s) + 1) : j \in 1..Len(s) \/ j = Len(s) + 1
  OBVIOUS
<1> QED BY <1>1, <1>2 DEF Once

(* How the elements are picked, one after the other. *)
PickSteps(s, keep, pick) ==
    /\ pick[0] = <<>>
    /\ \A i \in 1..Len(s) :
           pick[i] = IF i \in keep THEN Append(pick[i - 1], s[i]) ELSE pick[i - 1]
    /\ Picked(s, keep) = pick[Len(s)]

LEMMA PickedSteps ==
    ASSUME NEW X, NEW s \in Seq(X), NEW keep
    PROVE  \E pick : PickSteps(s, keep, pick)
<1> DEFINE n == Len(s)
           pick[k \in 0..Len(s)] ==
               IF k = 0 THEN <<>>
               ELSE IF k \in keep THEN Append(pick[k - 1], s[k]) ELSE pick[k - 1]
           Def(g) == g = [k \in 0..Len(s) |->
               IF k = 0 THEN <<>>
               ELSE IF k \in keep THEN Append(g[k - 1], s[k]) ELSE g[k - 1]]
           step == [i \in 1..n |-> [v \in Seq(X) |-> IF i \in keep THEN Append(v, s[i]) ELSE v]]
<1>1. n \in Nat /\ DOMAIN s = 1..n /\ \A i \in 1..n : s[i] \in X
  OBVIOUS
<1>2. step \in [1..n -> [Seq(X) -> Seq(X)]]
  BY <1>1
<1>3. PICK f : Iterates(f, n, Seq(X), <<>>, step)
  <2>1. <<>> \in Seq(X) /\ step \in Steps(n, Seq(X))
    BY <1>2 DEF Steps
  <2> HIDE DEF n, step
  <2> QED BY <1>1, <2>1, Recursion
<1> f \in [0..n -> Seq(X)] /\ f[0] = <<>> /\ \A i \in 1..n : f[i] = step[i][f[i - 1]]
  <2> HIDE DEF n, step
  <2> QED BY <1>3 DEF Iterates
<1>4. \A i \in 1..n : f[i] = IF i \in keep THEN Append(f[i - 1], s[i]) ELSE f[i - 1]
  <2> TAKE i \in 1..n
  <2>1. i - 1 \in 0..n
    BY <1>1
  <2>3. f[i - 1] \in Seq(X)
    <3> HIDE DEF n, step
    <3> QED BY <2>1
  <2>2. f[i] = step[i][f[i - 1]]
    OBVIOUS
  <2> QED BY <2>1, <2>2, <2>3
<1>5. Def(f)
  <2> \A i \in 0..Len(s) : i = 0 \/ i \in 1..n
    BY <1>1
  <2> QED BY <1>4
<1>6. /\ pick[0] = <<>>
      /\ \A i \in 1..n : pick[i] = IF i \in keep THEN Append(pick[i - 1], s[i]) ELSE pick[i - 1]
  <2> pick = CHOOSE g : Def(g)
    OBVIOUS
  <2> HIDE DEF pick
  <2>1. Def(pick)
    <3> HIDE DEF Def
    <3> QED BY <1>5
  <2>2. \A i \in 1..n : i \in 0..Len(s) /\ i # 0
    BY <1>1
  <2>3. 0 \in 0..Len(s)
    BY <1>1
  <2> HIDE DEF n
  <2> QED BY <2>1, <2>2, <2>3
<1>7. Picked(s, keep) = pick[n]
  BY DEF Picked
<1> HIDE DEF pick
<1> QED BY <1>6, <1>7 DEF PickSteps

(* What is picked from a sequence. *)
LEMMA PickedFacts ==
    ASSUME NEW X, NEW s \in Seq(X), NEW keep
    PROVE  /\ Picked(s, keep) \in Seq(X)
           /\ Range(Picked(s, keep)) = {s[k] : k \in keep \cap DOMAIN s}
<1> DEFINE n == Len(s)
<1>1. n \in Nat /\ DOMAIN s = 1..n /\ \A i \in 1..n : s[i] \in X
  OBVIOUS
<1>2. PICK pick : PickSteps(s, keep, pick)
  BY PickedSteps
<1>6. /\ pick[0] = <<>>
      /\ \A i \in 1..n : pick[i] = IF i \in keep THEN Append(pick[i - 1], s[i]) ELSE pick[i - 1]
  BY <1>2 DEF PickSteps
<1>7. Picked(s, keep) = pick[n]
  BY <1>2 DEF PickSteps
<1> DEFINE Right(k) == pick[k] \in Seq(X) /\ Range(pick[k]) = {s[j] : j \in keep \cap (1..k)}
           P == {k \in Nat : k <= n => Right(k)}
<1>8. Right(0)
  BY <1>6 DEF Range
<1>9. ASSUME NEW k \in Nat, k + 1 <= n, Right(k) PROVE Right(k + 1)
  <2>1. k + 1 \in 1..n /\ k \in 0..n
    BY <1>1, <1>9
  <2>2. pick[k + 1] = IF k + 1 \in keep THEN Append(pick[k], s[k + 1]) ELSE pick[k]
    <3> k + 1 - 1 = k
      OBVIOUS
    <3> QED BY <1>6, <2>1
  <2>3. CASE k + 1 \in keep
    <3>1. Range(pick[k + 1]) = Range(pick[k]) \cup {s[k + 1]}
      <4>1. pick[k] \in Seq(X) /\ s[k + 1] \in X
        BY <1>1, <1>9, <2>1
      <4>2. pick[k + 1] = Append(pick[k], s[k + 1])
        BY <2>2, <2>3
      <4> HIDE DEF n
      <4> QED BY <4>1, <4>2, AppendRange
    <3>2. keep \cap (1..(k + 1)) = (keep \cap (1..k)) \cup {k + 1}
      BY <2>3
    <3> QED BY <1>1, <1>9, <2>1, <2>2, <2>3, <3>1, <3>2
  <2>4. CASE k + 1 \notin keep
    <3>1. keep \cap (1..(k + 1)) = keep \cap (1..k)
      BY <2>4
    <3> QED BY <1>9, <2>2, <2>4, <3>1
  <2> QED BY <2>3, <2>4
<1> HIDE DEF Right, n
<1>10. P = Nat
  <2>1. 0 \in P
    BY <1>8
  <2>2. ASSUME NEW k \in P PROVE k + 1 \in P
    <3> k \in Nat /\ (k + 1 <= n => k <= n)
      BY <1>1
    <3> QED BY <1>9
  <2> HIDE DEF P
  <2> QED BY <2>1, <2>2, NatInduct DEF P
<1>11. Right(n)
  <2>1. n \in P /\ n <= n
    <3> HIDE DEF P
    <3> QED BY <1>1, <1>10
  <2> QED BY <2>1
<1> QED BY <1>1, <1>7, <1>11 DEF Right

-----------------------------------------------------------------------------
(* Networks. *)

(* The types of the parts of a network. *)
LEMMA NetworkParts ==
    ASSUME NEW N, WellFormed(N)
    PROVE  /\ Len(N.nodes) \in Nat /\ Nodes(N) = 1..Len(N.nodes)
           /\ N.inputs \in Seq(Buffers(N)) /\ Range(N.inputs) \subseteq Buffers(N)
           /\ \A t \in Buffers(N) : N.size[t] \in Nat /\ N.size[t] > 0
           /\ \A i \in Nodes(N) :
                  /\ N.nodes[i].op \in AliasingOp \cup {"kernel"}
                  /\ N.nodes[i].ins \in Seq(Buffers(N))
                  /\ Range(N.nodes[i].ins) \subseteq Buffers(N)
                  /\ N.nodes[i].out \in Buffers(N)
                  /\ N.nodes[i].scratch \in Seq(Buffers(N))
                  /\ NodeWellFormed(N, i)
<1>1. N.nodes \in Seq(NodeRecords(N)) /\ N.inputs \in Seq(Buffers(N))
  BY DEF WellFormed
<1>2. Len(N.nodes) \in Nat /\ Nodes(N) = 1..Len(N.nodes)
  BY <1>1 DEF Nodes
<1>3. \A i \in Nodes(N) : N.nodes[i] \in NodeRecords(N)
  BY <1>1 DEF Nodes
<1>4. ASSUME NEW s \in Seq(Buffers(N)) PROVE Range(s) \subseteq Buffers(N)
  BY DEF Range
<1>5. \A t \in Buffers(N) : N.size[t] \in Nat /\ N.size[t] > 0
  <2> N.size \in [Buffers(N) -> Nat \ {0}]
    BY DEF WellFormed
  <2> QED OBVIOUS
<1> QED BY <1>1, <1>2, <1>3, <1>4, <1>5 DEF WellFormed, NodeRecords

(* Every tensor is written by one node. *)
LEMMA OneProducer ==
    ASSUME NEW N, WellFormed(N), NEW i \in Nodes(N), NEW j \in Nodes(N),
           N.nodes[i].out = N.nodes[j].out
    PROVE  i = j
<1>1. ASSUME NEW k \in Nodes(N), NEW l \in Nodes(N), k < l PROVE N.nodes[k].out # N.nodes[l].out
  <2>1. k \in 1..(l - 1)
    BY <1>1, NetworkParts
  <2>2. N.nodes[k].out \in Produced(N, l - 1)
    BY <2>1 DEF Produced
  <2> QED BY <2>2, NetworkParts DEF NodeWellFormed
<1>2. i \in Nat /\ j \in Nat
  BY NetworkParts
<1> QED BY <1>1, <1>2

(* An alias stands for the first input of its node, which is there before. *)
LEMMA AliasIs ==
    ASSUME NEW N, WellFormed(N), NEW i \in Nodes(N), N.nodes[i].op \in AliasingOp
    PROVE  /\ HasAlias(N, N.nodes[i].out)
           /\ AliasOf(N, N.nodes[i].out) = N.nodes[i].ins[1]
           /\ N.nodes[i].ins[1] \in Range(N.nodes[i].ins)
           /\ N.nodes[i].ins[1] \in Range(N.inputs) \cup Produced(N, i - 1)
           /\ N.size[N.nodes[i].out] = N.size[N.nodes[i].ins[1]]
<1> DEFINE t == N.nodes[i].out
<1>1. HasAlias(N, t)
  BY DEF HasAlias
<1>2. \A j \in Nodes(N) : N.nodes[j].op \in AliasingOp /\ N.nodes[j].out = t => j = i
  BY OneProducer
<1>3. AliasOf(N, t) = N.nodes[i].ins[1]
  <2> DEFINE j == CHOOSE k \in Nodes(N) : N.nodes[k].op \in AliasingOp /\ N.nodes[k].out = t
  <2>1. j = i
    BY <1>2
  <2> QED BY <2>1 DEF AliasOf
<1>4. N.nodes[i].ins # <<>> /\ N.size[t] = N.size[N.nodes[i].ins[1]]
  BY NetworkParts DEF NodeWellFormed
<1>5. N.nodes[i].ins[1] \in Range(N.nodes[i].ins)
  <2>1. N.nodes[i].ins \in Seq(Buffers(N))
    BY NetworkParts
  <2>2. 1 \in DOMAIN N.nodes[i].ins
    BY <1>4, <2>1
  <2> QED BY <2>2 DEF Range
<1> QED BY <1>1, <1>3, <1>4, <1>5, NetworkParts DEF NodeWellFormed

(* The tensors of a network: they are there at the start or a node writes  *)
(* them.                                                                   *)
Tensors(N) == Range(N.inputs) \cup Produced(N, Len(N.nodes))

LEMMA ProducedIs ==
    ASSUME NEW N, WellFormed(N)
    PROVE  /\ Produced(N, 0) = {}
           /\ \A i \in Nodes(N) : Produced(N, i) = Produced(N, i - 1) \cup {N.nodes[i].out}
           /\ \A i, j \in 0..Len(N.nodes) : i <= j => Produced(N, i) \subseteq Produced(N, j)
           /\ \A i \in Nodes(N) : \A t \in Produced(N, i - 1) : t # N.nodes[i].out
           /\ \A i \in Nodes(N) : N.nodes[i].out \notin Range(N.inputs)
           /\ \A i \in Nodes(N) : Range(N.nodes[i].ins) \subseteq Range(N.inputs) \cup Produced(N, i - 1)
           /\ \A i \in Nodes(N) : Touches(N.nodes[i]) \subseteq Tensors(N)
           /\ Tensors(N) \subseteq Buffers(N)
<1>1. Len(N.nodes) \in Nat /\ Nodes(N) = 1..Len(N.nodes)
  BY NetworkParts
<1>2. Produced(N, 0) = {}
  BY DEF Produced
<1>3. ASSUME NEW i \in Nodes(N) PROVE Produced(N, i) = Produced(N, i - 1) \cup {N.nodes[i].out}
  <2>1. 1..i = (1..(i - 1)) \cup {i}
    BY <1>1
  <2> QED BY <2>1 DEF Produced
<1>4. ASSUME NEW i \in 0..Len(N.nodes), NEW j \in 0..Len(N.nodes), i <= j
      PROVE  Produced(N, i) \subseteq Produced(N, j)
  <2>1. 1..i \subseteq 1..j
    BY <1>1, <1>4
  <2> QED BY <2>1 DEF Produced
<1>5. ASSUME NEW i \in Nodes(N)
      PROVE  /\ Range(N.nodes[i].ins) \subseteq Range(N.inputs) \cup Produced(N, i - 1)
             /\ N.nodes[i].out \notin Range(N.inputs) \cup Produced(N, i - 1)
             /\ N.nodes[i].out \in Buffers(N)
  BY NetworkParts DEF NodeWellFormed
<1>6. ASSUME NEW i \in Nodes(N) PROVE Touches(N.nodes[i]) \subseteq Tensors(N)
  <2>1. i - 1 \in 0..Len(N.nodes) /\ i \in 0..Len(N.nodes) /\ Len(N.nodes) \in 0..Len(N.nodes)
        /\ i - 1 <= Len(N.nodes) /\ i <= Len(N.nodes)
    BY <1>1
  <2>2. Produced(N, i - 1) \subseteq Produced(N, Len(N.nodes))
        /\ Produced(N, i) \subseteq Produced(N, Len(N.nodes))
    BY <1>4, <2>1
  <2> QED BY <1>3, <1>5, <2>2 DEF Touches, Tensors
<1>7. Tensors(N) \subseteq Buffers(N)
  BY <1>1, <1>5, NetworkParts DEF Tensors, Produced
<1> QED BY <1>2, <1>3, <1>4, <1>5, <1>6, <1>7

(* dealiasBuffer follows the links one after the other. *)
Hops(N, t, hop) ==
    /\ hop \in [0..Len(N.nodes) -> Buffers(N)]
    /\ hop[0] = t
    /\ \A k \in 1..Len(N.nodes) : hop[k] = DealiasOnce(N, hop[k - 1])
    /\ Dealias(N, t) = hop[Len(N.nodes)]

LEMMA AliasInNetwork ==
    ASSUME NEW N, WellFormed(N), NEW t, HasAlias(N, t)
    PROVE  \E i \in Nodes(N) :
              /\ N.nodes[i].op \in AliasingOp /\ N.nodes[i].out = t
              /\ AliasOf(N, t) = N.nodes[i].ins[1]
              /\ AliasOf(N, t) \in Range(N.inputs) \cup Produced(N, i - 1)
              /\ AliasOf(N, t) \in Range(N.nodes[i].ins)
              /\ AliasOf(N, t) \in Buffers(N)
              /\ N.size[t] = N.size[AliasOf(N, t)]
<1>1. PICK i \in Nodes(N) : N.nodes[i].op \in AliasingOp /\ N.nodes[i].out = t
  BY DEF HasAlias
<1>2. Range(N.nodes[i].ins) \subseteq Buffers(N)
  BY NetworkParts
<1> QED BY <1>1, <1>2, AliasIs

LEMMA HopsExist ==
    ASSUME NEW N, WellFormed(N), NEW t \in Buffers(N)
    PROVE  \E hop : Hops(N, t, hop)
<1> DEFINE n == Len(N.nodes)
           hop[k \in 0..Len(N.nodes)] == IF k = 0 THEN t ELSE DealiasOnce(N, hop[k - 1])
           Def(g) == g = [k \in 0..Len(N.nodes) |-> IF k = 0 THEN t ELSE DealiasOnce(N, g[k - 1])]
           once == [u \in Buffers(N) |-> DealiasOnce(N, u)]
           step == [i \in 1..n |-> once]
<1>1. n \in Nat
  BY NetworkParts
<1>2. \A u \in Buffers(N) : DealiasOnce(N, u) \in Buffers(N)
  BY AliasInNetwork DEF DealiasOnce
<1>3. PICK f : Iterates(f, n, Buffers(N), t, step)
  <2>1. step \in Steps(n, Buffers(N))
    BY <1>2 DEF Steps
  <2> HIDE DEF n, step
  <2> QED BY <1>1, <2>1, Recursion
<1>4. f \in [0..n -> Buffers(N)] /\ f[0] = t /\ \A i \in 1..n : f[i] = step[i][f[i - 1]]
  <2> HIDE DEF n, step
  <2> QED BY <1>3 DEF Iterates
<1>5. \A i \in 1..n : f[i] = DealiasOnce(N, f[i - 1])
  <2> TAKE i \in 1..n
  <2>1. i - 1 \in 0..n
    BY <1>1
  <2>2. f[i - 1] \in Buffers(N)
    <3> HIDE DEF n, step
    <3> QED BY <1>4, <2>1
  <2>3. f[i] = step[i][f[i - 1]]
    BY <1>4
  <2> QED BY <2>2, <2>3
<1>6. Def(f)
  <2> \A i \in 0..Len(N.nodes) : i = 0 \/ i \in 1..n
    BY <1>1
  <2> QED BY <1>4, <1>5
<1>7. hop = f
  <2> hop = CHOOSE g : Def(g)
    OBVIOUS
  <2> HIDE DEF hop
  <2>1. Def(hop)
    <3> HIDE DEF Def
    <3> QED BY <1>6
  <2> DEFINE P == {k \in Nat : k <= n => hop[k] = f[k]}
  <2>2. hop[0] = t /\ \A k \in 1..n : hop[k] = DealiasOnce(N, hop[k - 1])
    <3>1. \A i \in 1..n : i \in 0..Len(N.nodes) /\ i # 0
      BY <1>1
    <3>2. 0 \in 0..Len(N.nodes)
      BY <1>1
    <3> HIDE DEF n
    <3> QED BY <2>1, <3>1, <3>2
  <2>3. P = Nat
    <3>1. 0 \in P
      BY <2>2, <1>4
    <3>2. ASSUME NEW k \in P PROVE k + 1 \in P
      <4>1. ASSUME k + 1 <= n PROVE hop[k + 1] = f[k + 1]
        <5>1. k + 1 \in 1..n /\ k + 1 - 1 = k /\ k <= n
          BY <1>1, <4>1
        <5>2. hop[k] = f[k]
          BY <5>1
        <5>3. hop[k + 1] = DealiasOnce(N, hop[k])
          <6> DEFINE j == k + 1
          <6>1. j \in 1..n /\ j - 1 = k
            BY <5>1
          <6> HIDE DEF j, n, P
          <6>2. hop[j] = DealiasOnce(N, hop[j - 1])
            BY <6>1, <2>2
          <6> QED BY <6>1, <6>2 DEF j
        <5>4. f[k + 1] = DealiasOnce(N, f[k])
          <6> DEFINE j == k + 1
          <6>1. j \in 1..n /\ j - 1 = k
            BY <5>1
          <6> HIDE DEF j, n, P
          <6>2. f[j] = DealiasOnce(N, f[j - 1])
            BY <6>1, <1>5
          <6> QED BY <6>1, <6>2 DEF j
        <5> QED BY <5>2, <5>3, <5>4
      <4> HIDE DEF n
      <4> QED BY <4>1
    <3> HIDE DEF P
    <3> QED BY <3>1, <3>2, NatInduct DEF P
  <2>4. hop = [k \in 0..n |-> hop[k]] /\ f = [k \in 0..n |-> f[k]]
    <3>1. hop = [k \in 0..n |-> IF k = 0 THEN t ELSE DealiasOnce(N, hop[k - 1])]
      BY <2>1
    <3> HIDE DEF n, P
    <3> QED BY <3>1, <1>4
  <2>5. \A k \in 0..n : hop[k] = f[k]
    <3> TAKE k \in 0..n
    <3>1. k \in P /\ k <= n
      <4> HIDE DEF P
      <4> QED BY <1>1, <2>3
    <3> QED BY <3>1
  <2> HIDE DEF n, P
  <2> QED BY <2>4, <2>5
<1>8. Dealias(N, t) = hop[n]
  BY DEF Dealias
<1> QED BY <1>4, <1>5, <1>7, <1>8 DEF Hops

(* Sets that no link leaves. *)
AliasClosed(N, S) == \A u \in S : HasAlias(N, u) => AliasOf(N, u) \in S

(* What a set that no link leaves contains, it contains the end of. *)
LEMMA RootStays ==
    ASSUME NEW N, WellFormed(N), NEW S \in SUBSET Buffers(N), AliasClosed(N, S), NEW t \in S
    PROVE  Dealias(N, t) \in S
<1>1. PICK hop : Hops(N, t, hop)
  BY HopsExist
<1> DEFINE n == Len(N.nodes)
           P == {k \in Nat : k <= n => hop[k] \in S}
<1>2. n \in Nat
  BY NetworkParts
<1>3. 0 \in P
  BY <1>1 DEF Hops
<1>4. ASSUME NEW k \in P PROVE k + 1 \in P
  <2>1. ASSUME k + 1 <= n PROVE hop[k + 1] \in S
    <3>1. k + 1 \in 1..n /\ k + 1 - 1 = k /\ hop[k] \in S
      BY <1>2, <2>1
    <3>2. hop[k + 1] = DealiasOnce(N, hop[k])
      BY <1>1, <3>1 DEF Hops
    <3> QED BY <3>1, <3>2 DEF DealiasOnce, AliasClosed
  <2> HIDE DEF n
  <2> QED BY <2>1
<1>5. P = Nat
  <2> HIDE DEF P
  <2> QED BY <1>3, <1>4, NatInduct DEF P
<1>6. n \in P /\ n <= n
  <2> HIDE DEF P
  <2> QED BY <1>2, <1>5
<1> QED BY <1>1, <1>6 DEF Hops

(* What there is before a node is the input of no later one's link, so     *)
(* that the links end: the end of a chain is no alias.                     *)
LEMMA RootHasNoAlias ==
    ASSUME NEW N, WellFormed(N), NEW t \in Buffers(N)
    PROVE  ~ HasAlias(N, Dealias(N, t))
<1>1. PICK hop : Hops(N, t, hop)
  BY HopsExist
<1> DEFINE n == Len(N.nodes)
           Right(k) == HasAlias(N, hop[k]) => hop[k] \in Produced(N, n - k)
           P == {k \in Nat : k <= n => Right(k)}
<1>2. n \in Nat /\ Nodes(N) = 1..n
  BY NetworkParts
<1>3. Right(0)
  <2>1. ASSUME HasAlias(N, t) PROVE t \in Produced(N, n)
    <3>1. PICK i \in Nodes(N) : N.nodes[i].out = t
      BY <2>1, AliasInNetwork
    <3> QED BY <1>2, <3>1 DEF Produced
  <2>2. hop[0] = t /\ n - 0 = n
    BY <1>1, <1>2 DEF Hops
  <2> QED BY <2>1, <2>2
<1>4. ASSUME NEW k \in Nat, k + 1 <= n, Right(k) PROVE Right(k + 1)
  <2> SUFFICES ASSUME HasAlias(N, hop[k + 1]) PROVE hop[k + 1] \in Produced(N, n - (k + 1))
    OBVIOUS
  <2>1. hop[k + 1] = DealiasOnce(N, hop[k])
    <3>1. k + 1 \in 1..n /\ k + 1 - 1 = k
      BY <1>2, <1>4
    <3> QED BY <1>1, <3>1 DEF Hops
  <2>2. HasAlias(N, hop[k])
    BY <2>1 DEF DealiasOnce
  <2>3. hop[k] \in Produced(N, n - k) /\ hop[k + 1] = AliasOf(N, hop[k])
    BY <1>4, <2>1, <2>2 DEF DealiasOnce
  <2>4. PICK i \in Nodes(N) : N.nodes[i].out = hop[k]
            /\ AliasOf(N, hop[k]) \in Range(N.inputs) \cup Produced(N, i - 1)
    BY <2>2, AliasInNetwork
  <2>5. i \in 1..(n - k)
    <3>1. PICK j \in 1..(n - k) : N.nodes[j].out = hop[k]
      BY <2>3 DEF Produced
    <3>2. j \in Nodes(N)
      BY <1>2, <1>4
    <3>3. i = j
      BY <2>4, <3>1, <3>2, OneProducer
    <3> QED BY <3>3
  <2>6. hop[k + 1] \notin Range(N.inputs)
    <3>1. PICK j \in Nodes(N) : N.nodes[j].out = hop[k + 1]
      BY AliasInNetwork
    <3> QED BY <3>1, ProducedIs
  <2>7. hop[k + 1] \in Produced(N, i - 1)
    BY <2>3, <2>4, <2>6
  <2>8. Produced(N, i - 1) \subseteq Produced(N, n - (k + 1))
    <3>1. 1..(i - 1) \subseteq 1..(n - (k + 1))
      BY <1>2, <1>4, <2>5
    <3> QED BY <3>1 DEF Produced
  <2> QED BY <2>7, <2>8
<1> HIDE DEF Right
<1>5. P = Nat
  <2>1. 0 \in P
    BY <1>3
  <2>2. ASSUME NEW k \in P PROVE k + 1 \in P
    <3> k \in Nat /\ (k + 1 <= n => k <= n)
      BY <1>2
    <3> QED BY <1>4
  <2> HIDE DEF P
  <2> QED BY <2>1, <2>2, NatInduct DEF P
<1>6. Right(n)
  <2>1. n \in P /\ n <= n
    <3> HIDE DEF P
    <3> QED BY <1>2, <1>5
  <2> QED BY <2>1
<1>7. n - n = 0
  BY <1>2
<1> QED BY <1>1, <1>6, <1>7, ProducedIs DEF Hops, Right

LEMMA RootFacts ==
    ASSUME NEW N, WellFormed(N), NEW t \in Buffers(N)
    PROVE  /\ Dealias(N, t) \in Buffers(N)
           /\ N.size[Dealias(N, t)] = N.size[t]
           /\ ~ HasAlias(N, t) => Dealias(N, t) = t
           /\ HasAlias(N, t) => Dealias(N, t) = Dealias(N, AliasOf(N, t))
           /\ \A i \in 0..Len(N.nodes) :
                  t \in Range(N.inputs) \cup Produced(N, i)
                  => Dealias(N, t) \in Range(N.inputs) \cup Produced(N, i)
<1>1. PICK hop : Hops(N, t, hop)
  BY HopsExist
<1> DEFINE n == Len(N.nodes)
<1>2. n \in Nat /\ Nodes(N) = 1..n
  BY NetworkParts
<1>3. Dealias(N, t) \in {u \in Buffers(N) : N.size[u] = N.size[t]}
  <2> DEFINE S == {u \in Buffers(N) : N.size[u] = N.size[t]}
  <2>1. AliasClosed(N, S)
    BY AliasInNetwork DEF AliasClosed
  <2>2. S \in SUBSET Buffers(N) /\ t \in S
    OBVIOUS
  <2> HIDE DEF S
  <2>3. Dealias(N, t) \in S
    BY <2>1, <2>2, RootStays
  <2> QED BY <2>3 DEF S
<1>4. ASSUME ~ HasAlias(N, t) PROVE Dealias(N, t) = t
  <2>1. AliasClosed(N, {t})
    BY <1>4 DEF AliasClosed
  <2>2. {t} \in SUBSET Buffers(N) /\ t \in {t}
    OBVIOUS
  <2>3. Dealias(N, t) \in {t}
    BY <2>1, <2>2, RootStays
  <2> QED BY <2>3
<1>5. ASSUME HasAlias(N, t) PROVE Dealias(N, t) = Dealias(N, AliasOf(N, t))
  <2> DEFINE u == AliasOf(N, t)
  <2>1. u \in Buffers(N)
    BY <1>5, AliasInNetwork
  <2>2. PICK other : Hops(N, u, other)
    BY <2>1, HopsExist
  <2> DEFINE Q == {k \in Nat : k + 1 <= n => other[k] = hop[k + 1]}
  <2>3. n > 0
    <3>1. Nodes(N) # {}
      BY <1>5, AliasInNetwork
    <3> QED BY <1>2, <3>1
  <2>4. 0 \in Q
    <3>1. 1 \in 1..n /\ 0 + 1 = 1 /\ 1 - 1 = 0
      BY <1>2, <2>3
    <3>2. hop[1] = DealiasOnce(N, t) /\ other[0] = u
      BY <1>1, <2>2, <3>1 DEF Hops
    <3> QED BY <1>5, <3>2 DEF DealiasOnce
  <2>5. ASSUME NEW k \in Q PROVE k + 1 \in Q
    <3>1. ASSUME k + 1 + 1 <= n PROVE other[k + 1] = hop[k + 1 + 1]
      <4>1. k \in Nat /\ k + 1 \in 1..n /\ k + 1 - 1 = k
        BY <1>2, <3>1
      <4>2. k + 1 + 1 \in 1..n /\ k + 1 + 1 - 1 = k + 1
        BY <1>2, <3>1
      <4>3. other[k] = hop[k + 1]
        BY <4>1
      <4>4. other[k + 1] = DealiasOnce(N, other[k])
        BY <2>2, <4>1 DEF Hops
      <4>5. hop[k + 1 + 1] = DealiasOnce(N, hop[k + 1])
        <5> DEFINE j == k + 1 + 1
        <5>1. j \in 1..n /\ j - 1 = k + 1
          BY <4>2
        <5> HIDE DEF j
        <5>2. hop[j] = DealiasOnce(N, hop[j - 1])
          BY <1>1, <5>1 DEF Hops
        <5> QED BY <5>1, <5>2 DEF j
      <4> QED BY <4>3, <4>4, <4>5
    <3> HIDE DEF n
    <3> QED BY <3>1
  <2>6. Q = Nat
    <3> HIDE DEF Q
    <3> QED BY <2>4, <2>5, NatInduct DEF Q
  <2>7. other[n - 1] = hop[n]
    <3>1. n - 1 \in Nat /\ n - 1 + 1 = n /\ n <= n
      BY <1>2, <2>3
    <3>2. n - 1 \in Q
      <4> HIDE DEF Q
      <4> QED BY <2>6, <3>1
    <3> QED BY <3>1, <3>2
  <2>8. other[n] = DealiasOnce(N, other[n - 1])
    <3>1. n \in 1..n
      BY <1>2, <2>3
    <3> QED BY <2>2, <3>1 DEF Hops
  <2>9. ~ HasAlias(N, hop[n])
    BY <1>1, RootHasNoAlias DEF Hops
  <2>10. other[n] = hop[n]
    BY <2>7, <2>8, <2>9 DEF DealiasOnce
  <2> QED BY <1>1, <2>2, <2>10 DEF Hops
<1>6. ASSUME NEW i \in 0..n, t \in Range(N.inputs) \cup Produced(N, i)
      PROVE  Dealias(N, t) \in Range(N.inputs) \cup Produced(N, i)
  <2> DEFINE S == Range(N.inputs) \cup Produced(N, i)
  <2>1. ASSUME NEW u \in S, HasAlias(N, u) PROVE AliasOf(N, u) \in S
    <3>1. PICK j \in Nodes(N) : N.nodes[j].out = u
              /\ AliasOf(N, u) \in Range(N.inputs) \cup Produced(N, j - 1)
      BY <2>1, AliasInNetwork
    <3>2. u \in Produced(N, i)
      BY <2>1, <3>1, ProducedIs
    <3>3. PICK k \in 1..i : N.nodes[k].out = u
      BY <3>2 DEF Produced
    <3>4. j = k
      <4>1. k \in Nodes(N)
        BY <1>2, <1>6
      <4> QED BY <3>1, <3>3, <4>1, OneProducer
    <3>5. Produced(N, j - 1) \subseteq Produced(N, i)
      <4>1. j - 1 \in 0..n /\ j - 1 <= i
        BY <1>2, <1>6, <3>4
      <4> QED BY <4>1, <1>6, ProducedIs
    <3> QED BY <3>1, <3>5
  <2>2. AliasClosed(N, S)
    BY <2>1 DEF AliasClosed
  <2>3. S \in SUBSET Buffers(N)
    <3>1. n \in 0..n /\ i <= n
      BY <1>2, <1>6
    <3>2. Produced(N, i) \subseteq Produced(N, n)
      BY <1>6, <3>1, ProducedIs
    <3> QED BY <3>2, ProducedIs DEF Tensors
  <2> HIDE DEF S
  <2> QED BY <1>6, <2>2, <2>3, RootStays DEF S
<1> QED BY <1>3, <1>4, <1>5, <1>6

-----------------------------------------------------------------------------
(* The list of blocks. *)
LEMMA ExtendedFacts ==
    ASSUME NEW X, NEW list \in Seq(X), NEW tensors \in Seq(X)
    PROVE  /\ Extended(list, tensors) \in Seq(X)
           /\ Range(Extended(list, tensors)) = Range(list) \cup Range(tensors)
           /\ Once(list) => Once(Extended(list, tensors))
<1> DEFINE n == Len(tensors)
           with[k \in 0..Len(tensors)] ==
               IF k = 0 THEN list
               ELSE IF tensors[k] \in Range(with[k - 1]) THEN with[k - 1]
               ELSE Append(with[k - 1], tensors[k])
           Def(g) == g = [k \in 0..Len(tensors) |->
               IF k = 0 THEN list
               ELSE IF tensors[k] \in Range(g[k - 1]) THEN g[k - 1]
               ELSE Append(g[k - 1], tensors[k])]
           step == [i \in 1..n |-> [v \in Seq(X) |->
                        IF tensors[i] \in Range(v) THEN v ELSE Append(v, tensors[i])]]
<1>1. n \in Nat /\ DOMAIN tensors = 1..n /\ \A i \in 1..n : tensors[i] \in X
  OBVIOUS
<1>2. step \in [1..n -> [Seq(X) -> Seq(X)]]
  BY <1>1
<1>3. PICK f : Iterates(f, n, Seq(X), list, step)
  <2>1. step \in Steps(n, Seq(X))
    BY <1>2 DEF Steps
  <2> HIDE DEF n, step
  <2> QED BY <1>1, <2>1, Recursion
<1> f \in [0..n -> Seq(X)] /\ f[0] = list /\ \A i \in 1..n : f[i] = step[i][f[i - 1]]
  <2> HIDE DEF n, step
  <2> QED BY <1>3 DEF Iterates
<1>4. \A i \in 1..n : f[i] = IF tensors[i] \in Range(f[i - 1]) THEN f[i - 1]
                             ELSE Append(f[i - 1], tensors[i])
  <2> TAKE i \in 1..n
  <2>1. i - 1 \in 0..n
    BY <1>1
  <2>3. f[i - 1] \in Seq(X)
    <3> HIDE DEF n, step
    <3> QED BY <2>1
  <2>2. f[i] = step[i][f[i - 1]]
    OBVIOUS
  <2> QED BY <2>1, <2>2, <2>3
<1>5. Def(f)
  <2> \A i \in 0..Len(tensors) : i = 0 \/ i \in 1..n
    BY <1>1
  <2> QED BY <1>4
<1>6. /\ with[0] = list
      /\ \A i \in 1..n : with[i] = IF tensors[i] \in Range(with[i - 1]) THEN with[i - 1]
                                   ELSE Append(with[i - 1], tensors[i])
  <2> with = CHOOSE g : Def(g)
    OBVIOUS
  <2> HIDE DEF with
  <2>1. Def(with)
    <3> HIDE DEF Def
    <3> QED BY <1>5
  <2>2. \A i \in 1..n : i \in 0..Len(tensors) /\ i # 0
    BY <1>1
  <2>3. 0 \in 0..Len(tensors)
    BY <1>1
  <2>4. with[0] = list
    BY <2>1, <2>3
  <2>5. ASSUME NEW i \in 1..n
        PROVE  with[i] = IF tensors[i] \in Range(with[i - 1]) THEN with[i - 1]
                         ELSE Append(with[i - 1], tensors[i])
    <3>1. i \in 0..Len(tensors) /\ i # 0
      BY <2>2
    <3> HIDE DEF n, step
    <3>2. with[i] = IF i = 0 THEN list
                    ELSE IF tensors[i] \in Range(with[i - 1]) THEN with[i - 1]
                    ELSE Append(with[i - 1], tensors[i])
      BY <2>1, <3>1, Zenon
    <3> QED BY <3>1, <3>2, Zenon
  <2> HIDE DEF n, step
  <2> QED BY <2>4, <2>5
<1>7. Extended(list, tensors) = with[n]
  BY DEF Extended
<1> HIDE DEF with
<1> DEFINE Right(k) == /\ with[k] \in Seq(X)
                       /\ Range(with[k]) = Range(list) \cup {tensors[j] : j \in 1..k}
                       /\ Once(list) => Once(with[k])
           P == {k \in Nat : k <= n => Right(k)}
<1>8. Right(0)
  BY <1>6
<1>9. ASSUME NEW k \in Nat, k + 1 <= n, Right(k) PROVE Right(k + 1)
  <2>1. k + 1 \in 1..n /\ k \in 0..n
    BY <1>1, <1>9
  <2>2. with[k + 1] = IF tensors[k + 1] \in Range(with[k]) THEN with[k]
                      ELSE Append(with[k], tensors[k + 1])
    <3> k + 1 - 1 = k
      OBVIOUS
    <3> QED BY <1>6, <2>1
  <2>3. 1..(k + 1) = (1..k) \cup {k + 1}
    OBVIOUS
  <2>4. with[k] \in Seq(X) /\ tensors[k + 1] \in X
    BY <1>1, <1>9, <2>1
  <2>5. with[k + 1] \in Seq(X) /\ Range(with[k + 1]) = Range(with[k]) \cup {tensors[k + 1]}
    <3> HIDE DEF n
    <3>1. /\ Append(with[k], tensors[k + 1]) \in Seq(X)
          /\ Range(Append(with[k], tensors[k + 1])) = Range(with[k]) \cup {tensors[k + 1]}
      BY <2>4, AppendRange
    <3> QED BY <2>2, <2>4, <3>1
  <2>6. Once(with[k]) => Once(with[k + 1])
    <3> HIDE DEF n
    <3> QED BY <2>2, <2>4, AppendOnce
  <2> QED BY <1>9, <2>3, <2>5, <2>6
<1> HIDE DEF Right, n
<1>10. P = Nat
  <2>1. 0 \in P
    BY <1>8
  <2>2. ASSUME NEW k \in P PROVE k + 1 \in P
    <3> k \in Nat /\ (k + 1 <= n => k <= n)
      BY <1>1
    <3> QED BY <1>9
  <2> HIDE DEF P
  <2> QED BY <2>1, <2>2, NatInduct DEF P
<1>11. Right(n)
  <2>1. n \in P /\ n <= n
    <3> HIDE DEF P
    <3> QED BY <1>1, <1>10
  <2> QED BY <2>1
<1>12. Range(tensors) = {tensors[j] : j \in 1..n}
  BY <1>1 DEF Range
<1> QED BY <1>7, <1>11, <1>12 DEF Right

(* The list holds what the nodes touch, each tensor once. *)
LEMMA BufferOrderFacts ==
    ASSUME NEW N, WellFormed(N)
    PROVE  /\ BufferOrder(N) \in Seq(Buffers(N)) /\ Once(BufferOrder(N))
           /\ Range(BufferOrder(N)) = UNION {Touches(N.nodes[i]) : i \in Nodes(N)}
<1> DEFINE n == Len(N.nodes)
           X == Buffers(N)
           Of(i) == Append(N.nodes[i].ins, N.nodes[i].out)
           met[i \in 0..Len(N.nodes)] ==
               IF i = 0 THEN <<>> ELSE Extended(met[i - 1], Append(N.nodes[i].ins, N.nodes[i].out))
           Def(g) == g = [i \in 0..Len(N.nodes) |->
               IF i = 0 THEN <<>> ELSE Extended(g[i - 1], Append(N.nodes[i].ins, N.nodes[i].out))]
           step == [i \in 1..n |-> [v \in Seq(X) |-> Extended(v, Of(i))]]
<1>1. n \in Nat /\ Nodes(N) = 1..n
  BY NetworkParts
<1>2. ASSUME NEW i \in 1..n PROVE Of(i) \in Seq(X) /\ Range(Of(i)) = Touches(N.nodes[i])
  <2>1. N.nodes[i].ins \in Seq(X) /\ N.nodes[i].out \in X
    BY <1>1, NetworkParts
  <2> HIDE DEF X
  <2> QED BY <2>1, AppendRange DEF Touches
<1> HIDE DEF X
<1>3. PICK f : Iterates(f, n, Seq(X), <<>>, step)
  <2>1. step \in Steps(n, Seq(X))
    BY <1>2, ExtendedFacts DEF Steps
  <2>2. <<>> \in Seq(X)
    OBVIOUS
  <2> HIDE DEF n, step
  <2> QED BY <1>1, <2>1, <2>2, Recursion
<1> f \in [0..n -> Seq(X)] /\ f[0] = <<>> /\ \A i \in 1..n : f[i] = step[i][f[i - 1]]
  <2> HIDE DEF n, step
  <2> QED BY <1>3 DEF Iterates
<1>4. \A i \in 1..n : f[i] = Extended(f[i - 1], Of(i))
  <2> TAKE i \in 1..n
  <2>1. i - 1 \in 0..n
    BY <1>1
  <2>3. f[i - 1] \in Seq(X)
    <3> HIDE DEF n, step
    <3> QED BY <2>1
  <2>2. f[i] = step[i][f[i - 1]]
    OBVIOUS
  <2> QED BY <2>1, <2>2, <2>3
<1>5. Def(f)
  <2> \A i \in 0..Len(N.nodes) : i = 0 \/ i \in 1..n
    BY <1>1
  <2> QED BY <1>4
<1>6. /\ met[0] = <<>>
      /\ \A i \in 1..n : met[i] = Extended(met[i - 1], Of(i))
  <2> met = CHOOSE g : Def(g)
    OBVIOUS
  <2> HIDE DEF met
  <2>1. Def(met)
    <3> HIDE DEF Def
    <3> QED BY <1>5
  <2>2. \A i \in 1..n : i \in 0..Len(N.nodes) /\ i # 0
    BY <1>1
  <2>3. 0 \in 0..Len(N.nodes)
    BY <1>1
  <2>4. met[0] = <<>>
    BY <2>1, <2>3
  <2>5. ASSUME NEW i \in 1..n PROVE met[i] = Extended(met[i - 1], Of(i))
    <3>1. i \in 0..Len(N.nodes) /\ i # 0
      BY <2>2
    <3> HIDE DEF n, step
    <3>2. met[i] = IF i = 0 THEN <<>> ELSE Extended(met[i - 1], Append(N.nodes[i].ins, N.nodes[i].out))
      BY <2>1, <3>1, Zenon
    <3> QED BY <3>1, <3>2, Zenon
  <2> HIDE DEF n, step
  <2> QED BY <2>4, <2>5
<1>7. BufferOrder(N) = met[n]
  BY DEF BufferOrder
<1> HIDE DEF met
<1> DEFINE Right(k) == /\ met[k] \in Seq(X) /\ Once(met[k])
                       /\ Range(met[k]) = UNION {Touches(N.nodes[i]) : i \in 1..k}
           P == {k \in Nat : k <= n => Right(k)}
<1>8. Right(0)
  BY <1>6 DEF Range, Once
<1>9. ASSUME NEW k \in Nat, k + 1 <= n, Right(k) PROVE Right(k + 1)
  <2>1. k + 1 \in 1..n /\ k \in 0..n
    BY <1>1, <1>9
  <2> DEFINE j == k + 1
  <2>2. j \in 1..n /\ j - 1 = k /\ 1..j = (1..k) \cup {j}
    BY <2>1
  <2> HIDE DEF j, Of
  <2>3. met[j] = Extended(met[k], Of(j))
    BY <1>6, <2>2
  <2>4. Of(j) \in Seq(X) /\ Range(Of(j)) = Touches(N.nodes[j])
    BY <1>2, <2>2
  <2>5. met[j] \in Seq(X) /\ Once(met[j]) /\ Range(met[j]) = Range(met[k]) \cup Touches(N.nodes[j])
    BY <1>9, <2>3, <2>4, ExtendedFacts
  <2>6. Range(met[j]) = UNION {Touches(N.nodes[i]) : i \in 1..j}
    BY <1>9, <2>2, <2>5
  <2> QED BY <2>5, <2>6 DEF j
<1> HIDE DEF Right, n
<1>10. P = Nat
  <2>1. 0 \in P
    BY <1>8
  <2>2. ASSUME NEW k \in P PROVE k + 1 \in P
    <3> k \in Nat /\ (k + 1 <= n => k <= n)
      BY <1>1
    <3> QED BY <1>9
  <2> HIDE DEF P
  <2> QED BY <2>1, <2>2, NatInduct DEF P
<1>11. Right(n)
  <2>1. n \in P /\ n <= n
    <3> HIDE DEF P
    <3> QED BY <1>1, <1>10
  <2> QED BY <2>1
<1> QED BY <1>1, <1>7, <1>11 DEF Right, X

-----------------------------------------------------------------------------
(* Lifetimes. *)

LEMMA MinOfNat ==
    ASSUME NEW T \in SUBSET Nat, T # {}
    PROVE  Min(T) \in T /\ \A y \in T : Min(T) <= y
<1>1. PICK x \in T : \A y \in T : x <= y
  BY NatMin
<1>2. Min(T) = x
  BY <1>1, MinIs
<1> QED BY <1>1, <1>2

LEMMA MaxUpTo ==
    ASSUME NEW n \in Nat, NEW T \in SUBSET (0..n), T # {}
    PROVE  Max(T) \in T /\ \A y \in T : Max(T) >= y
<1>1. IsFiniteSet(0..n)
  BY 0 \in Int, n \in Int, FS_Interval
<1>2. IsFiniteSet(T)
  BY <1>1, FS_Subset
<1>3. T \in SUBSET Nat
  OBVIOUS
<1> QED BY <1>2, <1>3, NatMax

LEMMA TouchedBlocks ==
    ASSUME NEW N, WellFormed(N), NEW i \in Nodes(N)
    PROVE  Touches(N.nodes[i]) \subseteq Blocks(N) /\ Touches(N.nodes[i]) \subseteq InStep(N, i)
BY DEF Blocks, InStep

(* A block occupies memory while a node touches it, and while a node       *)
(* touches one of its direct aliases.                                      *)
LEMMA OccupancyFacts ==
    ASSUME NEW N, WellFormed(N), NEW t \in Blocks(N)
    PROVE  /\ Occupancy(N)[t] \in [first : 0..Len(N.nodes), last : 0..Len(N.nodes)]
           /\ \A i \in Nodes(N) : t \in Touches(N.nodes[i]) =>
                  Occupancy(N)[t].first <= i - 1 /\ i - 1 <= Occupancy(N)[t].last
           /\ \A i, j \in Nodes(N) : \A u :
                  /\ t \in Touches(N.nodes[i]) /\ i <= j
                  /\ u \in Touches(N.nodes[j]) /\ HasAlias(N, u) /\ AliasOf(N, u) = t
                  => j - 1 <= Occupancy(N)[t].last
<1> DEFINE n == Len(N.nodes)
           present == [i \in Nodes(N) |-> InStep(N, i)]
           steps(v) == {i - 1 : i \in {j \in Nodes(N) : v \in present[j]}}
           aliases == {u \in Blocks(N) : HasAlias(N, u) /\ AliasOf(N, u) = t}
           later == {k \in UNION {steps(u) : u \in aliases} : k >= Min(steps(t))}
           all == steps(t) \cup later
<1>1. n \in Nat /\ Nodes(N) = 1..n
  BY NetworkParts
<1>2. Occupancy(N)[t] = Life(Min(steps(t)), Max(all))
  BY DEF Occupancy
<1>3. ASSUME NEW v PROVE steps(v) \in SUBSET (0..n)
  <2>1. ASSUME NEW k \in steps(v) PROVE k \in 0..n
    <3>1. PICK i \in Nodes(N) : k = i - 1
      OBVIOUS
    <3> QED BY <1>1, <3>1
  <2> HIDE DEF steps, n
  <2> QED BY <2>1
<1>4. steps(t) # {}
  <2>1. PICK i \in Nodes(N) : t \in InStep(N, i)
    BY DEF Blocks
  <2>2. i - 1 \in steps(t)
    BY <2>1
  <2> QED BY <2>2
<1>5. Min(steps(t)) \in steps(t) /\ \A y \in steps(t) : Min(steps(t)) <= y
  <2>1. steps(t) \in SUBSET Nat
    BY <1>1, <1>3
  <2> HIDE DEF steps
  <2> QED BY <1>4, <2>1, MinOfNat
<1>6. \A v : \A i \in Nodes(N) : v \in Touches(N.nodes[i]) => i - 1 \in steps(v)
  BY TouchedBlocks
<1>7. all \in SUBSET (0..n) /\ all # {} /\ steps(t) \subseteq all /\ later \subseteq all
  <2>1. UNION {steps(u) : u \in aliases} \subseteq 0..n
    <3> HIDE DEF steps, aliases, n
    <3> QED BY <1>3
  <2> HIDE DEF steps, aliases
  <2> QED BY <1>3, <1>4, <2>1
<1>8. Max(all) \in all /\ \A y \in all : Max(all) >= y
  <2> HIDE DEF all, n
  <2> QED BY <1>1, <1>7, MaxUpTo
<1> DEFINE first == Min(steps(t))
           last == Max(all)
<1>9. ASSUME NEW i \in Nodes(N), t \in Touches(N.nodes[i]) PROVE first <= i - 1 /\ i - 1 <= last
  <2>1. i - 1 \in steps(t)
    BY <1>6, <1>9
  <2>2. i - 1 \in all
    BY <1>7, <2>1
  <2>3. first <= i - 1 /\ last >= i - 1
    <3> HIDE DEF steps, all
    <3> QED BY <1>5, <1>8, <2>1, <2>2
  <2>4. last \in Nat /\ i - 1 \in Nat
    <3>1. i - 1 \in Nat
      BY <1>1
    <3>2. last \in 0..n
      <4> HIDE DEF all, n
      <4> QED BY <1>7, <1>8
    <3> QED BY <1>1, <3>1, <3>2
  <2> HIDE DEF first, last
  <2> QED BY <2>3, <2>4
<1>10. ASSUME NEW i \in Nodes(N), NEW j \in Nodes(N), NEW u,
              t \in Touches(N.nodes[i]), i <= j,
              u \in Touches(N.nodes[j]), HasAlias(N, u), AliasOf(N, u) = t
       PROVE  j - 1 <= last
  <2>1. i - 1 \in steps(t) /\ j - 1 \in steps(u)
    BY <1>6, <1>10
  <2>2. u \in aliases
    BY <1>10, TouchedBlocks
  <2>3. j - 1 >= Min(steps(t))
    <3>1. first <= i - 1
      BY <1>9, <1>10
    <3>2. first \in Nat
      <4> HIDE DEF steps, n
      <4> QED BY <1>1, <1>3, <1>5
    <3> HIDE DEF first
    <3> QED BY <1>1, <1>10, <3>1, <3>2 DEF first
  <2>4. j - 1 \in all
    <3>1. j - 1 \in UNION {steps(v) : v \in aliases}
      <4> HIDE DEF steps, aliases
      <4> QED BY <2>1, <2>2
    <3> HIDE DEF steps, aliases
    <3> QED BY <2>3, <3>1
  <2>5. last >= j - 1 /\ last \in 0..n
    <3> HIDE DEF all, n
    <3> QED BY <1>7, <1>8, <2>4
  <2> HIDE DEF last
  <2> QED BY <1>1, <2>5
<1>11. first \in 0..n /\ last \in 0..n
  <2>1. first \in 0..n
    <3> HIDE DEF steps, n
    <3> QED BY <1>3, <1>5
  <2>2. last \in 0..n
    <3> HIDE DEF all, n
    <3> QED BY <1>7, <1>8
  <2> QED BY <2>1, <2>2
<1>12. Occupancy(N)[t] = [first |-> first, last |-> last]
  BY <1>2 DEF Life
<1> HIDE DEF first, last
<1> QED BY <1>9, <1>10, <1>11, <1>12

(* Before the aliases are dealt with: inputs live from the first step on   *)
(* and outputs to the last.                                                *)
LEMMA BaseLifetimes ==
    ASSUME NEW N, WellFormed(N), NEW life \in {CalculateLifetimes(N), TrainingLifetimes(N)}
    PROVE  /\ DOMAIN life = Blocks(N)
           /\ \A t \in Blocks(N) :
                  /\ life[t] \in [first : 0..Len(N.nodes), last : 0..Len(N.nodes)]
                  /\ IsOutput(N, t) => life[t].last = Len(N.nodes)
                  /\ IsInput(N, t) => life[t].first = 0
                  /\ IsInput(N, t) /\ life = TrainingLifetimes(N) => life[t].last = Len(N.nodes)
                  /\ \A i \in Nodes(N) : t \in Touches(N.nodes[i]) =>
                         life[t].first <= i - 1 /\ i - 1 <= life[t].last
                  /\ \A i, j \in Nodes(N) : \A u :
                         /\ t \in Touches(N.nodes[i]) /\ i <= j
                         /\ u \in Touches(N.nodes[j]) /\ HasAlias(N, u) /\ AliasOf(N, u) = t
                         => j - 1 <= life[t].last
<1> DEFINE n == Len(N.nodes)
<1>1. n \in Nat /\ Nodes(N) = 1..n
  BY NetworkParts
<1>2. \A t : IsInput(N, t) => ~ IsOutput(N, t)
  <2>1. Range(N.outputs) \subseteq Produced(N, n)
    BY DEF WellFormed
  <2>2. \A t \in Produced(N, n) : t \notin Range(N.inputs)
    BY <1>1, ProducedIs DEF Produced
  <2> QED BY <2>1, <2>2 DEF IsInput, IsOutput
<1>3. DOMAIN life = Blocks(N)
  BY DEF CalculateLifetimes, TrainingLifetimes
<1> SUFFICES ASSUME NEW t \in Blocks(N)
             PROVE  /\ life[t] \in [first : 0..Len(N.nodes), last : 0..Len(N.nodes)]
                    /\ IsOutput(N, t) => life[t].last = Len(N.nodes)
                    /\ IsInput(N, t) => life[t].first = 0
                    /\ IsInput(N, t) /\ life = TrainingLifetimes(N) => life[t].last = Len(N.nodes)
                    /\ \A i \in Nodes(N) : t \in Touches(N.nodes[i]) =>
                           life[t].first <= i - 1 /\ i - 1 <= life[t].last
                    /\ \A i, j \in Nodes(N) : \A u :
                           /\ t \in Touches(N.nodes[i]) /\ i <= j
                           /\ u \in Touches(N.nodes[j]) /\ HasAlias(N, u) /\ AliasOf(N, u) = t
                           => j - 1 <= life[t].last
  BY <1>3
<1> DEFINE occ == Occupancy(N)[t]
<1>4. CalculateLifetimes(N)[t] = IF IsOutput(N, t) THEN Life(occ.first, n)
                                 ELSE IF IsInput(N, t) THEN Life(0, occ.last) ELSE occ
  BY DEF CalculateLifetimes
<1>5. TrainingLifetimes(N)[t] = IF IsInput(N, t) THEN Life(0, n) ELSE CalculateLifetimes(N)[t]
  BY DEF TrainingLifetimes
<1>6. occ \in [first : 0..n, last : 0..n]
  BY OccupancyFacts
<1>7. \A i \in Nodes(N) : i - 1 \in 0..n
  BY <1>1
<1>8. /\ \A i \in Nodes(N) : t \in Touches(N.nodes[i]) => occ.first <= i - 1 /\ i - 1 <= occ.last
      /\ \A i, j \in Nodes(N) : \A u :
             /\ t \in Touches(N.nodes[i]) /\ i <= j
             /\ u \in Touches(N.nodes[j]) /\ HasAlias(N, u) /\ AliasOf(N, u) = t
             => j - 1 <= occ.last
  BY OccupancyFacts
<1>9. \A k \in 0..n : 0 <= k /\ k <= n
  BY <1>1
<1>10. 0 \in 0..n /\ n \in 0..n /\ occ.first \in 0..n /\ occ.last \in 0..n
       /\ occ = [first |-> occ.first, last |-> occ.last]
  BY <1>1, <1>6
<1> HIDE DEF occ, n
<1>11. CASE IsInput(N, t) /\ life = TrainingLifetimes(N)
  <2>1. life[t] = [first |-> 0, last |-> n]
    BY <1>5, <1>11 DEF Life
  <2> QED BY <2>1, <1>2, <1>7, <1>9, <1>10, <1>11 DEF n
<1>12. CASE ~ (IsInput(N, t) /\ life = TrainingLifetimes(N))
  <2>1. life[t] = CalculateLifetimes(N)[t]
    BY <1>5, <1>12
  <2>2. CASE IsOutput(N, t)
    <3>1. life[t] = [first |-> occ.first, last |-> n]
      BY <1>4, <2>1, <2>2 DEF Life
    <3> QED BY <3>1, <2>2, <1>2, <1>7, <1>8, <1>9, <1>10, <1>12 DEF n
  <2>3. CASE ~ IsOutput(N, t) /\ IsInput(N, t)
    <3>1. life[t] = [first |-> 0, last |-> occ.last]
      BY <1>4, <2>1, <2>3 DEF Life
    <3> QED BY <3>1, <2>3, <1>7, <1>8, <1>9, <1>10, <1>12 DEF n
  <2>4. CASE ~ IsOutput(N, t) /\ ~ IsInput(N, t)
    <3>1. life[t] = occ
      BY <1>4, <2>1, <2>4
    <3> QED BY <3>1, <2>4, <1>6, <1>8, <1>12 DEF n
  <2> QED BY <2>2, <2>3, <2>4
<1> QED BY <1>11, <1>12

(* A tensor whose content may not change while node i runs. *)
InUse(N, i, t) ==
    /\ t \in Range(N.inputs) \cup Produced(N, i)
    /\ t = N.nodes[i].out \/ t \in Range(N.outputs) \/ \E j \in Users(N, t) : j >= i

(* The views of an input are direct and no outputs. *)
DirectViews(N) ==
    \A i \in Nodes(N) :
        N.nodes[i].op \in AliasingOp /\ IsInput(N, Dealias(N, N.nodes[i].out)) =>
            IsInput(N, N.nodes[i].ins[1]) /\ ~ IsOutput(N, N.nodes[i].out)

LEMMA InUseTouched ==
    ASSUME NEW N, WellFormed(N), NEW i \in Nodes(N), NEW t, InUse(N, i, t)
    PROVE  /\ t \in Buffers(N) /\ t \in Blocks(N) /\ Dealias(N, t) \in Blocks(N)
           /\ \E k \in Nodes(N) : t \in Touches(N.nodes[k])
           /\ \E k \in Nodes(N) : Dealias(N, t) \in Touches(N.nodes[k])
<1> DEFINE n == Len(N.nodes)
           S == UNION {Touches(N.nodes[k]) : k \in Nodes(N)}
<1>1. n \in Nat /\ Nodes(N) = 1..n /\ i \in 0..n /\ n \in 0..n /\ i <= n
  BY NetworkParts
<1>2. t \in Tensors(N)
  <2>1. Produced(N, i) \subseteq Produced(N, n)
    BY <1>1, ProducedIs
  <2> QED BY <2>1 DEF InUse, Tensors
<1>3. Tensors(N) \subseteq S
  <2>1. ASSUME NEW u \in Range(N.inputs) PROVE u \in S
    <3>1. Users(N, u) # {}
      BY DEF WellFormed
    <3> QED BY <3>1 DEF Users, Touches
  <2>2. ASSUME NEW u \in Produced(N, n) PROVE u \in S
    <3>1. PICK k \in Nodes(N) : u = N.nodes[k].out
      BY <1>1 DEF Produced
    <3> QED BY <3>1 DEF Touches
  <2> QED BY <2>1, <2>2 DEF Tensors
<1>4. S \subseteq Buffers(N)
  BY ProducedIs
<1>5. AliasClosed(N, S)
  <2>1. ASSUME NEW u \in S, HasAlias(N, u) PROVE AliasOf(N, u) \in S
    <3>1. PICK k \in Nodes(N) : AliasOf(N, u) \in Range(N.nodes[k].ins)
      BY <2>1, AliasInNetwork
    <3> QED BY <3>1 DEF Touches
  <2> QED BY <2>1 DEF AliasClosed
<1>6. t \in S /\ Dealias(N, t) \in S
  <2> HIDE DEF S
  <2> QED BY <1>2, <1>3, <1>4, <1>5, RootStays
<1> QED BY <1>4, <1>6, TouchedBlocks

(* A root lives while a tensor in its memory is in use. *)
LEMMA RootLifetimes ==
    ASSUME NEW N, WellFormed(N), NEW base \in {CalculateLifetimes(N), TrainingLifetimes(N)},
           base = TrainingLifetimes(N) \/ DirectViews(N)
    PROVE  LET life == DealiasLifetimes(N, base)
           IN  /\ DOMAIN life = Blocks(N)
               /\ \A t \in Blocks(N) :
                      /\ life[t] \in [first : 0..Len(N.nodes), last : 0..Len(N.nodes)]
                      /\ IsOutput(N, t) => life[t].last = Len(N.nodes)
                      /\ IsInput(N, t) => life[t].first = 0
                      /\ IsInput(N, t) /\ base = TrainingLifetimes(N) => life[t].last = Len(N.nodes)
                      /\ \A i \in Nodes(N) : t \in Touches(N.nodes[i]) =>
                             life[t].first <= i - 1 /\ i - 1 <= life[t].last
               /\ \A i \in Nodes(N) : \A t :
                      InUse(N, i, t) =>
                          /\ life[Dealias(N, t)].first <= i - 1
                          /\ i - 1 <= life[Dealias(N, t)].last
<1> DEFINE n == Len(N.nodes)
           life == DealiasLifetimes(N, base)
           ends(t) == {base[u].last : u \in {v \in Blocks(N) : Dealias(N, v) = Dealias(N, t)}}
<1>1. n \in Nat /\ Nodes(N) = 1..n
  BY NetworkParts
<1>2. DOMAIN base = Blocks(N)
  BY BaseLifetimes
<1>3. DOMAIN life = Blocks(N)
  BY <1>2 DEF DealiasLifetimes
<1>4. ASSUME NEW t \in Blocks(N)
      PROVE  life[t] = IF Dealias(N, t) # t /\ IsGlobal(N, Dealias(N, t)) THEN Life(0, base[t].last)
                       ELSE IF Dealias(N, t) = t /\ ~ IsGlobal(N, t)
                       THEN Life(base[t].first, Max(ends(t)))
                       ELSE base[t]
  BY <1>2 DEF DealiasLifetimes
<1>5. ASSUME NEW t \in Blocks(N)
      PROVE  /\ base[t] \in [first : 0..n, last : 0..n]
             /\ IsOutput(N, t) => base[t].last = n
             /\ IsInput(N, t) => base[t].first = 0
             /\ IsInput(N, t) /\ base = TrainingLifetimes(N) => base[t].last = n
             /\ \A i \in Nodes(N) : t \in Touches(N.nodes[i]) =>
                    base[t].first <= i - 1 /\ i - 1 <= base[t].last
             /\ \A i, j \in Nodes(N) : \A u :
                    /\ t \in Touches(N.nodes[i]) /\ i <= j
                    /\ u \in Touches(N.nodes[j]) /\ HasAlias(N, u) /\ AliasOf(N, u) = t
                    => j - 1 <= base[t].last
  BY BaseLifetimes
<1>6. ASSUME NEW t \in Blocks(N)
      PROVE  /\ Max(ends(t)) \in 0..n
             /\ \A u \in Blocks(N) : Dealias(N, u) = Dealias(N, t) => base[u].last <= Max(ends(t))
  <2>1. ends(t) \in SUBSET (0..n) /\ base[t].last \in ends(t)
    BY <1>5
  <2>2. Max(ends(t)) \in ends(t) /\ \A y \in ends(t) : Max(ends(t)) >= y
    <3> HIDE DEF ends, n
    <3> QED BY <1>1, <2>1, MaxUpTo
  <2>3. Max(ends(t)) \in 0..n
    <3> HIDE DEF ends, n
    <3> QED BY <2>1, <2>2
  <2>4. ASSUME NEW u \in Blocks(N), Dealias(N, u) = Dealias(N, t) PROVE base[u].last <= Max(ends(t))
    <3>1. base[u].last \in ends(t)
      BY <2>4
    <3>2. base[u].last \in 0..n
      BY <1>5
    <3> HIDE DEF ends
    <3> QED BY <1>1, <2>2, <2>3, <3>1, <3>2
  <2> QED BY <2>3, <2>4
<1> DEFINE Typed(t) ==
               /\ life[t] \in [first : 0..n, last : 0..n]
               /\ life[t].first <= base[t].first
               /\ base[t].last <= life[t].last
               /\ Dealias(N, t) = t /\ IsGlobal(N, t) => life[t] = base[t]
               /\ Dealias(N, t) = t /\ ~ IsGlobal(N, t) =>
                      life[t].first = base[t].first /\ life[t].last = Max(ends(t))
<1>7. ASSUME NEW t \in Blocks(N) PROVE Typed(t)
  <2> DEFINE m == Max(ends(t))
  <2>1. base[t].last <= m /\ m \in 0..n
    BY <1>6
  <2>2. base[t] = [first |-> base[t].first, last |-> base[t].last]
        /\ base[t].first \in 0..n /\ base[t].last \in 0..n /\ 0 \in 0..n
    BY <1>1, <1>5
  <2>3. base[t].first <= base[t].first /\ base[t].last <= base[t].last /\ 0 <= base[t].first
    BY <1>1, <2>2
  <2>4. life[t] = IF Dealias(N, t) # t /\ IsGlobal(N, Dealias(N, t)) THEN Life(0, base[t].last)
                  ELSE IF Dealias(N, t) = t /\ ~ IsGlobal(N, t) THEN Life(base[t].first, m)
                  ELSE base[t]
    BY <1>4
  <2> HIDE DEF m, n, life
  <2>5. CASE Dealias(N, t) # t /\ IsGlobal(N, Dealias(N, t))
    <3>1. life[t] = [first |-> 0, last |-> base[t].last]
      BY <2>4, <2>5 DEF Life
    <3> QED BY <2>1, <2>2, <2>3, <2>5, <3>1
  <2>6. CASE Dealias(N, t) = t /\ ~ IsGlobal(N, t)
    <3>1. life[t] = [first |-> base[t].first, last |-> m]
      BY <2>4, <2>6 DEF Life
    <3> QED BY <2>1, <2>2, <2>3, <2>6, <3>1 DEF m
  <2>7. CASE /\ ~ (Dealias(N, t) # t /\ IsGlobal(N, Dealias(N, t)))
             /\ ~ (Dealias(N, t) = t /\ ~ IsGlobal(N, t))
    <3>1. life[t] = base[t]
      BY <2>4, <2>7
    <3> QED BY <2>1, <2>2, <2>3, <2>7, <3>1
  <2> QED BY <2>5, <2>6, <2>7
<1>8. ASSUME NEW t \in Blocks(N)
      PROVE  /\ life[t].first \in Nat /\ life[t].last \in 0..n
             /\ base[t].first \in Nat /\ base[t].last \in 0..n
  <2>1. life[t] \in [first : 0..n, last : 0..n] /\ base[t] \in [first : 0..n, last : 0..n]
    BY <1>5, <1>7
  <2> HIDE DEF life, n
  <2> QED BY <1>1, <2>1
<1> HIDE DEF life
<1>9. ASSUME NEW t \in Blocks(N)
      PROVE  /\ life[t] \in [first : 0..n, last : 0..n]
             /\ IsOutput(N, t) => life[t].last = n
             /\ IsInput(N, t) => life[t].first = 0
             /\ IsInput(N, t) /\ base = TrainingLifetimes(N) => life[t].last = n
             /\ \A i \in Nodes(N) : t \in Touches(N.nodes[i]) =>
                    life[t].first <= i - 1 /\ i - 1 <= life[t].last
  <2>1. Typed(t) /\ life[t].first \in Nat /\ life[t].last \in 0..n
        /\ base[t].first \in Nat /\ base[t].last \in 0..n
    BY <1>7, <1>8
  <2>2. \A i \in Nodes(N) : i - 1 \in Nat
    BY <1>1
  <2> HIDE DEF ends, n
  <2> QED BY <1>1, <1>5, <2>1, <2>2
<1>10. ASSUME NEW i \in Nodes(N), NEW t, InUse(N, i, t)
       PROVE  life[Dealias(N, t)].first <= i - 1 /\ i - 1 <= life[Dealias(N, t)].last
  <2> DEFINE r == Dealias(N, t)
  <2>1. /\ t \in Buffers(N) /\ t \in Blocks(N) /\ r \in Blocks(N) /\ r \in Buffers(N)
        /\ \E k \in Nodes(N) : t \in Touches(N.nodes[k])
    BY <1>10, InUseTouched, RootFacts
  <2>2. ~ HasAlias(N, r) /\ Dealias(N, r) = r
    BY <2>1, RootHasNoAlias, RootFacts
  <2>3. r \in Range(N.inputs) \cup Produced(N, i)
    <3>1. i \in 0..n
      BY <1>1
    <3> QED BY <1>10, <2>1, <3>1, RootFacts DEF InUse
  <2>4. r \in Produced(N, i) => life[r].first <= i - 1
    <3> SUFFICES ASSUME r \in Produced(N, i) PROVE life[r].first <= i - 1
      OBVIOUS
    <3>1. PICK k \in 1..i : N.nodes[k].out = r
      BY DEF Produced
    <3>2. k \in Nodes(N) /\ k - 1 <= i - 1 /\ k - 1 \in Nat /\ i - 1 \in Nat
      BY <1>1, <3>1
    <3>3. r \in Touches(N.nodes[k])
      BY <3>1 DEF Touches
    <3>4. life[r].first <= k - 1 /\ life[r].first \in Nat
      BY <1>8, <1>9, <2>1, <3>2, <3>3
    <3> QED BY <3>2, <3>4
  <2>5. r \in Range(N.inputs) => life[r].first <= i - 1
    BY <1>1, <1>9, <2>1 DEF IsInput
  <2>6. i - 1 \in Nat /\ i - 1 <= n
    BY <1>1
  <2>7. \* a step at which t is touched, or the end
        \/ t \in Range(N.outputs)
        \/ \E j \in Nodes(N) : j >= i /\ t \in Touches(N.nodes[j])
    <3>1. t = N.nodes[i].out \/ t \in Range(N.outputs) \/ \E j \in Users(N, t) : j >= i
      BY <1>10 DEF InUse
    <3>2. i >= i
      BY <1>1
    <3> QED BY <3>1, <3>2 DEF Users, Touches
  <2>8. base[t].last >= i - 1
    <3>1. CASE t \in Range(N.outputs)
      <4>1. base[t].last = n
        BY <1>5, <2>1, <3>1 DEF IsOutput
      <4> QED BY <1>1, <2>6, <4>1
    <3>2. ASSUME NEW j \in Nodes(N), j >= i, t \in Touches(N.nodes[j]) PROVE base[t].last >= i - 1
      <4>1. j - 1 <= base[t].last /\ base[t].last \in 0..n
        BY <1>5, <1>8, <2>1, <3>2
      <4> QED BY <1>1, <3>2, <4>1
    <3> QED BY <2>7, <3>1, <3>2
  <2>9. CASE ~ IsGlobal(N, r)
    <3>1. life[r].last = Max(ends(r)) /\ base[t].last <= Max(ends(r)) /\ Max(ends(r)) \in 0..n
      BY <1>6, <1>7, <2>1, <2>2, <2>9
    <3>2. base[t].last \in 0..n
      BY <1>8, <2>1
    <3>3. i - 1 <= life[r].last
      <4> HIDE DEF ends, r
      <4> QED BY <1>1, <2>6, <2>8, <3>1, <3>2
    <3> QED BY <2>3, <2>4, <2>5, <3>3
  <2>10. CASE IsOutput(N, r)
    <3>1. life[r].last = n
      BY <1>9, <2>1, <2>10
    <3> QED BY <2>3, <2>4, <2>5, <2>6, <3>1
  <2>11. CASE IsInput(N, r)
    <3>1. life[r].first <= i - 1
      BY <2>5, <2>11 DEF IsInput
    <3>2. CASE base = TrainingLifetimes(N)
      <4>1. life[r].last = n
        BY <1>9, <2>1, <2>11, <3>2
      <4> QED BY <2>6, <3>1, <4>1
    <3>3. CASE r = t
      <4>1. life[t].last >= base[t].last /\ life[t].last \in 0..n /\ base[t].last \in 0..n
        BY <1>7, <1>8, <2>1
      <4> QED BY <1>1, <2>6, <2>8, <3>1, <3>3, <4>1
    <3>4. CASE DirectViews(N) /\ r # t
      <4>1. HasAlias(N, t)
        BY <2>1, <3>4, RootFacts
      <4>2. PICK k \in Nodes(N) : /\ N.nodes[k].op \in AliasingOp /\ N.nodes[k].out = t
                                  /\ AliasOf(N, t) = N.nodes[k].ins[1]
                                  /\ AliasOf(N, t) \in Range(N.nodes[k].ins)
                                  /\ AliasOf(N, t) \in Buffers(N)
        BY <4>1, AliasInNetwork
      <4>3. IsInput(N, AliasOf(N, t)) /\ ~ IsOutput(N, t)
        BY <2>11, <3>4, <4>2 DEF DirectViews
      <4>4. AliasOf(N, t) = r
        <5>1. ~ HasAlias(N, AliasOf(N, t))
          BY <4>3, AliasInNetwork, ProducedIs DEF IsInput
        <5>2. Dealias(N, AliasOf(N, t)) = AliasOf(N, t)
          BY <4>2, <5>1, RootFacts
        <5> QED BY <2>1, <4>1, <5>2, RootFacts
      <4>5. r \in Touches(N.nodes[k])
        BY <4>2, <4>4 DEF Touches
      <4>6. PICK j \in Nodes(N) : j >= i /\ t \in Touches(N.nodes[j])
        BY <2>7, <4>3 DEF IsOutput
      <4>7. k <= i
        <5>1. t \in Produced(N, i)
          BY <1>10, <4>2, ProducedIs DEF InUse
        <5>2. PICK l \in 1..i : N.nodes[l].out = t
          BY <5>1 DEF Produced
        <5>3. l \in Nodes(N) /\ l <= i
          BY <1>1, <5>2
        <5>4. k = l
          BY <4>2, <5>2, <5>3, OneProducer
        <5> QED BY <5>3, <5>4
      <4>8. k <= j
        BY <1>1, <4>6, <4>7
      <4>9. j - 1 <= base[r].last
        BY <1>5, <2>1, <4>1, <4>4, <4>5, <4>6, <4>8
      <4>10. life[r].last >= base[r].last /\ life[r].last \in 0..n /\ base[r].last \in 0..n
        BY <1>7, <1>8, <2>1
      <4>11. i - 1 <= life[r].last
        <5> HIDE DEF r
        <5> QED BY <1>1, <4>6, <4>9, <4>10
      <4> QED BY <3>1, <4>11
    <3> QED BY <3>2, <3>3, <3>4
  <2> QED BY <2>9, <2>10, <2>11 DEF IsGlobal
<1> HIDE DEF n, ends
<1> QED BY <1>3, <1>9, <1>10 DEF n, life

-----------------------------------------------------------------------------
(* The blocks of a deployment. *)

LEMMA ConcatRange ==
    ASSUME NEW X, NEW s \in Seq(X), NEW u \in Seq(X)
    PROVE  s \o u \in Seq(X) /\ Range(s \o u) = Range(s) \cup Range(u)
<1> DEFINE m == Len(s)
           n == Len(u)
<1>1. /\ m \in Nat /\ n \in Nat /\ s \o u \in Seq(X)
      /\ DOMAIN s = 1..m /\ DOMAIN u = 1..n /\ DOMAIN (s \o u) = 1..(m + n)
      /\ \A k \in 1..(m + n) : (s \o u)[k] = IF k <= m THEN s[k] ELSE u[k - m]
  BY ConcatProperties
<1> HIDE DEF m, n
<1>2. \A x \in Range(s \o u) : x \in Range(s) \/ x \in Range(u)
  <2> TAKE x \in Range(s \o u)
  <2>1. PICK k \in 1..(m + n) : x = (s \o u)[k]
    BY <1>1 DEF Range
  <2>2. CASE k <= m
    <3>1. k \in 1..m
      BY <1>1, <2>2
    <3> QED BY <1>1, <2>1, <2>2, <3>1 DEF Range
  <2>3. CASE ~ (k <= m)
    <3>1. k - m \in 1..n
      BY <1>1, <2>3
    <3> QED BY <1>1, <2>1, <2>3, <3>1 DEF Range
  <2> QED BY <2>2, <2>3
<1>3. \A x \in Range(s) : x \in Range(s \o u)
  <2> TAKE x \in Range(s)
  <2>1. PICK k \in 1..m : x = s[k]
    BY <1>1 DEF Range
  <2>2. k \in 1..(m + n) /\ k <= m
    BY <1>1
  <2> QED BY <1>1, <2>1, <2>2 DEF Range
<1>4. \A x \in Range(u) : x \in Range(s \o u)
  <2> TAKE x \in Range(u)
  <2>1. PICK k \in 1..n : x = u[k]
    BY <1>1 DEF Range
  <2>2. k + m \in 1..(m + n) /\ ~ (k + m <= m) /\ k + m - m = k
    BY <1>1
  <2>3. (s \o u)[k + m] = u[k]
    BY <1>1, <2>2
  <2> QED BY <1>1, <2>1, <2>2, <2>3 DEF Range
<1>5. Range(s \o u) = Range(s) \cup Range(u)
  BY <1>2, <1>3, <1>4
<1> QED BY <1>1, <1>5

Touched(N) == UNION {Touches(N.nodes[i]) : i \in Nodes(N)}

(* What DeploymentsAssumption says of one network. *)
LEMMA Deployed ==
    ASSUME NEW d \in Deployments, NEW w \in Net
    PROVE  /\ WellFormed(d.nets[w])
           /\ Prepared(d, w)
           /\ \E base \in {CalculateLifetimes(d.nets[w]), TrainingLifetimes(d.nets[w])} :
                 /\ LifetimesOf(d, w) = DealiasLifetimes(d.nets[w], base)
                 /\ base = TrainingLifetimes(d.nets[w]) \/ DirectViews(d.nets[w])
                 /\ d.kind = "training" => base = TrainingLifetimes(d.nets[w])
<1> DEFINE N == d.nets[w]
<1>1. Deployable(d)
  BY DeploymentsAssumption
<1>2. Prepared(d, w)
  BY <1>1 DEF Deployable
<1>3. WellFormed(N)
  BY <1>2 DEF Prepared
<1>4. CASE d.kind = "training"
  <2>1. LifetimesOf(d, w) = DealiasLifetimes(N, TrainingLifetimes(N))
    BY <1>4 DEF LifetimesOf
  <2> QED BY <1>2, <1>3, <2>1
<1>5. CASE d.kind # "training"
  <2>1. LifetimesOf(d, w) = DealiasLifetimes(N, CalculateLifetimes(N))
    BY <1>5 DEF LifetimesOf
  <2>2. Inference(d)
    BY <1>1, <1>5 DEF Deployable
  <2>3. CASE w = "net"
    <3>1. ASSUME NEW i \in Nodes(N), N.nodes[i].op \in AliasingOp
          PROVE  N.nodes[i].op = "reshape"
      BY <2>2, <2>3, <3>1 DEF Inference, AliasingOp
    <3>2. DirectViews(N)
      BY <2>2, <2>3, <3>1 DEF Inference, DirectViews
    <3> QED BY <1>2, <1>3, <1>5, <2>1, <3>2
  <2>4. CASE w = "opt"
    <3>1. N = NoNetwork
      BY <2>2, <2>4 DEF Inference
    <3>2. N.nodes = <<>>
      BY <3>1 DEF NoNetwork
    <3>3. Nodes(N) = {}
      BY <3>2 DEF Nodes
    <3>4. DirectViews(N)
      BY <3>3 DEF DirectViews
    <3> QED BY <1>2, <1>3, <1>5, <2>1, <3>4
  <2> QED BY <2>3, <2>4 DEF Net
<1> QED BY <1>4, <1>5

(* The table that Init gives to the scheduler. *)
BlockTable(d) ==
    LET lives == [w \in Net |-> LifetimesOf(d, w)]
    IN  [b \in {c \in Range(BlockList(d)) : d.strategy = "arena"} |-> BlockOf(d, lives, b)]

LEMMA BlockListFacts ==
    ASSUME NEW d \in Deployments
    PROVE  Range(BlockList(d)) = {b \in Net \X (UNION {Touched(d.nets[w]) : w \in Net}) :
                                      b[2] \in Touched(d.nets[b[1]])}
<1> DEFINE bufs(w) == BufferOrder(d.nets[w])
           of(w) == [k \in DOMAIN bufs(w) |-> <<w, bufs(w)[k]>>]
           X == Net \X (UNION {Touched(d.nets[w]) : w \in Net})
<1>1. ASSUME NEW w \in Net
      PROVE  of(w) \in Seq(X) /\ Range(of(w)) = {<<w, t>> : t \in Touched(d.nets[w])}
  <2>1. bufs(w) \in Seq(Buffers(d.nets[w])) /\ Range(bufs(w)) = Touched(d.nets[w])
    BY Deployed, BufferOrderFacts DEF Touched
  <2>2. DOMAIN bufs(w) = 1..Len(bufs(w)) /\ Len(bufs(w)) \in Nat
    BY <2>1
  <2>3. \A k \in DOMAIN bufs(w) : bufs(w)[k] \in Touched(d.nets[w])
    BY <2>1 DEF Range
  <2>4. of(w) \in [1..Len(bufs(w)) -> X]
    <3> HIDE DEF bufs
    <3> QED BY <2>2, <2>3
  <2>5. of(w) \in Seq(X)
    <3> HIDE DEF of, X, bufs
    <3> QED BY <2>2, <2>4
  <2>6. Range(of(w)) = {<<w, bufs(w)[k]>> : k \in DOMAIN bufs(w)}
    <3> HIDE DEF bufs
    <3> QED BY DEF Range
  <2>7. Range(bufs(w)) = {bufs(w)[k] : k \in DOMAIN bufs(w)}
    <3> HIDE DEF bufs
    <3> QED BY DEF Range
  <2> HIDE DEF bufs
  <2>8. Range(of(w)) = {<<w, t>> : t \in Touched(d.nets[w])}
    BY <2>1, <2>6, <2>7
  <2> QED BY <2>5, <2>8
<1>2. BlockList(d) = of("net") \o of("opt")
  BY DEF BlockList
<1>3. "net" \in Net /\ "opt" \in Net /\ Net = {"net", "opt"}
  BY DEF Net
<1>4. Range(BlockList(d)) = {<<"net", t>> : t \in Touched(d.nets["net"])}
                            \cup {<<"opt", t>> : t \in Touched(d.nets["opt"])}
  <2> HIDE DEF of, X
  <2> QED BY <1>1, <1>2, <1>3, ConcatRange
<1>5. \A b : b \in X => b = <<b[1], b[2]>> /\ (b[1] = "net" \/ b[1] = "opt")
  BY <1>3
<1>6. \A t : t \in Touched(d.nets["net"]) => <<"net", t>> \in X
  BY <1>3
<1>7. \A t : t \in Touched(d.nets["opt"]) => <<"opt", t>> \in X
  BY <1>3
<1> HIDE DEF X
<1>8. Range(BlockList(d)) = {b \in X : b[2] \in Touched(d.nets[b[1]])}
  BY <1>4, <1>5, <1>6, <1>7
<1> QED BY <1>8 DEF X

LEMMA TouchedFacts ==
    ASSUME NEW N, WellFormed(N)
    PROVE  Touched(N) \subseteq Blocks(N) /\ Touched(N) \subseteq Buffers(N)
<1>1. ASSUME NEW i \in Nodes(N)
      PROVE  Touches(N.nodes[i]) \subseteq Blocks(N) /\ Touches(N.nodes[i]) \subseteq Buffers(N)
  BY TouchedBlocks, ProducedIs
<1> QED BY <1>1 DEF Touched

TableEntry == [arena : Net, first : Nat, last : Nat, cost : Nat, resolved : BOOLEAN]

LEMMA BlockTableFacts ==
    ASSUME NEW d \in Deployments, d.strategy = "arena"
    PROVE  /\ BlockTable(d) \in [DOMAIN BlockTable(d) -> TableEntry]
           /\ \A b \in DOMAIN BlockTable(d) :
                  b = <<b[1], b[2]>> /\ b[1] \in Net /\ b[2] \in Touched(d.nets[b[1]])
           /\ \A w \in Net : \A t \in Touched(d.nets[w]) :
                  LET life == LifetimesOf(d, w)[t]
                      rec == BlockTable(d)[<<w, t>>]
                  IN  /\ <<w, t>> \in DOMAIN BlockTable(d)
                      /\ rec.arena = w /\ rec.first = life.first /\ rec.last = life.last
                      /\ ~ rec.resolved => rec.cost = d.nets[w].size[t]
                      /\ ~ HasAlias(d.nets[w], t) => ~ rec.resolved
<1> DEFINE lives == [w \in Net |-> LifetimesOf(d, w)]
<1>1. BlockTable(d) = [b \in Range(BlockList(d)) |-> BlockOf(d, lives, b)]
  <2>1. {c \in Range(BlockList(d)) : d.strategy = "arena"} = Range(BlockList(d))
    OBVIOUS
  <2> HIDE DEF lives
  <2> QED BY <2>1 DEF BlockTable, lives
<1>2. \A b : b \in Range(BlockList(d)) =>
          b = <<b[1], b[2]>> /\ b[1] \in Net /\ b[2] \in Touched(d.nets[b[1]])
  BY BlockListFacts
<1>3. \A w \in Net : \A t \in Touched(d.nets[w]) : <<w, t>> \in Range(BlockList(d))
  BY BlockListFacts
<1>4. ASSUME NEW w \in Net, NEW t \in Touched(d.nets[w])
      PROVE  LET N == d.nets[w]
                 life == LifetimesOf(d, w)
                 rec == BlockOf(d, lives, <<w, t>>)
             IN  /\ rec \in TableEntry
                 /\ rec.arena = w /\ rec.first = life[t].first /\ rec.last = life[t].last
                 /\ ~ rec.resolved => rec.cost = N.size[t]
                 /\ ~ HasAlias(N, t) => ~ rec.resolved
  <2> DEFINE N == d.nets[w]
             life == LifetimesOf(d, w)
             cost == CostOf(N, life, t)
             resolved == Resolved(N, life, t)
  <2>1. BlockOf(d, lives, <<w, t>>) =
            [arena |-> w, first |-> life[t].first, last |-> life[t].last,
             cost |-> cost, resolved |-> resolved]
    BY DEF BlockOf
  <2>2. WellFormed(N) /\ t \in Blocks(N) /\ t \in Buffers(N)
    BY Deployed, TouchedFacts
  <2>3. life[t] \in [first : 0..Len(N.nodes), last : 0..Len(N.nodes)]
    BY <2>2, Deployed, RootLifetimes
  <2>4. cost \in Nat /\ (~ resolved => cost = N.size[t])
    <3>1. N.size[t] \in Nat
      BY <2>2, NetworkParts
    <3> HIDE DEF life, N
    <3> QED BY <3>1 DEF CostOf, Resolved
  <2>5. resolved \in BOOLEAN /\ (~ HasAlias(N, t) => ~ resolved)
    BY DEF Resolved
  <2>7. life[t].first \in Nat /\ life[t].last \in Nat
    BY <2>2, <2>3, NetworkParts
  <2> HIDE DEF N, life, cost, resolved
  <2>8. [arena |-> w, first |-> life[t].first, last |-> life[t].last,
             cost |-> cost, resolved |-> resolved] \in TableEntry
    BY <2>4, <2>5, <2>7 DEF TableEntry
  <2> QED BY <2>1, <2>4, <2>5, <2>8 DEF N, life
<1> HIDE DEF lives
<1>5. ASSUME NEW b \in Range(BlockList(d)) PROVE BlockOf(d, lives, b) \in TableEntry
  BY <1>2, <1>4
<1>6. DOMAIN BlockTable(d) = Range(BlockList(d))
      /\ \A b \in Range(BlockList(d)) : BlockTable(d)[b] = BlockOf(d, lives, b)
  BY <1>1
<1> QED BY <1>1, <1>2, <1>3, <1>4, <1>5, <1>6

-----------------------------------------------------------------------------
(* Addresses.  The tensors of an arena have the addresses of their roots.  *)

(* The deployments whose buffers lie in an arena that is large enough. *)
InArena == strategy = "arena" /\ \A b \in placed : height[b] <= Top

Static ==
    /\ deployment \in Deployments
    /\ nets = deployment.nets /\ strategy = deployment.strategy
    /\ block = BlockTable(deployment)

Planned == Static /\ PlacementInv /\ AllPlaced /\ InArena

(* The cells that the plan gives to a tensor. *)
Home(w, t) == {Offset(ArenaAddress(w, t), k) : k \in 0..(nets[w].size[t] - 1)}

(* In a training network the inputs are in use throughout. *)
Kept(w, i, t) ==
    InUse(nets[w], i, t) \/ (Training /\ t \in Range(nets[w].inputs))

LEMMA NetFacts ==
    ASSUME Static, NEW w \in Net
    PROVE  WellFormed(nets[w]) /\ Prepared(deployment, w)
BY Deployed DEF Static

LEMMA RootSpace ==
    ASSUME Planned, NEW w \in Net, NEW r \in Touched(nets[w]), ~ HasAlias(nets[w], r)
    PROVE  LET space == addrSpace[<<w, r>>]
           IN  /\ <<w, r>> \in Block /\ Located(<<w, r>>)
               /\ space.lo \in Nat /\ space.hi \in Nat
               /\ space.lo + nets[w].size[r] <= space.hi /\ space.hi <= Top
<1> DEFINE b == <<w, r>>
           N == nets[w]
<1>1. N = deployment.nets[w] /\ block = BlockTable(deployment) /\ deployment \in Deployments
      /\ deployment.strategy = "arena"
  BY DEF Planned, Static, InArena
<1>2. b \in Block /\ ~ block[b].resolved /\ block[b].cost = N.size[r]
  BY <1>1, BlockTableFacts DEF Block
<1>3. b \in placed /\ Located(b)
  BY <1>2 DEF Planned, AllPlaced, Located
<1>4. addrSpace[b].hi = height[b] /\ addrSpace[b].hi - addrSpace[b].lo >= block[b].cost
  BY <1>2, <1>3 DEF Planned, PlacementInv, EndsAgree, LargeEnough
<1>5. addrSpace[b].lo \in Nat /\ addrSpace[b].hi \in Nat
  BY <1>2 DEF Planned, PlacementInv, PlacementTypeOK
<1>6. height[b] <= Top
  BY <1>3 DEF Planned, InArena
<1>7. N.size[r] \in Nat
  <2>1. WellFormed(N)
    BY NetFacts DEF Planned
  <2> QED BY <2>1, TouchedFacts, NetworkParts
<1> HIDE DEF b, N
<1>8. addrSpace[b].lo + N.size[r] <= addrSpace[b].hi
  BY <1>2, <1>4, <1>5, <1>7
<1> QED BY <1>2, <1>3, <1>4, <1>5, <1>6, <1>8 DEF b, N

LEMMA TouchedRoot ==
    ASSUME NEW N, WellFormed(N), NEW t \in Touched(N)
    PROVE  /\ t \in Buffers(N)
           /\ Dealias(N, t) \in Touched(N) /\ ~ HasAlias(N, Dealias(N, t))
           /\ Dealias(N, Dealias(N, t)) = Dealias(N, t)
           /\ N.size[Dealias(N, t)] = N.size[t]
           /\ N.size[t] \in Nat /\ N.size[t] > 0
<1>1. Touched(N) \subseteq Buffers(N)
  BY TouchedFacts
<1>2. AliasClosed(N, Touched(N))
  <2>1. ASSUME NEW u \in Touched(N), HasAlias(N, u) PROVE AliasOf(N, u) \in Touched(N)
    <3>1. PICK k \in Nodes(N) : AliasOf(N, u) \in Range(N.nodes[k].ins)
      BY <2>1, AliasInNetwork
    <3> QED BY <3>1 DEF Touches, Touched
  <2> QED BY <2>1 DEF AliasClosed
<1>3. Dealias(N, t) \in Touched(N)
  BY <1>1, <1>2, RootStays
<1> QED BY <1>1, <1>3, RootHasNoAlias, RootFacts, NetworkParts

LEMMA KeptTouched ==
    ASSUME Static, NEW w \in Net, NEW i \in Nodes(nets[w]), NEW t, Kept(w, i, t)
    PROVE  t \in Touched(nets[w])
<1>1. WellFormed(nets[w])
  BY NetFacts
<1>2. CASE InUse(nets[w], i, t)
  BY <1>1, <1>2, InUseTouched DEF Touched
<1>3. CASE t \in Range(nets[w].inputs)
  <2>1. Users(nets[w], t) # {}
    BY <1>1, <1>3 DEF WellFormed
  <2> QED BY <2>1 DEF Users, Touches, Touched
<1> QED BY <1>2, <1>3 DEF Kept

(* The steps at which a root lives that is in use. *)
LEMMA KeptLives ==
    ASSUME Static, strategy = "arena",
           NEW w \in Net, NEW i \in Nodes(nets[w]), NEW t, Kept(w, i, t)
    PROVE  LET b == <<w, Dealias(nets[w], t)>>
           IN  /\ block[b].arena = w
               /\ block[b].first \in Nat /\ block[b].last \in Nat
               /\ block[b].first <= i - 1 /\ i - 1 <= block[b].last
<1> DEFINE N == nets[w]
           r == Dealias(N, t)
           life == LifetimesOf(deployment, w)
<1>1. N = deployment.nets[w] /\ block = BlockTable(deployment) /\ deployment \in Deployments
      /\ deployment.strategy = "arena" /\ WellFormed(N)
  BY NetFacts DEF Static
<1>2. t \in Touched(N)
  BY KeptTouched
<1>3. r \in Touched(N) /\ r \in Blocks(N)
  BY <1>1, <1>2, TouchedRoot, TouchedFacts
<1>4. block[<<w, r>>].arena = w /\ block[<<w, r>>].first = life[r].first
      /\ block[<<w, r>>].last = life[r].last
  BY <1>1, <1>3, BlockTableFacts
<1>5. life[r] \in [first : 0..Len(N.nodes), last : 0..Len(N.nodes)]
  BY <1>1, <1>3, Deployed, RootLifetimes
<1>6. Len(N.nodes) \in Nat /\ Nodes(N) = 1..Len(N.nodes)
  BY <1>1, NetworkParts
<1>7. life[r].first <= i - 1 /\ i - 1 <= life[r].last
  <2>1. CASE InUse(N, i, t)
    BY <1>1, <2>1, Deployed, RootLifetimes
  <2>2. CASE Training /\ t \in Range(N.inputs)
    <3>1. r = t
      <4>1. ~ HasAlias(N, t)
        BY <1>1, <2>2, AliasInNetwork, ProducedIs
      <4> QED BY <1>1, <1>2, <4>1, TouchedRoot, RootFacts
    <3>2. life[t].first = 0 /\ life[t].last = Len(N.nodes)
      BY <1>1, <1>3, <2>2, <3>1, Deployed, RootLifetimes DEF Training, IsInput
    <3> QED BY <1>6, <3>1, <3>2
  <2> QED BY <2>1, <2>2 DEF Kept
<1>8. life[r].first \in Nat /\ life[r].last \in Nat
  BY <1>5, <1>6
<1> QED BY <1>4, <1>7, <1>8

Lo(w, t) == addrSpace[<<w, Dealias(nets[w], t)>>].lo

LEMMA OffsetIs ==
    ASSUME NEW w, NEW a, NEW k
    PROVE  Offset([area |-> w, at |-> a], k) = [area |-> w, at |-> a + k]
BY DEF Offset

(* Where the cells of a tensor are. *)
LEMMA HomeIs ==
    ASSUME Planned, NEW w \in Net, NEW t \in Touched(nets[w])
    PROVE  /\ Lo(w, t) \in Nat /\ nets[w].size[t] \in Nat /\ nets[w].size[t] > 0
           /\ Lo(w, t) + nets[w].size[t] <= Top
           /\ ArenaAddress(w, t) = [area |-> w, at |-> Lo(w, t)]
           /\ ArenaAddress(w, t) \in Cell
           /\ \A k \in 0..(nets[w].size[t] - 1) :
                  /\ Offset(ArenaAddress(w, t), k) = [area |-> w, at |-> Lo(w, t) + k]
                  /\ Offset(ArenaAddress(w, t), k) \in Cell
           /\ Home(w, t) = {[area |-> w, at |-> Lo(w, t) + k] : k \in 0..(nets[w].size[t] - 1)}
           /\ Home(w, t) \subseteq Cell
<1> DEFINE N == nets[w]
           r == Dealias(N, t)
           n == N.size[t]
<1>1. WellFormed(N)
  BY NetFacts DEF Planned
<1>2. r \in Touched(N) /\ ~ HasAlias(N, r) /\ N.size[r] = n /\ n \in Nat /\ n > 0
  BY <1>1, TouchedRoot
<1>3. Lo(w, t) \in Nat /\ Lo(w, t) + n <= Top
  <2>1. /\ addrSpace[<<w, r>>].lo \in Nat /\ addrSpace[<<w, r>>].hi \in Nat
        /\ addrSpace[<<w, r>>].lo + N.size[r] <= addrSpace[<<w, r>>].hi
        /\ addrSpace[<<w, r>>].hi <= Top
    BY <1>2, RootSpace
  <2>2. Lo(w, t) = addrSpace[<<w, r>>].lo
    BY DEF Lo
  <2> HIDE DEF r, n, N
  <2> QED BY <1>2, <2>1, <2>2, BoundsAssumption
<1>4. ArenaAddress(w, t) = [area |-> w, at |-> Lo(w, t)]
  BY DEF ArenaAddress, Lo
<1>5. \A k \in 0..(n - 1) : Lo(w, t) + k \in 0..(Top - 1)
  <2> HIDE DEF n
  <2> QED BY <1>2, <1>3, BoundsAssumption
<1>6. \A k \in 0..(n - 1) : Offset(ArenaAddress(w, t), k) = [area |-> w, at |-> Lo(w, t) + k]
  BY <1>4, OffsetIs
<1>7. \A a \in 0..(Top - 1) : [area |-> w, at |-> a] \in Cell
  BY DEF Cell
<1>8. Lo(w, t) \in 0..(Top - 1)
  <2> HIDE DEF n
  <2> QED BY <1>2, <1>3, BoundsAssumption
<1>9. Home(w, t) = {[area |-> w, at |-> Lo(w, t) + k] : k \in 0..(n - 1)}
  BY <1>6 DEF Home
<1> QED BY <1>2, <1>3, <1>4, <1>5, <1>6, <1>7, <1>8, <1>9

(* Tensors in use at a time share their cells or keep apart. *)
LEMMA HomesApart ==
    ASSUME Planned, NEW w \in Net, NEW i \in Nodes(nets[w]), NEW t, NEW u,
           Kept(w, i, t), Kept(w, i, u), Dealias(nets[w], t) # Dealias(nets[w], u)
    PROVE  Home(w, t) \cap Home(w, u) = {}
<1> DEFINE N == nets[w]
           a == <<w, Dealias(N, t)>>
           b == <<w, Dealias(N, u)>>
<1>1. WellFormed(N) /\ Static /\ strategy = "arena"
  BY NetFacts DEF Planned, InArena
<1>2. t \in Touched(N) /\ u \in Touched(N)
  BY <1>1, KeptTouched
<1>3. /\ Dealias(N, t) \in Touched(N) /\ ~ HasAlias(N, Dealias(N, t)) /\ N.size[Dealias(N, t)] = N.size[t]
      /\ Dealias(N, u) \in Touched(N) /\ ~ HasAlias(N, Dealias(N, u)) /\ N.size[Dealias(N, u)] = N.size[u]
  BY <1>1, <1>2, TouchedRoot
<1>4. /\ a \in Block /\ b \in Block /\ Located(a) /\ Located(b)
      /\ addrSpace[a].hi \in Nat /\ addrSpace[b].hi \in Nat
      /\ Lo(w, t) + N.size[t] <= addrSpace[a].hi
      /\ Lo(w, u) + N.size[u] <= addrSpace[b].hi
  BY <1>3, RootSpace DEF Lo
<1>5. i - 1 \in Nat
  BY <1>1, NetworkParts
<1>6. /\ block[a].arena = w /\ block[b].arena = w
      /\ block[a].first \in Nat /\ block[a].last \in Nat
      /\ block[b].first \in Nat /\ block[b].last \in Nat
      /\ block[a].first <= i - 1 /\ i - 1 <= block[a].last
      /\ block[b].first <= i - 1 /\ i - 1 <= block[b].last
  BY <1>1, KeptLives
<1>7. Interferes(a, b)
  <2> HIDE DEF a, b, N
  <2> QED BY <1>5, <1>6 DEF Interferes
<1>8. a # b
  OBVIOUS
<1>9. addrSpace[a].hi <= addrSpace[b].lo \/ addrSpace[b].hi <= addrSpace[a].lo
  BY <1>4, <1>7, <1>8 DEF Planned, PlacementInv, NoCollision
<1>10. addrSpace[a].lo = Lo(w, t) /\ addrSpace[b].lo = Lo(w, u)
  BY DEF Lo
<1>11. /\ Lo(w, t) \in Nat /\ N.size[t] \in Nat /\ Lo(w, u) \in Nat /\ N.size[u] \in Nat
       /\ Home(w, t) = {[area |-> w, at |-> Lo(w, t) + k] : k \in 0..(N.size[t] - 1)}
       /\ Home(w, u) = {[area |-> w, at |-> Lo(w, u) + k] : k \in 0..(N.size[u] - 1)}
  BY <1>2, HomeIs
<1> DEFINE m == N.size[t]
           n == N.size[u]
           p == Lo(w, t)
           q == Lo(w, u)
<1>12. /\ p \in Nat /\ q \in Nat /\ m \in Nat /\ n \in Nat
       /\ p + m <= q \/ q + n <= p
  <2>1. /\ p + m <= addrSpace[a].hi /\ q + n <= addrSpace[b].hi
        /\ addrSpace[a].hi <= q \/ addrSpace[b].hi <= p
    BY <1>4, <1>9, <1>10
  <2>2. p \in Nat /\ q \in Nat /\ m \in Nat /\ n \in Nat
    BY <1>11
  <2> HIDE DEF a, b, p, q, m, n
  <2> QED BY <1>4, <2>1, <2>2
<1>13. ASSUME NEW j \in 0..(m - 1), NEW k \in 0..(n - 1) PROVE p + j # q + k
  <2> HIDE DEF p, q, m, n
  <2> QED BY <1>12
<1>14. ASSUME NEW c, c \in Home(w, t), c \in Home(w, u) PROVE FALSE
  <2>1. PICK j \in 0..(m - 1) : c = [area |-> w, at |-> p + j]
    BY <1>11, <1>14
  <2>2. PICK k \in 0..(n - 1) : c = [area |-> w, at |-> q + k]
    BY <1>11, <1>14
  <2> HIDE DEF p, q, m, n
  <2>3. c.at = p + j /\ c.at = q + k
    BY <2>1, <2>2
  <2> QED BY <1>13, <2>3
<1> QED BY <1>14

LEMMA HomesAlike ==
    ASSUME Planned, NEW w \in Net, NEW t \in Touched(nets[w]), NEW u \in Touched(nets[w]),
           Dealias(nets[w], t) = Dealias(nets[w], u)
    PROVE  /\ ArenaAddress(w, t) = ArenaAddress(w, u) /\ Home(w, t) = Home(w, u)
           /\ nets[w].size[t] = nets[w].size[u]
<1>1. nets[w].size[t] = nets[w].size[u]
  BY NetFacts, TouchedRoot DEF Planned
<1> QED BY <1>1 DEF ArenaAddress, Home

(* The arenas of the two networks are apart. *)
LEMMA ArenasApart ==
    ASSUME Planned, NEW w \in Net, NEW v \in Net, w # v,
           NEW t \in Touched(nets[w]), NEW u \in Touched(nets[v])
    PROVE  Home(w, t) \cap Home(v, u) = {}
<1>1. \A c \in Home(w, t) : c.area = w
  BY HomeIs
<1>2. \A c \in Home(v, u) : c.area = v
  BY HomeIs
<1> QED BY <1>1, <1>2

-----------------------------------------------------------------------------
(* The plan of a deployment. *)

(* What is deployed stays, and only Place touches the plan. *)
LEMMA HarnessFrame ==
    ASSUME HarnessStep
    PROVE  deployment' = deployment /\ strategy' = strategy
<1>1. CASE InitNet
  BY <1>1 DEF InitNet, InitNetwork
<1>2. CASE ZeroGrads
  BY <1>2 DEF ZeroGrads
<1>3. CASE InitOpt
  BY <1>3 DEF InitOpt, InitNetwork
<1>4. CASE InitWeights
  BY <1>4 DEF InitWeights
<1>5. CASE LoadData
  BY <1>5 DEF LoadData
<1>6. CASE RunNet
  BY <1>6 DEF RunNet, Execute, harnessVars
<1>7. CASE StoreLoss
  BY <1>7 DEF StoreLoss, runtimeVars
<1>8. CASE CopyIn
  BY <1>8 DEF CopyIn
<1>9. CASE RunOpt
  BY <1>9 DEF RunOpt, Execute, harnessVars
<1>10. CASE CopyOut
  BY <1>10 DEF CopyOut
<1> QED BY <1>1, <1>2, <1>3, <1>4, <1>5, <1>6, <1>7, <1>8, <1>9, <1>10 DEF HarnessStep

LEMMA StepFrame ==
    ASSUME [Next]_vars
    PROVE  /\ deployment' = deployment /\ strategy' = strategy
           /\ nets' = nets /\ block' = block
           /\ \/ placementVars' = placementVars
              \/ \E b \in Block : PlaceBlock(b)
<1>1. CASE Generate
  <2>1. nets' = nets
    BY <1>1 DEF Generate, GenerateNode
  <2> QED BY <1>1, <2>1 DEF Generate, placementVars, runtimeVars
<1>2. CASE Place
  <2>1. CASE UNCHANGED placementVars
    BY <1>2, <2>1 DEF Place, placementVars, runtimeVars
  <2>2. CASE PlaceBlock(order[Cardinality(placed) + 1])
    <3>1. \E b \in Block : PlaceBlock(b)
      BY <2>2 DEF PlaceBlock
    <3>2. block' = block
      BY <2>2 DEF PlaceBlock
    <3> QED BY <1>2, <3>1, <3>2 DEF Place, runtimeVars
  <2> QED BY <1>2, <2>1, <2>2 DEF Place
<1>3. CASE HarnessStep /\ UNCHANGED <<nets, generationVars, placementVars>>
  BY <1>3, HarnessFrame DEF placementVars
<1>4. CASE UNCHANGED vars
  BY <1>4 DEF vars, placementVars, harnessVars, runtimeVars
<1> QED BY <1>1, <1>2, <1>3, <1>4 DEF Next, Done

PlanInv == Static /\ PlacementInv

LEMMA PlanInit ==
    ASSUME Init
    PROVE  PlanInv
<1>1. deployment \in Deployments /\ nets = deployment.nets /\ strategy = deployment.strategy
  BY DEF Init
<1>2. block = BlockTable(deployment)
  BY <1>1 DEF Init, BlockTable
<1>3. block \in [Block -> BlockRecord]
  <2>1. CASE strategy = "arena"
    <3>1. block \in [Block -> TableEntry]
      BY <1>1, <1>2, <2>1, BlockTableFacts DEF Block
    <3>2. \A b \in Block : block[b] \in BlockRecord
      BY <3>1 DEF TableEntry, BlockRecord, Arena
    <3> QED BY <3>1, <3>2
  <2>2. CASE strategy # "arena"
    <3>1. Block = {}
      BY <1>1, <1>2, <2>2 DEF Block, BlockTable
    <3>2. block = [b \in Block |-> block[b]]
      BY <1>2 DEF Block, BlockTable
    <3> QED BY <3>1, <3>2
  <2> QED BY <2>1, <2>2
<1>4. PlacementInv
  BY <1>3 DEF Init, PlacementInit, PlacementInv, PlacementTypeOK, EndsAgree, NoCollision,
         LargeEnough, Located, NoSpace
<1> QED BY <1>1, <1>2, <1>4 DEF PlanInv, Static

LEMMA PlanStep ==
    ASSUME PlanInv, [Next]_vars
    PROVE  PlanInv'
<1>1. Static'
  BY StepFrame DEF PlanInv, Static
<1>2. CASE placementVars' = placementVars
  <2>1. PlacementInv'
    BY <1>2 DEF placementVars, PlanInv, PlacementInv, PlacementTypeOK, EndsAgree, NoCollision,
                LargeEnough, Located, Block, Interferes, BlockRecord, Arena
  <2> QED BY <1>1, <2>1 DEF PlanInv
<1>3. CASE \E b \in Block : PlaceBlock(b)
  BY <1>1, <1>3, PlaceBlockInv DEF PlanInv
<1> QED BY <1>2, <1>3, StepFrame

(* The plan of every network that can be deployed, whatever its graph, and *)
(* whatever order the scheduler takes its blocks in: blocks of tensors     *)
(* that live at the same step keep apart, and each has the room its tensor *)
(* needs.                                                                  *)
THEOREM DeploymentPlanSound == Spec => []PlanSound
<1>1. PlanInv => PlanSound
  BY DEF PlanInv, PlacementInv, PlanSound
<1> QED BY <1>1, PlanInit, PlanStep, PTL DEF Spec

-----------------------------------------------------------------------------
(* The program that is emitted. *)

(* The buffers that are neither inputs nor outputs of the network. *)
Locals(N) ==
    {t \in Touched(N) : ~ IsGlobal(N, t)} \cup UNION {Range(N.nodes[i].scratch) : i \in Nodes(N)}

Instr(N) == [do : {"alloc", "free"}, arg : Locals(N)] \cup [do : {"run"}, arg : Nodes(N)]

RunOf(i) == [do |-> "run", arg |-> i]
AllocOf(t) == [do |-> "alloc", arg |-> t]

(* Every node up to n is run, in order, and after the allocation of its    *)
(* output.                                                                 *)
RunsInOrder(N, p, n) ==
    /\ p \in Seq(Instr(N))
    /\ \A i \in 1..n : \E k \in 1..Len(p) : p[k] = RunOf(i)
    /\ \A k \in 1..Len(p) : p[k].do = "run" => p[k] = RunOf(p[k].arg) /\ p[k].arg \in 1..n
    /\ \A j, k \in 1..Len(p) :
           j < k /\ p[j].do = "run" /\ p[k].do = "run" => p[j].arg < p[k].arg
    /\ \A k \in 1..Len(p) : \A i \in 1..n :
           p[k] = RunOf(i) /\ N.nodes[i].op # "reshape" /\ ~ IsGlobal(N, N.nodes[i].out)
           => \E j \in 1..(k - 1) : p[j] = AllocOf(N.nodes[i].out)

(* What is emitted for one node. *)
Emitted(N, i, c) ==
    /\ c \in Seq(Instr(N))
    /\ \E m \in 1..Len(c) :
          /\ c[m] = RunOf(i)
          /\ \A k \in 1..Len(c) : k # m => c[k].do # "run"
          /\ N.nodes[i].op # "reshape" /\ ~ IsGlobal(N, N.nodes[i].out)
             => \E j \in 1..(m - 1) : c[j] = AllocOf(N.nodes[i].out)

LEMMA RunsAppended ==
    ASSUME NEW N, WellFormed(N), NEW n \in Nat, n + 1 \in Nodes(N), NEW p, NEW c,
           RunsInOrder(N, p, n), Emitted(N, n + 1, c)
    PROVE  RunsInOrder(N, p \o c, n + 1)
<1> DEFINE X == Instr(N)
           l == Len(p)
           h == Len(c)
           q == p \o c
           i == n + 1
<1>1. /\ l \in Nat /\ h \in Nat /\ q \in Seq(X) /\ Len(q) = l + h
      /\ \A k \in 1..(l + h) : q[k] = IF k <= l THEN p[k] ELSE c[k - l]
  <2>1. p \in Seq(X) /\ c \in Seq(X)
    BY DEF RunsInOrder, Emitted
  <2> HIDE DEF X
  <2> QED BY <2>1, ConcatProperties
<1>2. PICK m \in 1..h :
          /\ c[m] = RunOf(i)
          /\ \A k \in 1..h : k # m => c[k].do # "run"
          /\ N.nodes[i].op # "reshape" /\ ~ IsGlobal(N, N.nodes[i].out)
             => \E j \in 1..(m - 1) : c[j] = AllocOf(N.nodes[i].out)
  BY DEF Emitted
<1>3. \A k \in 1..l : k \in 1..(l + h) /\ q[k] = p[k]
  BY <1>1
<1>4. \A k \in 1..h : l + k \in 1..(l + h) /\ q[l + k] = c[k]
  <2> TAKE k \in 1..h
  <2>1. l + k \in 1..(l + h) /\ ~ (l + k <= l) /\ l + k - l = k
    BY <1>1
  <2> QED BY <1>1, <2>1
<1>5. ASSUME NEW k \in 1..(l + h) PROVE k \in 1..l \/ \E j \in 1..h : k = l + j
  <2>1. k > l => k - l \in 1..h /\ k = l + (k - l)
    BY <1>1
  <2>2. k <= l => k \in 1..l
    BY <1>1
  <2> QED BY <1>1, <2>1, <2>2
<1>6. /\ \A j \in 1..n : \E k \in 1..l : p[k] = RunOf(j)
      /\ \A k \in 1..l : p[k].do = "run" => p[k] = RunOf(p[k].arg) /\ p[k].arg \in 1..n
      /\ \A j, k \in 1..l :
             j < k /\ p[j].do = "run" /\ p[k].do = "run" => p[j].arg < p[k].arg
      /\ \A k \in 1..l : \A a \in 1..n :
             p[k] = RunOf(a) /\ N.nodes[a].op # "reshape" /\ ~ IsGlobal(N, N.nodes[a].out)
             => \E j \in 1..(k - 1) : p[j] = AllocOf(N.nodes[a].out)
  BY DEF RunsInOrder
<1>7. \A a : RunOf(a).do = "run" /\ RunOf(a).arg = a
  BY DEF RunOf
<1> HIDE DEF q, l, h, X
\* a run of the longer program is one of p or the new one
<1>8. ASSUME NEW k \in 1..(l + h), q[k].do = "run"
      PROVE  \/ k \in 1..l /\ q[k] = p[k] /\ p[k] = RunOf(p[k].arg) /\ p[k].arg \in 1..n
             \/ k = l + m /\ q[k] = RunOf(i)
  <2>1. CASE k \in 1..l
    BY <1>3, <1>6, <1>8, <2>1
  <2>2. ASSUME NEW j \in 1..h, k = l + j PROVE k = l + m /\ q[k] = RunOf(i)
    <3>1. q[k] = c[j]
      BY <1>4, <2>2
    <3>2. j = m
      BY <1>2, <1>8, <3>1
    <3> QED BY <1>2, <2>2, <3>1, <3>2
  <2> QED BY <1>5, <2>1, <2>2
<1>9. 1..i = (1..n) \cup {i} /\ i \in 1..i /\ i \in Nat /\ 1..n \subseteq 1..i
      /\ \A a \in 1..n : a < i /\ a # i
  OBVIOUS
<1> HIDE DEF i
<1>10. \A a \in 1..i : \E k \in 1..(l + h) : q[k] = RunOf(a)
  <2>1. \A a \in 1..n : \E k \in 1..(l + h) : q[k] = RunOf(a)
    BY <1>3, <1>6
  <2>2. \E k \in 1..(l + h) : q[k] = RunOf(i)
    BY <1>2, <1>4
  <2> QED BY <1>9, <2>1, <2>2
<1>11. \A k \in 1..(l + h) : q[k].do = "run" => q[k] = RunOf(q[k].arg) /\ q[k].arg \in 1..i
  BY <1>7, <1>8, <1>9
<1>12. ASSUME NEW j \in 1..(l + h), NEW k \in 1..(l + h),
              j < k, q[j].do = "run", q[k].do = "run"
       PROVE  q[j].arg < q[k].arg
  <2>1. CASE k \in 1..l
    <3>1. j \in 1..l
      BY <1>1, <1>12, <2>1
    <3> QED BY <1>3, <1>6, <1>12, <2>1, <3>1
  <2>2. CASE k \notin 1..l
    <3>1. k = l + m /\ q[k] = RunOf(i)
      BY <1>8, <1>12, <2>2
    <3>2. j \in 1..l /\ q[j] = p[j] /\ p[j].arg \in 1..n
      BY <1>1, <1>8, <1>12, <3>1
    <3> QED BY <1>7, <1>9, <3>1, <3>2
  <2> QED BY <2>1, <2>2
<1>13. ASSUME NEW k \in 1..(l + h), NEW a \in 1..i,
              q[k] = RunOf(a), N.nodes[a].op # "reshape", ~ IsGlobal(N, N.nodes[a].out)
       PROVE  \E j \in 1..(k - 1) : q[j] = AllocOf(N.nodes[a].out)
  <2>1. q[k].do = "run" /\ q[k].arg = a
    BY <1>7, <1>13
  <2>2. CASE k \in 1..l /\ q[k] = p[k] /\ p[k].arg \in 1..n
    <3>1. a \in 1..n
      BY <2>1, <2>2
    <3>2. PICK j \in 1..(k - 1) : p[j] = AllocOf(N.nodes[a].out)
      BY <1>6, <1>13, <2>2, <3>1
    <3>3. j \in 1..l
      BY <1>1, <2>2
    <3> QED BY <1>3, <3>2, <3>3
  <2>3. CASE k = l + m /\ q[k] = RunOf(i)
    <3>1. a = i
      BY <1>7, <2>1, <2>3
    <3>2. PICK j \in 1..(m - 1) : c[j] = AllocOf(N.nodes[i].out)
      BY <1>2, <1>13, <3>1
    <3>3. j \in 1..h /\ l + j \in 1..(k - 1)
      BY <1>1, <2>3
    <3> QED BY <1>4, <3>1, <3>2, <3>3
  <2> QED BY <1>8, <2>1, <2>2, <2>3
<1> QED BY <1>1, <1>10, <1>11, <1>12, <1>13 DEF RunsInOrder, q, i, X

LEMMA ConcatParts ==
    ASSUME NEW X, NEW s \in Seq(X), NEW u \in Seq(X)
    PROVE  /\ s \o u \in Seq(X)
           /\ Len(s) \in Nat /\ Len(u) \in Nat /\ Len(s \o u) = Len(s) + Len(u)
           /\ \A k \in 1..(Len(s) + Len(u)) :
                  (s \o u)[k] = IF k <= Len(s) THEN s[k] ELSE u[k - Len(s)]
BY ConcatProperties

LEMMA SingleFacts ==
    ASSUME NEW X, NEW x \in X
    PROVE  /\ <<x>> \in Seq(X) /\ Len(<<x>>) = 1 /\ <<x>>[1] = x /\ DOMAIN <<x>> = 1..1
           /\ Range(<<x>>) = {x} /\ <<>> \in Seq(X) /\ Range(<<>>) = {}
<1>1. 1..1 = {1}
  OBVIOUS
<1> QED BY <1>1 DEF Range

LEMMA RangeSeq ==
    ASSUME NEW X, NEW s \in Seq(X), NEW Y, Range(s) \subseteq Y
    PROVE  s \in Seq(Y)
<1>1. Len(s) \in Nat /\ DOMAIN s = 1..Len(s) /\ s = [k \in 1..Len(s) |-> s[k]]
  OBVIOUS
<1>2. \A k \in 1..Len(s) : s[k] \in Y
  BY <1>1 DEF Range
<1> QED BY <1>1, <1>2

LEMMA InstructionFacts ==
    ASSUME NEW N, NEW s \in Seq(Locals(N)), NEW what \in {"alloc", "free"}
    PROVE  /\ Instruction(what, s) \in Seq(Instr(N))
           /\ Len(Instruction(what, s)) = Len(s)
           /\ \A k \in 1..Len(s) :
                  /\ Instruction(what, s)[k] = [do |-> what, arg |-> s[k]]
                  /\ Instruction(what, s)[k].do = what
<1> DEFINE q == Instruction(what, s)
           n == Len(s)
<1>1. n \in Nat /\ DOMAIN s = 1..n /\ \A k \in 1..n : s[k] \in Locals(N)
  OBVIOUS
<1>2. \A k \in 1..n : q[k] = [do |-> what, arg |-> s[k]] /\ q[k].do = what /\ q[k] \in Instr(N)
  BY <1>1 DEF Instruction, Instr
<1>3. q = [k \in 1..n |-> q[k]]
  BY <1>1 DEF Instruction
<1> HIDE DEF q, n
<1>4. q \in Seq(Instr(N)) /\ Len(q) = n
  BY <1>1, <1>2, <1>3
<1> QED BY <1>2, <1>4 DEF q, n

(* Every tensor that a node reads has a first place among its inputs. *)
LEMMA FirstReference ==
    ASSUME NEW X, NEW s \in Seq(X)
    PROVE  /\ References(s) \subseteq DOMAIN s
           /\ \A t \in Range(s) : \E k \in References(s) : s[k] = t
<1>1. References(s) \subseteq DOMAIN s
  BY DEF References
<1>2. ASSUME NEW t \in Range(s) PROVE \E k \in References(s) : s[k] = t
  <2> DEFINE at == {k \in DOMAIN s : s[k] = t}
  <2>1. at # {} /\ at \subseteq Nat /\ DOMAIN s = 1..Len(s) /\ Len(s) \in Nat
    BY DEF Range
  <2> HIDE DEF at
  <2>2. PICK k \in at : \A j \in at : k <= j
    BY <2>1, NatMin
  <2>3. ASSUME NEW j \in 1..(k - 1) PROVE s[j] # s[k]
    BY <2>1, <2>2 DEF at
  <2>4. k \in DOMAIN s /\ s[k] = t
    BY <2>2 DEF at
  <2> QED BY <2>3, <2>4 DEF References
<1> QED BY <1>1, <1>2

(* The buffers of a node. *)
LEMMA BornDying ==
    ASSUME NEW N, WellFormed(N), NEW i \in Nodes(N)
    PROVE  LET node == N.nodes[i]
               dies == {t \in Range(node.ins) : ~ IsGlobal(N, t) /\ LastUser(N, t) = i}
           IN  /\ Born(N, i) \in Seq(Locals(N))
               /\ Range(Born(N, i)) = Range(node.scratch)
                      \cup (IF IsGlobal(N, node.out) THEN {} ELSE {node.out})
               /\ ~ IsGlobal(N, node.out) => 1 \in 1..Len(Born(N, i)) /\ Born(N, i)[1] = node.out
               /\ Dying(N, i) \in Seq(Locals(N))
               /\ Range(Dying(N, i)) = dies \cup Range(node.scratch)
<1> DEFINE node == N.nodes[i]
           X == Buffers(N)
           own == IF IsGlobal(N, node.out) THEN <<>> ELSE <<node.out>>
<1>1. node.out \in X /\ node.scratch \in Seq(X) /\ node.ins \in Seq(X)
  BY NetworkParts
<1> HIDE DEF X
<1>2. own \in Seq(X) /\ Range(own) = IF IsGlobal(N, node.out) THEN {} ELSE {node.out}
  BY <1>1, SingleFacts
<1>3. Born(N, i) = own \o node.scratch
  BY DEF Born
<1>4. Born(N, i) \in Seq(X) /\ Range(Born(N, i)) = Range(own) \cup Range(node.scratch)
  <2> HIDE DEF own, node
  <2> QED BY <1>1, <1>2, <1>3, ConcatRange DEF node
<1>5. ASSUME ~ IsGlobal(N, node.out) PROVE 1 \in 1..Len(Born(N, i)) /\ Born(N, i)[1] = node.out
  <2>1. own = <<node.out>>
    BY <1>5
  <2>2. Len(own) = 1 /\ own[1] = node.out
    BY <2>1
  <2> HIDE DEF own, node
  <2>3. /\ Len(own \o node.scratch) = 1 + Len(node.scratch) /\ Len(node.scratch) \in Nat
        /\ (own \o node.scratch)[1] = own[1]
    <3> DEFINE u == node.scratch
    <3>1. own \in Seq(X) /\ u \in Seq(X)
      BY <1>1, <1>2
    <3> HIDE DEF u
    <3>4. /\ Len(u) \in Nat /\ Len(own \o u) = Len(own) + Len(u)
          /\ \A k \in 1..(Len(own) + Len(u)) :
                 (own \o u)[k] = IF k <= Len(own) THEN own[k] ELSE u[k - Len(own)]
      BY <3>1, ConcatParts
    <3>2. /\ Len(u) \in Nat /\ Len(own \o u) = 1 + Len(u)
          /\ \A k \in 1..(1 + Len(u)) : (own \o u)[k] = IF k <= 1 THEN own[k] ELSE u[k - 1]
      BY <2>2, <3>4
    <3>3. 1 \in 1..(1 + Len(u)) /\ 1 <= 1
      BY <3>2
    <3> QED BY <3>2, <3>3 DEF u
  <2> QED BY <1>3, <2>2, <2>3
<1> DEFINE ins == node.ins
           keep == {k \in References(ins) : ~ IsGlobal(N, ins[k]) /\ LastUser(N, ins[k]) = i}
           some == Picked(ins, keep)
<1>6. some \in Seq(X) /\ Range(some) = {node.ins[k] : k \in keep \cap DOMAIN node.ins}
  <2>1. ins \in Seq(X)
    BY <1>1
  <2> HIDE DEF keep, ins
  <2> QED BY <2>1, PickedFacts DEF ins
<1>7. Range(some) = {t \in Range(node.ins) : ~ IsGlobal(N, t) /\ LastUser(N, t) = i}
  <2>1. References(ins) \subseteq DOMAIN ins
        /\ \A t \in Range(ins) : \E k \in References(ins) : ins[k] = t
    BY <1>1, FirstReference
  <2> HIDE DEF some, ins
  <2>2. Range(some) = {ins[k] : k \in keep}
    BY <1>6, <2>1 DEF ins
  <2>3. Range(some) \subseteq {t \in Range(ins) : ~ IsGlobal(N, t) /\ LastUser(N, t) = i}
    BY <2>1, <2>2 DEF Range
  <2>4. ASSUME NEW t \in Range(ins), ~ IsGlobal(N, t), LastUser(N, t) = i
        PROVE  t \in Range(some)
    <3>1. PICK k \in References(ins) : ins[k] = t
      BY <2>1
    <3> QED BY <2>2, <2>4, <3>1
  <2> QED BY <2>3, <2>4 DEF ins
<1>8. Dying(N, i) = some \o node.scratch
  BY DEF Dying
<1>9. Dying(N, i) \in Seq(X) /\ Range(Dying(N, i)) = Range(some) \cup Range(node.scratch)
  <2> DEFINE u == node.scratch
  <2>1. u \in Seq(X)
    BY <1>1
  <2> HIDE DEF some, u
  <2>2. some \o u \in Seq(X) /\ Range(some \o u) = Range(some) \cup Range(u)
    BY <1>6, <2>1, ConcatRange
  <2> QED BY <1>8, <2>2 DEF u
<1>10. Range(node.scratch) \subseteq Locals(N) /\ Range(own) \subseteq Locals(N)
       /\ Range(some) \subseteq Locals(N)
  <2>1. node.out \in Touched(N) /\ Range(node.ins) \subseteq Touched(N)
    BY DEF Touched, Touches
  <2> HIDE DEF some
  <2> QED BY <1>2, <1>7, <2>1 DEF Locals
<1>11. Born(N, i) \in Seq(Locals(N)) /\ Dying(N, i) \in Seq(Locals(N))
  <2>1. Range(Born(N, i)) \subseteq Locals(N) /\ Range(Dying(N, i)) \subseteq Locals(N)
    BY <1>4, <1>9, <1>10
  <2> QED BY <1>4, <1>9, <2>1, RangeSeq
<1> QED BY <1>2, <1>4, <1>5, <1>7, <1>9, <1>11 DEF X

LEMMA EmittedNode ==
    ASSUME NEW N, WellFormed(N), NEW i \in Nodes(N), NEW freed \in Seq(Locals(N))
    PROVE  /\ Emitted(N, i, Instruction("alloc", Born(N, i)) \o <<RunOf(i)>> \o Instruction("free", freed))
           /\ N.nodes[i].op = "reshape" => Emitted(N, i, <<RunOf(i)>>)
<1> DEFINE X == Instr(N)
           a == Instruction("alloc", Born(N, i))
           r == <<RunOf(i)>>
           f == Instruction("free", freed)
           la == Len(a)
           lf == Len(f)
           c == a \o r \o f
<1>1. Born(N, i) \in Seq(Locals(N))
  BY BornDying
<1>2. /\ a \in Seq(X) /\ la = Len(Born(N, i))
      /\ \A k \in 1..la : a[k] = [do |-> "alloc", arg |-> Born(N, i)[k]] /\ a[k].do # "run"
  BY <1>1, InstructionFacts
<1>3. f \in Seq(X) /\ \A k \in 1..lf : f[k].do # "run"
  <2>1. f \in Seq(X) /\ lf = Len(freed)
        /\ \A k \in 1..Len(freed) : f[k].do = "free"
    BY InstructionFacts
  <2> HIDE DEF f, X, lf
  <2> QED BY <2>1
<1>4. RunOf(i) \in X
  BY DEF RunOf, Instr
<1> HIDE DEF X
<1>5. r \in Seq(X) /\ Len(r) = 1 /\ r[1] = RunOf(i)
  BY <1>4, SingleFacts
<1> HIDE DEF a, r, f
<1>6. /\ a \o r \in Seq(X) /\ Len(a \o r) = la + 1 /\ la \in Nat
      /\ \A k \in 1..(la + 1) : (a \o r)[k] = IF k <= la THEN a[k] ELSE r[k - la]
  <2>2. a \in Seq(X) /\ r \in Seq(X)
    BY <1>2, <1>5
  <2>1. /\ a \o r \in Seq(X) /\ Len(a \o r) = la + Len(r) /\ la \in Nat
        /\ \A k \in 1..(la + Len(r)) : (a \o r)[k] = IF k <= la THEN a[k] ELSE r[k - la]
    BY <2>2, ConcatParts
  <2> HIDE DEF la
  <2> QED BY <1>5, <2>1
<1> DEFINE b == a \o r
<1> HIDE DEF b
<1>7. /\ b \o f \in Seq(X) /\ Len(b \o f) = la + 1 + lf /\ lf \in Nat
      /\ \A k \in 1..(la + 1 + lf) : (b \o f)[k] = IF k <= la + 1 THEN b[k] ELSE f[k - (la + 1)]
  <2>1. b \in Seq(X) /\ Len(b) = la + 1
    BY <1>6 DEF b
  <2> HIDE DEF la
  <2>2. /\ b \o f \in Seq(X) /\ Len(b \o f) = Len(b) + lf /\ lf \in Nat
        /\ \A k \in 1..(Len(b) + lf) : (b \o f)[k] = IF k <= Len(b) THEN b[k] ELSE f[k - Len(b)]
    BY <1>3, <2>1, ConcatParts
  <2> QED BY <2>1, <2>2
<1>8. c = b \o f
  BY DEF b
<1> HIDE DEF c, la, lf
<1>9. \A k \in 1..la : k \in 1..(la + 1 + lf) /\ c[k] = a[k]
  <2> TAKE k \in 1..la
  <2>1. k \in 1..(la + 1) /\ k \in 1..(la + 1 + lf) /\ k <= la /\ k <= la + 1
    BY <1>6, <1>7
  <2> QED BY <1>6, <1>7, <1>8, <2>1 DEF b
<1>10. la + 1 \in 1..(la + 1 + lf) /\ c[la + 1] = RunOf(i)
  <2>1. la + 1 \in 1..(la + 1) /\ la + 1 \in 1..(la + 1 + lf) /\ ~ (la + 1 <= la)
        /\ la + 1 <= la + 1 /\ la + 1 - la = 1
    BY <1>6, <1>7
  <2> QED BY <1>5, <1>6, <1>7, <1>8, <2>1 DEF b
<1>11. ASSUME NEW k \in 1..(la + 1 + lf), k # la + 1 PROVE c[k].do # "run"
  <2>1. CASE k <= la
    <3>1. k \in 1..la
      BY <1>6, <2>1
    <3>2. c[k] = a[k] /\ a[k].do # "run"
      BY <1>2, <1>9, <3>1
    <3> QED BY <3>2
  <2>2. CASE ~ (k <= la)
    <3>1. ~ (k <= la + 1) /\ k - (la + 1) \in 1..lf
      <4> la \in Nat /\ lf \in Nat
        BY <1>6, <1>7
      <4> QED BY <1>11, <2>2
    <3>2. c[k] = f[k - (la + 1)]
      BY <1>7, <1>8, <3>1
    <3> QED BY <1>3, <3>1, <3>2
  <2> QED BY <2>1, <2>2
<1>12. ASSUME ~ IsGlobal(N, N.nodes[i].out)
       PROVE  1 \in 1..la /\ c[1] = AllocOf(N.nodes[i].out)
  <2>1. 1 \in 1..la /\ Born(N, i)[1] = N.nodes[i].out
    BY <1>2, <1>12, BornDying
  <2>2. c[1] = AllocOf(N.nodes[i].out)
    BY <1>2, <1>6, <1>9, <2>1 DEF AllocOf
  <2> QED BY <2>1, <2>2
<1>13. Emitted(N, i, c)
  <2>1. c \in Seq(X)
    BY <1>7, <1>8
  <2>2. Len(c) = la + 1 + lf
    BY <1>7, <1>8
  <2>3. c \in Seq(Instr(N))
    BY <2>1 DEF X
  <2> DEFINE m == la + 1
  <2>4. m \in 1..Len(c) /\ c[m] = RunOf(i)
    BY <2>2, <1>10
  <2>5. ASSUME NEW k \in 1..Len(c), k # m PROVE c[k].do # "run"
    BY <2>2, <2>5, <1>11
  <2>6. ~ IsGlobal(N, N.nodes[i].out) => \E j \in 1..(m - 1) : c[j] = AllocOf(N.nodes[i].out)
    <3> SUFFICES ASSUME ~ IsGlobal(N, N.nodes[i].out)
                 PROVE  \E j \in 1..(m - 1) : c[j] = AllocOf(N.nodes[i].out)
      OBVIOUS
    <3>1. 1 \in 1..la /\ c[1] = AllocOf(N.nodes[i].out) /\ m - 1 = la
      BY <1>6, <1>12
    <3> QED BY <3>1
  <2> HIDE DEF m
  <2> QED BY <2>3, <2>4, <2>5, <2>6 DEF Emitted
<1>14. N.nodes[i].op = "reshape" => Emitted(N, i, r)
  BY <1>5 DEF Emitted, X
<1> QED BY <1>13, <1>14 DEF c, a, r, f

LEMMA LocalsFacts ==
    ASSUME NEW N, WellFormed(N)
    PROVE  Locals(N) \subseteq Buffers(N)
<1>1. ASSUME NEW i \in Nodes(N) PROVE Range(N.nodes[i].scratch) \subseteq Buffers(N)
  <2>1. N.nodes[i].scratch \in Seq(Buffers(N))
    BY NetworkParts
  <2> QED BY <2>1 DEF Range
<1> QED BY <1>1, TouchedFacts DEF Locals

(* Users come after the producer. *)
LEMMA UsersFacts ==
    ASSUME NEW N, WellFormed(N)
    PROVE  /\ \A t : Users(N, t) # {} =>
                  LastUser(N, t) \in Users(N, t) /\ \A j \in Users(N, t) : j <= LastUser(N, t)
           /\ \A t : Users(N, t) \subseteq Nodes(N)
           /\ \A i \in Nodes(N) : \A j \in Users(N, N.nodes[i].out) : i < j
<1> DEFINE n == Len(N.nodes)
<1>1. n \in Nat /\ Nodes(N) = 1..n
  BY NetworkParts
<1>2. ASSUME NEW t, Users(N, t) # {}
      PROVE  LastUser(N, t) \in Users(N, t) /\ \A j \in Users(N, t) : j <= LastUser(N, t)
  <2>1. Users(N, t) \in SUBSET (1..n)
    BY <1>1 DEF Users
  <2>2. /\ LastUser(N, t) \in Users(N, t)
        /\ \A j \in Users(N, t) : LastUser(N, t) >= j
    <3> HIDE DEF n
    <3> QED BY <1>1, <1>2, <2>1, IntervalMax DEF LastUser
  <2>3. \A j \in Users(N, t) : j \in Nat
    BY <2>1
  <2> HIDE DEF n
  <2> QED BY <2>2, <2>3
<1>3. ASSUME NEW i \in Nodes(N), NEW j \in Users(N, N.nodes[i].out) PROVE i < j
  <2>1. j \in Nodes(N) /\ N.nodes[i].out \in Range(N.nodes[j].ins)
    BY DEF Users
  <2>2. N.nodes[i].out \in Produced(N, j - 1)
    BY <2>1, ProducedIs
  <2>3. PICK k \in 1..(j - 1) : N.nodes[k].out = N.nodes[i].out
    BY <2>2 DEF Produced
  <2>4. k \in Nodes(N) /\ k < j
    BY <1>1, <2>1
  <2>5. k = i
    BY <2>3, <2>4, OneProducer
  <2> QED BY <2>4, <2>5
<1> QED BY <1>2, <1>3 DEF Users

(* The local buffers that later nodes read, or nobody. *)
Alive(N, n) ==
    {t \in Produced(N, n) : ~ IsGlobal(N, t) /\ (Users(N, t) = {} \/ LastUser(N, t) > n)}

LEMMA AliveStep ==
    ASSUME NEW N, WellFormed(N), NEW i \in Nodes(N)
    PROVE  /\ Alive(N, i) = (Alive(N, i - 1) \cup Range(Born(N, i))) \ Range(Dying(N, i))
           /\ Range(Born(N, i)) \cap Alive(N, i - 1) = {}
           /\ Range(Dying(N, i)) \subseteq Alive(N, i - 1) \cup Range(N.nodes[i].scratch)
           /\ Alive(N, i - 1) \subseteq Buffers(N) /\ Range(Born(N, i)) \subseteq Buffers(N)
<1> DEFINE n == Len(N.nodes)
           node == N.nodes[i]
           own == IF IsGlobal(N, node.out) THEN {} ELSE {node.out}
           dies == {t \in Range(node.ins) : ~ IsGlobal(N, t) /\ LastUser(N, t) = i}
<1>1. n \in Nat /\ Nodes(N) = 1..n /\ i - 1 \in 0..n /\ i \in 0..n /\ n \in 0..n /\ i <= n /\ i - 1 <= n
      /\ i \in Nat
  BY NetworkParts
<1>2. /\ Range(Born(N, i)) = Range(node.scratch) \cup own
      /\ Range(Dying(N, i)) = dies \cup Range(node.scratch)
      /\ Born(N, i) \in Seq(Locals(N)) /\ Locals(N) \subseteq Buffers(N)
  BY BornDying, LocalsFacts
<1>3. /\ Produced(N, i) = Produced(N, i - 1) \cup {node.out}
      /\ \A t \in Produced(N, i - 1) : t # node.out
      /\ Range(node.ins) \subseteq Range(N.inputs) \cup Produced(N, i - 1)
      /\ Produced(N, i) \subseteq Produced(N, n) /\ Produced(N, i - 1) \subseteq Produced(N, n)
  BY <1>1, ProducedIs
<1>4. Range(node.scratch) \cap Produced(N, n) = {}
  BY NetworkParts DEF NodeWellFormed
<1>5. \A t : Users(N, t) # {} => LastUser(N, t) \in Users(N, t) /\ LastUser(N, t) \in Nat
  BY <1>1, UsersFacts
<1>6. \A t \in Range(node.ins) : i \in Users(N, t)
  BY DEF Users
<1>7. \A t : i \in Users(N, t) => t \in Range(node.ins) /\ LastUser(N, t) >= i
  BY <1>1, UsersFacts DEF Users
<1>8. \A j \in Users(N, node.out) : i < j
  BY UsersFacts
<1>9. Range(Born(N, i)) \subseteq Buffers(N)
  <2>1. \A k \in DOMAIN Born(N, i) : Born(N, i)[k] \in Locals(N)
    BY <1>2
  <2> QED BY <1>2, <2>1 DEF Range
<1>10. Produced(N, n) \subseteq Buffers(N)
  BY ProducedIs DEF Tensors
<1> HIDE DEF n
<1>11. ASSUME NEW t \in Alive(N, i)
       PROVE  t \in Alive(N, i - 1) \cup own /\ t \notin dies /\ t \notin Range(node.scratch)
  <2>1. t \in Produced(N, i) /\ ~ IsGlobal(N, t) /\ (Users(N, t) = {} \/ LastUser(N, t) > i)
    BY DEF Alive
  <2>2. Users(N, t) = {} \/ LastUser(N, t) > i - 1
    BY <1>1, <1>5, <2>1
  <2>3. t \notin dies
    BY <1>1, <1>5, <1>6, <2>1
  <2> QED BY <1>3, <1>4, <2>1, <2>2, <2>3 DEF Alive
<1>12. ASSUME NEW t \in Alive(N, i - 1), t \notin dies PROVE t \in Alive(N, i)
  <2>1. t \in Produced(N, i - 1) /\ ~ IsGlobal(N, t) /\ (Users(N, t) = {} \/ LastUser(N, t) > i - 1)
    BY DEF Alive
  <2>2. Users(N, t) # {} => LastUser(N, t) # i
    BY <1>5, <1>7, <1>12, <2>1
  <2>3. Users(N, t) = {} \/ LastUser(N, t) > i
    BY <1>1, <1>5, <2>1, <2>2
  <2> QED BY <1>3, <2>1, <2>3 DEF Alive
<1>13. ASSUME NEW t \in own PROVE t \in Alive(N, i)
  <2>1. t = node.out /\ ~ IsGlobal(N, t)
    OBVIOUS
  <2>2. Users(N, t) = {} \/ LastUser(N, t) > i
    BY <1>1, <1>5, <1>8, <2>1
  <2> QED BY <1>3, <2>1, <2>2 DEF Alive
<1>14. \A t \in dies : t \in Alive(N, i - 1)
  <2> TAKE t \in dies
  <2>1. t \in Produced(N, i - 1) /\ ~ IsGlobal(N, t) /\ LastUser(N, t) = i
    BY <1>3 DEF IsGlobal, IsInput
  <2>2. LastUser(N, t) > i - 1
    BY <1>1, <2>1
  <2> QED BY <2>1, <2>2 DEF Alive
<1>15. Alive(N, i - 1) \subseteq Produced(N, i - 1)
  BY DEF Alive
<1>16. Range(Born(N, i)) \cap Alive(N, i - 1) = {}
  BY <1>2, <1>3, <1>4, <1>15
<1>17. Alive(N, i) = (Alive(N, i - 1) \cup Range(Born(N, i))) \ Range(Dying(N, i))
  <2>1. \A t \in own : t \notin dies
    BY <1>6, <1>8, <1>1
  <2>2. \A t \in Alive(N, i) : t \in (Alive(N, i - 1) \cup Range(Born(N, i))) \ Range(Dying(N, i))
    <3> HIDE DEF own, dies
    <3> QED BY <1>2, <1>11
  <2>3. \A t \in (Alive(N, i - 1) \cup Range(Born(N, i))) \ Range(Dying(N, i)) : t \in Alive(N, i)
    <3> HIDE DEF own, dies
    <3> QED BY <1>2, <1>12, <1>13
  <2> QED BY <2>2, <2>3
<1> QED BY <1>2, <1>3, <1>9, <1>10, <1>14, <1>15, <1>16, <1>17

(* What the transformation has done when it has come to a node. *)
GenInv ==
    /\ generated \in [Net -> Nat]
    /\ DOMAIN live = Net /\ DOMAIN program = Net
    /\ live = [w \in Net |-> live[w]] /\ program = [w \in Net |-> program[w]]
    /\ \A w \in Net :
           /\ generated[w] <= Len(nets[w].nodes)
           /\ live[w] = Alive(nets[w], generated[w])
           /\ RunsInOrder(nets[w], program[w], generated[w])

LEMMA GenInit ==
    ASSUME Init
    PROVE  GenInv
<1>1. GenerationInit /\ Static
  BY PlanInit DEF Init, PlanInv
<1>2. ASSUME NEW w \in Net
      PROVE  /\ generated[w] = 0 /\ generated[w] <= Len(nets[w].nodes)
             /\ live[w] = Alive(nets[w], generated[w])
             /\ RunsInOrder(nets[w], program[w], generated[w])
  <2>1. generated[w] = 0 /\ live[w] = {} /\ program[w] = <<>>
    BY <1>1 DEF GenerationInit
  <2>2. WellFormed(nets[w])
    BY <1>1, NetFacts
  <2>3. Alive(nets[w], 0) = {}
    BY <2>2, ProducedIs DEF Alive
  <2>4. RunsInOrder(nets[w], <<>>, 0)
    BY DEF RunsInOrder
  <2>5. Len(nets[w].nodes) \in Nat
    BY <2>2, NetworkParts
  <2> QED BY <2>1, <2>3, <2>4, <2>5
<1> QED BY <1>1, <1>2 DEF GenerationInit, GenInv

LEMMA GenStep ==
    ASSUME Static, GenInv, [Next]_vars
    PROVE  GenInv'
<1>1. nets' = nets
  BY StepFrame
<1>2. CASE UNCHANGED <<generated, live, program>>
  BY <1>1, <1>2 DEF GenInv
<1>3. ASSUME NEW w \in Net, GenerateNode(w) PROVE GenInv'
  <2> DEFINE N == nets[w]
             i == generated[w] + 1
             born == Born(N, i)
             dying == Dying(N, i)
             alive == live[w] \cup Range(born)
             passes == N.nodes[i].op = "reshape"
             freed == IF passes THEN dying ELSE Released(N, dying, alive)
             run == <<[do |-> "run", arg |-> i]>>
             chunk == IF passes THEN run
                      ELSE Instruction("alloc", born) \o run \o Instruction("free", freed)
  <2>1. /\ i \in Nodes(N)
        /\ generated' = [generated EXCEPT ![w] = i]
        /\ live' = [live EXCEPT ![w] = alive \ Range(dying)]
        /\ program' = [program EXCEPT ![w] = @ \o chunk]
    BY <1>3 DEF GenerateNode
  <2>2. WellFormed(N)
    BY NetFacts
  <2>3. generated[w] \in Nat /\ i - 1 = generated[w] /\ i \in Nat /\ i <= Len(N.nodes)
    <3>1. generated[w] \in Nat
      BY DEF GenInv
    <3>2. Len(N.nodes) \in Nat /\ Nodes(N) = 1..Len(N.nodes)
      BY <2>2, NetworkParts
    <3> HIDE DEF N
    <3> QED BY <2>1, <3>1, <3>2
  <2>4. live[w] = Alive(N, generated[w]) /\ RunsInOrder(N, program[w], generated[w])
    BY DEF GenInv
  <2>5. alive \ Range(dying) = Alive(N, i)
    BY <2>1, <2>2, <2>3, <2>4, AliveStep
  <2>6. Emitted(N, i, chunk)
    <3>1. dying \in Seq(Locals(N))
      BY <2>1, <2>2, BornDying
    <3>2. Released(N, dying, alive) \in Seq(Locals(N))
      <4> DEFINE keep == {k \in DOMAIN dying :
                              ~ HasLiveAliases(N, dying[k], alive \ {dying[j] : j \in 1..k})}
      <4>1. Released(N, dying, alive) = Picked(dying, keep)
        BY DEF Released
      <4> HIDE DEF keep, dying
      <4> QED BY <3>1, <4>1, PickedFacts
    <3>3. freed \in Seq(Locals(N))
      BY <3>1, <3>2
    <3>4. run = <<RunOf(i)>>
      BY DEF RunOf
    <3> HIDE DEF i, freed, run, N
    <3>5. Emitted(N, i, Instruction("alloc", Born(N, i)) \o <<RunOf(i)>> \o Instruction("free", freed))
          /\ (N.nodes[i].op = "reshape" => Emitted(N, i, <<RunOf(i)>>))
      BY <2>1, <2>2, <3>3, EmittedNode
    <3> QED BY <3>4, <3>5
  <2>7. RunsInOrder(N, program[w] \o chunk, i)
    <3> HIDE DEF chunk, N
    <3> QED BY <2>1, <2>2, <2>3, <2>4, <2>6, RunsAppended
  <2> HIDE DEF chunk, alive, dying, i, N
  <2>8. ASSUME NEW v \in Net
        PROVE  /\ generated'[v] <= Len(nets[v].nodes)
               /\ live'[v] = Alive(nets[v], generated'[v])
               /\ RunsInOrder(nets[v], program'[v], generated'[v])
    <3>1. CASE v = w
      <4>1. generated'[v] = i /\ live'[v] = alive \ Range(dying) /\ program'[v] = program[w] \o chunk
        BY <2>1, <3>1 DEF GenInv
      <4> QED BY <2>3, <2>5, <2>7, <3>1, <4>1 DEF N
    <3>2. CASE v # w
      <4>1. generated'[v] = generated[v] /\ live'[v] = live[v] /\ program'[v] = program[v]
        BY <2>1, <3>2 DEF GenInv
      <4> QED BY <4>1 DEF GenInv
    <3> QED BY <3>1, <3>2
  <2>9. /\ generated' \in [Net -> Nat]
        /\ DOMAIN live' = Net /\ DOMAIN program' = Net
        /\ live' = [v \in Net |-> live'[v]] /\ program' = [v \in Net |-> program'[v]]
    <3>1. generated' \in [Net -> Nat]
      BY <2>1, <2>3 DEF GenInv
    <3>2. DOMAIN live' = Net /\ live' = [v \in Net |-> live'[v]]
      <4>1. live = [v \in Net |-> live[v]]
        BY DEF GenInv
      <4> QED BY <2>1, <4>1
    <3>3. DOMAIN program' = Net /\ program' = [v \in Net |-> program'[v]]
      <4>1. program = [v \in Net |-> program[v]]
        BY DEF GenInv
      <4> QED BY <2>1, <4>1
    <3> QED BY <3>1, <3>2, <3>3
  <2> QED BY <1>1, <2>8, <2>9 DEF GenInv
<1>4. CASE Generate
  BY <1>2, <1>3, <1>4 DEF Generate, generationVars
<1>5. CASE Place
  BY <1>2, <1>5 DEF Place, generationVars
<1>6. CASE HarnessStep /\ UNCHANGED <<nets, generationVars, placementVars>>
  BY <1>2, <1>6 DEF generationVars
<1>7. CASE UNCHANGED vars
  BY <1>2, <1>7 DEF vars, generationVars
<1> QED BY <1>4, <1>5, <1>6, <1>7 DEF Next, Done

(* What a node allocates is not live, and what it releases is. *)
LEMMA GenerationAllowed ==
    ASSUME Static, GenInv
    PROVE  GenerationAsserts
<1> SUFFICES ASSUME NEW w \in Net, ~ AllGenerated(w)
             PROVE  LET i == generated[w] + 1
                    IN  /\ Range(Born(nets[w], i)) \cap live[w] = {}
                        /\ Range(Dying(nets[w], i)) \subseteq
                               live[w] \cup Range(nets[w].nodes[i].scratch)
  BY DEF GenerationAsserts
<1> DEFINE i == generated[w] + 1
<1>1. WellFormed(nets[w])
  BY NetFacts
<1>2. i \in Nodes(nets[w]) /\ i - 1 = generated[w]
  BY <1>1, NetworkParts DEF GenInv, AllGenerated
<1>3. live[w] = Alive(nets[w], i - 1)
  BY <1>2 DEF GenInv
<1> HIDE DEF i
<1>4. /\ Range(Born(nets[w], i)) \cap Alive(nets[w], i - 1) = {}
      /\ Range(Dying(nets[w], i)) \subseteq
             Alive(nets[w], i - 1) \cup Range(nets[w].nodes[i].scratch)
  BY <1>1, <1>2, AliveStep
<1> QED BY <1>3, <1>4 DEF i

(* What the generator asserts holds for every network and at every node:   *)
(* what it allocates is not live and what it releases is.                  *)
THEOREM GenerationChecked == Spec => []GenerationAsserts
<1>1. Init => PlanInv /\ GenInv
  BY PlanInit, GenInit
<1>2. PlanInv /\ GenInv /\ [Next]_vars => (PlanInv /\ GenInv)'
  BY PlanStep, GenStep DEF PlanInv
<1>3. PlanInv /\ GenInv => GenerationAsserts
  BY GenerationAllowed DEF PlanInv
<1> QED BY <1>1, <1>2, <1>3, PTL DEF Spec

-----------------------------------------------------------------------------
(* The blocks of the tiles. *)

(* A length is rounded up to whole words. *)
LEMMA AlignedFacts ==
    ASSUME NEW n \in Nat
    PROVE  Aligned(n) \in Nat /\ n <= Aligned(n) /\ Aligned(n) % 4 = 0
<1> DEFINE q == (n + 3) \div 4
<1>1. q \in Nat /\ (n + 3) % 4 \in 0..3 /\ n + 3 = (4 * q) + ((n + 3) % 4)
  <2>1. n + 3 \in Nat /\ 4 \in Nat \ {0}
    OBVIOUS
  <2> QED BY <2>1, DivMod
<1>2. Aligned(n) = q * 4
  BY DEF Aligned, byteAlignment
<1> HIDE DEF q
<1> QED BY <1>1, <1>2

(* The tensors alive between two nodes are buffers of the network. *)
LEMMA LiveInBuffers ==
    ASSUME NEW N, WellFormed(N)
    PROVE  \A i \in 0..Len(N.nodes) : LiveAfter(N)[i] \subseteq Buffers(N)
<1> DEFINE n == Len(N.nodes)
           V == SUBSET Buffers(N)
           produced == {N.nodes[i].out : i \in Nodes(N)}
           first == {t \in Range(N.inputs) \cup Range(N.outputs) : Users(N, t) # {}} \ produced
           killed(i, v) == {t \in v : Users(N, t) # {} /\ LastUser(N, t) = i}
           after[i \in 0..Len(N.nodes)] ==
               IF i = 0 THEN first
               ELSE LET before == after[i - 1]
                    IN  (before \cup {N.nodes[i].out}) \ killed(i, before)
           Def(g) == g = [i \in 0..Len(N.nodes) |->
               IF i = 0 THEN first
               ELSE LET before == g[i - 1]
                    IN  (before \cup {N.nodes[i].out}) \ killed(i, before)]
           step == [i \in 1..n |-> [v \in V |-> (v \cup {N.nodes[i].out}) \ killed(i, v)]]
<1>1. n \in Nat /\ Nodes(N) = 1..n /\ \A i \in 1..n : N.nodes[i].out \in Buffers(N)
  BY NetworkParts
<1>2. first \in V
  <2>1. Range(N.inputs) \subseteq Buffers(N) /\ Range(N.outputs) \subseteq Produced(N, n)
    BY NetworkParts DEF WellFormed
  <2>2. Produced(N, n) \subseteq Buffers(N)
    BY ProducedIs DEF Tensors
  <2> QED BY <2>1, <2>2
<1>3. step \in Steps(n, V)
  <2>1. ASSUME NEW i \in 1..n, NEW v \in V PROVE (v \cup {N.nodes[i].out}) \ killed(i, v) \in V
    BY <1>1
  <2> HIDE DEF V, n, killed
  <2> QED BY <2>1 DEF Steps
<1>4. PICK f : Iterates(f, n, V, first, step)
  <2> HIDE DEF n, V, first, step
  <2> QED BY <1>1, <1>2, <1>3, Recursion
<1>5. f \in [0..n -> V] /\ f[0] = first /\ \A i \in 1..n : f[i] = step[i][f[i - 1]]
  <2> HIDE DEF n, V, first, step
  <2> QED BY <1>4 DEF Iterates
<1>6. \A i \in 1..n : f[i] = (f[i - 1] \cup {N.nodes[i].out}) \ killed(i, f[i - 1])
  <2> TAKE i \in 1..n
  <2>1. i - 1 \in 0..n
    BY <1>1
  <2>2. f[i - 1] \in V
    <3> HIDE DEF n, V
    <3> QED BY <1>5, <2>1
  <2>3. f[i] = step[i][f[i - 1]]
    BY <1>5
  <2> HIDE DEF V, killed
  <2> QED BY <2>2, <2>3
<1>7. Def(f)
  <2>1. \A i \in 0..Len(N.nodes) : i = 0 \/ i \in 1..n
    BY <1>1
  <2>2. DOMAIN f = 0..Len(N.nodes) /\ f = [i \in 0..Len(N.nodes) |-> f[i]]
    <3> HIDE DEF V, first
    <3> QED BY <1>5
  <2> HIDE DEF killed, first, V, step, produced
  <2> QED BY <1>5, <1>6, <2>1, <2>2
<1>8. Def(after)
  <2> after = CHOOSE g : Def(g)
    OBVIOUS
  <2> HIDE DEF after, Def
  <2> QED BY <1>7
<1>9. LiveAfter(N) = after
  BY DEF LiveAfter
<1> HIDE DEF after
<1> DEFINE P == {k \in Nat : k <= n => after[k] \in V}
<1>10. 0 \in P
  BY <1>1, <1>2, <1>8
<1>11. ASSUME NEW k \in P PROVE k + 1 \in P
  <2>1. CASE k + 1 <= n
    <3>1. k \in Nat /\ k <= n /\ k + 1 \in 1..n /\ k + 1 \in 0..Len(N.nodes) /\ k + 1 # 0 /\ (k + 1) - 1 = k
      BY <1>1, <2>1
    <3>2. after[k] \in V
      BY <3>1
    <3>3. after[k + 1] = (after[k] \cup {N.nodes[k + 1].out}) \ killed(k + 1, after[k])
      <4> HIDE DEF killed, first
      <4> QED BY <1>8, <3>1
    <3>4. after[k + 1] \in V
      BY <1>1, <3>1, <3>2, <3>3
    <3> HIDE DEF V, n
    <3> QED BY <3>1, <3>4
  <2>2. CASE ~ (k + 1 <= n)
    BY <2>2
  <2> QED BY <2>1, <2>2
<1>12. P = Nat
  <2> P \in SUBSET Nat
    OBVIOUS
  <2> HIDE DEF P
  <2> QED BY <1>10, <1>11, NatInduct
<1>13. \A i \in 0..n : after[i] \in V
  BY <1>1, <1>12
<1> QED BY <1>9, <1>13

(* So are the blocks of the home level. *)
LEMMA BlocksInBuffers ==
    ASSUME NEW N, WellFormed(N)
    PROVE  Blocks(N) \subseteq Buffers(N)
<1>1. Len(N.nodes) \in Nat /\ Nodes(N) = 1..Len(N.nodes)
  BY NetworkParts
<1>2. ASSUME NEW i \in Nodes(N) PROVE InStep(N, i) \subseteq Buffers(N)
  <2>1. i - 1 \in 0..Len(N.nodes)
    BY <1>1
  <2>2. LiveAfter(N)[i - 1] \subseteq Buffers(N)
    BY <2>1, LiveInBuffers
  <2>3. Touches(N.nodes[i]) \subseteq Buffers(N) /\ N.nodes[i].out \in Buffers(N)
    BY NetworkParts DEF Touches
  <2> QED BY <2>2, <2>3 DEF InStep
<1> QED BY <1>2 DEF Blocks

(* The lifetimes of the home level are steps of the schedule. *)
LEMMA LifetimesTyped ==
    ASSUME NEW N, WellFormed(N), NEW base \in {CalculateLifetimes(N), TrainingLifetimes(N)}
    PROVE  LET life == DealiasLifetimes(N, base)
           IN  /\ DOMAIN life = Blocks(N)
               /\ \A t \in Blocks(N) :
                      life[t] \in [first : 0..Len(N.nodes), last : 0..Len(N.nodes)]
<1> DEFINE n == Len(N.nodes)
           life == DealiasLifetimes(N, base)
           ends(t) == {base[u].last : u \in {v \in Blocks(N) : Dealias(N, v) = t}}
<1>1. n \in Nat
  BY NetworkParts
<1>2. DOMAIN base = Blocks(N) /\ \A t \in Blocks(N) : base[t] \in [first : 0..n, last : 0..n]
  BY BaseLifetimes
<1>3. DOMAIN life = Blocks(N)
  BY <1>2 DEF DealiasLifetimes
<1>4. ASSUME NEW t \in Blocks(N) PROVE life[t] \in [first : 0..n, last : 0..n]
  <2> DEFINE m == Max(ends(t))
  <2>1. life[t] = IF Dealias(N, t) # t /\ IsGlobal(N, Dealias(N, t)) THEN Life(0, base[t].last)
                  ELSE IF Dealias(N, t) = t /\ ~ IsGlobal(N, t) THEN Life(base[t].first, m)
                  ELSE base[t]
    BY <1>2 DEF DealiasLifetimes
  <2>2. CASE Dealias(N, t) = t
    <3>1. ends(t) \in SUBSET (0..n) /\ base[t].last \in ends(t)
      BY <1>2, <2>2
    <3>2. m \in 0..n
      <4>1. m \in ends(t)
        <5> HIDE DEF ends, n
        <5> QED BY <1>1, <3>1, MaxUpTo
      <4> QED BY <3>1, <4>1
    <3> HIDE DEF m, n, life
    <3> QED BY <1>1, <1>2, <2>1, <2>2, <3>2 DEF Life
  <2>3. CASE Dealias(N, t) # t
    <3> 0 \in 0..n
      BY <1>1
    <3> HIDE DEF m, n, life
    <3> QED BY <1>2, <2>1, <2>3 DEF Life
  <2> QED BY <2>2, <2>3
<1> QED BY <1>3, <1>4

(* What the assumption on the problems says of one of them. *)
LEMMA ProblemFacts ==
    ASSUME NEW P \in Problems, NEW tiling \in Tilings(P)
    PROVE  /\ WellFormed(P.net) /\ Len(P.net.nodes) \in Nat
           /\ Nodes(P.net) = 1..Len(P.net.nodes)
           /\ \A i \in Nodes(P.net) :
                  /\ TiledTensors(P, i) \subseteq Buffers(P.net)
                  /\ Transients(P, i) \subseteq Buffers(P.net)
                  /\ \A t \in TiledTensors(P, i) : tiling[i][t] \in Nat
           /\ \A t \in Buffers(P.net) : P.net.size[t] \in Nat /\ P.net.size[t] > 0 /\ P.width[t] \in Nat
           /\ P.home \in Levels(P) /\ RequiredHops(P) \subseteq Levels(P)
           /\ TargetMemoryLevel \in Levels(P)
           /\ P.allocator \in {"Tetris", "MiniMalloc"}
<1> DEFINE N == P.net
<1>1. Tileable(P) /\ Admissible(P, tiling)
  BY ProblemsAssumption, TilingsAssumption
<1>2. WellFormed(N) /\ DOMAIN P.constants = Nodes(N) /\ P.width \in [Buffers(N) -> Nat \ {0}]
      /\ UNION Range(P.constants) \subseteq Buffers(N)
  BY <1>1 DEF Tileable
<1>3. ASSUME NEW i \in Nodes(N)
      PROVE  /\ TiledTensors(P, i) \subseteq Buffers(N) /\ Transients(P, i) \subseteq Buffers(N)
             /\ \A t \in TiledTensors(P, i) : tiling[i][t] \in Nat
  <2>1. P.constants[i] \subseteq Buffers(N)
    BY <1>2 DEF Range
  <2>2. TiledTensors(P, i) \subseteq Buffers(N)
    BY <1>2, <2>1, NetworkParts DEF TiledTensors, Touches
  <2>3. N.nodes[i].scratch \in Seq(Buffers(N))
    BY <1>2, NetworkParts
  <2>4. Transients(P, i) \subseteq Buffers(N)
    BY <2>3 DEF Transients, Range
  <2>5. \A t \in TiledTensors(P, i) : tiling[i][t] \in 1..N.size[t]
    BY <1>1 DEF Admissible
  <2>6. \A t \in TiledTensors(P, i) : N.size[t] \in Nat
    BY <1>2, <2>2, NetworkParts
  <2> QED BY <2>2, <2>4, <2>5, <2>6
<1>4. \A t \in Buffers(N) : P.width[t] \in Nat
  BY <1>2
<1>5. /\ P.home \in Levels(P) /\ RequiredHops(P) \subseteq Levels(P)
      /\ TargetMemoryLevel \in Levels(P) /\ P.allocator \in {"Tetris", "MiniMalloc"}
  BY <1>1 DEF Tileable
<1> QED BY <1>2, <1>3, <1>4, <1>5, NetworkParts

(* The two kinds of blocks. *)
LEMMA BlockIdFacts ==
    ASSUME NEW P \in Problems, NEW tiling \in Tilings(P), NEW b \in BlockIds(P)
    PROVE  \/ /\ IsHome(b) /\ b[2] = P.home /\ b[3] \in Blocks(P.net)
              /\ ListOf(P, b) = Blocks(P.net)
           \/ /\ ~ IsHome(b) /\ b[1] \in Nodes(P.net) /\ b[2] \in Levels(P)
              /\ b[3] \in TiledTensors(P, b[1]) \cup Transients(P, b[1])
<1>1. Nodes(P.net) = 1..Len(P.net.nodes) /\ RequiredHops(P) \subseteq Levels(P)
      /\ TargetMemoryLevel \in Levels(P)
  BY ProblemFacts
<1>2. CASE b \in {<<0, P.home, t>> : t \in Blocks(P.net)}
  BY <1>2 DEF IsHome, ListOf
<1>3. CASE \E i \in Nodes(P.net) :
               \/ b \in {<<i, level, t>> : level \in RequiredHops(P), t \in TiledTensors(P, i)}
               \/ b \in {<<i, TargetMemoryLevel, t>> : t \in Transients(P, i)}
  <2>1. PICK i \in Nodes(P.net) :
               \/ b \in {<<i, level, t>> : level \in RequiredHops(P), t \in TiledTensors(P, i)}
               \/ b \in {<<i, TargetMemoryLevel, t>> : t \in Transients(P, i)}
    BY <1>3
  <2>2. b[1] = i /\ b[2] \in Levels(P) /\ b[3] \in TiledTensors(P, i) \cup Transients(P, i)
    BY <1>1, <2>1
  <2>3. i # 0
    BY <1>1
  <2> QED BY <2>2, <2>3 DEF IsHome
<1>4. \/ b \in {<<0, P.home, t>> : t \in Blocks(P.net)}
      \/ b \in UNION {{<<i, level, t>> : level \in RequiredHops(P), t \in TiledTensors(P, i)} :
                          i \in Nodes(P.net)}
      \/ b \in UNION {{<<i, TargetMemoryLevel, t>> : t \in Transients(P, i)} : i \in Nodes(P.net)}
  BY DEF BlockIds
<1> QED BY <1>2, <1>3, <1>4

(* The cost of a block is whole words and pays for all its copies. *)
LEMMA WordCostFacts ==
    ASSUME NEW P \in Problems, NEW tiling \in Tilings(P), NEW b \in BlockIds(P)
    PROVE  LET bytes == CopyBytes(P, tiling, b)
               cost == WordCost(P, tiling, b)
           IN  /\ Coefficient(P, b) \in {1, 2} /\ (IsHome(b) => Coefficient(P, b) = 1)
               /\ bytes \in Nat /\ cost \in Nat /\ cost % 4 = 0
               /\ bytes * Coefficient(P, b) <= cost
               /\ P.allocator = "Tetris" => cost = Aligned(bytes) * Coefficient(P, b)
<1> DEFINE bytes == CopyBytes(P, tiling, b)
           cost == WordCost(P, tiling, b)
           coef == Coefficient(P, b)
<1>1. coef \in {1, 2} /\ (IsHome(b) => coef = 1)
  BY DEF Coefficient, MultiBufferStrategy
<1>2. bytes \in Nat
  <2>1. b[3] \in Buffers(P.net)
    BY BlockIdFacts, ProblemFacts, BlocksInBuffers
  <2>2. P.net.size[b[3]] \in Nat /\ P.width[b[3]] \in Nat
    BY <2>1, ProblemFacts
  <2>3. P.net.size[b[3]] * P.width[b[3]] \in Nat
    BY <2>2
  <2>4. ASSUME ~ IsHome(b), ~ IsTransient(P, b) PROVE tiling[b[1]][b[3]] * P.width[b[3]] \in Nat
    <3>1. b[1] \in Nodes(P.net) /\ b[3] \in TiledTensors(P, b[1])
      BY <2>4, BlockIdFacts DEF IsTransient, IsHome
    <3>2. tiling[b[1]][b[3]] \in Nat
      BY <3>1, ProblemFacts
    <3> QED BY <2>2, <3>2
  <2> QED BY <2>2, <2>3, <2>4 DEF CopyBytes
<1>3. cost = IF P.allocator = "Tetris" THEN Aligned(bytes) * coef ELSE Aligned(bytes * coef)
  BY DEF WordCost
<1>4. bytes * coef \in Nat
  BY <1>1, <1>2
<1>5. /\ Aligned(bytes) \in Nat /\ bytes <= Aligned(bytes) /\ Aligned(bytes) % 4 = 0
      /\ Aligned(bytes * coef) \in Nat /\ bytes * coef <= Aligned(bytes * coef)
      /\ Aligned(bytes * coef) % 4 = 0
  BY <1>2, <1>4, AlignedFacts
<1> HIDE DEF bytes, cost, coef
<1>6. cost \in Nat /\ cost % 4 = 0 /\ bytes * coef <= cost
  <2>1. CASE P.allocator = "Tetris"
    <3> DEFINE words == Aligned(bytes)
    <3>1. cost = words * coef /\ words \in Nat /\ bytes <= words /\ words % 4 = 0
      BY <1>3, <1>5, <2>1
    <3> HIDE DEF words
    <3>2. CASE coef = 1
      <4>1. cost = words /\ bytes * coef = bytes
        BY <1>2, <3>1, <3>2
      <4> QED BY <1>2, <3>1, <4>1
    <3>3. CASE coef = 2
      <4>1. cost = 2 * words /\ bytes * coef = 2 * bytes
        BY <1>2, <3>1, <3>3
      <4> QED BY <1>2, <3>1, <4>1
    <3> QED BY <1>1, <3>2, <3>3
  <2>2. CASE P.allocator # "Tetris"
    BY <1>3, <1>5, <2>2
  <2> QED BY <2>1, <2>2
<1> QED BY <1>1, <1>2, <1>3, <1>6 DEF bytes, cost, coef

(* The table that TileInit gives to the scheduler. *)
TileTable(P, tiling) ==
    [b \in BlockIds(P) |->
        IF IsHome(b) THEN HomeBlock(P, tiling, HomeLifetimes(P), b) ELSE InnerBlock(P, tiling, b)]

TileRecord(P) ==
    [arena : {<<i, level>> : i \in 0..Len(P.net.nodes), level \in Levels(P)},
     first : 0..Len(P.net.nodes), last : 0..Len(P.net.nodes), cost : Nat, resolved : BOOLEAN]

LEMMA HomeBlockFacts ==
    ASSUME NEW P \in Problems, NEW tiling \in Tilings(P), NEW b \in BlockIds(P), IsHome(b)
    PROVE  LET r == HomeBlock(P, tiling, HomeLifetimes(P), b)
           IN  /\ r \in TileRecord(P) /\ r.arena = <<b[1], b[2]>> /\ r.cost % 4 = 0
               /\ ~ r.resolved => r.cost = WordCost(P, tiling, b)
               /\ HasAlias(P.net, b[3]) => r.resolved
<1> DEFINE N == P.net
           lives == HomeLifetimes(P)
           t == b[3]
           cost == WordCost(P, tiling, b)
           free == CostOf(N, lives, t) = 0
           resolved == Resolved(N, lives, t)
<1>1. WellFormed(N) /\ t \in Blocks(N) /\ t \in Buffers(N) /\ b[1] = 0 /\ b[2] = P.home
      /\ Len(N.nodes) \in Nat /\ P.home \in Levels(P)
  BY BlockIdFacts, BlocksInBuffers, ProblemFacts DEF IsHome
<1>2. PICK base \in {CalculateLifetimes(N), TrainingLifetimes(N)} : lives = DealiasLifetimes(N, base)
  BY DEF HomeLifetimes
<1>3. DOMAIN lives = Blocks(N)
      /\ lives[t] \in [first : 0..Len(N.nodes), last : 0..Len(N.nodes)]
  BY <1>1, <1>2, LifetimesTyped
<1>4. ASSUME HasAlias(N, t) PROVE resolved
  <2>1. PICK i \in Nodes(N) : AliasOf(N, t) \in Range(N.nodes[i].ins)
    BY <1>1, <1>4, AliasInNetwork
  <2>2. AliasOf(N, t) \in Blocks(N)
    BY <1>1, <2>1, TouchedBlocks DEF Touches
  <2> QED BY <1>3, <1>4, <2>2 DEF Resolved
<1>5. ~ resolved => ~ free
  <2>1. N.size[t] \in Nat /\ N.size[t] > 0
    BY <1>1, NetworkParts
  <2>2. ~ resolved => CostOf(N, lives, t) = N.size[t]
    BY <1>4 DEF CostOf
  <2> QED BY <2>1, <2>2
<1>6. cost \in Nat /\ cost % 4 = 0
  BY WordCostFacts
<1>7. HomeBlock(P, tiling, lives, b) =
          [arena |-> <<0, P.home>>, first |-> lives[t].first, last |-> lives[t].last,
           cost |-> IF free THEN 0 ELSE cost, resolved |-> resolved]
  BY DEF HomeBlock
<1>8. resolved \in BOOLEAN /\ 0 \in 0..Len(N.nodes)
  BY <1>1 DEF Resolved
<1>9. <<0, P.home>> \in {<<i, level>> : i \in 0..Len(N.nodes), level \in Levels(P)}
  BY <1>1, <1>8
<1>10. (IF free THEN 0 ELSE cost) \in Nat /\ (IF free THEN 0 ELSE cost) % 4 = 0
       /\ (~ resolved => (IF free THEN 0 ELSE cost) = cost)
  BY <1>5, <1>6
<1> HIDE DEF cost, free, resolved, lives
<1>11. HomeBlock(P, tiling, lives, b) \in TileRecord(P)
  BY <1>3, <1>7, <1>8, <1>9, <1>10 DEF TileRecord
<1> QED BY <1>1, <1>4, <1>7, <1>10, <1>11 DEF cost, lives

LEMMA InnerBlockFacts ==
    ASSUME NEW P \in Problems, NEW tiling \in Tilings(P), NEW b \in BlockIds(P), ~ IsHome(b)
    PROVE  LET r == InnerBlock(P, tiling, b)
           IN  /\ r \in TileRecord(P) /\ r.arena = <<b[1], b[2]>> /\ r.cost % 4 = 0
               /\ ~ r.resolved => r.cost = WordCost(P, tiling, b)
               /\ r.resolved => r.cost = 0
               /\ r.resolved <=> HasAlias(P.net, b[3]) /\ AliasOf(P.net, b[3]) \in ListOf(P, b)
               /\ r.first = b[1] - 1 /\ r.first <= r.last
<1> DEFINE N == P.net
           cost == WordCost(P, tiling, b)
           alias == HasAlias(N, b[3]) /\ AliasOf(N, b[3]) \in ListOf(P, b)
           last == StepOf(N, b).last
<1>1. b[1] \in 1..Len(N.nodes) /\ b[2] \in Levels(P) /\ Len(N.nodes) \in Nat
  BY BlockIdFacts, ProblemFacts
<1>2. cost \in Nat /\ cost % 4 = 0
  BY WordCostFacts
<1>3. last \in 0..Len(N.nodes) /\ b[1] - 1 \in 0..Len(N.nodes) /\ b[1] - 1 <= last
  BY <1>1 DEF StepOf, Life
<1>4. InnerBlock(P, tiling, b) =
          [arena |-> <<b[1], b[2]>>, first |-> b[1] - 1, last |-> last,
           cost |-> IF alias THEN 0 ELSE cost, resolved |-> alias]
  BY DEF InnerBlock, StepOf, Life
<1>5. alias \in BOOLEAN
  BY DEF HasAlias
<1>6. <<b[1], b[2]>> \in {<<i, level>> : i \in 0..Len(N.nodes), level \in Levels(P)}
  BY <1>1
<1>7. (IF alias THEN 0 ELSE cost) \in Nat /\ (IF alias THEN 0 ELSE cost) % 4 = 0
  BY <1>2
<1>8. alias <=> HasAlias(N, b[3]) /\ AliasOf(N, b[3]) \in ListOf(P, b)
  OBVIOUS
<1> HIDE DEF cost, alias, last
<1>9. InnerBlock(P, tiling, b) \in TileRecord(P)
  BY <1>3, <1>4, <1>5, <1>6, <1>7 DEF TileRecord
<1> QED BY <1>3, <1>4, <1>7, <1>8, <1>9 DEF cost

LEMMA TileTableFacts ==
    ASSUME NEW P \in Problems, NEW tiling \in Tilings(P)
    PROVE  /\ TileTable(P, tiling) \in [BlockIds(P) -> TileRecord(P)]
           /\ \A b \in BlockIds(P) :
                  LET r == TileTable(P, tiling)[b]
                  IN  /\ r.arena = <<b[1], b[2]>> /\ r.cost % 4 = 0
                      /\ ~ r.resolved => r.cost = WordCost(P, tiling, b)
                      /\ IsHome(b) /\ HasAlias(P.net, b[3]) => r.resolved
                      /\ ~ IsHome(b) =>
                             /\ r.resolved => r.cost = 0
                             /\ r.resolved <=> /\ HasAlias(P.net, b[3])
                                               /\ AliasOf(P.net, b[3]) \in ListOf(P, b)
                             /\ r.first = b[1] - 1 /\ r.first <= r.last
<1>1. ASSUME NEW b \in BlockIds(P), IsHome(b)
      PROVE  TileTable(P, tiling)[b] = HomeBlock(P, tiling, HomeLifetimes(P), b)
  BY <1>1 DEF TileTable
<1>2. ASSUME NEW b \in BlockIds(P), ~ IsHome(b)
      PROVE  TileTable(P, tiling)[b] = InnerBlock(P, tiling, b)
  BY <1>2 DEF TileTable
<1>3. ASSUME NEW b \in BlockIds(P) PROVE TileTable(P, tiling)[b] \in TileRecord(P)
  BY <1>1, <1>2, HomeBlockFacts, InnerBlockFacts
<1>4. TileTable(P, tiling) \in [BlockIds(P) -> TileRecord(P)]
  BY <1>3 DEF TileTable
<1> QED BY <1>1, <1>2, <1>4, HomeBlockFacts, InnerBlockFacts

-----------------------------------------------------------------------------
(* The plan of the tiles. *)

TileStatic ==
    /\ problem \in Problems
    /\ tile \in Tilings(problem)
    /\ block = TileTable(problem, tile)

(* Every end of a block is on a word. *)
OnWords == \A b \in Block : height[b] % 4 = 0 /\ addrSpace[b].lo % 4 = 0 /\ addrSpace[b].hi % 4 = 0

(* A tile has no more room than it costs: getBaseAddr divides it by the    *)
(* number of the copies.                                                   *)
ExactFit ==
    \A b \in Block :
        Located(b) /\ ~ IsHome(b) => addrSpace[b].hi - addrSpace[b].lo = block[b].cost

(* The tile of an in-place output does not lift those placed after it: it  *)
(* is no higher than one with an address.                                  *)
Sunk ==
    \A b \in Block :
        ~ IsHome(b) /\ block[b].resolved =>
            \/ height[b] = 0
            \/ \E c \in Block :
                   Located(c) /\ block[c].arena = block[b].arena /\ height[b] <= height[c]

TileInv == TileStatic /\ PlacementInv /\ OnWords /\ ExactFit /\ Sunk

LEMMA TileBlock ==
    ASSUME TileStatic
    PROVE  Block = BlockIds(problem)
BY TileTableFacts DEF TileStatic, Block

(* All tiles of a node in a level are in use at its step. *)
LEMMA InnerTogether ==
    ASSUME TileStatic, NEW b \in Block, NEW c \in Block, ~ IsHome(b),
           block[c].arena = block[b].arena
    PROVE  ~ IsHome(c) /\ Interferes(b, c)
<1>1. b \in BlockIds(problem) /\ c \in BlockIds(problem)
  BY TileBlock
<1>2. block[b].arena = <<b[1], b[2]>> /\ block[c].arena = <<c[1], c[2]>>
  BY <1>1, TileTableFacts DEF TileStatic
<1>3. b[1] = c[1] /\ ~ IsHome(c)
  BY <1>2 DEF IsHome
<1>4. /\ block[b].first = b[1] - 1 /\ block[b].first <= block[b].last
      /\ block[c].first = c[1] - 1 /\ block[c].first <= block[c].last
  BY <1>1, <1>3, TileTableFacts DEF TileStatic
<1>5. b[1] \in Nat
  BY <1>1, BlockIdFacts, ProblemFacts DEF TileStatic
<1> QED BY <1>3, <1>4, <1>5 DEF Interferes

(* The values that PlaceBlock gives to the block it takes.  For a tile the *)
(* end of its rivals is that of its obstacles.                             *)
LEMMA PlacedOnWords ==
    ASSUME TileInv, NEW b \in Block, PlaceBlock(b)
    PROVE  \E below \in Nat, lower \in Nat :
              /\ below % 4 = 0 /\ lower % 4 = 0
              /\ below = 0 \/ \E c \in Rivals(b) : below = height[c]
              /\ ~ IsHome(b) => below = lower
              /\ height' = [height EXCEPT ![b] = below + block[b].cost]
              /\ addrSpace' = [addrSpace EXCEPT ![b] =
                     IF block[b].resolved THEN NoSpace
                     ELSE [lo |-> lower, hi |-> below + block[b].cost]]
<1>. DEFINE Ends == {0} \cup {height[c] : c \in Rivals(b)}
            Tops == {0} \cup {addrSpace[c].hi : c \in Obstacles(b)}
<1>1. PICK below \in Ends, lower \in Tops :
          /\ Greatest(below, Ends)
          /\ Greatest(lower, Tops)
          /\ height' = [height EXCEPT ![b] = below + block[b].cost]
          /\ addrSpace' = [addrSpace EXCEPT ![b] =
                 IF block[b].resolved THEN NoSpace
                 ELSE [lo |-> lower, hi |-> below + block[b].cost]]
  BY DEF PlaceBlock
<1>2. /\ Rivals(b) \subseteq placed /\ Obstacles(b) \subseteq Rivals(b) /\ placed \subseteq Block
      /\ height \in [Block -> Nat] /\ addrSpace \in [Block -> [lo : Nat, hi : Nat]]
  BY DEF Rivals, Obstacles, TileInv, PlacementInv, PlacementTypeOK
<1>3. \A c \in Obstacles(b) : addrSpace[c].hi = height[c]
  BY <1>2 DEF Obstacles, Located, EndsAgree, TileInv, PlacementInv
<1>4. Ends \subseteq Nat /\ Tops \subseteq Nat /\ \A n \in Ends \cup Tops : n % 4 = 0
  BY <1>2 DEF TileInv, OnWords
<1>5. \A n \in Tops : n <= lower
  BY <1>1 DEF Greatest
<1>6. ASSUME ~ IsHome(b) PROVE below = lower
  <2>1. below \in Nat /\ lower \in Nat /\ 0 <= lower
    <3>1. below \in Nat /\ lower \in Nat
      BY <1>1, <1>4
    <3> QED BY <3>1
  <2>2. lower <= below
    <3>1. lower \in Ends
      BY <1>1, <1>2, <1>3
    <3> QED BY <1>1, <3>1 DEF Greatest
  <2>3. ASSUME NEW c \in Rivals(b) PROVE height[c] <= lower
    <3>1. block[c].arena = block[b].arena /\ c \in placed /\ c \in Block
      BY <1>2 DEF Rivals, Interferes
    <3>2. ~ IsHome(c) /\ Interferes(b, c)
      BY <1>6, <3>1, InnerTogether DEF TileInv
    <3>3. ASSUME NEW d \in Block, Located(d), block[d].arena = block[c].arena
          PROVE  height[d] <= lower
      <4>1. Interferes(b, d)
        BY <1>6, <3>1, <3>3, InnerTogether DEF TileInv
      <4>2. d \in Obstacles(b)
        BY <3>3, <4>1 DEF Obstacles, Rivals, Located
      <4> QED BY <1>3, <1>5, <4>2
    <3>4. CASE block[c].resolved
      <4>1. \/ height[c] = 0
            \/ \E d \in Block :
                   Located(d) /\ block[d].arena = block[c].arena /\ height[c] <= height[d]
        BY <3>1, <3>2, <3>4 DEF TileInv, Sunk
      <4>2. CASE height[c] = 0
        BY <2>1, <4>2
      <4>3. CASE \E d \in Block :
                     Located(d) /\ block[d].arena = block[c].arena /\ height[c] <= height[d]
        <5>1. PICK d \in Block :
                  Located(d) /\ block[d].arena = block[c].arena /\ height[c] <= height[d]
          BY <4>3
        <5>2. height[d] <= lower /\ height[d] \in Nat /\ height[c] \in Nat
          BY <1>2, <3>1, <3>3, <5>1
        <5> QED BY <2>1, <5>1, <5>2
      <4> QED BY <4>1, <4>2, <4>3
    <3>5. CASE ~ block[c].resolved
      BY <3>1, <3>3, <3>5 DEF Located
    <3> QED BY <3>4, <3>5
  <2>4. below <= lower
    BY <1>1, <2>1, <2>3
  <2> QED BY <2>1, <2>2, <2>4
<1>7. below = 0 \/ \E c \in Rivals(b) : below = height[c]
  BY <1>1
<1>8. below \in Nat /\ lower \in Nat /\ below % 4 = 0 /\ lower % 4 = 0
  BY <1>1, <1>4
<1> QED BY <1>1, <1>6, <1>7, <1>8

(* A block that is taken has a cost of whole words, none if it is the tile *)
(* of an in-place output.                                                  *)
LEMMA CostOnWords ==
    ASSUME TileStatic, NEW b \in Block
    PROVE  /\ block[b].cost \in Nat /\ block[b].cost % 4 = 0
           /\ ~ IsHome(b) /\ block[b].resolved => block[b].cost = 0
           /\ ~ block[b].resolved => block[b].cost = WordCost(problem, tile, b)
<1>1. b \in BlockIds(problem)
  BY TileBlock
<1>2. block[b] \in TileRecord(problem)
  BY <1>1, TileTableFacts DEF TileStatic
<1> QED BY <1>1, <1>2, TileTableFacts DEF TileStatic, TileRecord

LEMMA PlaceTileInv ==
    ASSUME TileInv, NEW b \in Block, PlaceTile(b)
    PROVE  TileInv'
<1>1. PlaceBlock(b) /\ problem' = problem /\ tile' = tile /\ b \in Block \ placed
  BY DEF PlaceTile, Placing
<1>2. /\ block' = block /\ Block' = Block /\ placed' = placed \cup {b} /\ placed \subseteq Block
      /\ height \in [Block -> Nat] /\ addrSpace \in [Block -> [lo : Nat, hi : Nat]]
  BY <1>1 DEF PlaceBlock, Block, TileInv, PlacementInv, PlacementTypeOK
<1>3. PlacementInv' /\ TileStatic'
  BY <1>1, <1>2, PlaceBlockInv DEF TileInv, TileStatic
<1>4. PICK below \in Nat, lower \in Nat :
          /\ below % 4 = 0 /\ lower % 4 = 0
          /\ below = 0 \/ \E c \in Rivals(b) : below = height[c]
          /\ ~ IsHome(b) => below = lower
          /\ height' = [height EXCEPT ![b] = below + block[b].cost]
          /\ addrSpace' = [addrSpace EXCEPT ![b] =
                 IF block[b].resolved THEN NoSpace
                 ELSE [lo |-> lower, hi |-> below + block[b].cost]]
  BY <1>1, PlacedOnWords
<1>5. /\ block[b].cost \in Nat /\ block[b].cost % 4 = 0
      /\ ~ IsHome(b) /\ block[b].resolved => block[b].cost = 0
  BY CostOnWords DEF TileInv
<1>6. /\ \A c \in Block \ {b} : height'[c] = height[c] /\ addrSpace'[c] = addrSpace[c]
      /\ height'[b] = below + block[b].cost
      /\ addrSpace'[b] = IF block[b].resolved THEN NoSpace
                         ELSE [lo |-> lower, hi |-> below + block[b].cost]
  BY <1>2, <1>4
<1>7. \A c \in Block : Located(c)' <=> (Located(c) \/ (c = b /\ ~ block[b].resolved))
  BY <1>2 DEF Located
<1>8. (below + block[b].cost) % 4 = 0
  BY <1>4, <1>5
<1>9. OnWords'
  <2>1. ASSUME NEW c \in Block
        PROVE  height'[c] % 4 = 0 /\ addrSpace'[c].lo % 4 = 0 /\ addrSpace'[c].hi % 4 = 0
    <3>1. CASE c = b
      BY <1>4, <1>6, <1>8, <3>1 DEF NoSpace
    <3>2. CASE c # b
      BY <1>6, <3>2 DEF TileInv, OnWords
    <3> QED BY <3>1, <3>2
  <2> QED BY <1>2, <2>1 DEF OnWords
<1>10. ExactFit'
  <2>1. ASSUME NEW c \in Block, Located(c)', ~ IsHome(c)
        PROVE  addrSpace'[c].hi - addrSpace'[c].lo = block[c].cost
    <3>1. CASE c = b
      <4>1. ~ block[b].resolved /\ below = lower
        BY <1>1, <1>4, <1>7, <2>1, <3>1 DEF Located
      <4>2. addrSpace'[c].lo = below /\ addrSpace'[c].hi = below + block[c].cost
        BY <1>6, <3>1, <4>1
      <4>3. below \in Nat /\ block[c].cost \in Nat
        BY <1>5, <3>1
      <4> QED BY <4>2, <4>3
    <3>2. CASE c # b
      BY <1>6, <1>7, <2>1, <3>2 DEF TileInv, ExactFit
    <3> QED BY <3>1, <3>2
  <2> QED BY <1>2, <2>1 DEF ExactFit, IsHome
<1>11. Sunk'
  \* a tile with an address keeps its height
  <2>1. \A d \in Block : Located(d) => Located(d)' /\ height'[d] = height[d]
    BY <1>1, <1>6, <1>7 DEF Located
  <2>2. ASSUME NEW c \in Block, ~ IsHome(c), block[c].resolved
        PROVE  \/ height[c] = 0
               \/ \E d \in Block :
                      Located(d)' /\ block[d].arena = block[c].arena /\ height[c] <= height'[d]
    <3>1. \/ height[c] = 0
          \/ \E d \in Block :
                 Located(d) /\ block[d].arena = block[c].arena /\ height[c] <= height[d]
      BY <2>2 DEF TileInv, Sunk
    <3> QED BY <2>1, <3>1
  <2>3. ASSUME NEW c \in Block, ~ IsHome(c), block[c].resolved
        PROVE  \/ height'[c] = 0
               \/ \E d \in Block :
                      Located(d)' /\ block[d].arena = block[c].arena /\ height'[c] <= height'[d]
    <3>1. CASE c = b
      <4>1. height'[c] = below
        BY <1>4, <1>5, <1>6, <2>3, <3>1
      <4>2. CASE below = 0
        BY <4>1, <4>2
      <4>3. CASE \E r \in Rivals(b) : below = height[r]
        <5>1. PICK r \in Rivals(b) : below = height[r]
          BY <4>3
        <5>2. r \in placed /\ r \in Block /\ block[r].arena = block[c].arena
          BY <1>2, <3>1 DEF Rivals, Interferes
        <5>3. ~ IsHome(r)
          BY <2>3, <3>1, <5>2, InnerTogether DEF TileInv
        <5>4. CASE block[r].resolved
          <6>1. \/ height[r] = 0
                \/ \E d \in Block :
                       Located(d)' /\ block[d].arena = block[r].arena /\ height[r] <= height'[d]
            BY <2>2, <5>2, <5>3, <5>4
          <6> QED BY <4>1, <5>1, <5>2, <6>1
        <5>5. CASE ~ block[r].resolved
          <6>1. Located(r)' /\ height'[r] = height[r]
            BY <2>1, <5>2, <5>5 DEF Located
          <6> QED BY <1>4, <4>1, <5>1, <5>2, <6>1
        <5> QED BY <5>4, <5>5
      <4> QED BY <1>4, <4>2, <4>3
    <3>2. CASE c # b
      BY <1>2, <1>6, <2>2, <2>3, <3>2
    <3> QED BY <3>1, <3>2
  <2> QED BY <1>2, <2>3 DEF Sunk, IsHome
<1> QED BY <1>3, <1>9, <1>10, <1>11 DEF TileInv

(* MiniMalloc's addresses: free ones, on the ground or on another block.   *)
LEMMA AllocateTileInv ==
    ASSUME TileInv, NEW b \in Block, AllocateTile(b)
    PROVE  TileInv'
<1>1. /\ problem' = problem /\ tile' = tile /\ block' = block /\ Block' = Block
      /\ b \in Block \ placed /\ placed' = placed \cup {b} /\ placed \subseteq Block
      /\ block \in [Block -> BlockRecord]
      /\ height \in [Block -> Nat] /\ addrSpace \in [Block -> [lo : Nat, hi : Nat]]
  BY DEF AllocateTile, Placing, Block, TileInv, PlacementInv, PlacementTypeOK
<1>2. \A c \in Block : Located(c)' <=> (Located(c) \/ (c = b /\ ~ block[b].resolved))
  BY <1>1 DEF Located
<1>3. block[b].cost \in Nat /\ block[b].cost % 4 = 0
  BY CostOnWords DEF TileInv
<1>4. TileStatic' /\ BlockRecord' = BlockRecord
  BY <1>1 DEF TileInv, TileStatic, BlockRecord, Arena
<1>5. \A a, c \in Block : Interferes(a, c)' <=> Interferes(a, c)
  BY <1>1 DEF Interferes
<1>6. CASE block[b].resolved
  <2>1. height' = height /\ addrSpace' = addrSpace
    BY <1>6 DEF AllocateTile
  <2>2. \A c \in Block : Located(c)' <=> Located(c)
    BY <1>2, <1>6 DEF Located
  <2>3. PlacementTypeOK' /\ EndsAgree' /\ NoCollision' /\ LargeEnough'
    BY <1>1, <1>4, <1>5, <2>1, <2>2
       DEF TileInv, PlacementInv, PlacementTypeOK, EndsAgree, NoCollision, LargeEnough
  <2>4. OnWords' /\ ExactFit'
    BY <1>1, <2>1, <2>2 DEF TileInv, OnWords, ExactFit, IsHome
  <2>5. Sunk'
    BY <1>1, <2>1, <2>2 DEF TileInv, Sunk, IsHome
  <2> QED BY <1>4, <2>3, <2>4, <2>5 DEF TileInv, PlacementInv
<1>7. CASE ~ block[b].resolved
  <2>1. PICK lo \in Grounds(b) :
            /\ FreeAt(b, lo)
            /\ height' = [height EXCEPT ![b] = lo + block[b].cost]
            /\ addrSpace' = [addrSpace EXCEPT ![b] = [lo |-> lo, hi |-> lo + block[b].cost]]
    BY <1>7 DEF AllocateTile
  <2> DEFINE hi == lo + block[b].cost
  <2>2. lo \in Nat /\ lo % 4 = 0
    <3>1. Obstacles(b) \subseteq Block
      BY <1>1 DEF Obstacles, Rivals
    <3>2. CASE lo = 0
      BY <3>2
    <3>3. CASE \E c \in Obstacles(b) : lo = addrSpace[c].hi
      BY <1>1, <3>1, <3>3 DEF TileInv, OnWords
    <3> QED BY <2>1, <3>2, <3>3 DEF Grounds
  <2>3. hi \in Nat /\ hi % 4 = 0 /\ hi - lo = block[b].cost
    BY <1>3, <2>2
  <2>4. /\ \A c \in Block \ {b} : height'[c] = height[c] /\ addrSpace'[c] = addrSpace[c]
        /\ height'[b] = hi /\ addrSpace'[b] = [lo |-> lo, hi |-> hi]
        /\ height' \in [Block -> Nat] /\ addrSpace' \in [Block -> [lo : Nat, hi : Nat]]
    BY <1>1, <2>1, <2>2, <2>3
  <2>5. \A c \in Obstacles(b) : addrSpace[c].hi <= lo \/ hi <= addrSpace[c].lo
    BY <2>1 DEF FreeAt
  <2> HIDE DEF hi
  <2>6. PlacementTypeOK'
    BY <1>1, <1>4, <2>4 DEF PlacementTypeOK
  <2>7. ASSUME NEW c \in Block
        PROVE  /\ height'[c] % 4 = 0 /\ addrSpace'[c].lo % 4 = 0 /\ addrSpace'[c].hi % 4 = 0
               /\ Located(c)' => addrSpace'[c].hi = height'[c]
               /\ Located(c)' => addrSpace'[c].hi - addrSpace'[c].lo >= block[c].cost
               /\ Located(c)' /\ ~ IsHome(c) =>
                      addrSpace'[c].hi - addrSpace'[c].lo = block[c].cost
    <3>1. CASE c = b
      BY <1>3, <2>2, <2>3, <2>4, <3>1
    <3>2. CASE c # b
      BY <1>2, <2>4, <3>2
         DEF TileInv, PlacementInv, EndsAgree, LargeEnough, OnWords, ExactFit
    <3> QED BY <3>1, <3>2
  <2>8. NoCollision'
    <3>1. ASSUME NEW c \in Block, c # b, Located(c), Interferes(b, c)
          PROVE  addrSpace'[c].hi <= addrSpace'[b].lo \/ addrSpace'[b].hi <= addrSpace'[c].lo
      <4>1. c \in Obstacles(b)
        BY <3>1 DEF Obstacles, Rivals, Located
      <4> QED BY <2>4, <2>5, <3>1, <4>1
    <3>2. ASSUME NEW a \in Block, NEW c \in Block, a # c,
                 Located(a)', Located(c)', Interferes(a, c)
          PROVE  addrSpace'[a].hi <= addrSpace'[c].lo \/ addrSpace'[c].hi <= addrSpace'[a].lo
      <4>1. CASE a = b
        BY <1>2, <3>1, <3>2, <4>1
      <4>2. CASE c = b
        BY <1>2, <3>1, <3>2, <4>2, InterferesSymmetric
      <4>3. CASE a # b /\ c # b
        BY <1>2, <2>4, <3>2, <4>3 DEF TileInv, PlacementInv, NoCollision
      <4> QED BY <4>1, <4>2, <4>3
    <3> QED BY <1>1, <1>5, <3>2 DEF NoCollision
  <2>9. Sunk'
    <3>1. \A d \in Block : Located(d) => Located(d)' /\ height'[d] = height[d]
      BY <1>1, <1>2, <2>4 DEF Located
    <3>2. ASSUME NEW c \in Block, ~ IsHome(c), block[c].resolved
          PROVE  \/ height'[c] = 0
                 \/ \E d \in Block :
                        Located(d)' /\ block[d].arena = block[c].arena /\ height'[c] <= height'[d]
      <4>1. c # b
        BY <1>7, <3>2
      <4>2. height'[c] = height[c]
        BY <2>4, <4>1
      <4>3. \/ height[c] = 0
            \/ \E d \in Block :
                   Located(d) /\ block[d].arena = block[c].arena /\ height[c] <= height[d]
        BY <3>2 DEF TileInv, Sunk
      <4> QED BY <3>1, <4>2, <4>3
    <3> QED BY <1>1, <3>2 DEF Sunk, IsHome
  <2>10. EndsAgree' /\ LargeEnough' /\ OnWords' /\ ExactFit'
    BY <1>1, <2>7 DEF EndsAgree, LargeEnough, OnWords, ExactFit, IsHome
  <2> QED BY <1>4, <2>6, <2>8, <2>9, <2>10 DEF TileInv, PlacementInv
<1> QED BY <1>6, <1>7

LEMMA TileInvInit ==
    ASSUME TileInit
    PROVE  TileInv
<1>1. TileStatic
  BY DEF TileInit, TileStatic, TileTable
<1>2. block \in [Block -> BlockRecord]
  <2>1. Block = BlockIds(problem) /\ block \in [Block -> TileRecord(problem)]
    BY <1>1, TileBlock, TileTableFacts DEF TileStatic
  <2>2. Len(problem.net.nodes) \in Nat
    BY <1>1, ProblemFacts DEF TileStatic
  <2>3. ASSUME NEW b \in Block PROVE block[b] \in BlockRecord
    BY <2>1, <2>2 DEF TileRecord, BlockRecord, Arena
  <2> QED BY <2>1, <2>3
<1>3. placed = {} /\ height = [b \in Block |-> 0] /\ addrSpace = [b \in Block |-> NoSpace]
  BY DEF TileInit, PlacementInit
<1>4. \A b \in Block : ~ Located(b) /\ height[b] = 0 /\ addrSpace[b] = [lo |-> 0, hi |-> 0]
  BY <1>3 DEF Located, NoSpace
<1>5. PlacementInv
  BY <1>2, <1>3, <1>4 DEF PlacementInv, PlacementTypeOK, EndsAgree, NoCollision, LargeEnough, NoSpace
<1>6. OnWords /\ ExactFit /\ Sunk
  BY <1>4 DEF OnWords, ExactFit, Sunk
<1> QED BY <1>1, <1>5, <1>6 DEF TileInv

LEMMA TileInvStep ==
    ASSUME TileInv, [TileNext]_tileVars
    PROVE  TileInv'
<1>1. CASE \E b \in Block : PlaceTile(b) \/ AllocateTile(b)
  BY <1>1, PlaceTileInv, AllocateTileInv
<1>2. CASE problem' = problem /\ tile' = tile /\ placementVars' = placementVars
  <2>1. TileStatic' /\ Block' = Block
    BY <1>2 DEF TileInv, TileStatic, placementVars, Block
  <2>2. PlacementInv'
    BY <1>2 DEF placementVars, TileInv, PlacementInv, PlacementTypeOK, EndsAgree, NoCollision,
                LargeEnough, Located, Block, Interferes, BlockRecord, Arena
  <2>3. OnWords' /\ ExactFit' /\ Sunk'
    BY <1>2, <2>1 DEF placementVars, TileInv, OnWords, ExactFit, Sunk, Located, IsHome
  <2> QED BY <2>1, <2>2, <2>3 DEF TileInv
<1> QED BY <1>1, <1>2 DEF TileNext, CloseArena, Refuse, Convert, tileVars

-----------------------------------------------------------------------------
(* What the invariant says of the copies. *)

(* The piece that getBaseAddr cuts off a block for one copy. *)
LEMMA PieceFacts ==
    ASSUME TileInv, NEW b \in Block, Located(b), NEW k \in Copies(b)
    PROVE  LET lo == addrSpace[b].lo
               hi == addrSpace[b].hi
               piece == BufferSize(b)
               coef == Coefficient(problem, b)
           IN  /\ coef \in {1, 2} /\ k \in 0..(coef - 1)
               /\ lo \in Nat /\ hi \in Nat /\ piece \in Nat
               /\ CopyBytes(problem, tile, b) \in Nat
               /\ CopyBytes(problem, tile, b) <= piece
               /\ lo + (coef * piece) <= hi
<1> DEFINE lo == addrSpace[b].lo
           hi == addrSpace[b].hi
           piece == BufferSize(b)
           coef == Coefficient(problem, b)
           bytes == CopyBytes(problem, tile, b)
           cost == WordCost(problem, tile, b)
<1>1. b \in BlockIds(problem) /\ problem \in Problems /\ tile \in Tilings(problem)
  BY TileBlock DEF TileInv, TileStatic
<1>2. coef \in {1, 2} /\ bytes \in Nat /\ cost \in Nat /\ bytes * coef <= cost
  BY <1>1, WordCostFacts
<1>3. lo \in Nat /\ hi \in Nat /\ hi - lo >= cost
  <2>1. block[b].cost = cost
    BY CostOnWords DEF TileInv, Located
  <2>2. addrSpace[b] \in [lo : Nat, hi : Nat]
    BY DEF TileInv, PlacementInv, PlacementTypeOK
  <2> QED BY <2>1, <2>2 DEF TileInv, PlacementInv, LargeEnough
<1>4. piece = (hi - lo) \div coef
  BY DEF BufferSize
<1>5. k \in 0..(coef - 1)
  BY DEF Copies
<1> HIDE DEF lo, hi, piece, coef, bytes, cost
<1>6. hi - lo \in Nat
  BY <1>2, <1>3
<1>7. piece \in Nat /\ bytes <= piece /\ lo + (coef * piece) <= hi
  <2> DEFINE d == hi - lo
  <2>1. d \in Nat /\ piece = d \div coef /\ cost <= d
    BY <1>2, <1>3, <1>4, <1>6
  <2>2. /\ piece \in Nat /\ d % coef \in 0..(coef - 1)
        /\ d = (coef * piece) + (d % coef)
    <3> HIDE DEF d
    <3> QED BY <1>2, <2>1, DivMod
  <2>3. coef * piece <= d
    <3> HIDE DEF d
    <3>1. CASE coef = 1
      BY <2>1, <2>2, <3>1
    <3>2. CASE coef = 2
      BY <2>1, <2>2, <3>2
    <3> QED BY <1>2, <3>1, <3>2
  <2>4. bytes <= piece
    <3> HIDE DEF d
    <3>1. CASE coef = 1
      BY <1>2, <2>1, <2>2, <3>1
    <3>2. CASE coef = 2
      BY <1>2, <2>1, <2>2, <3>2
    <3> QED BY <1>2, <3>1, <3>2
  <2>5. lo + (coef * piece) <= hi
    <3>1. CASE coef = 1
      BY <1>3, <2>2, <2>3, <3>1
    <3>2. CASE coef = 2
      BY <1>3, <2>2, <2>3, <3>2
    <3> QED BY <1>2, <3>1, <3>2
  <2> QED BY <2>2, <2>4, <2>5
<1> QED BY <1>2, <1>3, <1>5, <1>7 DEF lo, hi, piece, coef, bytes

(* Every copy lies in its block, and the copies of a block in a row. *)
LEMMA CopyWithin ==
    ASSUME TileInv, NEW b \in Block, Located(b), NEW k \in Copies(b)
    PROVE  /\ CopyStart(b, k) \in Nat /\ CopyEnd(b, k) \in Nat
           /\ addrSpace[b].lo <= CopyStart(b, k) /\ CopyEnd(b, k) <= addrSpace[b].hi
           /\ \A j \in Copies(b) : k < j => CopyEnd(b, k) <= CopyStart(b, j)
<1> DEFINE lo == addrSpace[b].lo
           hi == addrSpace[b].hi
           piece == BufferSize(b)
           coef == Coefficient(problem, b)
           bytes == CopyBytes(problem, tile, b)
<1>1. /\ coef \in {1, 2} /\ k \in 0..(coef - 1)
      /\ lo \in Nat /\ hi \in Nat /\ piece \in Nat /\ bytes \in Nat /\ bytes <= piece
      /\ lo + (coef * piece) <= hi
  BY PieceFacts
<1>2. \A j \in Copies(b) : j \in 0..(coef - 1)
  BY DEF Copies
<1>3. \A j : CopyStart(b, j) = lo + (j * piece)
  BY DEF CopyStart
<1>4. CopyEnd(b, k) = lo + (k * piece) + bytes
  BY <1>3 DEF CopyEnd
<1> HIDE DEF lo, hi, piece, coef, bytes
<1>5. \A j \in 0..(coef - 1) : \/ j = 0 /\ j * piece = 0
                               \/ j = 1 /\ j * piece = piece /\ coef = 2
  BY <1>1
<1>6. \/ coef = 1 /\ coef * piece = piece
      \/ coef = 2 /\ coef * piece = piece + piece
  BY <1>1
<1>7. (k * piece) + bytes <= coef * piece /\ k * piece \in Nat /\ coef * piece \in Nat
  BY <1>1, <1>5, <1>6
<1>8. \A j \in 0..(coef - 1) : k < j => (k * piece) + bytes <= j * piece
  BY <1>1, <1>5
<1>9. CopyStart(b, k) \in Nat /\ CopyEnd(b, k) \in Nat /\ lo <= CopyStart(b, k) /\ CopyEnd(b, k) <= hi
  <2> DEFINE from == k * piece
             all == coef * piece
  <2>1. CopyStart(b, k) = lo + from /\ CopyEnd(b, k) = lo + from + bytes
    BY <1>3, <1>4
  <2>2. from \in Nat /\ all \in Nat /\ from + bytes <= all /\ lo + all <= hi
    BY <1>1, <1>7
  <2> HIDE DEF from, all
  <2> QED BY <1>1, <2>1, <2>2
<1>10. ASSUME NEW j \in Copies(b), k < j PROVE CopyEnd(b, k) <= CopyStart(b, j)
  <2> DEFINE from == k * piece
             next == j * piece
  <2>1. CopyEnd(b, k) = lo + from + bytes /\ CopyStart(b, j) = lo + next
    BY <1>3, <1>4
  <2>2. from \in Nat /\ next \in Nat /\ from + bytes <= next
    BY <1>1, <1>2, <1>5, <1>7, <1>8, <1>10
  <2> HIDE DEF from, next
  <2> QED BY <1>1, <2>1, <2>2
<1> QED BY <1>9, <1>10 DEF lo, hi

(* The arenas that are closed and the sizes that are given to the levels. *)
LevelsTypeOK ==
    /\ closed \subseteq Arena
    /\ stage \in {"place", "done", "refused"}
    /\ arenaSize \in [Levels(problem) -> Nat]

LEMMA ConvertedSizes ==
    ASSUME TileInv, Convert
    PROVE  /\ arenaSize' \in [Levels(problem) -> Nat]
           /\ \A b \in Block : ~ Uncounted(b) => addrSpace[b].hi <= arenaSize'[b[2]]
           /\ \A level \in Levels(problem) :
                  \/ arenaSize'[level] = 0
                  \/ \E b \in Block : b[2] = level /\ arenaSize'[level] = addrSpace[b].hi
<1> DEFINE highs == {0} \cup {addrSpace[b].hi : b \in Block}
           counted(level) == {c \in Block : c[2] = level /\ ~ Uncounted(c)}
<1>1. /\ arenaSize' \in [Levels(problem) -> highs]
      /\ \A level \in Levels(problem) :
             Greatest(arenaSize'[level], {0} \cup {addrSpace[b].hi : b \in counted(level)})
  BY DEF Convert
<1>2. highs \subseteq Nat
  BY DEF TileInv, PlacementInv, PlacementTypeOK
<1>3. ASSUME NEW b \in Block, ~ Uncounted(b) PROVE addrSpace[b].hi <= arenaSize'[b[2]]
  <2>1. b[2] \in Levels(problem)
    BY TileBlock, BlockIdFacts, ProblemFacts DEF TileInv, TileStatic
  <2>2. b \in counted(b[2])
    BY <1>3
  <2>3. \A n \in {0} \cup {addrSpace[c].hi : c \in counted(b[2])} : n <= arenaSize'[b[2]]
    BY <1>1, <2>1 DEF Greatest
  <2> HIDE DEF counted
  <2> QED BY <2>2, <2>3
<1>4. arenaSize' \in [Levels(problem) -> Nat]
  <2> HIDE DEF highs
  <2> QED BY <1>1, <1>2
<1>5. ASSUME NEW level \in Levels(problem)
      PROVE  \/ arenaSize'[level] = 0
             \/ \E b \in Block : b[2] = level /\ arenaSize'[level] = addrSpace[b].hi
  BY <1>1 DEF Greatest
<1> QED BY <1>3, <1>4, <1>5

LEMMA LevelsTyped ==
    ASSUME TileInv, LevelsTypeOK, [TileNext]_tileVars
    PROVE  LevelsTypeOK'
<1>1. problem' = problem /\ block' = block
  BY DEF TileNext, PlaceTile, AllocateTile, Placing, CloseArena, Refuse, Convert, PlaceBlock,
         tileVars, placementVars
<1>2. Arena' = Arena /\ Levels(problem)' = Levels(problem)
  BY <1>1 DEF Arena, Block, Levels
<1>3. CASE UNCHANGED <<closed, stage, arenaSize>>
  BY <1>2, <1>3 DEF LevelsTypeOK
<1>4. CASE CloseArena
  <2>1. CurrentArena \in Arena
    BY <1>4 DEF CloseArena, CurrentArena, LevelsTypeOK
  <2> QED BY <1>2, <1>4, <2>1 DEF CloseArena, LevelsTypeOK
<1>5. CASE Refuse
  BY <1>2, <1>5 DEF Refuse, LevelsTypeOK
<1>6. CASE Convert
  BY <1>1, <1>2, <1>6, ConvertedSizes DEF Convert, LevelsTypeOK
<1> QED BY <1>3, <1>4, <1>5, <1>6 DEF TileNext, PlaceTile, AllocateTile, Placing, tileVars

(* Every problem, every tiling and every order of the blocks gives a plan  *)
(* of the right type.                                                      *)
THEOREM TilesTyped == TileSpec => []TileTypeOK
<1>1. TileInit => LevelsTypeOK
  BY DEF TileInit, LevelsTypeOK
<1>2. TileInv /\ LevelsTypeOK => TileTypeOK
  <2> SUFFICES ASSUME TileInv, LevelsTypeOK PROVE TileTypeOK
    OBVIOUS
  <2>1. block \in [BlockIds(problem) -> TileRecord(problem)]
    BY TileTableFacts DEF TileInv, TileStatic
  <2> QED BY <2>1 DEF TileInv, TileStatic, PlacementInv, PlacementTypeOK, LevelsTypeOK,
                      TileTypeOK, TileRecord
<1> QED BY <1>1, <1>2, TileInvInit, TileInvStep, LevelsTyped, PTL DEF TileSpec

(* In every network and for every choice of the tiles, the copies of the   *)
(* tiles of a node and the tensors of the home level that live together    *)
(* are disjoint, although the allocators and getBaseAddr divide a block    *)
(* in different ways: no kernel and no transfer writes what another holds. *)
THEOREM TilesKeepApart == TileSpec => []TilesApart
<1>1. ASSUME TileInv PROVE TilesApart
  <2> SUFFICES ASSUME NEW a \in Block, NEW b \in Block, NEW j \in Copies(a), NEW k \in Copies(b),
                      Located(a), Located(b), IF a = b THEN j # k ELSE Interferes(a, b)
               PROVE  CopyEnd(a, j) <= CopyStart(b, k) \/ CopyEnd(b, k) <= CopyStart(a, j)
    BY DEF TilesApart
  <2>1. /\ CopyStart(a, j) \in Nat /\ CopyEnd(a, j) \in Nat
        /\ addrSpace[a].lo <= CopyStart(a, j) /\ CopyEnd(a, j) <= addrSpace[a].hi
        /\ CopyStart(b, k) \in Nat /\ CopyEnd(b, k) \in Nat
        /\ addrSpace[b].lo <= CopyStart(b, k) /\ CopyEnd(b, k) <= addrSpace[b].hi
    BY <1>1, CopyWithin
  <2>2. CASE a = b
    <3>1. j \in Int /\ k \in Int
      <4>1. Coefficient(problem, a) \in {1, 2}
        BY <1>1, PieceFacts
      <4> QED BY <2>2, <4>1 DEF Copies
    <3>2. j < k \/ k < j
      BY <2>2, <3>1
    <3> QED BY <1>1, <2>2, <3>2, CopyWithin
  <2>3. CASE a # b
    <3>1. addrSpace[a].hi <= addrSpace[b].lo \/ addrSpace[b].hi <= addrSpace[a].lo
      BY <1>1, <2>3 DEF TileInv, PlacementInv, NoCollision
    <3>2. addrSpace[a] \in [lo : Nat, hi : Nat] /\ addrSpace[b] \in [lo : Nat, hi : Nat]
      BY <1>1 DEF TileInv, PlacementInv, PlacementTypeOK
    <3> QED BY <2>1, <3>1, <3>2
  <2> QED BY <2>2, <2>3
<1> QED BY <1>1, TileInvInit, TileInvStep, PTL DEF TileSpec

(* Every copy that the solver's order gives starts on a word, and so does  *)
(* every single copy of MiniMalloc's: the second copy starts at half of a  *)
(* block whose length is twice a whole number of words.                    *)
THEOREM TilesOnWords == TileSpec => []WordAligned
<1>1. ASSUME TileInv PROVE WordAligned
  <2> SUFFICES ASSUME NEW b \in Block, NEW k \in Copies(b), Located(b),
                      problem.allocator = "Tetris" \/ Coefficient(problem, b) = 1
               PROVE  CopyStart(b, k) % 4 = 0
    BY DEF WordAligned, byteAlignment
  <2> DEFINE lo == addrSpace[b].lo
             hi == addrSpace[b].hi
             coef == Coefficient(problem, b)
             words == Aligned(CopyBytes(problem, tile, b))
  <2>1. /\ coef \in {1, 2} /\ k \in 0..(coef - 1) /\ lo \in Nat /\ hi \in Nat
        /\ CopyBytes(problem, tile, b) \in Nat /\ BufferSize(b) \in Nat
    BY <1>1, PieceFacts
  <2>2. lo % 4 = 0
    BY <1>1 DEF TileInv, OnWords
  <2>3. CASE coef = 1
    <3>1. k * BufferSize(b) = 0
      BY <2>1, <2>3
    <3> QED BY <2>1, <2>2, <3>1 DEF CopyStart
  <2>4. CASE coef = 2
    <3>1. problem.allocator = "Tetris" /\ ~ IsHome(b)
      BY <2>4 DEF Coefficient
    <3>2. b \in BlockIds(problem) /\ problem \in Problems /\ tile \in Tilings(problem)
      BY <1>1, TileBlock DEF TileInv, TileStatic
    <3>3. block[b].cost = words * coef
      BY <1>1, <3>1, <3>2, CostOnWords, WordCostFacts DEF TileInv, Located
    <3>4. hi - lo = 2 * words
      <4>1. hi - lo = block[b].cost
        BY <1>1, <3>1 DEF TileInv, ExactFit
      <4> HIDE DEF hi, lo, words, coef
      <4>2. words \in Nat
        BY <2>1, AlignedFacts DEF words
      <4> QED BY <2>4, <3>3, <4>1, <4>2
    <3>5. words \in Nat /\ words % 4 = 0
      BY <2>1, AlignedFacts
    <3>6. BufferSize(b) = words
      <4>1. BufferSize(b) = (hi - lo) \div 2
        BY <2>4 DEF BufferSize
      <4> HIDE DEF hi, lo, words
      <4> QED BY <3>4, <3>5, <4>1
    <3>7. k * BufferSize(b) = 0 \/ k * BufferSize(b) = words
      <4> HIDE DEF words
      <4> QED BY <2>1, <2>4, <3>5, <3>6
    <3>8. CopyStart(b, k) = lo \/ CopyStart(b, k) = lo + words
      <4> HIDE DEF words, lo
      <4> QED BY <2>1, <3>5, <3>7 DEF CopyStart, lo
    <3> HIDE DEF lo, words
    <3> QED BY <2>1, <2>2, <3>5, <3>8
  <2> QED BY <2>1, <2>3, <2>4
<1> QED BY <1>1, TileInvInit, TileInvStep, PTL DEF TileSpec

(* No node has a tile of a view of a global buffer without one of the      *)
(* buffer itself.                                                          *)
ViewsBesideSource ==
    \A i \in Nodes(problem.net) : \A t \in TiledTensors(problem, i) :
        HasAlias(problem.net, t) /\ IsGlobal(problem.net, AliasOf(problem.net, t))
        => AliasOf(problem.net, t) \in TiledTensors(problem, i)

LEMMA LocatedCounts ==
    ASSUME TileInv, ViewsBesideSource, NEW b \in Block, Located(b)
    PROVE  ~ Uncounted(b)
<1> DEFINE P == problem
           source == AliasOf(P.net, b[3])
<1>1. b \in BlockIds(P) /\ P \in Problems /\ tile \in Tilings(P) /\ block = TileTable(P, tile)
      /\ ~ block[b].resolved
  BY TileBlock DEF TileInv, TileStatic, Located
<1>2. CASE IsHome(b)
  <2>1. ~ HasAlias(P.net, b[3])
    BY <1>1, <1>2, TileTableFacts
  <2> QED BY <2>1 DEF Uncounted
<1>3. CASE ~ IsHome(b)
  <2>1. ASSUME HasAlias(P.net, b[3])
        PROVE  ~ IsGlobal(P.net, source) /\ source \notin ListOf(P, b)
    <3>1. source \notin ListOf(P, b)
      BY <1>1, <1>3, <2>1, TileTableFacts
    <3>2. b[1] \in Nodes(P.net) /\ b[3] \in TiledTensors(P, b[1]) \cup Transients(P, b[1])
      BY <1>1, <1>3, BlockIdFacts
    <3>3. b[3] \notin Transients(P, b[1])
      <4>1. WellFormed(P.net) /\ Nodes(P.net) = 1..Len(P.net.nodes)
        BY <1>1, ProblemFacts
      <4>2. NodeWellFormed(P.net, b[1])
        BY <3>2, <4>1, NetworkParts
      <4>3. b[3] \in Produced(P.net, Len(P.net.nodes))
        BY <2>1, <4>1 DEF HasAlias, Produced
      <4> QED BY <4>2, <4>3 DEF NodeWellFormed, Transients
    <3>4. source \notin TiledTensors(P, b[1])
      BY <1>3, <3>1 DEF ListOf
    <3> QED BY <2>1, <3>1, <3>2, <3>3, <3>4 DEF ViewsBesideSource
  <2> QED BY <2>1 DEF Uncounted
<1> QED BY <1>2, <1>3

(* Where that is so, the arena that is allocated for each level covers     *)
(* every address given out in it; where it is not, TLC finds an arena that *)
(* is shorter than its tiles.                                              *)
THEOREM ArenaCoversTiles == TileSpec => [](ViewsBesideSource => ArenaCovers)
<1> DEFINE Cov == ViewsBesideSource => ArenaCovers
<1>1. TileInit => Cov
  BY DEF TileInit, ArenaCovers
<1>2. ASSUME TileInv, Cov, [TileNext]_tileVars PROVE Cov'
  <2>1. problem' = problem /\ block' = block
    BY <1>2 DEF TileNext, PlaceTile, AllocateTile, Placing, CloseArena, Refuse, Convert, PlaceBlock,
           tileVars, placementVars
  <2>2. ViewsBesideSource' = ViewsBesideSource /\ Block' = Block
    BY <2>1 DEF ViewsBesideSource, Block
  <2>3. CASE UNCHANGED tileVars
    BY <1>2, <2>2, <2>3 DEF tileVars, placementVars, ArenaCovers, Located
  <2>4. CASE Convert
    <3>1. UNCHANGED <<placed, addrSpace>>
      BY <2>4 DEF Convert, placementVars
    <3>2. \A b \in Block : Located(b)' <=> Located(b)
      BY <2>1, <3>1 DEF Located
    <3>3. ASSUME ViewsBesideSource, NEW b \in Block, Located(b)
          PROVE  addrSpace'[b].hi <= arenaSize'[b[2]]
      BY <1>2, <2>4, <3>1, <3>3, ConvertedSizes, LocatedCounts
    <3> QED BY <2>2, <3>2, <3>3 DEF ArenaCovers
  <2>5. CASE stage' # "done"
    BY <2>5 DEF ArenaCovers
  <2>6. UNCHANGED tileVars \/ Convert \/ stage' # "done"
    BY <1>2 DEF TileNext, PlaceTile, AllocateTile, Placing, CloseArena, Refuse
  <2> QED BY <2>3, <2>4, <2>5, <2>6
<1> QED BY <1>1, <1>2, TileInvInit, TileInvStep, PTL DEF TileSpec

-----------------------------------------------------------------------------
(* What is allocated fits. *)

(* The constants leave something of their level, or nothing. *)
ConstantsFit == ConstantBytes(problem, problem.home) \in 0..problem.capacity[problem.home]

LEMMA RoomFacts ==
    ASSUME TileStatic, ConstantsFit, NEW level \in Levels(problem)
    PROVE  /\ Room(level) \in Nat
           /\ \A cost \in Nat : FitsLevel(level, cost) => cost <= Room(level)
<1> DEFINE bytes == ConstantBytes(problem, level)
           all == problem.capacity[level]
<1>1. Tileable(problem)
  BY ProblemsAssumption DEF TileStatic
<1>2. problem.capacity \in [Levels(problem) -> Nat] /\ problem.home \in Levels(problem)
  BY <1>1 DEF Tileable, HierarchyChecked
<1>3. all \in Nat /\ bytes \in 0..all
  <2>1. CASE level = problem.home
    BY <1>2, <2>1 DEF ConstantsFit
  <2>2. CASE level # problem.home
    <3>1. bytes = 0
      BY <2>2 DEF ConstantBytes
    <3>2. all \in Nat
      BY <1>2
    <3> HIDE DEF bytes, all
    <3> QED BY <3>1, <3>2
  <2> QED BY <2>1, <2>2
<1>4. Room(level) = all - bytes /\ \A cost : FitsLevel(level, cost) <=> cost + bytes < all
  BY DEF Room, FitsLevel
<1> HIDE DEF bytes, all
<1> QED BY <1>3, <1>4

(* What has no address yet has no space, MiniMalloc gives no address past  *)
(* the end of a level, and an arena that is closed fits its level.         *)
FitInv ==
    /\ closed \subseteq Arena
    /\ \A b \in Block : ~ Located(b) => addrSpace[b].hi = 0
    /\ problem.allocator = "MiniMalloc" =>
           \A b \in Block : Located(b) => addrSpace[b].hi <= Room(b[2])
    /\ problem.allocator = "Tetris" =>
           \A b \in Block : block[b].arena \in closed =>
               b \in placed /\ FitsLevel(b[2], height[b])

(* A closed arena is left alone. *)
LEMMA FitPlace ==
    ASSUME TileInv, FitInv, NEW b \in Block, PlaceTile(b) \/ AllocateTile(b)
    PROVE  FitInv'
<1>1. /\ problem' = problem /\ tile' = tile /\ closed' = closed /\ block' = block
      /\ Block' = Block /\ Arena' = Arena
      /\ b \in InCurrent \ placed /\ placed' = placed \cup {b} /\ closed # Arena
  BY DEF PlaceTile, AllocateTile, Placing, PlaceBlock, Block, Arena
<1>2. height \in [Block -> Nat] /\ addrSpace \in [Block -> [lo : Nat, hi : Nat]]
  BY DEF TileInv, PlacementInv, PlacementTypeOK
<1>3. \A c \in Block : Located(c)' <=> (Located(c) \/ (c = b /\ ~ block[b].resolved))
  BY <1>1 DEF Located
<1>4. /\ \A c \in Block \ {b} : height'[c] = height[c] /\ addrSpace'[c] = addrSpace[c]
      /\ block[b].resolved => addrSpace'[b].hi = 0
  <2>1. CASE PlaceTile(b)
    <3>1. PICK below \in Nat, lower \in Nat :
              /\ height' = [height EXCEPT ![b] = below + block[b].cost]
              /\ addrSpace' = [addrSpace EXCEPT ![b] =
                     IF block[b].resolved THEN NoSpace
                     ELSE [lo |-> lower, hi |-> below + block[b].cost]]
      BY <2>1, PlacedOnWords DEF PlaceTile
    <3> QED BY <1>2, <3>1 DEF NoSpace
  <2>2. CASE AllocateTile(b)
    <3>1. CASE block[b].resolved
      <4>1. height' = height /\ addrSpace' = addrSpace /\ ~ Located(b)
        BY <2>2, <3>1 DEF AllocateTile, Located
      <4> QED BY <4>1 DEF FitInv
    <3>2. CASE ~ block[b].resolved
      <4>1. PICK lo \in Grounds(b) :
                /\ height' = [height EXCEPT ![b] = lo + block[b].cost]
                /\ addrSpace' = [addrSpace EXCEPT ![b] = [lo |-> lo, hi |-> lo + block[b].cost]]
        BY <2>2, <3>2 DEF AllocateTile
      <4> QED BY <1>2, <3>2, <4>1
    <3> QED BY <3>1, <3>2
  <2> QED BY <2>1, <2>2
<1>5. block[b].arena \notin closed
  <2>1. CurrentArena \notin closed
    BY <1>1 DEF CurrentArena, FitInv
  <2> QED BY <1>1, <2>1 DEF InCurrent
<1>6. \A level, cost : /\ Room(level)' = Room(level)
                       /\ FitsLevel(level, cost)' = FitsLevel(level, cost)
  BY <1>1 DEF Room, FitsLevel
<1>7. ASSUME NEW c \in Block, ~ Located(c)' PROVE addrSpace'[c].hi = 0
  BY <1>3, <1>4, <1>7 DEF FitInv
<1>8. ASSUME problem.allocator = "MiniMalloc", NEW c \in Block, Located(c)'
      PROVE  addrSpace'[c].hi <= Room(c[2])
  <2>1. CASE c = b
    <3>1. ~ block[b].resolved /\ AllocateTile(b)
      BY <1>1, <1>3, <1>8, <2>1 DEF Located, PlaceTile
    <3>2. PICK lo \in Grounds(b) :
              /\ FreeAt(b, lo)
              /\ addrSpace' = [addrSpace EXCEPT ![b] = [lo |-> lo, hi |-> lo + block[b].cost]]
      BY <3>1 DEF AllocateTile
    <3>3. block[b].arena[2] = b[2]
      BY TileBlock, TileTableFacts DEF TileInv, TileStatic
    <3> QED BY <1>2, <2>1, <3>2, <3>3 DEF FreeAt
  <2>2. CASE c # b
    BY <1>3, <1>4, <1>8, <2>2 DEF FitInv
  <2> QED BY <2>1, <2>2
<1>9. ASSUME problem.allocator = "Tetris", NEW c \in Block, block[c].arena \in closed
      PROVE  c \in placed' /\ FitsLevel(c[2], height'[c])
  <2>1. c # b
    BY <1>5, <1>9
  <2> QED BY <1>1, <1>4, <1>9, <2>1 DEF FitInv
<1> QED BY <1>1, <1>6, <1>7, <1>8, <1>9 DEF FitInv, FitsLevel

LEMMA FitStep ==
    ASSUME TileInv, FitInv, [TileNext]_tileVars
    PROVE  FitInv'
<1>1. CASE \E b \in Block : PlaceTile(b) \/ AllocateTile(b)
  BY <1>1, FitPlace
<1>2. CASE UNCHANGED <<problem, closed, placementVars>>
  <2>1. Block' = Block /\ Arena' = Arena
    BY <1>2 DEF placementVars, Block, Arena
  <2> QED BY <1>2, <2>1 DEF placementVars, FitInv, Located, Room, FitsLevel
<1>3. CASE CloseArena
  <2>1. /\ UNCHANGED <<problem, placementVars>> /\ closed' = closed \cup {CurrentArena}
        /\ closed # Arena /\ InCurrent \subseteq placed /\ ArenaFits
    BY <1>3 DEF CloseArena
  <2>2. Block' = Block /\ Arena' = Arena /\ UNCHANGED <<block, placed, height, addrSpace>>
    BY <2>1 DEF placementVars, Block, Arena
  <2>3. CurrentArena \in Arena
    BY <2>1 DEF CurrentArena, FitInv
  <2>4. ASSUME problem.allocator = "Tetris", NEW b \in Block, block[b].arena \in closed'
        PROVE  b \in placed /\ FitsLevel(b[2], height[b])
    <3>1. CASE block[b].arena \in closed
      BY <2>4, <3>1 DEF FitInv
    <3>2. CASE block[b].arena = CurrentArena
      <4>1. b \in InCurrent /\ b \in placed
        BY <2>1, <3>2 DEF InCurrent
      <4>2. block[b].arena[2] = b[2]
        BY TileBlock, TileTableFacts DEF TileInv, TileStatic
      <4> QED BY <2>1, <2>4, <4>1, <4>2 DEF ArenaFits
    <3> QED BY <2>1, <2>4, <3>1, <3>2
  <2>5. closed' \subseteq Arena'
    BY <2>1, <2>2, <2>3 DEF FitInv
  <2> QED BY <2>1, <2>2, <2>4, <2>5 DEF FitInv, Located, Room, FitsLevel
<1> QED BY <1>1, <1>2, <1>3 DEF TileNext, Refuse, Convert, tileVars

LEMMA ConvertedFits ==
    ASSUME TileInv, FitInv, ConstantsFit, Convert, NEW level \in Levels(problem)
    PROVE  arenaSize'[level] <= Room(level)
<1>1. Room(level) \in Nat /\ \A cost \in Nat : FitsLevel(level, cost) => cost <= Room(level)
  BY RoomFacts DEF TileInv
<1>2. CASE arenaSize'[level] = 0
  BY <1>1, <1>2
<1>3. ASSUME NEW b \in Block, b[2] = level PROVE addrSpace[b].hi <= Room(level)
  <2>1. CASE ~ Located(b)
    BY <1>1, <2>1 DEF FitInv
  <2>2. CASE Located(b) /\ problem.allocator = "MiniMalloc"
    BY <1>3, <2>2 DEF FitInv
  <2>3. CASE Located(b) /\ problem.allocator = "Tetris"
    <3>1. block[b].arena \in closed
      BY <2>3 DEF Convert, Arena
    <3>2. FitsLevel(level, height[b])
      BY <1>3, <2>3, <3>1 DEF FitInv
    <3>3. addrSpace[b].hi = height[b] /\ height[b] \in Nat
      BY <2>3 DEF TileInv, PlacementInv, PlacementTypeOK, EndsAgree
    <3> QED BY <1>1, <3>2, <3>3
  <2>4. problem.allocator \in {"Tetris", "MiniMalloc"}
    BY ProblemFacts DEF TileInv, TileStatic
  <2> QED BY <2>1, <2>2, <2>3, <2>4
<1> QED BY <1>2, <1>3, ConvertedSizes

(* What is allocated for a level holds its tiles and fits beside the       *)
(* constants, for both allocators, if the constants fit to begin with.     *)
THEOREM ArenasSound == TileSpec => [](ViewsBesideSource /\ ConstantsFit => ArenaSound)
<1> DEFINE Fit == ConstantsFit /\ stage = "done" =>
                      \A level \in Levels(problem) : arenaSize[level] <= Room(level)
<1>1. TileInit => Fit /\ FitInv
  <2> SUFFICES ASSUME TileInit PROVE Fit /\ FitInv
    OBVIOUS
  <2>1. \A b \in Block : ~ Located(b) /\ addrSpace[b].hi = 0
    BY DEF TileInit, PlacementInit, Located, NoSpace
  <2> QED BY <2>1 DEF TileInit, FitInv
<1>2. ASSUME TileInv, FitInv, Fit, [TileNext]_tileVars PROVE Fit'
  <2>1. problem' = problem
    BY <1>2 DEF TileNext, PlaceTile, AllocateTile, Placing, CloseArena, Refuse, Convert, tileVars
  <2>2. ConstantsFit' = ConstantsFit /\ \A level : Room(level)' = Room(level)
    BY <2>1 DEF ConstantsFit, Room
  <2>3. CASE UNCHANGED tileVars
    BY <1>2, <2>1, <2>2, <2>3 DEF tileVars
  <2>4. CASE Convert
    BY <1>2, <2>1, <2>2, <2>4, ConvertedFits
  <2>5. CASE stage' # "done"
    BY <2>5
  <2>6. UNCHANGED tileVars \/ Convert \/ stage' # "done"
    BY <1>2 DEF TileNext, PlaceTile, AllocateTile, Placing, CloseArena, Refuse
  <2> QED BY <2>3, <2>4, <2>5, <2>6
<1>3. (ViewsBesideSource => ArenaCovers) /\ Fit => (ViewsBesideSource /\ ConstantsFit => ArenaSound)
  BY DEF ArenaSound
<1> HIDE DEF Fit
<1> QED BY <1>1, <1>2, <1>3, ArenaCoversTiles, TileInvInit, TileInvStep, FitStep, PTL DEF TileSpec
=============================================================================
