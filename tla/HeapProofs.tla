----------------------------- MODULE HeapProofs -----------------------------
(***************************************************************************)
(* Proofs about deployments whose buffers come from the heap, for every    *)
(* network that can be deployed on it, with any views, scratch buffers and *)
(* tensors read more than once.                                            *)
(*                                                                         *)
(* First what MemoryManagementGeneration makes of a network: the size that *)
(* it accounts for covers all that is alive, each instruction of the       *)
(* program finds what it needs, and what the program holds are the roots   *)
(* of the tensors that are alive.  Then the run: the blocks of the heap    *)
(* are those of the inputs and outputs of the initialised networks and     *)
(* those that the program holds, one for each and apart from each other,   *)
(* and every view points into the block of its root.                       *)
(***************************************************************************)
EXTENDS TrainingHarnessProofs

-----------------------------------------------------------------------------
(* The size that the transformation accounts for. *)

LEMMA ImageFinite ==
    ASSUME NEW n \in Nat, NEW f
    PROVE  IsFiniteSet({f[i] : i \in 1..n})
<1> DEFINE g == [i \in 1..n |-> f[i]]
           T == {f[i] : i \in 1..n}
<1>1. IsFiniteSet(1..n)
  BY 1 \in Int, n \in Int, FS_Interval
<1>2. g \in Surjection(1..n, T)
  BY DEF Surjection
<1> HIDE DEF g, T
<1>3. IsFiniteSet(T)
  BY <1>1, <1>2, FS_Surjection
<1> QED BY <1>3 DEF T

LEMMA LocalsFinite ==
    ASSUME NEW N, WellFormed(N)
    PROVE  IsFiniteSet(Locals(N)) /\ \A t \in Locals(N) : N.size[t] \in Nat /\ N.size[t] > 0
<1> DEFINE n == Len(N.nodes)
           outs == [i \in 1..n |-> N.nodes[i].out]
           own == [i \in 1..n |-> Range(N.nodes[i].scratch)]
           A == {outs[i] : i \in 1..n}
           B == {own[i] : i \in 1..n}
<1>1. n \in Nat /\ Nodes(N) = 1..n /\ \A i \in 1..n : N.nodes[i].scratch \in Seq(Buffers(N))
  BY NetworkParts
<1>2. IsFiniteSet(A) /\ IsFiniteSet(B)
  <2> HIDE DEF outs, own, n
  <2> QED BY <1>1, ImageFinite
<1>3. ASSUME NEW i \in 1..n PROVE IsFiniteSet(own[i])
  <2> DEFINE s == N.nodes[i].scratch
  <2>1. Len(s) \in Nat /\ DOMAIN s = 1..Len(s)
    BY <1>1
  <2>2. Range(s) = {s[k] : k \in 1..Len(s)}
    BY <2>1 DEF Range
  <2> HIDE DEF s
  <2>3. IsFiniteSet(Range(s))
    BY <2>1, <2>2, ImageFinite
  <2> QED BY <2>3 DEF s
<1>4. IsFiniteSet(UNION B)
  <2> HIDE DEF own, n
  <2> QED BY <1>2, <1>3, FS_UNION
<1>5. Locals(N) \subseteq A \cup UNION B
  <2>1. ASSUME NEW t \in Touched(N), ~ IsGlobal(N, t) PROVE t \in A
    <3>1. t \in Produced(N, n)
      BY <2>1, ProducedIs DEF Touched, Tensors, IsGlobal, IsInput
    <3> QED BY <3>1 DEF Produced
  <2>2. UNION {Range(N.nodes[i].scratch) : i \in Nodes(N)} \subseteq UNION B
    BY <1>1
  <2> HIDE DEF A, B
  <2> QED BY <2>1, <2>2 DEF Locals
<1>6. IsFiniteSet(A \cup UNION B)
  <2> HIDE DEF A, B
  <2> QED BY <1>2, <1>4, FS_Union
<1>7. IsFiniteSet(Locals(N))
  <2> HIDE DEF A, B
  <2> QED BY <1>5, <1>6, FS_Subset
<1> QED BY <1>7, LocalsFacts, NetworkParts

LEMMA SizeIsTotal ==
    ASSUME NEW N, NEW bufs
    PROVE  SizeOf(N, bufs) = Total(N.size, bufs)
BY DEF SizeOf, Total, MapThenSumSet, MapThenFoldSet

(* What the transformation frees behind a node, and what it emits for it. *)
FreedBy(N, i) ==
    IF N.nodes[i].op = "reshape" THEN Dying(N, i)
    ELSE Released(N, Dying(N, i), Alive(N, i - 1) \cup Range(Born(N, i)))

NodeCode(N, i) ==
    IF N.nodes[i].op = "reshape" THEN <<RunOf(i)>>
    ELSE Instruction("alloc", Born(N, i)) \o <<RunOf(i)>> \o Instruction("free", FreedBy(N, i))

(* Only local buffers that die at node i are freed behind it. *)
LEMMA FreedFacts ==
    ASSUME NEW N, WellFormed(N), NEW i \in Nodes(N)
    PROVE  FreedBy(N, i) \in Seq(Locals(N)) /\ Range(FreedBy(N, i)) \subseteq Range(Dying(N, i))
<1> DEFINE dying == Dying(N, i)
           alive == Alive(N, i - 1) \cup Range(Born(N, i))
           keep == {k \in DOMAIN dying : ~ HasLiveAliases(N, dying[k], alive \ {dying[j] : j \in 1..k})}
<1>1. dying \in Seq(Locals(N))
  BY BornDying
<1>2. Released(N, dying, alive) = Picked(dying, keep)
  BY DEF Released
<1> HIDE DEF keep, dying, alive
<1>3. /\ Picked(dying, keep) \in Seq(Locals(N))
      /\ Range(Picked(dying, keep)) = {dying[k] : k \in keep \cap DOMAIN dying}
  BY <1>1, PickedFacts
<1>4. Range(Picked(dying, keep)) \subseteq Range(dying)
  BY <1>3 DEF Range
<1> QED BY <1>1, <1>2, <1>3, <1>4 DEF FreedBy, dying, alive

(* One step of the transformation. *)
LEMMA GeneratedNode ==
    ASSUME Static, GenInv, NEW w \in Net, GenerateNode(w),
           dynamicSize = [v \in Net |-> dynamicSize[v]], maxDynamic \in [Net -> Nat]
    PROVE  LET N == nets[w]
               i == generated[w] + 1
               grown == Total(N.size, Range(Born(N, i)))
               peak == dynamicSize[w] + grown
           IN  /\ WellFormed(N) /\ i \in Nodes(N) /\ i - 1 = generated[w] /\ nets' = nets
               /\ generated'[w] = i /\ program'[w] = program[w] \o NodeCode(N, i)
               /\ dynamicSize'[w] = dynamicSize[w] + grown - Total(N.size, Range(FreedBy(N, i)))
               /\ maxDynamic'[w] = IF maxDynamic[w] > peak THEN maxDynamic[w] ELSE peak
               /\ \A v \in Net : v # w =>
                      /\ generated'[v] = generated[v] /\ program'[v] = program[v]
                      /\ dynamicSize'[v] = dynamicSize[v] /\ maxDynamic'[v] = maxDynamic[v]
               /\ dynamicSize' = [v \in Net |-> dynamicSize'[v]]
               /\ maxDynamic' = [v \in Net |-> maxDynamic'[v]]
<1> DEFINE N == nets[w]
           i == generated[w] + 1
           freed == IF N.nodes[i].op = "reshape" THEN Dying(N, i)
                    ELSE Released(N, Dying(N, i), live[w] \cup Range(Born(N, i)))
           run == <<[do |-> "run", arg |-> i]>>
           grown == SizeOf(N, Range(Born(N, i)))
           gone == SizeOf(N, Range(freed))
           peak == Peak(dynamicSize[w], grown, gone)
<1>1. /\ i \in Nodes(N) /\ nets' = nets
      /\ generated' = [generated EXCEPT ![w] = i]
      /\ dynamicSize' = [dynamicSize EXCEPT ![w] = @ + grown - gone]
      /\ maxDynamic' = [maxDynamic EXCEPT ![w] = IF @ > peak THEN @ ELSE peak]
      /\ program' = [program EXCEPT ![w] =
             @ \o (IF N.nodes[i].op = "reshape" THEN run
                   ELSE Instruction("alloc", Born(N, i)) \o run \o Instruction("free", freed))]
  BY DEF GenerateNode
<1>2. WellFormed(N)
  BY NetFacts
<1>3. generated[w] \in Nat /\ i - 1 = generated[w] /\ live[w] = Alive(N, i - 1)
      /\ DOMAIN generated = Net /\ DOMAIN program = Net
  BY DEF GenInv
<1> HIDE DEF N, i
<1>4. freed = FreedBy(N, i)
  BY <1>3 DEF FreedBy
<1>5. program' = [program EXCEPT ![w] = @ \o NodeCode(N, i)]
  BY <1>1, <1>4 DEF NodeCode, RunOf
<1>6. grown = Total(N.size, Range(Born(N, i))) /\ gone = Total(N.size, Range(FreedBy(N, i)))
  BY <1>4, SizeIsTotal
<1>7. peak = dynamicSize[w] + grown
  BY DEF Peak
<1> HIDE DEF freed, grown, gone, peak
<1>8. program'[w] = program[w] \o NodeCode(N, i) /\ \A v \in Net : v # w => program'[v] = program[v]
  BY <1>3, <1>5
<1>9. generated'[w] = i /\ \A v \in Net : v # w => generated'[v] = generated[v]
  BY <1>1, <1>3
<1>10. /\ dynamicSize'[w] = dynamicSize[w] + grown - gone
       /\ \A v \in Net : v # w => dynamicSize'[v] = dynamicSize[v]
       /\ dynamicSize' = [v \in Net |-> dynamicSize'[v]]
  BY <1>1
<1>11. /\ maxDynamic'[w] = IF maxDynamic[w] > peak THEN maxDynamic[w] ELSE peak
       /\ \A v \in Net : v # w => maxDynamic'[v] = maxDynamic[v]
       /\ maxDynamic' = [v \in Net |-> maxDynamic'[v]]
  BY <1>1
<1> QED BY <1>1, <1>2, <1>3, <1>6, <1>7, <1>8, <1>9, <1>10, <1>11 DEF N, i

(* A transient buffer is alone in its memory. *)
LEMMA ScratchFacts ==
    ASSUME NEW N, WellFormed(N), NEW i \in Nodes(N), NEW t \in Range(N.nodes[i].scratch)
    PROVE  /\ t \in Buffers(N) /\ t \in Locals(N) /\ t \notin Tensors(N) /\ ~ IsGlobal(N, t)
           /\ ~ HasAlias(N, t) /\ Dealias(N, t) = t
           /\ \A u \in Tensors(N) : Dealias(N, u) # t
<1> DEFINE n == Len(N.nodes)
<1>1. t \in Locals(N) /\ t \in Buffers(N)
  BY LocalsFacts DEF Locals
<1>2. t \notin Tensors(N)
  BY NetworkParts DEF NodeWellFormed, Tensors
<1>3. ~ IsGlobal(N, t)
  <2>1. Range(N.outputs) \subseteq Produced(N, n)
    BY DEF WellFormed
  <2> QED BY <1>2, <2>1 DEF IsGlobal, IsInput, IsOutput, Tensors
<1>4. ~ HasAlias(N, t)
  <2>1. n \in Nat /\ Nodes(N) = 1..n
    BY NetworkParts
  <2> QED BY <1>2, <2>1 DEF HasAlias, Tensors, Produced
<1>5. Dealias(N, t) = t
  BY <1>1, <1>4, RootFacts
<1>6. ASSUME NEW u \in Tensors(N) PROVE Dealias(N, u) # t
  <2>1. u \in Buffers(N) /\ n \in 0..n
    BY ProducedIs, NetworkParts
  <2>2. Dealias(N, u) \in Tensors(N)
    BY <2>1, RootFacts DEF Tensors
  <2> QED BY <1>2, <2>2
<1> QED BY <1>1, <1>2, <1>3, <1>4, <1>5, <1>6

(* The scratch buffers of a node are freed behind it: nothing shows them. *)
LEMMA ScratchFreed ==
    ASSUME NEW N, WellFormed(N), NEW i \in Nodes(N)
    PROVE  Range(N.nodes[i].scratch) \subseteq Range(FreedBy(N, i))
<1> DEFINE dying == Dying(N, i)
           alive == Alive(N, i - 1) \cup Range(Born(N, i))
           keep == {k \in DOMAIN dying : ~ HasLiveAliases(N, dying[k], alive \ {dying[j] : j \in 1..k})}
<1>1. dying \in Seq(Locals(N)) /\ Range(N.nodes[i].scratch) \subseteq Range(dying)
      /\ DOMAIN dying = 1..Len(dying) /\ Len(dying) \in Nat
  BY BornDying
<1>2. Released(N, dying, alive) = Picked(dying, keep)
  BY DEF Released
<1>3. Range(Picked(dying, keep)) = {dying[k] : k \in keep \cap DOMAIN dying}
  <2> HIDE DEF keep, dying
  <2> QED BY <1>1, PickedFacts
<1>4. alive \subseteq Tensors(N) \cup Range(N.nodes[i].scratch)
  <2>1. Range(Born(N, i)) \subseteq Range(N.nodes[i].scratch) \cup {N.nodes[i].out}
    BY BornDying
  <2>2. Len(N.nodes) \in Nat /\ Nodes(N) = 1..Len(N.nodes)
    BY NetworkParts
  <2>3. Alive(N, i - 1) \subseteq Tensors(N) /\ N.nodes[i].out \in Tensors(N)
    BY <2>2 DEF Alive, Tensors, Produced
  <2> QED BY <2>1, <2>3
<1>5. ASSUME NEW t \in Range(N.nodes[i].scratch) PROVE t \in Range(Picked(dying, keep))
  <2>1. PICK k \in DOMAIN dying : dying[k] = t
    BY <1>1 DEF Range
  <2>2. k \in 1..k
    BY <1>1
  <2>3. ~ HasLiveAliases(N, t, alive \ {dying[j] : j \in 1..k})
    <3> SUFFICES ASSUME NEW u \in DOMAIN N.size, Dealias(N, t) = Dealias(N, u),
                        u \in alive \ {dying[j] : j \in 1..k} \/ IsGlobal(N, u)
                 PROVE  FALSE
      BY DEF HasLiveAliases, SameMemory
    <3>1. u # t
      BY <2>1, <2>2, ScratchFacts
    <3>2. CASE u \in Tensors(N)
      BY <3>2, ScratchFacts
    <3>3. CASE u \in Range(N.nodes[i].scratch)
      BY <3>1, <3>3, ScratchFacts
    <3>4. CASE IsGlobal(N, u)
      <4>1. Range(N.outputs) \subseteq Produced(N, Len(N.nodes))
        BY DEF WellFormed
      <4>2. u \in Tensors(N)
        BY <3>4, <4>1 DEF IsGlobal, IsInput, IsOutput, Tensors
      <4> QED BY <4>2, ScratchFacts
    <3> HIDE DEF alive
    <3> QED BY <1>4, <3>2, <3>3, <3>4
  <2>4. k \in keep
    BY <2>1, <2>3
  <2> HIDE DEF keep, dying
  <2> QED BY <1>3, <2>1, <2>4
<1> HIDE DEF keep, dying, alive
<1>6. N.nodes[i].op = "reshape" => FreedBy(N, i) = dying
  BY DEF FreedBy, dying
<1>7. N.nodes[i].op # "reshape" => FreedBy(N, i) = Picked(dying, keep)
  BY <1>2 DEF FreedBy, dying, alive
<1> QED BY <1>1, <1>5, <1>6, <1>7

(* What the dynamic size counts: at least the buffers that are alive. *)
Counted(N, n, D) ==
    /\ D \in SUBSET Locals(N) /\ Alive(N, n) \subseteq D /\ D \subseteq Produced(N, n)

AccountInv ==
    /\ dynamicSize = [w \in Net |-> dynamicSize[w]]
    /\ maxDynamic \in [Net -> Nat]
    /\ \A w \in Net :
           \E D : Counted(nets[w], generated[w], D) /\ dynamicSize[w] = Total(nets[w].size, D)

LEMMA CountedNode ==
    ASSUME NEW N, WellFormed(N), NEW i \in Nodes(N), NEW D, Counted(N, i - 1, D)
    PROVE  LET born == Range(Born(N, i))
               E == (D \cup born) \ Range(FreedBy(N, i))
           IN  /\ Total(N.size, D) \in Nat /\ Total(N.size, D \cup born) \in Nat
               /\ Total(N.size, D \cup born) = Total(N.size, D) + Total(N.size, born)
               /\ Total(N.size, E) = Total(N.size, D) + Total(N.size, born)
                                         - Total(N.size, Range(FreedBy(N, i)))
               /\ Total(N.size, Alive(N, i - 1) \cup born) <= Total(N.size, D \cup born)
               /\ Counted(N, i, E)
<1> DEFINE born == Range(Born(N, i))
           freed == Range(FreedBy(N, i))
           S == Locals(N)
           f == N.size
           U == D \cup born
           n == Len(N.nodes)
<1>1. IsFiniteSet(S) /\ \A t \in S : f[t] \in Nat
  BY LocalsFinite
<1>2. born \in SUBSET S /\ freed \in SUBSET S /\ freed \subseteq Range(Dying(N, i))
  <2>1. Born(N, i) \in Seq(S) /\ FreedBy(N, i) \in Seq(S) /\ freed \subseteq Range(Dying(N, i))
    BY BornDying, FreedFacts
  <2>2. /\ \A k \in DOMAIN Born(N, i) : Born(N, i)[k] \in S
        /\ \A k \in DOMAIN FreedBy(N, i) : FreedBy(N, i)[k] \in S
    <3> HIDE DEF S
    <3> QED BY <2>1
  <2> HIDE DEF S
  <2> QED BY <2>1, <2>2 DEF Range
<1>3. /\ Alive(N, i) = (Alive(N, i - 1) \cup born) \ Range(Dying(N, i))
      /\ Range(Dying(N, i)) \subseteq Alive(N, i - 1) \cup Range(N.nodes[i].scratch)
  BY AliveStep
<1>4. /\ born = Range(N.nodes[i].scratch) \cup (IF IsGlobal(N, N.nodes[i].out) THEN {} ELSE {N.nodes[i].out})
      /\ Range(Dying(N, i)) = {t \in Range(N.nodes[i].ins) : ~ IsGlobal(N, t) /\ LastUser(N, t) = i}
                                  \cup Range(N.nodes[i].scratch)
  BY BornDying
<1>5. /\ n \in Nat /\ i - 1 \in 0..n /\ i \in 0..n /\ n \in 0..n /\ i <= n /\ i - 1 <= n
  BY NetworkParts
<1>6. /\ Produced(N, i) = Produced(N, i - 1) \cup {N.nodes[i].out}
      /\ \A t \in Produced(N, i - 1) : t # N.nodes[i].out
      /\ Produced(N, i - 1) \subseteq Produced(N, n)
  BY <1>5, ProducedIs
<1>7. Range(N.nodes[i].scratch) \cap Produced(N, n) = {}
  BY NetworkParts DEF NodeWellFormed
<1>8. D \in SUBSET S /\ Alive(N, i - 1) \subseteq D /\ D \subseteq Produced(N, i - 1)
  BY DEF Counted
<1>9. D \cap born = {}
  BY <1>4, <1>6, <1>7, <1>8
<1>10. freed \subseteq U
  BY <1>2, <1>3, <1>4, <1>8
<1>11. U \in SUBSET S /\ Alive(N, i - 1) \cup born \in SUBSET U
  BY <1>2, <1>8
<1>12. Counted(N, i, U \ freed)
  <2>0. Alive(N, i) \subseteq U \ freed
    BY <1>2, <1>3, <1>8
  <2>1. Range(N.nodes[i].scratch) \subseteq freed
    BY ScratchFreed
  <2> QED BY <1>4, <1>6, <1>8, <1>11, <2>0, <2>1 DEF Counted
<1> HIDE DEF S, f, born, freed, U
<1>13. Total(f, U) = Total(f, D) + Total(f, born)
  BY <1>1, <1>2, <1>8, <1>9, TotalUnion DEF U
<1>14. Total(f, D) \in Nat /\ Total(f, U) \in Nat
  BY <1>1, <1>8, <1>11, TotalAdd
<1>15. Total(f, U \ freed) = Total(f, U) - Total(f, freed)
  BY <1>1, <1>10, <1>11, TotalSubset
<1> DEFINE V == Alive(N, i - 1) \cup born
<1>16. Total(f, V) <= Total(f, U)
  <2>1. V \in SUBSET U
    BY <1>11
  <2> HIDE DEF V
  <2> QED BY <1>1, <1>11, <2>1, TotalSubset
<1> HIDE DEF V
<1>17. Total(f, U \ freed) = Total(f, D) + Total(f, born) - Total(f, freed)
  <2>1. Total(f, D) \in Nat /\ Total(f, born) \in Nat /\ Total(f, freed) \in Nat
    BY <1>1, <1>2, <1>8, TotalAdd
  <2> DEFINE x == Total(f, U \ freed)
             a == Total(f, D)
             b == Total(f, born)
             c == Total(f, freed)
  <2>2. a \in Nat /\ b \in Nat /\ c \in Nat /\ x = (a + b) - c
    BY <1>13, <1>15, <2>1
  <2> HIDE DEF x, a, b, c
  <2>3. x = a + b - c
    BY <2>2
  <2> QED BY <2>3 DEF x, a, b, c
<1> QED BY <1>12, <1>13, <1>14, <1>16, <1>17 DEF U, born, freed, f, V

(* The maximum covers what is alive while the node runs. *)
LEMMA AccountNode ==
    ASSUME Static, GenInv, AccountInv, NEW w \in Net, GenerateNode(w)
    PROVE  LET N == nets[w]
               i == generated[w] + 1
           IN  /\ AccountInv'
               /\ maxDynamic[w] <= maxDynamic'[w]
               /\ Total(N.size, Alive(N, i - 1) \cup Range(Born(N, i))) <= maxDynamic'[w]
<1> DEFINE N == nets[w]
           i == generated[w] + 1
           born == Range(Born(N, i))
           grown == Total(N.size, born)
           peak == dynamicSize[w] + grown
           gone == Total(N.size, Range(FreedBy(N, i)))
<1>0. dynamicSize = [v \in Net |-> dynamicSize[v]] /\ maxDynamic \in [Net -> Nat]
  BY DEF AccountInv
<1>1. /\ WellFormed(N) /\ i \in Nodes(N) /\ i - 1 = generated[w] /\ nets' = nets
      /\ generated'[w] = i
      /\ dynamicSize'[w] = dynamicSize[w] + grown - gone
      /\ maxDynamic'[w] = IF maxDynamic[w] > peak THEN maxDynamic[w] ELSE peak
      /\ \A v \in Net : v # w =>
             /\ generated'[v] = generated[v]
             /\ dynamicSize'[v] = dynamicSize[v] /\ maxDynamic'[v] = maxDynamic[v]
      /\ dynamicSize' = [v \in Net |-> dynamicSize'[v]]
      /\ maxDynamic' = [v \in Net |-> maxDynamic'[v]]
  BY <1>0, GeneratedNode
<1>2. PICK D : Counted(N, i - 1, D) /\ dynamicSize[w] = Total(N.size, D)
  BY <1>1 DEF AccountInv
<1> DEFINE E == (D \cup born) \ Range(FreedBy(N, i))
           V == Alive(N, i - 1) \cup born
<1> HIDE DEF N, i
<1>3. /\ Total(N.size, D) \in Nat /\ Total(N.size, D \cup born) \in Nat
      /\ Total(N.size, D \cup born) = Total(N.size, D) + Total(N.size, born)
      /\ Total(N.size, E) = Total(N.size, D) + Total(N.size, born) - gone
      /\ Total(N.size, V) <= Total(N.size, D \cup born)
      /\ Counted(N, i, E)
  <2>1. WellFormed(N) /\ i \in Nodes(N) /\ Counted(N, i - 1, D)
    BY <1>1, <1>2
  <2> QED BY <2>1, CountedNode
<1>4. peak = Total(N.size, D \cup born) /\ dynamicSize'[w] = Total(N.size, E)
  BY <1>1, <1>2, <1>3
<1>8. V \in SUBSET Locals(N) /\ born \in SUBSET Locals(N)
  <2>1. Born(N, i) \in Seq(Locals(N))
    BY <1>1, BornDying
  <2>2. Alive(N, i - 1) \subseteq Locals(N)
    BY <1>2 DEF Counted
  <2> QED BY <2>1, <2>2 DEF Range
<1>9. Total(N.size, V) \in Nat
  <2>1. IsFiniteSet(Locals(N)) /\ \A t \in Locals(N) : N.size[t] \in Nat
    BY <1>1, LocalsFinite
  <2> HIDE DEF V
  <2> QED BY <1>8, <2>1, TotalAdd
<1> HIDE DEF born, grown, peak, gone, E, V
<1>5. /\ peak \in Nat /\ maxDynamic[w] \in Nat /\ maxDynamic'[w] \in Nat
      /\ peak <= maxDynamic'[w] /\ maxDynamic[w] <= maxDynamic'[w]
  <2>1. peak \in Nat /\ maxDynamic[w] \in Nat
    BY <1>0, <1>3, <1>4
  <2> QED BY <1>1, <2>1
<1>6. Total(N.size, V) <= maxDynamic'[w]
  BY <1>3, <1>4, <1>5, <1>9
<1>7. AccountInv'
  <2>1. ASSUME NEW v \in Net
        PROVE  /\ maxDynamic'[v] \in Nat
               /\ \E F : Counted(nets[v], generated'[v], F) /\ dynamicSize'[v] = Total(nets[v].size, F)
    <3>1. CASE v = w
      BY <1>1, <1>3, <1>4, <1>5, <3>1 DEF N
    <3>2. CASE v # w
      BY <1>0, <1>1, <3>2 DEF AccountInv
    <3> QED BY <3>1, <3>2
  <2>2. maxDynamic' \in [Net -> Nat]
    BY <1>1, <2>1
  <2> QED BY <1>1, <2>1, <2>2 DEF AccountInv
<1> QED BY <1>5, <1>6, <1>7 DEF N, i, V, born

LEMMA AccountStep ==
    ASSUME Static, GenInv, AccountInv, [Next]_vars
    PROVE  AccountInv'
<1>1. nets' = nets
  BY StepFrame
<1>2. CASE UNCHANGED <<generated, dynamicSize, maxDynamic>>
  BY <1>1, <1>2 DEF AccountInv
<1>3. ASSUME NEW w \in Net, GenerateNode(w) PROVE AccountInv'
  BY <1>3, AccountNode
<1>4. CASE Generate
  BY <1>2, <1>3, <1>4 DEF Generate, generationVars
<1>5. CASE Place
  BY <1>2, <1>5 DEF Place, generationVars
<1>6. CASE HarnessStep /\ UNCHANGED <<nets, generationVars, placementVars>>
  BY <1>2, <1>6 DEF generationVars
<1>7. CASE UNCHANGED vars
  BY <1>2, <1>7 DEF vars, generationVars
<1> QED BY <1>4, <1>5, <1>6, <1>7 DEF Next, Done

LEMMA AccountInit ==
    ASSUME Init
    PROVE  AccountInv
<1>1. GenerationInit /\ Static
  BY PlanInit DEF Init, PlanInv
<1>2. ASSUME NEW w \in Net
      PROVE  \E D : Counted(nets[w], generated[w], D) /\ dynamicSize[w] = Total(nets[w].size, D)
  <2>1. generated[w] = 0 /\ dynamicSize[w] = 0
    BY <1>1 DEF GenerationInit
  <2>2. WellFormed(nets[w])
    BY <1>1, NetFacts
  <2>3. Alive(nets[w], 0) = {}
    BY <2>2, ProducedIs DEF Alive
  <2>4. Counted(nets[w], generated[w], {})
    BY <2>1, <2>3 DEF Counted
  <2>5. Total(nets[w].size, {}) = 0
    BY TotalStep, FS_EmptySet
  <2> QED BY <2>1, <2>4, <2>5
<1> QED BY <1>1, <1>2 DEF GenerationInit, AccountInv

-----------------------------------------------------------------------------
(* What a program holds on the heap. *)

Frees(N, p, m, t) == p[m].do = "free" /\ Dealias(N, p[m].arg) = t

(* Before instruction n: what has been allocated and not freed since. *)
HeldBefore(N, p, n) ==
    {t \in Locals(N) : \E j \in 1..(n - 1) :
         p[j] = AllocOf(t) /\ \A m \in (j + 1)..(n - 1) : ~ Frees(N, p, m, t)}

LEMMA HeldStep ==
    ASSUME NEW N, NEW p \in Seq(Instr(N)), NEW n \in 1..Len(p)
    PROVE  /\ HeldBefore(N, p, 1) = {}
           /\ p[n] \in Instr(N) /\ p[n].do \in {"alloc", "free", "run"}
           /\ p[n].do # "run" => p[n].arg \in Locals(N)
           /\ p[n].do = "alloc" => /\ p[n] = AllocOf(p[n].arg)
                                   /\ HeldBefore(N, p, n + 1) = HeldBefore(N, p, n) \cup {p[n].arg}
           /\ p[n].do = "free" =>
                  HeldBefore(N, p, n + 1) = HeldBefore(N, p, n) \ {Dealias(N, p[n].arg)}
           /\ p[n].do = "run" => HeldBefore(N, p, n + 1) = HeldBefore(N, p, n)
<1>0. n \in Nat /\ n > 0 /\ n + 1 - 1 = n /\ n \in 1..n /\ 1 - 1 = 0 /\ n - 1 \in Nat
  OBVIOUS
<1>1. p[n] \in Instr(N)
  OBVIOUS
<1>2. /\ p[n].do \in {"alloc", "free", "run"}
      /\ p[n].do # "run" => p[n].arg \in Locals(N)
      /\ p[n].do = "alloc" => p[n] = AllocOf(p[n].arg)
  BY <1>1 DEF Instr, AllocOf
<1>3. HeldBefore(N, p, 1) = {}
  BY DEF HeldBefore
<1>4. ASSUME NEW t \in Locals(N), t \in HeldBefore(N, p, n), ~ Frees(N, p, n, t)
      PROVE  t \in HeldBefore(N, p, n + 1)
  <2>1. PICK j \in 1..(n - 1) : p[j] = AllocOf(t) /\ \A m \in (j + 1)..(n - 1) : ~ Frees(N, p, m, t)
    BY <1>4 DEF HeldBefore
  <2>2. j \in 1..n /\ \A m \in (j + 1)..n : m = n \/ m \in (j + 1)..(n - 1)
    BY <1>0
  <2> QED BY <1>0, <1>4, <2>1, <2>2 DEF HeldBefore
<1>5. ASSUME NEW t \in Locals(N), t \in HeldBefore(N, p, n + 1)
      PROVE  \/ p[n] = AllocOf(t)
             \/ t \in HeldBefore(N, p, n) /\ ~ Frees(N, p, n, t)
  <2>1. PICK j \in 1..n : p[j] = AllocOf(t) /\ \A m \in (j + 1)..n : ~ Frees(N, p, m, t)
    BY <1>0, <1>5 DEF HeldBefore
  <2>2. CASE j # n
    <3>1. j \in 1..(n - 1) /\ n \in (j + 1)..n /\ \A m \in (j + 1)..(n - 1) : m \in (j + 1)..n
      BY <1>0, <2>2
    <3> QED BY <2>1, <3>1 DEF HeldBefore
  <2> QED BY <2>1, <2>2
<1>6. p[n].do = "alloc" => p[n].arg \in HeldBefore(N, p, n + 1)
  <2> SUFFICES ASSUME p[n].do = "alloc" PROVE p[n].arg \in HeldBefore(N, p, n + 1)
    OBVIOUS
  <2>1. p[n].arg \in Locals(N) /\ p[n] = AllocOf(p[n].arg)
    BY <1>2
  <2>2. \A m \in (n + 1)..n : FALSE
    BY <1>0
  <2> QED BY <1>0, <2>1, <2>2 DEF HeldBefore
<1>7. \A t : p[n].do # "free" => ~ Frees(N, p, n, t)
  BY DEF Frees
<1>8. \A t : p[n].do = "free" => (Frees(N, p, n, t) <=> t = Dealias(N, p[n].arg))
  BY DEF Frees
<1>9. \A t : p[n] = AllocOf(t) => p[n].do = "alloc" /\ t = p[n].arg
  BY DEF AllocOf
<1>10. HeldBefore(N, p, n) \subseteq Locals(N) /\ HeldBefore(N, p, n + 1) \subseteq Locals(N)
  BY DEF HeldBefore
<1>11. p[n].do = "alloc" => HeldBefore(N, p, n + 1) = HeldBefore(N, p, n) \cup {p[n].arg}
  BY <1>4, <1>5, <1>6, <1>7, <1>9, <1>10
<1>12. p[n].do = "free" => HeldBefore(N, p, n + 1) = HeldBefore(N, p, n) \ {Dealias(N, p[n].arg)}
  BY <1>4, <1>5, <1>8, <1>9, <1>10
<1>13. p[n].do = "run" => HeldBefore(N, p, n + 1) = HeldBefore(N, p, n)
  BY <1>4, <1>5, <1>7, <1>9, <1>10
<1> QED BY <1>1, <1>2, <1>3, <1>11, <1>12, <1>13

(* What follows does not matter. *)
LEMMA HeldPrefix ==
    ASSUME NEW N, NEW p \in Seq(Instr(N)), NEW c \in Seq(Instr(N)), NEW n \in 1..(Len(p) + 1)
    PROVE  HeldBefore(N, p \o c, n) = HeldBefore(N, p, n)
<1>1. /\ Len(p) \in Nat
      /\ \A k \in 1..(Len(p) + Len(c)) : (p \o c)[k] = IF k <= Len(p) THEN p[k] ELSE c[k - Len(p)]
      /\ Len(c) \in Nat
  BY ConcatParts
<1> DEFINE q == p \o c
<1>2. \A k \in 1..(n - 1) : q[k] = p[k]
  <2> TAKE k \in 1..(n - 1)
  <2>1. k \in 1..(Len(p) + Len(c)) /\ k <= Len(p)
    BY <1>1
  <2> QED BY <1>1, <2>1
<1> HIDE DEF q
<1>3. \A j \in 1..(n - 1) : \A m \in (j + 1)..(n - 1) : m \in 1..(n - 1)
  OBVIOUS
<1>4. \A t : \A j \in 1..(n - 1) : \A m \in (j + 1)..(n - 1) : Frees(N, q, m, t) <=> Frees(N, p, m, t)
  BY <1>2, <1>3 DEF Frees
<1>5. HeldBefore(N, q, n) = HeldBefore(N, p, n)
  BY <1>2, <1>4 DEF HeldBefore
<1> QED BY <1>5 DEF q

(* What a network can do without the others: no view of a local buffer is  *)
(* an output, nothing is left unread, and a reshape reads one local buffer *)
(* at most.                                                                *)
Balanced(N) ==
    /\ ReturnsAll(N)
    /\ \A t \in Buffers(N) : IsGlobal(N, t) => IsGlobal(N, Dealias(N, t))
    /\ \A i \in Nodes(N) :
           N.nodes[i].op \in {"accumulate", "sgd"} => IsGlobal(N, N.nodes[i].out)

(* The networks of a heap deployment return all that they take. *)
LEMMA DeployedBalanced ==
    ASSUME Static, strategy = "heap", NEW w \in Net
    PROVE  Balanced(nets[w])
<1> DEFINE N == nets[w]
<1>1. WellFormed(N) /\ Prepared(deployment, w) /\ deployment.strategy = "heap"
  BY NetFacts DEF Static
<1>2. ReturnsAll(N)
  BY <1>1 DEF Static, Prepared
<1>3. Deployable(deployment)
  BY DeploymentsAssumption DEF Static
<1>4. Len(N.nodes) \in Nat /\ Nodes(N) = 1..Len(N.nodes)
  BY <1>1, NetworkParts
<1>5. ASSUME NEW i \in Nodes(N), N.nodes[i].op \in {"accumulate", "sgd"}
      PROVE  IsOutput(N, N.nodes[i].out) /\ IsInput(N, N.nodes[i].ins[1])
  <2>1. CASE deployment.kind = "inference" /\ Inference(deployment)
    <3>1. CASE w = "net"
      BY <1>5, <2>1, <3>1 DEF Inference, Static
    <3>2. CASE w = "opt"
      <4>1. N.nodes = <<>>
        BY <2>1, <3>2 DEF Inference, Static, NoNetwork
      <4>2. Nodes(N) = {}
        BY <4>1 DEF Nodes
      <4> QED BY <4>2
    <3> QED BY <3>1, <3>2 DEF Net
  <2>2. CASE /\ TrainingGraph(deployment.nets["net"])
             /\ OptimizerGraph(deployment.nets["net"], deployment.nets["opt"], deployment.shared)
    <3>1. CASE w = "net"
      <4>1. TrainingGraph(N)
        BY <2>2, <3>1 DEF Static
      <4>2. N.nodes[i].op = "accumulate"
        BY <1>5, <4>1 DEF TrainingGraph
      <4>3. Users(N, N.nodes[i].out) = {} /\ IsInput(N, N.nodes[i].ins[1])
        BY <4>1, <4>2 DEF TrainingGraph
      <4> QED BY <1>2, <4>3 DEF ReturnsAll
    <3>2. CASE w = "opt"
      <4>1. OptimizerGraph(deployment.nets["net"], N, deployment.shared)
        BY <2>2, <3>2 DEF Static
      <4>2. Range(N.outputs) = Produced(N, Len(N.nodes))
        BY <4>1 DEF OptimizerGraph
      <4>3. IsOutput(N, N.nodes[i].out)
        BY <1>4, <4>2 DEF IsOutput, Produced
      <4>4. N.nodes[i].ins = <<N.inputs[2 * i - 1], N.inputs[2 * i]>>
            /\ Len(N.nodes) = GradStartOf(deployment.nets["net"]) - Len(WithRole(deployment.nets["net"], "data"))
            /\ Len(N.inputs) = 2 * (GradStartOf(deployment.nets["net"]) - Len(WithRole(deployment.nets["net"], "data")))
        BY <4>1 DEF OptimizerGraph
      <4>5. Len(N.inputs) = 2 * Len(N.nodes) /\ N.inputs \in Seq(Buffers(N))
        BY <1>1, <4>4, NetworkParts
      <4>6. 2 * i - 1 \in 1..Len(N.inputs)
        BY <1>4, <4>5
      <4>7. N.nodes[i].ins[1] = N.inputs[2 * i - 1]
        BY <4>4
      <4> QED BY <4>3, <4>5, <4>6, <4>7 DEF IsInput, Range
    <3> QED BY <3>1, <3>2 DEF Net
  <2> QED BY <1>3, <2>1, <2>2 DEF Deployable
<1>6. ASSUME NEW t \in Range(N.inputs) PROVE Dealias(N, t) = t
  <2>1. t \in Buffers(N)
    BY <1>1, NetworkParts
  <2>2. ~ HasAlias(N, t)
    BY <1>1, ProducedIs DEF HasAlias
  <2> QED BY <1>1, <2>1, <2>2, RootFacts
<1>7. ASSUME NEW t \in Buffers(N), IsGlobal(N, t) PROVE IsGlobal(N, Dealias(N, t))
  <2>1. CASE IsInput(N, t)
    BY <1>6, <1>7, <2>1 DEF IsInput
  <2>2. CASE ~ HasAlias(N, t)
    BY <1>1, <1>7, <2>2, RootFacts
  <2>3. CASE IsOutput(N, t) /\ HasAlias(N, t)
    <3>1. PICK i \in Nodes(N) : N.nodes[i].op \in AliasingOp /\ N.nodes[i].out = t
      BY <2>3 DEF HasAlias
    <3>2. N.nodes[i].op # "reshape"
      BY <1>2, <2>3, <3>1 DEF ReturnsAll
    <3>3. N.nodes[i].op \in {"accumulate", "sgd"}
      BY <3>1, <3>2 DEF AliasingOp
    <3>4. IsInput(N, N.nodes[i].ins[1]) /\ AliasOf(N, t) = N.nodes[i].ins[1]
      BY <1>1, <1>5, <3>1, <3>3, AliasIs
    <3>5. Dealias(N, t) = N.nodes[i].ins[1]
      BY <1>1, <1>6, <2>3, <3>4, RootFacts DEF IsInput
    <3> QED BY <3>4, <3>5 DEF IsGlobal
  <2> QED BY <1>7, <2>1, <2>2, <2>3 DEF IsGlobal
<1>8. \A i \in Nodes(N) : N.nodes[i].op \in {"accumulate", "sgd"} => IsGlobal(N, N.nodes[i].out)
  BY <1>5 DEF IsGlobal
<1> HIDE DEF N
<1>9. Balanced(N)
  BY <1>2, <1>7, <1>8 DEF Balanced
<1> QED BY <1>9 DEF N

LEMMA ConcatOnce ==
    ASSUME NEW X, NEW s \in Seq(X), NEW u \in Seq(X), Once(s), Once(u), Range(s) \cap Range(u) = {}
    PROVE  Once(s \o u)
<1> DEFINE a == Len(s)
           b == Len(u)
           q == s \o u
<1>1. /\ a \in Nat /\ b \in Nat /\ DOMAIN q = 1..(a + b) /\ DOMAIN s = 1..a /\ DOMAIN u = 1..b
      /\ \A k \in 1..(a + b) : q[k] = IF k <= a THEN s[k] ELSE u[k - a]
  <2>1. q \in Seq(X) /\ a \in Nat /\ b \in Nat /\ Len(q) = a + b
        /\ \A k \in 1..(a + b) : q[k] = IF k <= a THEN s[k] ELSE u[k - a]
    BY ConcatParts
  <2> HIDE DEF q
  <2> QED BY <2>1
<1>2. \A j \in 1..a : \A k \in 1..b : s[j] # u[k]
  BY <1>1 DEF Range
<1> HIDE DEF q, a, b
<1>3. ASSUME NEW j \in 1..(a + b), NEW k \in 1..(a + b), q[j] = q[k] PROVE j = k
  <2>1. CASE j <= a /\ k <= a
    <3>1. j \in 1..a /\ k \in 1..a /\ s[j] = s[k]
      BY <1>1, <1>3, <2>1
    <3> QED BY <1>1, <3>1 DEF Once
  <2>2. CASE j > a /\ k > a
    <3>1. j - a \in 1..b /\ k - a \in 1..b /\ u[j - a] = u[k - a]
      BY <1>1, <1>3, <2>2
    <3>2. j - a = k - a
      BY <1>1, <3>1 DEF Once
    <3> QED BY <1>1, <3>2
  <2>3. CASE j <= a /\ k > a
    <3>1. j \in 1..a /\ k - a \in 1..b /\ s[j] = u[k - a]
      BY <1>1, <1>3, <2>3
    <3> QED BY <1>2, <3>1
  <2>4. CASE j > a /\ k <= a
    <3>1. k \in 1..a /\ j - a \in 1..b /\ s[k] = u[j - a]
      BY <1>1, <1>3, <2>4
    <3> QED BY <1>2, <3>1
  <2>5. (j <= a \/ j > a) /\ (k <= a \/ k > a)
    BY <1>1
  <2> QED BY <2>1, <2>2, <2>3, <2>4, <2>5
<1> QED BY <1>1, <1>3 DEF Once, q

(* What is picked once is there once. *)
LEMMA PickedOnce ==
    ASSUME NEW X, NEW s \in Seq(X), NEW keep,
           \A j, k \in keep \cap DOMAIN s : s[j] = s[k] => j = k
    PROVE  Once(Picked(s, keep))
<1> DEFINE n == Len(s)
<1>1. n \in Nat /\ DOMAIN s = 1..n /\ \A i \in 1..n : s[i] \in X
  OBVIOUS
<1>2. PICK pick : PickSteps(s, keep, pick)
  BY PickedSteps
<1> DEFINE Right(k) == /\ pick[k] \in Seq(X) /\ Once(pick[k])
                       /\ Range(pick[k]) = {s[j] : j \in keep \cap (1..k)}
           P == {k \in Nat : k <= n => Right(k)}
<1>3. Right(0)
  BY <1>2 DEF PickSteps, Range, Once
<1>4. ASSUME NEW k \in Nat, k + 1 <= n, Right(k) PROVE Right(k + 1)
  <2>1. k + 1 \in 1..n /\ k + 1 - 1 = k /\ s[k + 1] \in X
    BY <1>1, <1>4
  <2>2. pick[k + 1] = IF k + 1 \in keep THEN Append(pick[k], s[k + 1]) ELSE pick[k]
    <3> HIDE DEF Right
    <3> QED BY <1>2, <2>1 DEF PickSteps
  <2>3. CASE k + 1 \in keep
    <3>1. keep \cap (1..(k + 1)) = (keep \cap (1..k)) \cup {k + 1}
      BY <2>3
    <3>2. s[k + 1] \notin Range(pick[k])
      <4> SUFFICES ASSUME NEW j \in keep \cap (1..k), s[j] = s[k + 1] PROVE FALSE
        BY <1>4
      <4>1. j \in keep \cap DOMAIN s /\ k + 1 \in keep \cap DOMAIN s /\ j # k + 1
        BY <1>1, <2>1, <2>3
      <4> QED BY <4>1
    <3>3. pick[k + 1] = Append(pick[k], s[k + 1]) /\ pick[k] \in Seq(X) /\ Once(pick[k])
      BY <1>4, <2>2, <2>3
    <3>4. Once(pick[k + 1])
      BY <2>1, <3>2, <3>3, AppendOnce
    <3>5. Range(pick[k + 1]) = Range(pick[k]) \cup {s[k + 1]} /\ pick[k + 1] \in Seq(X)
      BY <2>1, <3>3, AppendRange
    <3> QED BY <1>4, <3>1, <3>4, <3>5
  <2>4. CASE k + 1 \notin keep
    <3>1. keep \cap (1..(k + 1)) = keep \cap (1..k)
      BY <2>4
    <3> QED BY <1>4, <2>2, <2>4, <3>1
  <2> QED BY <2>3, <2>4
<1> HIDE DEF Right, n
<1>5. P = Nat
  <2>1. 0 \in P
    BY <1>3
  <2>2. ASSUME NEW k \in P PROVE k + 1 \in P
    <3> k \in Nat /\ (k + 1 <= n => k <= n)
      BY <1>1
    <3> QED BY <1>4
  <2> HIDE DEF P
  <2> QED BY <2>1, <2>2, NatInduct DEF P
<1>6. Right(n)
  <2>1. n \in P /\ n <= n
    <3> HIDE DEF P
    <3> QED BY <1>1, <1>5
  <2> QED BY <2>1
<1> QED BY <1>2, <1>6 DEF Right, PickSteps, n

LEMMA BornDyingOnce ==
    ASSUME NEW N, WellFormed(N), NEW i \in Nodes(N)
    PROVE  Once(Born(N, i)) /\ Once(Dying(N, i)) /\ Once(N.nodes[i].scratch)
<1> DEFINE node == N.nodes[i]
           ins == node.ins
           X == Buffers(N)
           own == IF IsGlobal(N, node.out) THEN <<>> ELSE <<node.out>>
           keep == {k \in References(ins) : ~ IsGlobal(N, ins[k]) /\ LastUser(N, ins[k]) = i}
           some == Picked(ins, keep)
<1>1. node.out \in X /\ node.scratch \in Seq(X) /\ ins \in Seq(X) /\ ins \in Seq(Range(ins))
      /\ NodeWellFormed(N, i) /\ node.out \in Tensors(N) /\ Range(ins) \subseteq Tensors(N)
  <2>1. node.out \in X /\ node.scratch \in Seq(X) /\ ins \in Seq(X) /\ NodeWellFormed(N, i)
    BY NetworkParts
  <2>2. node.out \in Tensors(N) /\ Range(ins) \subseteq Tensors(N)
    BY ProducedIs DEF Touches
  <2> QED BY <2>1, <2>2, RangeSeq
<1>2. Once(node.scratch) /\ Range(node.scratch) \cap Tensors(N) = {}
  BY <1>1 DEF NodeWellFormed, IsInjective, Once, Tensors
<1>3. Once(own) /\ own \in Seq(X) /\ Range(own) \subseteq {node.out}
  <2>1. CASE IsGlobal(N, node.out)
    BY <2>1 DEF Once, Range
  <2>2. CASE ~ IsGlobal(N, node.out)
    <3>1. own = <<node.out>>
      BY <2>2
    <3>2. <<node.out>> \in Seq(X) /\ DOMAIN <<node.out>> = 1..1 /\ Range(<<node.out>>) = {node.out}
      BY <1>1, SingleFacts
    <3> QED BY <3>1, <3>2 DEF Once
  <2> QED BY <2>1, <2>2
<1>4. Once(own \o node.scratch)
  <2> DEFINE s == own
             u == node.scratch
  <2>1. s \in Seq(X) /\ u \in Seq(X) /\ Once(s) /\ Once(u) /\ Range(s) \cap Range(u) = {}
    BY <1>1, <1>2, <1>3
  <2> HIDE DEF s, u, X
  <2>2. Once(s \o u)
    BY <2>1, ConcatOnce
  <2> QED BY <2>2 DEF s, u
<1>5. some \in Seq(Range(ins)) /\ Once(some)
  <2>1. DOMAIN ins = 1..Len(ins) /\ Len(ins) \in Nat
    BY <1>1
  <2>2. ASSUME NEW j \in keep \cap DOMAIN ins, NEW k \in keep \cap DOMAIN ins, ins[j] = ins[k]
        PROVE  j = k
    <3>1. ~ (j \in 1..(k - 1)) /\ ~ (k \in 1..(j - 1))
      BY <2>2 DEF References
    <3> QED BY <2>1, <3>1
  <2> DEFINE Y == Range(ins)
  <2>3. ins \in Seq(Y)
    BY <1>1
  <2> HIDE DEF keep, ins, Y
  <2>4. some \in Seq(Y) /\ Once(some)
    BY <2>2, <2>3, PickedOnce, PickedFacts
  <2> QED BY <2>4 DEF Y, ins
<1>6. Once(some \o node.scratch)
  <2> DEFINE s == some
             u == node.scratch
  <2>0. Range(s) \subseteq Range(ins)
    BY <1>5 DEF Range
  <2>1. s \in Seq(X) /\ u \in Seq(X) /\ Once(s) /\ Once(u) /\ Range(s) \cap Range(u) = {}
    <3>1. Range(ins) \subseteq X
      BY <1>1 DEF Range
    <3>2. s \in Seq(X)
      BY <1>5, <2>0, <3>1, RangeSeq
    <3> QED BY <1>1, <1>2, <1>5, <2>0, <3>2
  <2> HIDE DEF s, u, X
  <2>2. Once(s \o u)
    BY <2>1, ConcatOnce
  <2> QED BY <2>2 DEF s, u
<1> QED BY <1>2, <1>4, <1>6 DEF Born, Dying

-----------------------------------------------------------------------------
(* The local buffers in whose memory the tensors of S lie. *)
RootsOf(N, S) == {r \in {Dealias(N, t) : t \in S} : ~ IsGlobal(N, r)}

Roots(N, n) == RootsOf(N, Alive(N, n))

LEMMA SameRoot ==
    ASSUME NEW N, WellFormed(N), NEW t \in Buffers(N)
    PROVE  Dealias(N, t) \in Buffers(N) /\ Dealias(N, Dealias(N, t)) = Dealias(N, t)
<1>1. Dealias(N, t) \in Buffers(N) /\ ~ HasAlias(N, Dealias(N, t))
  BY RootFacts, RootHasNoAlias
<1> QED BY <1>1, RootFacts

(* The roots of what is alive are written before. *)
LEMMA RootsThere ==
    ASSUME NEW N, WellFormed(N), NEW n \in 0..Len(N.nodes)
    PROVE  Roots(N, n) \subseteq Produced(N, n) /\ Roots(N, n) \subseteq Locals(N)
<1>1. Len(N.nodes) \in Nat
  BY NetworkParts
<1>2. Produced(N, n) \subseteq Produced(N, Len(N.nodes))
  BY <1>1, ProducedIs
<1>3. ASSUME NEW t \in Alive(N, n), ~ IsGlobal(N, Dealias(N, t)) PROVE Dealias(N, t) \in Produced(N, n)
  <2>1. t \in Produced(N, n) /\ t \in Buffers(N)
    BY <1>2, ProducedIs DEF Alive, Tensors
  <2>2. Dealias(N, t) \in Range(N.inputs) \cup Produced(N, n)
    BY <2>1, RootFacts
  <2> QED BY <1>3, <2>2 DEF IsGlobal, IsInput
<1>4. ASSUME NEW r \in Produced(N, n), ~ IsGlobal(N, r) PROVE r \in Locals(N)
  <2>1. PICK i \in 1..Len(N.nodes) : r = N.nodes[i].out
    BY <1>2 DEF Produced
  <2>2. i \in Nodes(N)
    BY NetworkParts
  <2> QED BY <1>4, <2>1, <2>2 DEF Locals, Touched, Touches
<1> QED BY <1>3, <1>4 DEF Roots, RootsOf

(* Two buffers that are freed behind a node lie in different memory. *)
LEMMA FreedOnce ==
    ASSUME NEW N, WellFormed(N), NEW i \in Nodes(N), N.nodes[i].op # "reshape"
    PROVE  LET freed == FreedBy(N, i)
           IN  \A j, k \in DOMAIN freed : Dealias(N, freed[j]) = Dealias(N, freed[k]) => j = k
<1> DEFINE dying == Dying(N, i)
           alive == Alive(N, i - 1) \cup Range(Born(N, i))
           keep == {k \in DOMAIN dying : ~ HasLiveAliases(N, dying[k], alive \ {dying[j] : j \in 1..k})}
           freed == Picked(dying, keep)
           X == Locals(N)
<1>1. dying \in Seq(X) /\ Range(dying) \subseteq alive /\ Once(dying)
      /\ DOMAIN dying = 1..Len(dying) /\ Len(dying) \in Nat
  BY BornDying, AliveStep, BornDyingOnce
<1>2. FreedBy(N, i) = freed
  BY DEF FreedBy, Released
<1>3. Range(dying) \subseteq DOMAIN N.size
  BY <1>1, LocalsFacts DEF Range, Buffers
<1>4. ASSUME NEW k \in keep, NEW l \in keep, k < l, Dealias(N, dying[k]) = Dealias(N, dying[l])
      PROVE  FALSE
  <2>1. dying[l] \in alive /\ dying[l] \in DOMAIN N.size
    BY <1>1, <1>3, <1>4 DEF Range
  <2>2. dying[l] \notin {dying[j] : j \in 1..k}
    <3> SUFFICES ASSUME NEW j \in 1..k, dying[j] = dying[l] PROVE FALSE
      OBVIOUS
    <3>1. j \in DOMAIN dying /\ l \in DOMAIN dying /\ j # l
      BY <1>1, <1>4
    <3> QED BY <1>1, <3>1 DEF Once
  <2>3. HasLiveAliases(N, dying[k], alive \ {dying[j] : j \in 1..k})
    BY <1>4, <2>1, <2>2 DEF HasLiveAliases, SameMemory
  <2> QED BY <1>4, <2>3
<1>5. \A k, l \in keep : Dealias(N, dying[k]) = Dealias(N, dying[l]) => k = l
  <2> SUFFICES ASSUME NEW k \in keep, NEW l \in keep, Dealias(N, dying[k]) = Dealias(N, dying[l]), k # l
               PROVE  FALSE
    OBVIOUS
  <2>1. k \in Nat /\ l \in Nat
    BY <1>1
  <2>2. k < l \/ l < k
    BY <2>1
  <2> HIDE DEF keep
  <2> QED BY <1>4, <2>2
<1> HIDE DEF keep, dying, X
<1>6. \A j, k \in keep \cap DOMAIN dying : dying[j] = dying[k] => j = k
  BY <1>5
<1>7. Once(freed) /\ freed \in Seq(X) /\ Range(freed) = {dying[k] : k \in keep \cap DOMAIN dying}
  BY <1>1, <1>6, PickedOnce, PickedFacts
<1>8. ASSUME NEW j \in DOMAIN freed, NEW k \in DOMAIN freed, Dealias(N, freed[j]) = Dealias(N, freed[k])
      PROVE  j = k
  <2>1. freed[j] \in Range(freed) /\ freed[k] \in Range(freed)
    BY DEF Range
  <2>2. PICK a \in keep : freed[j] = dying[a]
    BY <1>7, <2>1
  <2>3. PICK b \in keep : freed[k] = dying[b]
    BY <1>7, <2>1
  <2>4. a = b
    BY <1>5, <1>8, <2>2, <2>3
  <2> QED BY <1>7, <2>2, <2>3, <2>4 DEF Once
<1> QED BY <1>2, <1>8

(* Behind a node that is no view, the memory is freed in which nothing is  *)
(* alive any more.                                                         *)
LEMMA FreedRoots ==
    ASSUME NEW N, WellFormed(N), Balanced(N), NEW i \in Nodes(N), N.nodes[i].op # "reshape"
    PROVE  LET all == RootsOf(N, Alive(N, i - 1) \cup Range(Born(N, i)))
           IN  {Dealias(N, t) : t \in Range(FreedBy(N, i))} = all \ Roots(N, i)
<1> DEFINE dying == Dying(N, i)
           alive == Alive(N, i - 1) \cup Range(Born(N, i))
           keep == {k \in DOMAIN dying : ~ HasLiveAliases(N, dying[k], alive \ {dying[j] : j \in 1..k})}
           all == RootsOf(N, alive)
           X == Locals(N)
<1>1. /\ dying \in Seq(X) /\ Range(dying) \subseteq alive
      /\ DOMAIN dying = 1..Len(dying) /\ Len(dying) \in Nat
      /\ Alive(N, i) = alive \ Range(dying) /\ alive \subseteq Buffers(N)
  BY BornDying, AliveStep
<1>2. Range(FreedBy(N, i)) = {dying[k] : k \in keep}
  <2>1. FreedBy(N, i) = Picked(dying, keep)
    BY DEF FreedBy, Released
  <2>2. keep \cap DOMAIN dying = keep
    OBVIOUS
  <2> HIDE DEF keep, dying, X
  <2> QED BY <1>1, <2>1, <2>2, PickedFacts
<1>3. ASSUME NEW k \in keep PROVE Dealias(N, dying[k]) \in all \ Roots(N, i)
  <2>1. dying[k] \in alive /\ dying[k] \in Buffers(N) /\ k \in DOMAIN dying
    BY <1>1 DEF Range
  <2>2. \A u \in Buffers(N) : Dealias(N, dying[k]) = Dealias(N, u) =>
            ~ (u \in alive \ {dying[j] : j \in 1..k}) /\ ~ IsGlobal(N, u)
    BY DEF HasLiveAliases, SameMemory, Buffers
  <2>3. ~ IsGlobal(N, Dealias(N, dying[k]))
    BY <2>1, <2>2, SameRoot
  <2>4. Dealias(N, dying[k]) \notin Roots(N, i)
    <3> SUFFICES ASSUME NEW u \in Alive(N, i), Dealias(N, u) = Dealias(N, dying[k]) PROVE FALSE
      BY DEF Roots, RootsOf
    <3>1. {dying[j] : j \in 1..k} \subseteq Range(dying)
      BY <1>1, <2>1 DEF Range
    <3> QED BY <1>1, <2>2, <3>1
  <2> QED BY <2>1, <2>3, <2>4 DEF RootsOf
<1>4. ASSUME NEW r \in all, r \notin Roots(N, i) PROVE \E k \in keep : r = Dealias(N, dying[k])
  <2> DEFINE its == {k \in 1..Len(dying) : Dealias(N, dying[k]) = r}
  <2>1. ~ IsGlobal(N, r) /\ \E u \in alive : Dealias(N, u) = r
    BY DEF RootsOf
  <2>2. \A u \in alive : Dealias(N, u) = r => u \in Range(dying)
    <3> SUFFICES ASSUME NEW u \in alive, Dealias(N, u) = r, u \notin Range(dying) PROVE FALSE
      OBVIOUS
    <3>1. u \in Alive(N, i)
      BY <1>1
    <3> QED BY <1>4, <2>1, <3>1 DEF Roots, RootsOf
  <2>3. its # {}
    <3>1. PICK u \in alive : Dealias(N, u) = r
      BY <2>1
    <3>2. PICK k \in 1..Len(dying) : dying[k] = u
      BY <1>1, <2>2, <3>1 DEF Range
    <3> QED BY <3>1, <3>2
  <2>4. PICK k \in its : \A l \in its : k >= l
    <3> DEFINE n == Len(dying)
    <3>1. its \in SUBSET (1..n) /\ n \in Nat
      BY <1>1
    <3> HIDE DEF its, n
    <3> QED BY <2>3, <3>1, IntervalMax
  <2>5. ~ HasLiveAliases(N, dying[k], alive \ {dying[j] : j \in 1..k})
    <3> SUFFICES ASSUME NEW u \in DOMAIN N.size, Dealias(N, dying[k]) = Dealias(N, u),
                        u \in alive \ {dying[j] : j \in 1..k} \/ IsGlobal(N, u)
                 PROVE  FALSE
      BY DEF HasLiveAliases, SameMemory
    <3>1. Dealias(N, u) = r
      OBVIOUS
    <3>2. CASE IsGlobal(N, u)
      BY <2>1, <3>1, <3>2 DEF Balanced, Buffers
    <3>3. CASE u \in alive \ {dying[j] : j \in 1..k}
      <4>1. PICK l \in 1..Len(dying) : dying[l] = u
        BY <1>1, <2>2, <3>1, <3>3 DEF Range
      <4>2. l \in its /\ l <= k
        BY <1>1, <2>4, <3>1, <4>1
      <4>3. l \in 1..k
        BY <1>1, <4>2
      <4> QED BY <3>3, <4>1, <4>3
    <3> QED BY <3>2, <3>3
  <2>6. k \in keep
    BY <1>1, <2>5
  <2> QED BY <2>6
<1> HIDE DEF keep, dying, all
<1>5. {Dealias(N, t) : t \in Range(FreedBy(N, i))} = all \ Roots(N, i)
  BY <1>2, <1>3, <1>4
<1> QED BY <1>5 DEF all

(* A view changes nothing. *)
LEMMA ViewRoots ==
    ASSUME NEW N, WellFormed(N), Balanced(N), NEW i \in Nodes(N), N.nodes[i].op = "reshape"
    PROVE  Roots(N, i) = Roots(N, i - 1)
<1> DEFINE node == N.nodes[i]
           from == node.ins[1]
<1>1. /\ Alive(N, i) = (Alive(N, i - 1) \cup Range(Born(N, i))) \ Range(Dying(N, i))
      /\ Range(Born(N, i)) = Range(node.scratch) \cup (IF IsGlobal(N, node.out) THEN {} ELSE {node.out})
      /\ Range(Dying(N, i)) = {t \in Range(node.ins) : ~ IsGlobal(N, t) /\ LastUser(N, t) = i}
                                  \cup Range(node.scratch)
  BY AliveStep, BornDying
<1>2. /\ from \in Range(node.ins) /\ HasAlias(N, node.out) /\ AliasOf(N, node.out) = from
      /\ from \in Range(N.inputs) \cup Produced(N, i - 1)
  BY AliasIs DEF AliasingOp
<1>3. node.out \in Buffers(N) /\ from \in Buffers(N) /\ Range(node.ins) \subseteq Buffers(N)
      /\ Len(N.nodes) \in Nat /\ Nodes(N) = 1..Len(N.nodes) /\ node.ins \in Seq(Buffers(N))
  BY <1>2, NetworkParts
<1>4. Dealias(N, node.out) = Dealias(N, from)
  BY <1>2, <1>3, RootFacts
<1>5. /\ ~ IsGlobal(N, node.out) /\ Users(N, node.out) # {}
      /\ \A k \in 2..Len(node.ins) : IsGlobal(N, node.ins[k])
  BY ProducedIs DEF Balanced, ReturnsAll, IsGlobal, IsInput
<1>6. node.out \in Alive(N, i) /\ i \in Nat /\ Produced(N, i) = Produced(N, i - 1) \cup {node.out}
  <2>1. LastUser(N, node.out) > i /\ i \in Nat
    BY <1>3, <1>5, UsersFacts
  <2>2. node.out \in Produced(N, i)
    <3>1. i \in 1..i
      BY <1>3, <2>1
    <3> QED BY <3>1 DEF Produced
  <2> QED BY <1>5, <2>1, <2>2, ProducedIs DEF Alive
<1>7. node.out \notin Range(node.scratch)
  <2>1. node.out \in Tensors(N)
    BY ProducedIs DEF Touches
  <2> QED BY <2>1, NetworkParts DEF NodeWellFormed, Tensors
<1>8. ASSUME NEW u \in Alive(N, i), ~ IsGlobal(N, Dealias(N, u))
      PROVE  \E v \in Alive(N, i - 1) : Dealias(N, v) = Dealias(N, u)
  <2>1. CASE u = node.out
    <3>1. ~ IsGlobal(N, from)
      BY <1>3, <1>4, <1>8, <2>1 DEF Balanced
    <3>2. from \in Produced(N, i - 1)
      BY <1>2, <3>1 DEF IsGlobal, IsInput
    <3>3. i \in Users(N, from)
      BY <1>2 DEF Users
    <3>4. LastUser(N, from) > i - 1
      BY <1>3, <3>3, UsersFacts
    <3> QED BY <1>4, <2>1, <3>1, <3>2, <3>4 DEF Alive
  <2>2. CASE u # node.out
    BY <1>1, <2>2
  <2> QED BY <2>1, <2>2
<1>9. ASSUME NEW u \in Alive(N, i - 1), ~ IsGlobal(N, Dealias(N, u))
      PROVE  \E v \in Alive(N, i) : Dealias(N, v) = Dealias(N, u)
  <2>1. CASE u \notin Range(Dying(N, i))
    BY <1>1, <2>1
  <2>2. CASE u \in Range(Dying(N, i))
    <3>1. u \notin Range(node.scratch)
      <4>1. u \in Produced(N, Len(N.nodes))
        BY <1>3, ProducedIs DEF Alive
      <4> QED BY <4>1, NetworkParts DEF NodeWellFormed
    <3>2. u \in Range(node.ins) /\ ~ IsGlobal(N, u)
      BY <1>1, <2>2, <3>1
    <3>3. PICK k \in 1..Len(node.ins) : u = node.ins[k]
      BY <1>3, <3>2 DEF Range
    <3>4. k = 1
      <4>1. Len(node.ins) \in Nat
        BY <1>3
      <4>2. k \notin 2..Len(node.ins)
        BY <1>5, <3>2, <3>3
      <4> QED BY <4>1, <4>2
    <3> QED BY <1>4, <1>6, <3>3, <3>4
  <2> QED BY <2>1, <2>2
<1> QED BY <1>8, <1>9 DEF Roots, RootsOf

(* In the end nothing is alive. *)
LEMMA NothingLeft ==
    ASSUME NEW N, WellFormed(N), Balanced(N)
    PROVE  Roots(N, Len(N.nodes)) = {} /\ Roots(N, 0) = {}
<1>1. Len(N.nodes) \in Nat /\ Nodes(N) = 1..Len(N.nodes)
  BY NetworkParts
<1>2. ASSUME NEW t \in Alive(N, Len(N.nodes)) PROVE FALSE
  <2>1. PICK i \in 1..Len(N.nodes) : t = N.nodes[i].out
    BY DEF Alive, Produced
  <2>2. Users(N, t) # {}
    BY <1>1, <2>1 DEF Balanced, ReturnsAll, Alive, IsGlobal
  <2>3. LastUser(N, t) \in 1..Len(N.nodes) /\ LastUser(N, t) > Len(N.nodes)
    BY <1>1, <2>2, UsersFacts DEF Alive
  <2> QED BY <1>1, <2>3
<1>3. Alive(N, 0) = {}
  BY ProducedIs DEF Alive
<1> QED BY <1>2, <1>3 DEF Roots, RootsOf


(* A row of allocations, and one of releases. *)
Grows(N, q, b, s) ==
    \A k \in 0..Len(s) :
        HeldBefore(N, q, b + k + 1) = HeldBefore(N, q, b + 1) \cup {s[j] : j \in 1..k}

Shrinks(N, q, b, s) ==
    \A k \in 0..Len(s) :
        HeldBefore(N, q, b + k + 1) = HeldBefore(N, q, b + 1) \ {Dealias(N, s[j]) : j \in 1..k}

LEMMA HeldGrows ==
    ASSUME NEW N, NEW q \in Seq(Instr(N)), NEW b \in Nat, NEW s \in Seq(Locals(N)),
           b + Len(s) <= Len(q), \A k \in 1..Len(s) : q[b + k] = AllocOf(s[k])
    PROVE  Grows(N, q, b, s)
<1> DEFINE Right(k) == HeldBefore(N, q, b + k + 1) = HeldBefore(N, q, b + 1) \cup {s[j] : j \in 1..k}
           P == {k \in Nat : k <= Len(s) => Right(k)}
<1>1. Len(s) \in Nat /\ Len(q) \in Nat
  OBVIOUS
<1>2. Right(0)
  <2>1. b + 0 + 1 = b + 1 /\ 1..0 = {}
    OBVIOUS
  <2> QED BY <2>1
<1>3. ASSUME NEW k \in Nat, k + 1 <= Len(s), Right(k) PROVE Right(k + 1)
  <2> DEFINE n == b + k + 1
  <2>1. n \in 1..Len(q) /\ n + 1 = b + (k + 1) + 1 /\ q[n] = AllocOf(s[k + 1])
    <3>1. k + 1 \in 1..Len(s) /\ b + (k + 1) = n /\ n \in 1..Len(q) /\ n + 1 = b + (k + 1) + 1
      BY <1>1, <1>3
    <3> QED BY <3>1
  <2>2. q[n].do = "alloc" /\ q[n].arg = s[k + 1]
    BY <2>1 DEF AllocOf
  <2> HIDE DEF n
  <2>3. HeldBefore(N, q, n + 1) = HeldBefore(N, q, n) \cup {s[k + 1]}
    BY <2>1, <2>2, HeldStep
  <2>4. {s[j] : j \in 1..(k + 1)} = {s[j] : j \in 1..k} \cup {s[k + 1]}
    <3>1. \A j : j \in 1..(k + 1) <=> j \in 1..k \/ j = k + 1
      OBVIOUS
    <3> QED BY <3>1
  <2> QED BY <1>3, <2>1, <2>3, <2>4 DEF n
<1> HIDE DEF Right
<1>4. P = Nat
  <2>1. 0 \in P
    BY <1>2
  <2>2. ASSUME NEW k \in P PROVE k + 1 \in P
    <3> k \in Nat /\ (k + 1 <= Len(s) => k <= Len(s))
      BY <1>1
    <3> QED BY <1>3
  <2> HIDE DEF P
  <2> QED BY <2>1, <2>2, NatInduct DEF P
<1>5. ASSUME NEW k \in 0..Len(s) PROVE Right(k)
  <2>1. k \in P /\ k <= Len(s)
    <3> HIDE DEF P
    <3> QED BY <1>1, <1>4
  <2> QED BY <2>1
<1> QED BY <1>5 DEF Right, Grows

LEMMA HeldShrinks ==
    ASSUME NEW N, NEW q \in Seq(Instr(N)), NEW b \in Nat, NEW s \in Seq(Locals(N)),
           b + Len(s) <= Len(q), \A k \in 1..Len(s) : q[b + k] = [do |-> "free", arg |-> s[k]]
    PROVE  Shrinks(N, q, b, s)
<1> DEFINE Right(k) == HeldBefore(N, q, b + k + 1) = HeldBefore(N, q, b + 1) \ {Dealias(N, s[j]) : j \in 1..k}
           P == {k \in Nat : k <= Len(s) => Right(k)}
<1>1. Len(s) \in Nat /\ Len(q) \in Nat
  OBVIOUS
<1>2. Right(0)
  <2>1. b + 0 + 1 = b + 1 /\ 1..0 = {}
    OBVIOUS
  <2> QED BY <2>1
<1>3. ASSUME NEW k \in Nat, k + 1 <= Len(s), Right(k) PROVE Right(k + 1)
  <2> DEFINE n == b + k + 1
  <2>1. n \in 1..Len(q) /\ n + 1 = b + (k + 1) + 1 /\ q[n] = [do |-> "free", arg |-> s[k + 1]]
    <3>1. k + 1 \in 1..Len(s) /\ b + (k + 1) = n /\ n \in 1..Len(q) /\ n + 1 = b + (k + 1) + 1
      BY <1>1, <1>3
    <3> QED BY <3>1
  <2>2. q[n].do = "free" /\ q[n].arg = s[k + 1]
    <3> HIDE DEF n
    <3> QED BY <2>1
  <2> HIDE DEF n
  <2>3. HeldBefore(N, q, n + 1) = HeldBefore(N, q, n) \ {Dealias(N, s[k + 1])}
    <3>1. n \in 1..Len(q) /\ q[n].do = "free"
      BY <2>1, <2>2
    <3>2. HeldBefore(N, q, n + 1) = HeldBefore(N, q, n) \ {Dealias(N, q[n].arg)}
      BY <3>1, HeldStep
    <3> QED BY <2>2, <3>2
  <2>4. {Dealias(N, s[j]) : j \in 1..(k + 1)} = {Dealias(N, s[j]) : j \in 1..k} \cup {Dealias(N, s[k + 1])}
    <3>1. \A j : j \in 1..(k + 1) <=> j \in 1..k \/ j = k + 1
      OBVIOUS
    <3> QED BY <3>1
  <2> QED BY <1>3, <2>1, <2>3, <2>4 DEF n
<1> HIDE DEF Right
<1>4. P = Nat
  <2>1. 0 \in P
    BY <1>2
  <2>2. ASSUME NEW k \in P PROVE k + 1 \in P
    <3>1. k \in Nat /\ (k + 1 <= Len(s) => k <= Len(s))
      BY <1>1
    <3>2. k + 1 <= Len(s) => Right(k + 1)
      BY <1>3, <3>1
    <3> QED BY <3>1, <3>2
  <2> HIDE DEF P
  <2> QED BY <2>1, <2>2, NatInduct DEF P
<1>5. ASSUME NEW k \in 0..Len(s) PROVE Right(k)
  <2>1. k \in P /\ k <= Len(s)
    <3> HIDE DEF P
    <3> QED BY <1>1, <1>4
  <2> QED BY <2>1
<1> QED BY <1>5 DEF Right, Shrinks

(* The parts of a code that is appended. *)
Parts(X, p, x, y, z) ==
    LET q == p \o (x \o y \o z)
        b == Len(p)
        m == Len(p) + Len(x) + 1
    IN  /\ q \in Seq(X) /\ x \o y \o z \in Seq(X)
        /\ b \in Nat /\ Len(x) \in Nat /\ Len(z) \in Nat /\ Len(q) = m + Len(z)
        /\ \A k \in 1..b : q[k] = p[k]
        /\ \A k \in 1..Len(x) : q[b + k] = x[k]
        /\ q[m] = y[1]
        /\ \A k \in 1..Len(z) : q[m + k] = z[k]

LEMMA FourParts ==
    ASSUME NEW X, NEW p \in Seq(X), NEW x \in Seq(X), NEW y \in Seq(X), Len(y) = 1, NEW z \in Seq(X)
    PROVE  Parts(X, p, x, y, z)
<1> DEFINE a == Len(x)
           b == Len(p)
           c == Len(z)
<1>0. a \in Nat /\ b \in Nat /\ c \in Nat
  OBVIOUS
<1> DEFINE xy == x \o y
<1>1. xy \in Seq(X) /\ Len(xy) = Len(x) + Len(y)
      /\ \A k \in 1..(Len(x) + Len(y)) : xy[k] = IF k <= Len(x) THEN x[k] ELSE y[k - Len(x)]
  BY ConcatParts
<1> HIDE DEF xy
<1>2. xy \in Seq(X) /\ Len(xy) = a + 1 /\ \A k \in 1..(a + 1) : xy[k] = IF k <= a THEN x[k] ELSE y[k - a]
  BY <1>1
<1> DEFINE xyz == xy \o z
<1> xy \in Seq(X)
  BY <1>2
<1>3. xyz \in Seq(X) /\ Len(xyz) = Len(xy) + Len(z)
      /\ \A k \in 1..(Len(xy) + Len(z)) : xyz[k] = IF k <= Len(xy) THEN xy[k] ELSE z[k - Len(xy)]
  BY ConcatParts
<1> HIDE DEF xyz
<1>4. xyz \in Seq(X) /\ Len(xyz) = (a + 1) + c
      /\ \A k \in 1..((a + 1) + c) : xyz[k] = IF k <= a + 1 THEN xy[k] ELSE z[k - (a + 1)]
  BY <1>2, <1>3
<1> DEFINE q == p \o xyz
<1> xyz \in Seq(X)
  BY <1>4
<1>5. q \in Seq(X) /\ Len(q) = Len(p) + Len(xyz)
      /\ \A k \in 1..(Len(p) + Len(xyz)) : q[k] = IF k <= Len(p) THEN p[k] ELSE xyz[k - Len(p)]
  BY ConcatParts
<1> HIDE DEF q
<1>6. q \in Seq(X) /\ Len(q) = b + ((a + 1) + c)
      /\ \A k \in 1..(b + ((a + 1) + c)) : q[k] = IF k <= b THEN p[k] ELSE xyz[k - b]
  BY <1>4, <1>5
<1>7. q = p \o (x \o y \o z) /\ xyz = x \o y \o z
  BY DEF q, xyz, xy
<1> HIDE DEF a, b, c
<1>8. \A k \in 1..b : q[k] = p[k]
  BY <1>0, <1>6
<1>9. ASSUME NEW k \in 1..a PROVE q[b + k] = x[k]
  <2>1. b + k \in 1..(b + ((a + 1) + c)) /\ ~ (b + k <= b) /\ b + k - b = k
        /\ k \in 1..((a + 1) + c) /\ k <= a + 1 /\ k \in 1..(a + 1) /\ k <= a
    BY <1>0
  <2>2. q[b + k] = xyz[k]
    <3> DEFINE n == b + k
    <3>1. n \in 1..(b + ((a + 1) + c)) /\ ~ (n <= b) /\ n - b = k
      BY <1>0, <2>1
    <3> HIDE DEF n
    <3>2. q[n] = xyz[k]
      BY <1>6, <3>1
    <3> QED BY <3>2 DEF n
  <2>3. xyz[k] = xy[k] /\ xy[k] = x[k]
    BY <1>2, <1>4, <2>1
  <2> QED BY <2>2, <2>3
<1>10. q[b + a + 1] = y[1]
  <2>1. b + a + 1 \in 1..(b + ((a + 1) + c)) /\ ~ (b + a + 1 <= b) /\ b + a + 1 - b = a + 1
        /\ a + 1 \in 1..((a + 1) + c) /\ a + 1 <= a + 1 /\ a + 1 \in 1..(a + 1) /\ ~ (a + 1 <= a)
        /\ a + 1 - a = 1
    BY <1>0
  <2> DEFINE k == b + a + 1
             l == a + 1
  <2>2. k \in 1..(b + ((a + 1) + c)) /\ ~ (k <= b) /\ k - b = l /\ l \in 1..((a + 1) + c)
        /\ l <= a + 1 /\ l \in 1..(a + 1) /\ ~ (l <= a) /\ l - a = 1
    BY <1>0, <2>1
  <2> HIDE DEF k, l
  <2>3. q[k] = xyz[l]
    BY <1>6, <2>2
  <2>4. xyz[l] = xy[l] /\ xy[l] = y[1]
    BY <1>2, <1>4, <2>2
  <2> QED BY <2>3, <2>4 DEF k
<1>11. ASSUME NEW k \in 1..c PROVE q[b + a + 1 + k] = z[k]
  <2>1. b + a + 1 + k \in 1..(b + ((a + 1) + c)) /\ ~ (b + a + 1 + k <= b) /\ b + a + 1 + k - b = a + 1 + k
        /\ a + 1 + k \in 1..((a + 1) + c) /\ ~ (a + 1 + k <= a + 1) /\ a + 1 + k - (a + 1) = k
    BY <1>0
  <2> DEFINE n == b + a + 1 + k
             l == a + 1 + k
  <2>2. n \in 1..(b + ((a + 1) + c)) /\ ~ (n <= b) /\ n - b = l /\ l \in 1..((a + 1) + c)
        /\ ~ (l <= a + 1) /\ l - (a + 1) = k
    BY <1>0, <2>1
  <2> HIDE DEF n, l
  <2>3. q[n] = xyz[l]
    BY <1>6, <2>2
  <2>4. xyz[l] = z[k]
    BY <1>4, <2>2
  <2> QED BY <2>3, <2>4 DEF n
<1>12. Len(q) = b + a + 1 + c
  BY <1>0, <1>6
<1> QED BY <1>0, <1>4, <1>6, <1>7, <1>8, <1>9, <1>10, <1>11, <1>12 DEF a, b, c, Parts

(* Where the instructions of node i are behind the program p. *)
Placed(N, p, i) ==
    LET born == Born(N, i)
        freed == FreedBy(N, i)
        q == p \o NodeCode(N, i)
        b == Len(p)
        m == Len(p) + Len(born) + 1
    IN  /\ born \in Seq(Locals(N)) /\ freed \in Seq(Locals(N)) /\ q \in Seq(Instr(N))
        /\ NodeCode(N, i) \in Seq(Instr(N))
        /\ b \in Nat /\ Len(born) \in Nat /\ Len(freed) \in Nat /\ Len(q) = m + Len(freed)
        /\ \A k \in 1..b : q[k] = p[k]
        /\ \A k \in 1..Len(born) : q[b + k] = AllocOf(born[k])
        /\ q[m] = RunOf(i)
        /\ \A k \in 1..Len(freed) : q[m + k] = [do |-> "free", arg |-> freed[k]]

LEMMA NodePlaces ==
    ASSUME NEW N, WellFormed(N), NEW i \in Nodes(N), N.nodes[i].op # "reshape", NEW p \in Seq(Instr(N))
    PROVE  Placed(N, p, i)
<1> DEFINE born == Born(N, i)
           freed == FreedBy(N, i)
           x == Instruction("alloc", born)
           y == <<RunOf(i)>>
           z == Instruction("free", freed)
           a == Len(born)
           c == Len(freed)
           b == Len(p)
           I == Instr(N)
<1>1. born \in Seq(Locals(N)) /\ freed \in Seq(Locals(N)) /\ a \in Nat /\ c \in Nat /\ b \in Nat
  BY BornDying, FreedFacts
<1>2. /\ x \in Seq(I) /\ Len(x) = a /\ \A k \in 1..a : x[k] = AllocOf(born[k])
      /\ z \in Seq(I) /\ Len(z) = c /\ \A k \in 1..c : z[k] = [do |-> "free", arg |-> freed[k]]
  BY <1>1, InstructionFacts DEF AllocOf
<1>3. RunOf(i) \in I
  BY DEF RunOf, Instr
<1>4. y \in Seq(I) /\ Len(y) = 1 /\ y[1] = RunOf(i)
  <2> HIDE DEF I
  <2> QED BY <1>3, SingleFacts
<1>5. p \in Seq(I)
  OBVIOUS
<1>6. NodeCode(N, i) = x \o y \o z
  BY DEF NodeCode
<1> HIDE DEF x, y, z, I
<1> x \in Seq(I) /\ y \in Seq(I) /\ z \in Seq(I) /\ p \in Seq(I) /\ Len(y) = 1
  BY <1>2, <1>4, <1>5
<1>7. Parts(I, p, x, y, z)
  BY FourParts
<1> DEFINE code == x \o y \o z
           q == p \o code
<1>8. code = NodeCode(N, i)
  BY <1>6
<1>9. LET m == Len(p) + a + 1
      IN  /\ q \in Seq(I) /\ code \in Seq(I) /\ Len(q) = m + c
          /\ \A k \in 1..Len(p) : q[k] = p[k]
          /\ \A k \in 1..a : q[Len(p) + k] = AllocOf(born[k])
          /\ q[m] = RunOf(i)
          /\ \A k \in 1..c : q[m + k] = [do |-> "free", arg |-> freed[k]]
  <2>1. Len(x) = a /\ Len(z) = c
    BY <1>2
  <2> HIDE DEF a, b, c
  <2> QED BY <1>2, <1>4, <1>7, <2>1 DEF Parts
<1> HIDE DEF code
<1> QED BY <1>1, <1>8, <1>9 DEF I, Placed

(* The nodes run before instruction n. *)
RunBefore(N, p, n) ==
    {i \in Nodes(N) : \E k \in 1..Len(p) : k < n /\ p[k] = RunOf(i)}

(* What makes an instruction safe on the heap: what is allocated is not    *)
(* held, stands for itself, and nothing that has been written stands for   *)
(* it; what is freed is held, in the memory of the buffer or in that which *)
(* a view of it has been given.                                            *)
SafeAt(N, p, n) ==
    LET t == p[n].arg
        held == HeldBefore(N, p, n)
    IN  /\ p[n].do = "alloc" =>
               /\ t \notin held /\ ~ HasAlias(N, t)
               /\ \A i \in RunBefore(N, p, n) : Dealias(N, N.nodes[i].out) # t
        /\ p[n].do = "free" =>
               /\ Dealias(N, t) \in held
               /\ HasAlias(N, t) => \E i \in RunBefore(N, p, n) : N.nodes[i].out = t

LEMMA RunPrefix ==
    ASSUME NEW N, NEW p \in Seq(Instr(N)), NEW c \in Seq(Instr(N)), NEW n \in 1..(Len(p) + 1)
    PROVE  RunBefore(N, p \o c, n) = RunBefore(N, p, n)
<1> DEFINE q == p \o c
<1>1. Len(p) \in Nat /\ Len(c) \in Nat /\ Len(q) = Len(p) + Len(c)
      /\ \A k \in 1..(Len(p) + Len(c)) : q[k] = IF k <= Len(p) THEN p[k] ELSE c[k - Len(p)]
  BY ConcatParts
<1> HIDE DEF q
<1>2. \A k \in 1..Len(p) : k \in 1..Len(q) /\ q[k] = p[k]
  BY <1>1
<1>3. \A k \in 1..Len(q) : k < n => k \in 1..Len(p)
  BY <1>1
<1> QED BY <1>2, <1>3 DEF RunBefore, q

LEMMA SafePrefix ==
    ASSUME NEW N, NEW p \in Seq(Instr(N)), NEW c \in Seq(Instr(N)), NEW n \in 1..Len(p), SafeAt(N, p, n)
    PROVE  SafeAt(N, p \o c, n)
<1>1. (p \o c)[n] = p[n] /\ n \in 1..(Len(p) + 1)
  <2> DEFINE q == p \o c
  <2>1. Len(p) \in Nat /\ Len(c) \in Nat
        /\ \A k \in 1..(Len(p) + Len(c)) : q[k] = IF k <= Len(p) THEN p[k] ELSE c[k - Len(p)]
    BY ConcatParts
  <2> HIDE DEF q
  <2>2. q[n] = p[n]
    BY <2>1
  <2> QED BY <2>1, <2>2 DEF q
<1>2. HeldBefore(N, p \o c, n) = HeldBefore(N, p, n) /\ RunBefore(N, p \o c, n) = RunBefore(N, p, n)
  BY <1>1, HeldPrefix, RunPrefix
<1> QED BY <1>1, <1>2 DEF SafeAt

(* What is allocated for a node that is no view. *)
LEMMA BornFresh ==
    ASSUME NEW N, WellFormed(N), Balanced(N), NEW i \in Nodes(N), N.nodes[i].op # "reshape",
           NEW t \in Range(Born(N, i))
    PROVE  /\ ~ HasAlias(N, t) /\ Dealias(N, t) = t /\ ~ IsGlobal(N, t) /\ t \notin Roots(N, i - 1)
           /\ \A j \in 1..(i - 1) : Dealias(N, N.nodes[j].out) # t
<1> DEFINE node == N.nodes[i]
<1>1. /\ Len(N.nodes) \in Nat /\ Nodes(N) = 1..Len(N.nodes) /\ i - 1 \in 0..Len(N.nodes)
      /\ node.op \in AliasingOp \cup {"kernel"} /\ node.out \in Buffers(N)
  BY NetworkParts
<1>2. Roots(N, i - 1) \subseteq Produced(N, i - 1) /\ Produced(N, i - 1) \subseteq Tensors(N)
  <2>1. Produced(N, i - 1) \subseteq Produced(N, Len(N.nodes))
    BY <1>1, ProducedIs
  <2> QED BY <1>1, <2>1, RootsThere DEF Tensors
<1>3. CASE t \in Range(node.scratch)
  <2>1. /\ t \notin Tensors(N) /\ ~ IsGlobal(N, t) /\ ~ HasAlias(N, t) /\ Dealias(N, t) = t
        /\ \A u \in Tensors(N) : Dealias(N, u) # t
    BY <1>3, ScratchFacts
  <2>2. ASSUME NEW j \in 1..(i - 1) PROVE N.nodes[j].out \in Tensors(N)
    <3>1. j \in Nodes(N)
      BY <1>1
    <3> QED BY <3>1, ProducedIs DEF Touches
  <2> QED BY <1>2, <2>1, <2>2
<1>4. CASE t \notin Range(node.scratch)
  <2>1. t = node.out /\ ~ IsGlobal(N, node.out)
    BY <1>4, BornDying
  <2>2. node.op \notin AliasingOp
    BY <2>1 DEF Balanced, AliasingOp
  <2>3. ~ HasAlias(N, t)
    BY <2>1, <2>2, OneProducer DEF HasAlias
  <2>4. Dealias(N, t) = t
    BY <1>1, <2>1, <2>3, RootFacts
  <2>5. t \notin Range(N.inputs) \cup Produced(N, i - 1)
    BY <2>1, NetworkParts DEF NodeWellFormed
  <2>6. ASSUME NEW j \in 1..(i - 1) PROVE Dealias(N, N.nodes[j].out) # t
    <3>1. j \in Nodes(N) /\ N.nodes[j].out \in Produced(N, i - 1)
      BY <1>1 DEF Produced
    <3>2. N.nodes[j].out \in Buffers(N)
      BY <3>1, NetworkParts
    <3>3. Dealias(N, N.nodes[j].out) \in Range(N.inputs) \cup Produced(N, i - 1)
      BY <1>1, <3>1, <3>2, RootFacts
    <3> QED BY <2>5, <3>3
  <2> QED BY <1>2, <2>1, <2>3, <2>4, <2>5, <2>6
<1> QED BY <1>3, <1>4

(* What a node that is no view does on the heap. *)
LEMMA BornRoots ==
    ASSUME NEW N, WellFormed(N), Balanced(N), NEW i \in Nodes(N), N.nodes[i].op # "reshape"
    PROVE  RootsOf(N, Alive(N, i - 1) \cup Range(Born(N, i))) = Roots(N, i - 1) \cup Range(Born(N, i))
<1>1. \A t \in Range(Born(N, i)) : Dealias(N, t) = t /\ ~ IsGlobal(N, t)
  BY BornFresh
<1> QED BY <1>1 DEF Roots, RootsOf

LEMMA RootsShrink ==
    ASSUME NEW N, WellFormed(N), NEW i \in Nodes(N)
    PROVE  Roots(N, i) \subseteq RootsOf(N, Alive(N, i - 1) \cup Range(Born(N, i)))
<1>1. Alive(N, i) \subseteq Alive(N, i - 1) \cup Range(Born(N, i))
  BY AliveStep
<1> QED BY <1>1 DEF Roots, RootsOf

LEMMA KernelHeap ==
    ASSUME NEW N, WellFormed(N), Balanced(N), NEW i \in Nodes(N), N.nodes[i].op # "reshape",
           NEW p \in Seq(Instr(N)), RunsInOrder(N, p, i - 1), HeldBefore(N, p, Len(p) + 1) = Roots(N, i - 1)
    PROVE  LET q == p \o NodeCode(N, i)
               all == RootsOf(N, Alive(N, i - 1) \cup Range(Born(N, i)))
           IN  /\ HeldBefore(N, q, Len(q) + 1) = Roots(N, i)
               /\ \A n \in (Len(p) + 1)..Len(q) : SafeAt(N, q, n)
               /\ \A n \in (Len(p) + 1)..(Len(q) + 1) : HeldBefore(N, q, n) \subseteq all
<1> DEFINE code == NodeCode(N, i)
           q == p \o code
           born == Born(N, i)
           freed == FreedBy(N, i)
           before == Roots(N, i - 1)
           all == RootsOf(N, Alive(N, i - 1) \cup Range(born))
           b == Len(p)
           a == Len(born)
           m == b + a + 1
           c == Len(freed)
<1>1. /\ born \in Seq(Locals(N)) /\ freed \in Seq(Locals(N)) /\ q \in Seq(Instr(N))
      /\ code \in Seq(Instr(N))
      /\ b \in Nat /\ a \in Nat /\ c \in Nat /\ Len(q) = m + c
      /\ \A k \in 1..b : q[k] = p[k]
      /\ \A k \in 1..a : q[b + k] = AllocOf(born[k])
      /\ q[m] = RunOf(i)
      /\ \A k \in 1..c : q[m + k] = [do |-> "free", arg |-> freed[k]]
  <2>1. Placed(N, p, i)
    BY NodePlaces
  <2> QED BY <2>1 DEF Placed
<1>2. Once(born) /\ DOMAIN born = 1..a /\ DOMAIN freed = 1..c
  <2>1. Once(born)
    BY BornDyingOnce
  <2> QED BY <1>1, <2>1
<1>3. \A j, k \in 1..c : Dealias(N, freed[j]) = Dealias(N, freed[k]) => j = k
  BY <1>2, FreedOnce
<1>4. all = before \cup Range(born) /\ Roots(N, i) \subseteq all
  BY BornRoots, RootsShrink
<1>5. {Dealias(N, t) : t \in Range(freed)} = all \ Roots(N, i)
  BY FreedRoots
<1>6. HeldBefore(N, q, b + 1) = before
  <2>1. b + 1 \in 1..(Len(p) + 1)
    BY <1>1
  <2> HIDE DEF code
  <2> QED BY <1>1, <2>1, HeldPrefix
<1>7. \A t \in Range(born) : /\ ~ HasAlias(N, t) /\ t \notin before
                             /\ \A j \in 1..(i - 1) : Dealias(N, N.nodes[j].out) # t
  BY BornFresh
<1>8. ASSUME NEW t \in Range(freed), HasAlias(N, t) PROVE \E j \in 1..(i - 1) : N.nodes[j].out = t
  <2>1. t \in Range(Dying(N, i))
    BY FreedFacts
  <2>2. t \in Alive(N, i - 1) \cup Range(N.nodes[i].scratch)
    BY <2>1, AliveStep
  <2>3. t \notin Range(N.nodes[i].scratch)
    BY <1>8, ScratchFacts
  <2> QED BY <2>2, <2>3 DEF Alive, Produced
<1>9. /\ \A j \in 1..(i - 1) : \E k \in 1..b : p[k] = RunOf(j)
      /\ \A k \in 1..b : p[k].do = "run" => p[k] = RunOf(p[k].arg) /\ p[k].arg \in 1..(i - 1)
      /\ 1..(i - 1) \subseteq Nodes(N)
  <2>1. Nodes(N) = 1..Len(N.nodes) /\ Len(N.nodes) \in Nat
    BY NetworkParts
  <2> QED BY <2>1 DEF RunsInOrder
<1> HIDE DEF code, q, born, freed, before, all, b, a, c
<1>10. \A k \in 0..a : HeldBefore(N, q, b + k + 1) = before \cup {born[j] : j \in 1..k}
  <2>1. b + Len(born) <= Len(q) /\ \A k \in 1..Len(born) : q[b + k] = AllocOf(born[k])
    BY <1>1 DEF a
  <2>2. Grows(N, q, b, born)
    BY <1>1, <2>1, HeldGrows
  <2> QED BY <1>6, <2>2 DEF a, Grows
<1>11. Range(born) = {born[j] : j \in 1..a} /\ Range(freed) = {freed[j] : j \in 1..c}
  BY <1>2 DEF Range
<1>12. HeldBefore(N, q, m + 1) = all
  <2>1. HeldBefore(N, q, m) = all
    <3>1. a \in 0..a /\ b + a + 1 = m
      BY <1>1
    <3> QED BY <1>4, <1>10, <1>11, <3>1
  <2>2. q \in Seq(Instr(N)) /\ m \in 1..Len(q) /\ q[m].do = "run"
    BY <1>1 DEF RunOf
  <2> HIDE DEF m
  <2>3. HeldBefore(N, q, m + 1) = HeldBefore(N, q, m)
    BY ONLY <2>2, HeldStep
  <2> QED BY <2>1, <2>3
<1>13. \A k \in 0..c : HeldBefore(N, q, m + k + 1) = all \ {Dealias(N, freed[j]) : j \in 1..k}
  <2>1. m \in Nat /\ m + Len(freed) <= Len(q)
        /\ \A k \in 1..Len(freed) : q[m + k] = [do |-> "free", arg |-> freed[k]]
    BY <1>1 DEF c
  <2> HIDE DEF m
  <2>2. Shrinks(N, q, m, freed)
    BY <1>1, <2>1, HeldShrinks
  <2> QED BY <1>12, <2>2 DEF c, Shrinks
<1>14. \A k \in 1..c : Dealias(N, freed[k]) \in all
  BY <1>5, <1>11
<1>15. ASSUME NEW n \in (b + 1)..m PROVE RunBefore(N, q, n) = 1..(i - 1)
  <2>1. ASSUME NEW j \in Nodes(N), NEW k \in 1..Len(q), k < n, q[k] = RunOf(j) PROVE j \in 1..(i - 1)
    <3>1. CASE k <= b
      <4>1. k \in 1..b /\ p[k] = RunOf(j)
        BY <1>1, <2>1, <3>1
      <4> QED BY <1>9, <4>1 DEF RunOf
    <3>2. CASE k > b
      <4> DEFINE l == k - b
      <4>1. l \in 1..a /\ k = b + l
        BY <1>1, <2>1, <3>2
      <4> HIDE DEF l
      <4>2. q[k] = AllocOf(born[l])
        BY <1>1, <4>1
      <4> QED BY <2>1, <4>2 DEF AllocOf, RunOf
    <3> QED BY <1>1, <3>1, <3>2
  <2>2. ASSUME NEW j \in 1..(i - 1) PROVE j \in RunBefore(N, q, n)
    <3>1. PICK k \in 1..b : p[k] = RunOf(j)
      BY <1>9
    <3>2. k \in 1..Len(q) /\ k < n /\ q[k] = RunOf(j)
      BY <1>1, <3>1
    <3> QED BY <1>9, <3>2 DEF RunBefore
  <2> QED BY <2>1, <2>2 DEF RunBefore
<1>16. ASSUME NEW n \in (m + 1)..Len(q) PROVE 1..(i - 1) \subseteq RunBefore(N, q, n)
  <2> SUFFICES ASSUME NEW j \in 1..(i - 1) PROVE j \in RunBefore(N, q, n)
    OBVIOUS
  <2>1. PICK k \in 1..b : p[k] = RunOf(j)
    BY <1>9
  <2>2. k \in 1..Len(q) /\ k < n /\ q[k] = RunOf(j)
    BY <1>1, <2>1
  <2> QED BY <1>9, <2>2 DEF RunBefore
<1>17. ASSUME NEW k \in 1..a PROVE SafeAt(N, q, b + k)
  <2> DEFINE n == b + k
             t == born[k]
  <2>1. n \in (b + 1)..m /\ q[n] = AllocOf(t) /\ k - 1 \in 0..a /\ n = b + (k - 1) + 1
    BY <1>1
  <2>2. t \in Range(born) /\ ~ (\E j \in 1..(k - 1) : born[j] = t)
    <3>1. \A j \in 1..(k - 1) : j \in 1..a /\ j # k
      BY <1>1
    <3> QED BY <1>2, <1>11, <3>1 DEF Once
  <2> HIDE DEF n
  <2>3. HeldBefore(N, q, n) = before \cup {born[j] : j \in 1..(k - 1)}
    BY <1>10, <2>1
  <2>4. t \notin HeldBefore(N, q, n)
    BY <1>7, <2>2, <2>3
  <2>5. RunBefore(N, q, n) = 1..(i - 1)
    BY <1>15, <2>1
  <2> HIDE DEF t
  <2>6. q[n].do = "alloc" /\ q[n].arg = t
    BY <2>1 DEF AllocOf
  <2>7. SafeAt(N, q, n)
    BY <1>7, <2>2, <2>4, <2>5, <2>6 DEF SafeAt
  <2> QED BY <2>7 DEF n
<1>18. SafeAt(N, q, m)
  <2>1. q[m].do = "run"
    BY <1>1 DEF RunOf
  <2> HIDE DEF m
  <2> QED BY <2>1 DEF SafeAt
<1>19. ASSUME NEW k \in 1..c PROVE SafeAt(N, q, m + k)
  <2> DEFINE n == m + k
             t == freed[k]
  <2>1. n \in (m + 1)..Len(q) /\ q[n] = [do |-> "free", arg |-> t] /\ k - 1 \in 0..c /\ n = m + (k - 1) + 1
    BY <1>1
  <2>2. t \in Range(freed)
    BY <1>11
  <2>3. ~ (\E j \in 1..(k - 1) : Dealias(N, freed[j]) = Dealias(N, t))
    <3>1. \A j \in 1..(k - 1) : j \in 1..c /\ j # k
      BY <1>1
    <3> QED BY <1>3, <3>1
  <2> HIDE DEF n, m
  <2>4. HeldBefore(N, q, n) = all \ {Dealias(N, freed[j]) : j \in 1..(k - 1)}
    BY <1>13, <2>1
  <2>5. Dealias(N, t) \in HeldBefore(N, q, n)
    BY <1>14, <2>3, <2>4
  <2>6. 1..(i - 1) \subseteq RunBefore(N, q, n)
    BY <1>16, <2>1
  <2> HIDE DEF t
  <2>7. q[n].do = "free" /\ q[n].arg = t
    BY <2>1
  <2>8. SafeAt(N, q, n)
    BY <1>8, <2>2, <2>5, <2>6, <2>7 DEF SafeAt
  <2> QED BY <2>8 DEF n
<1>20. \A n \in (b + 1)..Len(q) : \/ n = m
                                  \/ \E k \in 1..a : n = b + k
                                  \/ \E k \in 1..c : n = m + k
  <2> TAKE n \in (b + 1)..Len(q)
  <2>1. CASE n < m
    <3>1. n - b \in 1..a /\ n = b + (n - b)
      BY <1>1, <2>1
    <3> QED BY <3>1
  <2>2. CASE n > m
    <3>1. n - m \in 1..c /\ n = m + (n - m)
      BY <1>1, <2>2
    <3> QED BY <3>1
  <2>3. n \in Int /\ m \in Int
    BY <1>1
  <2> QED BY <2>1, <2>2, <2>3
<1>21. \A n \in (b + 1)..Len(q) : SafeAt(N, q, n)
  BY <1>17, <1>18, <1>19, <1>20
<1>22. HeldBefore(N, q, Len(q) + 1) = Roots(N, i)
  <2>1. c \in 0..c /\ Len(q) + 1 = m + c + 1
    BY <1>1
  <2>2. HeldBefore(N, q, Len(q) + 1) = all \ {Dealias(N, freed[j]) : j \in 1..c}
    BY <1>13, <2>1
  <2>3. {Dealias(N, freed[j]) : j \in 1..c} = all \ Roots(N, i)
    BY <1>5, <1>11
  <2> QED BY <1>4, <2>2, <2>3
<1>23. ASSUME NEW n \in (b + 1)..(Len(q) + 1) PROVE HeldBefore(N, q, n) \subseteq all
  <2>1. CASE n <= m
    <3> DEFINE k == n - b - 1
    <3>1. k \in 0..a /\ n = b + k + 1
      BY <1>1, <2>1
    <3> HIDE DEF k, m
    <3>2. HeldBefore(N, q, n) = before \cup {born[j] : j \in 1..k}
      BY <1>10, <3>1
    <3>3. {born[j] : j \in 1..k} \subseteq Range(born)
      BY <1>1, <1>11, <3>1
    <3> QED BY <1>4, <3>2, <3>3
  <2>2. CASE n > m
    <3> DEFINE k == n - m - 1
    <3>1. k \in 0..c /\ n = m + k + 1
      BY <1>1, <2>2
    <3> HIDE DEF k, m
    <3>2. HeldBefore(N, q, n) = all \ {Dealias(N, freed[j]) : j \in 1..k}
      BY <1>13, <3>1
    <3> QED BY <3>2
  <2>3. n \in Int /\ m \in Int
    BY <1>1
  <2> QED BY <2>1, <2>2, <2>3
<1> QED BY <1>21, <1>22, <1>23 DEF q, code, all, b, born

(* What the code of one node, view or not, does to what is held. *)
LEMMA NodeHeap ==
    ASSUME NEW N, WellFormed(N), Balanced(N), NEW i \in Nodes(N),
           NEW p \in Seq(Instr(N)), RunsInOrder(N, p, i - 1), HeldBefore(N, p, Len(p) + 1) = Roots(N, i - 1)
    PROVE  LET q == p \o NodeCode(N, i)
               all == RootsOf(N, Alive(N, i - 1) \cup Range(Born(N, i)))
           IN  /\ q \in Seq(Instr(N)) /\ NodeCode(N, i) \in Seq(Instr(N))
               /\ HeldBefore(N, q, Len(q) + 1) = Roots(N, i)
               /\ \A n \in (Len(p) + 1)..Len(q) : SafeAt(N, q, n)
               /\ \A n \in (Len(p) + 1)..(Len(q) + 1) : HeldBefore(N, q, n) \subseteq all
<1>1. CASE N.nodes[i].op # "reshape"
  BY <1>1, KernelHeap, NodePlaces DEF Placed
<1>2. CASE N.nodes[i].op = "reshape"
  <2> DEFINE code == <<RunOf(i)>>
             q == p \o code
             b == Len(p)
             all == RootsOf(N, Alive(N, i - 1) \cup Range(Born(N, i)))
  <2>1. NodeCode(N, i) = code
    BY <1>2 DEF NodeCode
  <2>2. RunOf(i) \in Instr(N)
    BY DEF RunOf, Instr
  <2>3. code \in Seq(Instr(N)) /\ Len(code) = 1 /\ code[1] = RunOf(i)
    BY <2>2, SingleFacts
  <2> HIDE DEF code
  <2>4. q \in Seq(Instr(N)) /\ b \in Nat /\ Len(q) = Len(p) + Len(code)
        /\ \A k \in 1..(Len(p) + Len(code)) : q[k] = IF k <= Len(p) THEN p[k] ELSE code[k - Len(p)]
    BY <2>3, ConcatParts
  <2>5. HeldBefore(N, q, b + 1) = Roots(N, i - 1)
    <3>1. b + 1 \in 1..(Len(p) + 1)
      BY <2>4
    <3> QED BY <2>3, <3>1, HeldPrefix
  <2> HIDE DEF q
  <2>6. Len(q) = b + 1 /\ q[b + 1] = RunOf(i)
    <3>1. b + 1 \in 1..(b + 1) /\ ~ (b + 1 <= b) /\ (b + 1) - b = 1
      BY <2>4
    <3> QED BY <2>3, <2>4, <3>1
  <2>7. HeldBefore(N, q, b + 1 + 1) = Roots(N, i - 1)
    <3>1. b + 1 \in 1..Len(q) /\ q[b + 1].do = "run"
      BY <2>4, <2>6 DEF RunOf
    <3> DEFINE n == b + 1
    <3> HIDE DEF n
    <3>2. q \in Seq(Instr(N)) /\ n \in 1..Len(q) /\ q[n].do = "run"
      BY <2>4, <3>1 DEF n
    <3>3. HeldBefore(N, q, n + 1) = HeldBefore(N, q, n)
      BY ONLY <3>2, HeldStep
    <3> QED BY <2>5, <3>3 DEF n
  <2>8. SafeAt(N, q, b + 1)
    BY <2>6 DEF SafeAt, RunOf
  <2>9. Roots(N, i) = Roots(N, i - 1) /\ Roots(N, i) \subseteq all
    BY <1>2, ViewRoots, RootsShrink
  <2>10. \A n \in (b + 1)..Len(q) : n = b + 1
    BY <2>4, <2>6
  <2>11. \A n \in (b + 1)..(Len(q) + 1) : n = b + 1 \/ n = b + 1 + 1
    BY <2>4, <2>6
  <2> HIDE DEF all, b
  <2> QED BY <2>1, <2>3, <2>4, <2>5, <2>6, <2>7, <2>8, <2>9, <2>10, <2>11 DEF q, all, b
<1> QED BY <1>1, <1>2

(* The end of a chain of views of a local buffer is local, or an input or  *)
(* output.                                                                 *)
LEMMA RootLocal ==
    ASSUME NEW N, WellFormed(N), NEW t \in Locals(N), ~ IsGlobal(N, Dealias(N, t))
    PROVE  Dealias(N, t) \in Locals(N) /\ N.size[Dealias(N, t)] = N.size[t]
<1>1. t \in Buffers(N)
  BY LocalsFacts
<1>2. N.size[Dealias(N, t)] = N.size[t]
  BY <1>1, RootFacts
<1>3. CASE t \in Touched(N)
  <2>1. Dealias(N, t) \in Touched(N)
    BY <1>3, TouchedRoot
  <2> QED BY <1>2, <2>1 DEF Locals
<1>4. CASE t \notin Touched(N)
  <2>1. PICK i \in Nodes(N) : t \in Range(N.nodes[i].scratch)
    BY <1>4 DEF Locals
  <2> QED BY <1>2, <2>1, ScratchFacts
<1> QED BY <1>3, <1>4

(* What is held at a time is no more than what is alive. *)
LEMMA HeldCounted ==
    ASSUME NEW N, WellFormed(N), NEW V \in SUBSET Locals(N), NEW held, held \subseteq RootsOf(N, V)
    PROVE  Total(N.size, held) <= Total(N.size, V) /\ Total(N.size, held) \in Nat /\ Total(N.size, V) \in Nat
<1> DEFINE S == {t \in Locals(N) : ~ IsGlobal(N, Dealias(N, t))}
           r == [t \in S |-> Dealias(N, t)]
           T == V \cap S
           f == N.size
           L == Locals(N)
           I == {r[x] : x \in T}
<1>1. IsFiniteSet(L) /\ \A t \in L : f[t] \in Nat
  BY LocalsFinite
<1>2. S \in SUBSET L /\ T \in SUBSET S /\ T \in SUBSET V /\ V \in SUBSET L
  OBVIOUS
<1>3. \A x \in S : r[x] \in S /\ f[r[x]] = f[x]
  <2> SUFFICES ASSUME NEW x \in S PROVE Dealias(N, x) \in S /\ f[Dealias(N, x)] = f[x]
    OBVIOUS
  <2>1. Dealias(N, x) \in Locals(N) /\ f[Dealias(N, x)] = f[x] /\ x \in Buffers(N)
    BY RootLocal, LocalsFacts
  <2>2. Dealias(N, Dealias(N, x)) = Dealias(N, x)
    BY <2>1, SameRoot
  <2> QED BY <2>1, <2>2
<1>4. I = RootsOf(N, V)
  BY DEF RootsOf
<1>5. I \in SUBSET S
  BY <1>2, <1>3
<1> HIDE DEF S, r, T, f, L, I
<1>6. IsFiniteSet(S)
  BY <1>1, <1>2, FS_Subset
<1>7. Total(f, I) <= Total(f, T)
  <2>1. \A x \in S : f[x] \in Nat
    BY <1>1, <1>2
  <2>2. Total(f, {r[x] : x \in T}) <= Total(f, T)
    BY <1>2, <1>3, <1>6, <2>1, TotalImage
  <2> QED BY <2>2 DEF I
<1>8. Total(f, T) <= Total(f, V)
  BY <1>1, <1>2, TotalSubset
<1>9. held \in SUBSET I /\ I \in SUBSET L /\ held \in SUBSET L /\ T \in SUBSET L
  BY <1>2, <1>4, <1>5
<1>10. Total(f, held) <= Total(f, I)
  BY <1>1, <1>9, TotalSubset
<1>11. Total(f, held) \in Nat /\ Total(f, I) \in Nat /\ Total(f, T) \in Nat /\ Total(f, V) \in Nat
  BY <1>1, <1>2, <1>9, TotalAdd
<1>12. Total(f, held) <= Total(f, V)
  BY <1>7, <1>8, <1>10, <1>11
<1> QED BY <1>11, <1>12 DEF f

(* What the transformation has emitted for a heap: every instruction is    *)
(* safe, what is held at the end is what is alive, and the accounted size  *)
(* covers what is held at any time.                                        *)
HeapProgramInv ==
    strategy = "heap" =>
        \A w \in Net :
            LET N == nets[w]
                p == program[w]
            IN  /\ \A n \in 1..Len(p) : SafeAt(N, p, n)
                /\ HeldBefore(N, p, Len(p) + 1) = Roots(N, generated[w])
                /\ \A n \in 1..(Len(p) + 1) :
                       Total(N.size, HeldBefore(N, p, n)) <= maxDynamic[w]

LEMMA HeapProgramInit ==
    ASSUME Init
    PROVE  HeapProgramInv
<1>1. GenerationInit /\ Static
  BY PlanInit DEF Init, PlanInv
<1> SUFFICES ASSUME strategy = "heap", NEW w \in Net
             PROVE  /\ \A n \in 1..Len(program[w]) : SafeAt(nets[w], program[w], n)
                    /\ HeldBefore(nets[w], program[w], Len(program[w]) + 1) = Roots(nets[w], generated[w])
                    /\ \A n \in 1..(Len(program[w]) + 1) :
                           Total(nets[w].size, HeldBefore(nets[w], program[w], n)) <= maxDynamic[w]
  BY DEF HeapProgramInv
<1>2. program[w] = <<>> /\ generated[w] = 0 /\ maxDynamic[w] = 0
  BY <1>1 DEF GenerationInit
<1>3. Len(program[w]) = 0
  BY <1>2
<1>4. WellFormed(nets[w]) /\ Balanced(nets[w])
  BY <1>1, NetFacts, DeployedBalanced
<1>5. HeldBefore(nets[w], program[w], 1) = {}
  BY DEF HeldBefore
<1>6. Roots(nets[w], 0) = {}
  BY <1>4, NothingLeft
<1>7. Total(nets[w].size, {}) = 0
  BY TotalStep, FS_EmptySet
<1>8. Len(program[w]) + 1 = 1 /\ 1..Len(program[w]) = {} /\ 1..(Len(program[w]) + 1) = {1}
  BY <1>3
<1>9. 0 <= maxDynamic[w]
  BY <1>2
<1> QED BY <1>2, <1>5, <1>6, <1>7, <1>8, <1>9

(* Generating the code of one more node keeps the program safe. *)
LEMMA HeapProgramNode ==
    ASSUME Static, GenInv, AccountInv, HeapProgramInv, strategy' = strategy, NEW w \in Net, GenerateNode(w)
    PROVE  HeapProgramInv'
<1> DEFINE N == nets[w]
           i == generated[w] + 1
           p == program[w]
           q == p \o NodeCode(N, i)
           V == Alive(N, i - 1) \cup Range(Born(N, i))
<1> SUFFICES ASSUME strategy = "heap" PROVE HeapProgramInv'
  BY DEF HeapProgramInv
<1>0. dynamicSize = [v \in Net |-> dynamicSize[v]] /\ maxDynamic \in [Net -> Nat]
  BY DEF AccountInv
<1>1. /\ WellFormed(N) /\ i \in Nodes(N) /\ i - 1 = generated[w] /\ nets' = nets
      /\ generated'[w] = i /\ program'[w] = q
      /\ \A v \in Net : v # w =>
             /\ generated'[v] = generated[v] /\ program'[v] = program[v]
             /\ maxDynamic'[v] = maxDynamic[v]
  BY <1>0, GeneratedNode
<1>2. maxDynamic[w] <= maxDynamic'[w] /\ Total(N.size, V) <= maxDynamic'[w] /\ AccountInv'
  BY AccountNode
<1>3. maxDynamic[w] \in Nat /\ maxDynamic'[w] \in Nat
  BY <1>0, <1>2 DEF AccountInv
<1>4. Balanced(N)
  BY DeployedBalanced
<1>5. p \in Seq(Instr(N)) /\ RunsInOrder(N, p, i - 1) /\ Len(p) \in Nat
  <2>1. RunsInOrder(N, p, i - 1)
    BY <1>1 DEF GenInv
  <2>2. p \in Seq(Instr(N))
    BY <2>1 DEF RunsInOrder
  <2> QED BY <2>1, <2>2
<1>6. /\ \A n \in 1..Len(p) : SafeAt(N, p, n)
      /\ HeldBefore(N, p, Len(p) + 1) = Roots(N, i - 1)
      /\ \A n \in 1..(Len(p) + 1) : Total(N.size, HeldBefore(N, p, n)) <= maxDynamic[w]
  BY <1>1 DEF HeapProgramInv
<1>7. V \in SUBSET Locals(N)
  <2>1. Born(N, i) \in Seq(Locals(N)) /\ Len(N.nodes) \in Nat /\ Nodes(N) = 1..Len(N.nodes)
    BY <1>1, BornDying, NetworkParts
  <2>2. Alive(N, i - 1) \subseteq Locals(N)
    <3> SUFFICES ASSUME NEW t \in Alive(N, i - 1) PROVE t \in Locals(N)
      OBVIOUS
    <3>1. PICK j \in 1..(i - 1) : t = N.nodes[j].out
      BY DEF Alive, Produced
    <3>2. j \in Nodes(N)
      BY <1>1, <2>1
    <3> QED BY <3>1, <3>2 DEF Alive, Locals, Touched, Touches
  <2> QED BY <2>1, <2>2 DEF Range
<1> HIDE DEF N, i, p
<1>8. /\ q \in Seq(Instr(N)) /\ NodeCode(N, i) \in Seq(Instr(N))
      /\ HeldBefore(N, q, Len(q) + 1) = Roots(N, i)
      /\ \A n \in (Len(p) + 1)..Len(q) : SafeAt(N, q, n)
      /\ \A n \in (Len(p) + 1)..(Len(q) + 1) : HeldBefore(N, q, n) \subseteq RootsOf(N, V)
  BY <1>1, <1>4, <1>5, <1>6, NodeHeap
<1>9. ASSUME NEW n \in 1..Len(q) PROVE SafeAt(N, q, n)
  <2>1. CASE n <= Len(p)
    <3>1. n \in 1..Len(p)
      BY <1>5, <2>1
    <3> QED BY <1>5, <1>6, <1>8, <3>1, SafePrefix
  <2>2. CASE n > Len(p)
    <3>1. n \in (Len(p) + 1)..Len(q)
      BY <1>5, <2>2
    <3> QED BY <1>8, <3>1
  <2> QED BY <1>5, <2>1, <2>2
<1>10. ASSUME NEW n \in 1..(Len(q) + 1) PROVE Total(N.size, HeldBefore(N, q, n)) <= maxDynamic'[w]
  <2>1. CASE n <= Len(p)
    <3>1. n \in 1..(Len(p) + 1)
      BY <1>5, <2>1
    <3>2. HeldBefore(N, q, n) = HeldBefore(N, p, n)
      BY <1>5, <1>8, <3>1, HeldPrefix
    <3>3. Total(N.size, HeldBefore(N, p, n)) \in Nat
      <4>1. IsFiniteSet(Locals(N)) /\ \A t \in Locals(N) : N.size[t] \in Nat
        BY <1>1, LocalsFinite
      <4>2. HeldBefore(N, p, n) \in SUBSET Locals(N)
        BY DEF HeldBefore
      <4> QED BY <4>1, <4>2, TotalAdd
    <3>4. Total(N.size, HeldBefore(N, p, n)) <= maxDynamic[w]
      BY <1>6, <3>1
    <3> QED BY <1>2, <1>3, <3>2, <3>3, <3>4
  <2>2. CASE n > Len(p)
    <3>1. n \in (Len(p) + 1)..(Len(q) + 1)
      BY <1>5, <2>2
    <3> DEFINE held == HeldBefore(N, q, n)
    <3>2. held \subseteq RootsOf(N, V)
      BY <1>8, <3>1
    <3> HIDE DEF held, V
    <3>3. Total(N.size, held) <= Total(N.size, V) /\ Total(N.size, held) \in Nat /\ Total(N.size, V) \in Nat
      BY <1>1, <1>7, <3>2, HeldCounted
    <3> QED BY <1>2, <1>3, <3>3 DEF held
  <2> QED BY <1>5, <2>1, <2>2
<1> HIDE DEF q
<1>11. ASSUME NEW v \in Net
       PROVE  /\ \A n \in 1..Len(program'[v]) : SafeAt(nets[v], program'[v], n)
              /\ HeldBefore(nets[v], program'[v], Len(program'[v]) + 1) = Roots(nets[v], generated'[v])
              /\ \A n \in 1..(Len(program'[v]) + 1) :
                     Total(nets[v].size, HeldBefore(nets[v], program'[v], n)) <= maxDynamic'[v]
  <2>1. CASE v = w
    BY <1>1, <1>8, <1>9, <1>10, <2>1 DEF N, q
  <2>2. CASE v # w
    BY <1>1, <2>2 DEF HeapProgramInv
  <2> QED BY <2>1, <2>2
<1> QED BY <1>1, <1>11 DEF HeapProgramInv

LEMMA HeapProgramStep ==
    ASSUME Static, GenInv, AccountInv, HeapProgramInv, [Next]_vars
    PROVE  HeapProgramInv'
<1>1. nets' = nets /\ strategy' = strategy
  BY StepFrame
<1>2. CASE UNCHANGED <<program, generated, maxDynamic>>
  BY <1>1, <1>2 DEF HeapProgramInv
<1>3. ASSUME NEW w \in Net, GenerateNode(w) PROVE HeapProgramInv'
  BY <1>1, <1>3, HeapProgramNode
<1>4. CASE Generate
  BY <1>2, <1>3, <1>4 DEF Generate, generationVars
<1>5. CASE Place
  BY <1>2, <1>5 DEF Place, generationVars
<1>6. CASE HarnessStep /\ UNCHANGED <<nets, generationVars, placementVars>>
  BY <1>2, <1>6 DEF generationVars
<1>7. CASE UNCHANGED vars
  BY <1>2, <1>7 DEF vars, generationVars
<1> QED BY <1>4, <1>5, <1>6, <1>7 DEF Next, Done

-----------------------------------------------------------------------------
(* The run of a deployment whose buffers come from the heap. *)

(* The block of a buffer, an owner being a network and a buffer of it. *)
Chunk(T, P, o) == [at |-> P[o[1]][o[2]].at, words |-> T[o[1]].size[o[2]]]

Reach(b) == b.at..(b.at + b.words - 1)

(* The networks T with the pointers P: the blocks of the heap are those of *)
(* the owners, one for each, and keep apart.                               *)
HeapHolds(T, P, h, own) ==
    /\ h = {Chunk(T, P, o) : o \in own}
    /\ \A o \in own :
           /\ P[o[1]][o[2]] = [area |-> "heap", at |-> P[o[1]][o[2]].at]
           /\ P[o[1]][o[2]].at \in Nat
           /\ T[o[1]].size[o[2]] \in Nat /\ T[o[1]].size[o[2]] > 0
    /\ \A o, q \in own : o # q => Reach(Chunk(T, P, o)) \cap Reach(Chunk(T, P, q)) = {}

(* Only the pointers of the owners count. *)
LEMMA HeapSame ==
    ASSUME NEW T, NEW P, NEW Q, NEW h, NEW own, HeapHolds(T, P, h, own),
           \A o \in own : Q[o[1]][o[2]] = P[o[1]][o[2]]
    PROVE  HeapHolds(T, Q, h, own)
<1>1. \A o \in own : Chunk(T, Q, o) = Chunk(T, P, o)
  BY DEF Chunk
<1>2. h = {Chunk(T, Q, o) : o \in own}
  BY <1>1 DEF HeapHolds
<1>3. \A o, q \in own : o # q => Reach(Chunk(T, Q, o)) \cap Reach(Chunk(T, Q, q)) = {}
  BY <1>1 DEF HeapHolds
<1> QED BY <1>2, <1>3 DEF HeapHolds

(* Different owners have different addresses. *)
LEMMA HeapApart ==
    ASSUME NEW T, NEW P, NEW h, NEW own, HeapHolds(T, P, h, own), NEW o \in own, NEW q \in own,
           P[o[1]][o[2]].at = P[q[1]][q[2]].at
    PROVE  o = q
<1> DEFINE a == P[o[1]][o[2]].at
<1>1. Chunk(T, P, o).at = a /\ Chunk(T, P, q).at = a
  BY DEF Chunk
<1>2. \A c \in {o, q} : Chunk(T, P, c).words \in Nat /\ Chunk(T, P, c).words > 0
  BY DEF HeapHolds, Chunk
<1>3. a \in Nat
  BY DEF HeapHolds
<1> HIDE DEF a
<1>4. a \in Reach(Chunk(T, P, o)) /\ a \in Reach(Chunk(T, P, q))
  BY <1>1, <1>2, <1>3 DEF Reach
<1> QED BY <1>4 DEF HeapHolds

(* malloc finds room above what is taken at the latest. *)
LEMMA HeapAddressIs ==
    ASSUME NEW h, Taken(h) \subseteq 0..(Top - 1), NEW words \in Nat
    PROVE  LET new == HeapAddress(h, words)
           IN  /\ new = [area |-> "heap", at |-> new.at] /\ new.at \in 0..Top
               /\ \A k \in 0..(words - 1) : new.at + k \notin Taken(h)
<1> DEFINE S == {a \in 0..Top : \A k \in 0..(words - 1) : a + k \notin Taken(h)}
<1>1. Top \in Nat
  BY BoundsAssumption
<1>2. Top \in S
  <2> SUFFICES ASSUME NEW k \in 0..(words - 1) PROVE Top + k \notin 0..(Top - 1)
    BY <1>1
  <2> QED BY <1>1
<1>3. S \in SUBSET Nat /\ S # {}
  BY <1>1, <1>2
<1>4. Min(S) \in S
  <2> HIDE DEF S
  <2> QED BY <1>3, MinOfNat
<1>5. HeapAddress(h, words) = [area |-> "heap", at |-> Min(S)]
  BY DEF HeapAddress
<1> QED BY <1>4, <1>5

(* A new owner. *)
LEMMA HeapAdds ==
    ASSUME NEW T, NEW P, NEW Q, NEW h, NEW own, HeapHolds(T, P, h, own),
           Taken(h) \subseteq 0..(Top - 1),
           NEW w, NEW t, <<w, t>> \notin own, T[w].size[t] \in Nat, T[w].size[t] > 0,
           Q[w][t] = HeapAddress(h, T[w].size[t]),
           \A o \in own : Q[o[1]][o[2]] = P[o[1]][o[2]]
    PROVE  HeapHolds(T, Q, h \cup {Handed(HeapAddress(h, T[w].size[t]), T[w].size[t])},
                     own \cup {<<w, t>>})
<1> DEFINE words == T[w].size[t]
           new == HeapAddress(h, words)
           o1 == <<w, t>>
<1>1. HeapHolds(T, Q, h, own)
  BY HeapSame
<1>2. /\ new = [area |-> "heap", at |-> new.at] /\ new.at \in Nat
      /\ \A k \in 0..(words - 1) : new.at + k \notin Taken(h)
  <2>1. Top \in Nat
    BY BoundsAssumption
  <2> QED BY <2>1, HeapAddressIs
<1>3. Q[o1[1]][o1[2]] = new /\ T[o1[1]].size[o1[2]] = words
  OBVIOUS
<1>4. Chunk(T, Q, o1) = [at |-> new.at, words |-> words]
  BY <1>3 DEF Chunk
<1>5. Handed(new, words) = Chunk(T, Q, o1)
  BY <1>4 DEF Handed
<1>6. Taken(h) = UNION {Reach(b) : b \in h}
  BY DEF Taken, Reach
<1>7. ASSUME NEW o \in own PROVE Reach(Chunk(T, Q, o)) \cap Reach(Chunk(T, Q, o1)) = {}
  <2>1. Chunk(T, Q, o) \in h
    BY <1>1 DEF HeapHolds
  <2>2. Reach(Chunk(T, Q, o)) \subseteq Taken(h)
    BY <1>6, <2>1
  <2>3. Reach(Chunk(T, Q, o1)) = new.at..(new.at + words - 1)
    BY <1>4 DEF Reach
  <2>4. ASSUME NEW x \in new.at..(new.at + words - 1) PROVE x \notin Taken(h)
    <3> DEFINE a == new.at
    <3>1. a \in Nat /\ words \in Nat
      BY <1>2
    <3>2. x - a \in 0..(words - 1) /\ a + (x - a) = x
      <4> HIDE DEF a, words
      <4> QED BY <3>1, <2>4 DEF a
    <3> QED BY <1>2, <3>2
  <2> QED BY <2>2, <2>3, <2>4
<1> HIDE DEF words, new, o1
<1>8. h \cup {Handed(new, words)} = {Chunk(T, Q, o) : o \in own \cup {o1}}
  BY <1>1, <1>5 DEF HeapHolds
<1>9. \A o \in own \cup {o1} :
           /\ Q[o[1]][o[2]] = [area |-> "heap", at |-> Q[o[1]][o[2]].at]
           /\ Q[o[1]][o[2]].at \in Nat
           /\ T[o[1]].size[o[2]] \in Nat /\ T[o[1]].size[o[2]] > 0
  <2> TAKE o \in own \cup {o1}
  <2>1. CASE o \in own
    BY <1>1, <2>1 DEF HeapHolds
  <2>2. CASE o = o1
    <3>1. words \in Nat /\ words > 0
      BY DEF words
    <3> QED BY <1>2, <1>3, <2>2, <3>1
  <2> QED BY <2>1, <2>2
<1>10. \A o, q \in own \cup {o1} : o # q => Reach(Chunk(T, Q, o)) \cap Reach(Chunk(T, Q, q)) = {}
  BY <1>1, <1>7 DEF HeapHolds
<1>11. HeapHolds(T, Q, h \cup {Handed(new, words)}, own \cup {o1})
  BY <1>8, <1>9, <1>10 DEF HeapHolds
<1> QED BY <1>11 DEF words, new, o1

(* An owner gives its block back. *)
LEMMA HeapRemoves ==
    ASSUME NEW T, NEW P, NEW h, NEW own, HeapHolds(T, P, h, own), NEW o \in own
    PROVE  HeapHolds(T, P, h \ {b \in h : b.at = P[o[1]][o[2]].at}, own \ {o})
<1> DEFINE gone == {b \in h : b.at = P[o[1]][o[2]].at}
<1>1. \A q \in own : Chunk(T, P, q).at = P[q[1]][q[2]].at
  BY DEF Chunk
<1>2. \A q \in own : Chunk(T, P, q).at = P[o[1]][o[2]].at <=> q = o
  BY <1>1, HeapApart
<1>3. h = {Chunk(T, P, q) : q \in own}
  BY DEF HeapHolds
<1>4. h \ gone = {Chunk(T, P, q) : q \in own \ {o}}
  BY <1>2, <1>3
<1> HIDE DEF gone
<1>5. HeapHolds(T, P, h \ gone, own \ {o})
  BY <1>4 DEF HeapHolds
<1> QED BY <1>5 DEF gone

(* The initialisation of a network on the heap, one buffer after the other. *)
Takes(w, redirect, t) == ~ UpdatedInPlace(nets[w], t) /\ t \notin DOMAIN redirect

Given(w, redirect, p, h, t) ==
    IF UpdatedInPlace(nets[w], t) THEN p[AliasOf(nets[w], t)]
    ELSE IF t \in DOMAIN redirect THEN redirect[t]
    ELSE HeapAddress(h, nets[w].size[t])

Enlarged(w, redirect, h, t) ==
    IF Takes(w, redirect, t)
    THEN h \cup {Handed(HeapAddress(h, nets[w].size[t]), nets[w].size[t])} ELSE h

AssignSteps(w, first, redirect, a) ==
    /\ a[0] = [ptr |-> ptr[w], heap |-> heap]
    /\ \A i \in 1..Len(first) :
           a[i] = [ptr |-> [a[i - 1].ptr EXCEPT ![first[i]] =
                                Given(w, redirect, a[i - 1].ptr, a[i - 1].heap, first[i])],
                   heap |-> Enlarged(w, redirect, a[i - 1].heap, first[i])]
    /\ \A i \in 0..Len(first) : a[i].ptr = [t \in Buffers(nets[w]) |-> a[i].ptr[t]]
    /\ ptr' = [ptr EXCEPT ![w] = a[Len(first)].ptr] /\ heap' = a[Len(first)].heap
    /\ ip' = 1 /\ mem' = mem /\ strategy' = strategy

(* The pointers and the heap while the buffers are initialised in order. *)
LEMMA AssignStepsExist ==
    ASSUME NEW w \in Net, NEW first, NEW redirect, InitNetwork(w, first, redirect),
           strategy = "heap", WellFormed(nets[w]), first \in Seq(Buffers(nets[w])),
           ptr[w] = [t \in Buffers(nets[w]) |-> ptr[w][t]]
    PROVE  \E a : AssignSteps(w, first, redirect, a)
<1> DEFINE n == Len(first)
           B == Buffers(nets[w])
           assign(done, t) ==
            LET words == nets[w].size[t]
                new == HeapAddress(done.heap, words)
                point(address, blocks) ==
                    [ptr |-> [done.ptr EXCEPT ![t] = address], heap |-> blocks]
            IN  IF strategy = "heap" /\ UpdatedInPlace(nets[w], t)
                THEN point(done.ptr[AliasOf(nets[w], t)], done.heap)
                ELSE IF t \in DOMAIN redirect THEN point(redirect[t], done.heap)
                ELSE IF strategy = "arena" THEN point(ArenaAddress(w, t), done.heap)
                ELSE point(new, done.heap \cup {Handed(new, words)})
           after[k \in 0..Len(first)] ==
            IF k = 0 THEN [ptr |-> ptr[w], heap |-> heap] ELSE assign(after[k - 1], first[k])
           Def(g) == g = [k \in 0..Len(first) |->
            IF k = 0 THEN [ptr |-> ptr[w], heap |-> heap] ELSE assign(g[k - 1], first[k])]
           Low == {Min(S) : S \in SUBSET (0..Top)}
           Spots == {ptr[w][t] : t \in B} \cup {redirect[t] : t \in DOMAIN redirect}
                       \cup {[area |-> "heap", at |-> x] : x \in Low}
           Chunks == heap \cup {[at |-> x, words |-> nets[w].size[t]] : x \in Low, t \in B}
           V == [ptr : [B -> Spots], heap : SUBSET Chunks]
           put(v, t) == [ptr |-> [v.ptr EXCEPT ![t] = Given(w, redirect, v.ptr, v.heap, t)],
                         heap |-> Enlarged(w, redirect, v.heap, t)]
           start == [ptr |-> ptr[w], heap |-> heap]
           step == [k \in 1..n |-> [v \in V |-> put(v, first[k])]]
<1>1. n \in Nat /\ DOMAIN first = 1..n /\ \A k \in 1..n : first[k] \in B
  OBVIOUS
<1>2. start \in V /\ \A v \in V : \A t \in B : put(v, t) \in V
  <2>1. start \in V
    <3>1. ptr[w] \in [B -> Spots] /\ heap \in SUBSET Chunks
      OBVIOUS
    <3> QED BY <3>1
  <2>2. ASSUME NEW v \in V, NEW t \in B PROVE put(v, t) \in V
    <3>1. v.ptr \in [B -> Spots] /\ v.heap \in SUBSET Chunks
      <4> HIDE DEF n, after, assign, Def, Low, Spots, Chunks, put, start, step
      <4> QED BY <2>2
    <3> DEFINE S == {x \in 0..Top : \A k \in 0..(nets[w].size[t] - 1) : x + k \notin Taken(v.heap)}
    <3>2. HeapAddress(v.heap, nets[w].size[t]) = [area |-> "heap", at |-> Min(S)] /\ Min(S) \in Low
      <4>1. HeapAddress(v.heap, nets[w].size[t]) = [area |-> "heap", at |-> Min(S)]
        BY DEF HeapAddress
      <4>2. S \in SUBSET (0..Top)
        OBVIOUS
      <4> HIDE DEF S
      <4> QED BY <4>1, <4>2
    <3> HIDE DEF S, Low
    <3>3. HeapAddress(v.heap, nets[w].size[t]) \in Spots
      BY <3>2
    <3>4. Handed(HeapAddress(v.heap, nets[w].size[t]), nets[w].size[t]) \in Chunks
      BY <3>2 DEF Handed
    <3> DEFINE new == Given(w, redirect, v.ptr, v.heap, t)
    <3>5. new \in Spots
      <4>1. CASE UpdatedInPlace(nets[w], t)
        <5>1. HasAlias(nets[w], t)
          BY <4>1 DEF UpdatedInPlace, HasAlias, AliasingOp
        <5>2. AliasOf(nets[w], t) \in B
          BY <5>1, AliasInNetwork
        <5>3. new = v.ptr[AliasOf(nets[w], t)]
          BY <4>1 DEF Given
        <5> HIDE DEF Spots, B
        <5> QED BY <3>1, <5>2, <5>3
      <4>2. CASE ~ UpdatedInPlace(nets[w], t) /\ t \in DOMAIN redirect
        BY <4>2 DEF Given
      <4>3. CASE ~ UpdatedInPlace(nets[w], t) /\ t \notin DOMAIN redirect
        <5>1. new = HeapAddress(v.heap, nets[w].size[t])
          BY <4>3 DEF Given
        <5> HIDE DEF new, Spots
        <5> QED BY <3>3, <5>1
      <4> QED BY <4>1, <4>2, <4>3
    <3> HIDE DEF new, Spots, Chunks
    <3>6. [v.ptr EXCEPT ![t] = new] \in [B -> Spots]
      BY <3>1, <3>5
    <3>7. Enlarged(w, redirect, v.heap, t) \in SUBSET Chunks
      BY <3>1, <3>4 DEF Enlarged
    <3>8. put(v, t) = [ptr |-> [v.ptr EXCEPT ![t] = new], heap |-> Enlarged(w, redirect, v.heap, t)]
      BY DEF new
    <3> HIDE DEF put
    <3> DEFINE p == [v.ptr EXCEPT ![t] = new]
               h == Enlarged(w, redirect, v.heap, t)
               X == [B -> Spots]
               Y == SUBSET Chunks
    <3>9. p \in X /\ h \in Y /\ put(v, t) = [ptr |-> p, heap |-> h] /\ V = [ptr : X, heap : Y]
      BY <3>6, <3>7, <3>8
    <3> HIDE DEF p, h, X, Y, V
    <3> QED BY <3>9
  <2> HIDE DEF V, put, start
  <2> QED BY <2>1, <2>2
<1>3. \A v \in V : \A t \in B : assign(v, t) = put(v, t)
  <2> HIDE DEF assign, put, V, B
  <2> SUFFICES ASSUME NEW v \in V, NEW t \in B PROVE assign(v, t) = put(v, t)
    OBVIOUS
  <2>1. CASE UpdatedInPlace(nets[w], t)
    BY <2>1 DEF Given, Enlarged, Takes, assign, put
  <2>2. CASE ~ UpdatedInPlace(nets[w], t) /\ t \in DOMAIN redirect
    BY <2>2 DEF Given, Enlarged, Takes, assign, put
  <2>3. CASE ~ UpdatedInPlace(nets[w], t) /\ t \notin DOMAIN redirect
    BY <2>3 DEF Given, Enlarged, Takes, assign, put
  <2> QED BY <2>1, <2>2, <2>3
<1> HIDE DEF V, put, assign, start
<1>4. PICK f : Iterates(f, n, V, start, step)
  <2>1. step \in Steps(n, V)
    BY <1>1, <1>2 DEF Steps
  <2> HIDE DEF n, step
  <2> QED BY <1>1, <1>2, <2>1, Recursion
<1>5. f \in [0..n -> V] /\ f[0] = start /\ \A i \in 1..n : f[i] = step[i][f[i - 1]]
  <2> HIDE DEF n, step
  <2> QED BY <1>4 DEF Iterates
<1>6. \A i \in 1..n : f[i - 1] \in V /\ f[i] = assign(f[i - 1], first[i]) /\ f[i] = put(f[i - 1], first[i])
  <2> TAKE i \in 1..n
  <2>1. i - 1 \in 0..n
    BY <1>1
  <2>2. f[i - 1] \in V
    <3> HIDE DEF n, step
    <3> QED BY <1>5, <2>1
  <2>3. f[i] = step[i][f[i - 1]]
    BY <1>5
  <2> QED BY <1>1, <1>3, <2>2, <2>3
<1>7. Def(f)
  <2> \A i \in 0..Len(first) : i = 0 \/ i \in 1..n
    BY <1>1
  <2> QED BY <1>5, <1>6 DEF start
<1>8. /\ after[0] = start
      /\ \A i \in 1..n : after[i] = assign(after[i - 1], first[i])
  <2> after = CHOOSE g : Def(g)
    BY DEF assign
  <2> HIDE DEF after
  <2>1. Def(after)
    <3> HIDE DEF Def
    <3> QED BY <1>7
  <2>2. \A i \in 1..n : i \in 0..Len(first) /\ i # 0
    BY <1>1
  <2>3. 0 \in 0..Len(first)
    BY <1>1
  <2>4. after[0] = start
    BY <2>1, <2>3 DEF start
  <2>5. ASSUME NEW i \in 1..n PROVE after[i] = assign(after[i - 1], first[i])
    <3>1. i \in 0..Len(first) /\ i # 0
      BY <2>2
    <3> HIDE DEF n, step
    <3>2. after[i] = IF i = 0 THEN [ptr |-> ptr[w], heap |-> heap] ELSE assign(after[i - 1], first[i])
      BY <2>1, <3>1, Zenon
    <3> QED BY <3>1, <3>2, Zenon
  <2> HIDE DEF n, step
  <2> QED BY <2>4, <2>5
<1>9. ptr' = [ptr EXCEPT ![w] = after[n].ptr] /\ heap' = after[n].heap
      /\ ip' = 1 /\ mem' = mem /\ strategy' = strategy
  BY DEF InitNetwork, assign
<1> HIDE DEF after
<1> DEFINE P == {k \in Nat : k <= n => after[k] \in V}
<1>10. P = Nat
  <2>1. 0 \in P
    BY <1>2, <1>8
  <2>2. ASSUME NEW k \in P PROVE k + 1 \in P
    <3>1. k \in Nat /\ (k <= n => after[k] \in V)
      OBVIOUS
    <3>2. SUFFICES ASSUME k + 1 <= n PROVE after[k + 1] \in V
      BY <3>1
    <3> DEFINE j == k + 1
    <3>3. j \in 1..n /\ j - 1 = k
      BY <1>1, <3>1, <3>2
    <3> HIDE DEF j
    <3>4. after[j] = assign(after[k], first[j]) /\ after[k] \in V /\ first[j] \in B
      BY <1>1, <1>8, <3>1, <3>2, <3>3
    <3>5. after[j] \in V
      BY <1>2, <1>3, <3>4
    <3> QED BY <3>5 DEF j
  <2> HIDE DEF P
  <2> QED BY <2>1, <2>2, NatInduct DEF P
<1>11. \A k \in 0..n : after[k] \in V
  <2>1. \A k \in 0..n : k \in Nat /\ k <= n
    BY <1>1
  <2> QED BY <1>10, <2>1
<1>12. \A i \in 1..n : after[i] = put(after[i - 1], first[i])
  <2> TAKE i \in 1..n
  <2>1. i - 1 \in 0..n /\ first[i] \in B
    BY <1>1
  <2>2. after[i - 1] \in V
    <3> HIDE DEF n
    <3> QED BY <1>11, <2>1
  <2> QED BY <1>3, <1>8, <2>1, <2>2
<1>13. \A i \in 0..n : after[i].ptr = [t \in B |-> after[i].ptr[t]]
  <2> SUFFICES ASSUME NEW i \in 0..n PROVE after[i].ptr = [t \in B |-> after[i].ptr[t]]
    OBVIOUS
  <2>1. after[i] \in V
    BY <1>11
  <2> DEFINE A == Spots
  <2>2. after[i].ptr \in [B -> A]
    BY <2>1 DEF V
  <2> HIDE DEF A
  <2> QED BY <2>2
<1>14. \A i \in 1..Len(first) :
           after[i] = [ptr |-> [after[i - 1].ptr EXCEPT ![first[i]] =
                                Given(w, redirect, after[i - 1].ptr, after[i - 1].heap, first[i])],
                   heap |-> Enlarged(w, redirect, after[i - 1].heap, first[i])]
  BY <1>12 DEF put
<1>15. AssignSteps(w, first, redirect, after)
  BY <1>8, <1>9, <1>13, <1>14 DEF AssignSteps, start
<1> QED BY <1>15

(* The owners that a network has when the first k buffers are initialised. *)
OwnersUpTo(w, redirect, first, k, own) ==
    own \cup {<<w, t>> : t \in {u \in {first[j] : j \in 1..k} : Takes(w, redirect, u)}}

AssignedUpTo(w, first, redirect, a, k, own) ==
    /\ Taken(a[k].heap) \subseteq 0..(Top - 1) =>
           HeapHolds(nets, [ptr EXCEPT ![w] = a[k].ptr], a[k].heap, OwnersUpTo(w, redirect, first, k, own))
    /\ \A j \in 1..k :
           /\ UpdatedInPlace(nets[w], first[j]) =>
                  a[k].ptr[first[j]] = a[k].ptr[AliasOf(nets[w], first[j])]
           /\ ~ UpdatedInPlace(nets[w], first[j]) /\ first[j] \in DOMAIN redirect =>
                  a[k].ptr[first[j]] = redirect[first[j]]

(* An updated buffer comes behind the one it takes the place of. *)
UpdatedBehind(w, first) ==
    \A k \in 1..Len(first) : UpdatedInPlace(nets[w], first[k]) =>
        \E j \in 1..(k - 1) : first[j] = AliasOf(nets[w], first[k])

(* One more buffer: a block of its own, the block that it is redirected to, *)
(* or that of the weight that it updates.                                   *)
LEMMA AssignedNext ==
    ASSUME NEW w \in Net, WellFormed(nets[w]), NEW first \in Seq(Buffers(nets[w])), Once(first),
           UpdatedBehind(w, first), ptr = [v \in Net |-> ptr[v]],
           NEW redirect, NEW a, AssignSteps(w, first, redirect, a),
           NEW own, \A o \in own : o[1] \in Net /\ o[1] # w,
           NEW k \in Nat, k + 1 <= Len(first), AssignedUpTo(w, first, redirect, a, k, own)
    PROVE  AssignedUpTo(w, first, redirect, a, k + 1, own)
<1> DEFINE B == Buffers(nets[w])
           n == Len(first)
           l == k + 1
           u == first[l]
           P == [ptr EXCEPT ![w] = a[k].ptr]
           Q == [ptr EXCEPT ![w] = a[l].ptr]
           h == a[k].heap
           old == OwnersUpTo(w, redirect, first, k, own)
           words == nets[w].size[u]
<1>1. /\ n \in Nat /\ l \in 1..n /\ l - 1 = k /\ k \in 0..n /\ l \in 0..n /\ u \in B
      /\ 1..l = (1..k) \cup {l} /\ \A j \in 1..k : j \in 1..n /\ j # l
      /\ DOMAIN first = 1..n
  OBVIOUS
<1>2. \A j \in 1..k : first[j] # u
  BY <1>1 DEF Once
<1>3. /\ a[l].ptr = [a[k].ptr EXCEPT ![u] = Given(w, redirect, a[k].ptr, h, u)]
      /\ a[l].heap = Enlarged(w, redirect, h, u)
      /\ a[k].ptr = [t \in B |-> a[k].ptr[t]]
  <2>1. a[l] = [ptr |-> [a[l - 1].ptr EXCEPT ![u] =
                             Given(w, redirect, a[l - 1].ptr, a[l - 1].heap, u)],
                heap |-> Enlarged(w, redirect, a[l - 1].heap, u)]
    BY <1>1 DEF AssignSteps
  <2>2. a[k].ptr = [t \in B |-> a[k].ptr[t]]
    BY <1>1 DEF AssignSteps
  <2>3. a[l - 1] = a[k]
    BY <1>1
  <2> HIDE DEF l, u
  <2>4. a[l] = [ptr |-> [a[k].ptr EXCEPT ![u] = Given(w, redirect, a[k].ptr, h, u)],
                heap |-> Enlarged(w, redirect, h, u)]
    BY <2>1, <2>3
  <2> QED BY <2>2, <2>4
<1>4. /\ a[l].ptr[u] = Given(w, redirect, a[k].ptr, h, u)
      /\ \A t \in B : t # u => a[l].ptr[t] = a[k].ptr[t]
  <2> HIDE DEF l, u, B
  <2> QED BY <1>1, <1>3
<1>5. /\ P[w] = a[k].ptr /\ Q[w] = a[l].ptr
      /\ \A v \in Net : v # w => P[v] = Q[v]
  BY Zenon DEF Net
<1>6. \A j \in 1..k : first[j] \in B /\ first[j] # u
  BY <1>1, <1>2
<1>7. \A o \in old : Q[o[1]][o[2]] = P[o[1]][o[2]] /\ o # <<w, u>>
  <2> SUFFICES ASSUME NEW o \in old PROVE Q[o[1]][o[2]] = P[o[1]][o[2]] /\ o # <<w, u>>
    OBVIOUS
  <2>1. CASE o \in own
    <3>1. o[1] \in Net /\ o[1] # w
      BY <2>1
    <3> HIDE DEF P, Q, u
    <3> QED BY <1>5, <3>1
  <2>2. CASE o \notin own
    <3>1. PICK j \in 1..k : o = <<w, first[j]>>
      BY <2>2 DEF OwnersUpTo
    <3> HIDE DEF P, Q, u, B, l
    <3> QED BY <1>4, <1>5, <1>6, <3>1
  <2> QED BY <2>1, <2>2
<1>8. {first[j] : j \in 1..l} = {first[j] : j \in 1..k} \cup {u}
  BY <1>1
<1>9. OwnersUpTo(w, redirect, first, l, own)
         = IF Takes(w, redirect, u) THEN old \cup {<<w, u>>} ELSE old
  <2> HIDE DEF l, u
  <2>1. {v \in {first[j] : j \in 1..l} : Takes(w, redirect, v)}
           = {v \in {first[j] : j \in 1..k} : Takes(w, redirect, v)}
                 \cup (IF Takes(w, redirect, u) THEN {u} ELSE {})
    BY <1>8
  <2> QED BY <2>1 DEF OwnersUpTo
<1>10. ASSUME Taken(a[l].heap) \subseteq 0..(Top - 1)
       PROVE  HeapHolds(nets, Q, a[l].heap, OwnersUpTo(w, redirect, first, l, own))
  <2>1. h \subseteq a[l].heap
    BY <1>3 DEF Enlarged
  <2>2. Taken(h) \subseteq 0..(Top - 1)
    <3> HIDE DEF h, l
    <3> QED BY <1>10, <2>1 DEF Taken
  <2>3. HeapHolds(nets, P, h, old)
    BY <2>2 DEF AssignedUpTo
  <2>4. CASE Takes(w, redirect, u)
    <3>1. Given(w, redirect, a[k].ptr, h, u) = HeapAddress(h, words)
      BY <2>4 DEF Takes, Given
    <3>2. a[l].heap = h \cup {Handed(HeapAddress(h, words), words)}
      BY <1>3, <2>4 DEF Enlarged
    <3>3. words \in Nat /\ words > 0
      BY <1>1, NetworkParts
    <3>4. Q[w][u] = HeapAddress(h, words)
      <4> HIDE DEF P, Q, u, l, words
      <4> QED BY <1>4, <1>5, <3>1
    <3>5. <<w, u>> \notin old
      <4> HIDE DEF P, Q, u
      <4> QED BY <1>7
    <3> HIDE DEF P, Q, h, old, u, l
    <3>6. HeapHolds(nets, Q, h \cup {Handed(HeapAddress(h, words), words)}, old \cup {<<w, u>>})
      BY <1>7, <2>2, <2>3, <3>3, <3>4, <3>5, HeapAdds
    <3> QED BY <1>9, <2>4, <3>2, <3>6
  <2>5. CASE ~ Takes(w, redirect, u)
    <3>1. a[l].heap = h
      BY <1>3, <2>5 DEF Enlarged
    <3> HIDE DEF P, Q, h, old, u, l
    <3>2. HeapHolds(nets, Q, h, old)
      BY <1>7, <2>3, HeapSame
    <3> QED BY <1>9, <2>5, <3>1, <3>2
  <2> QED BY <2>4, <2>5
<1>11. ASSUME NEW j \in 1..l
       PROVE  /\ UpdatedInPlace(nets[w], first[j]) =>
                     a[l].ptr[first[j]] = a[l].ptr[AliasOf(nets[w], first[j])]
              /\ ~ UpdatedInPlace(nets[w], first[j]) /\ first[j] \in DOMAIN redirect =>
                     a[l].ptr[first[j]] = redirect[first[j]]
  <2>1. ASSUME UpdatedInPlace(nets[w], first[j])
        PROVE  /\ AliasOf(nets[w], first[j]) # u /\ AliasOf(nets[w], first[j]) \in B
    <3>1. j \in 1..n /\ j <= l
      BY <1>1
    <3>2. PICK i \in 1..(j - 1) : first[i] = AliasOf(nets[w], first[j])
      BY <2>1, <3>1 DEF UpdatedBehind
    <3>3. i \in 1..k
      BY <1>1, <3>1, <3>2
    <3> HIDE DEF l, u, n, B
    <3> QED BY <1>6, <3>2, <3>3
  <2>2. CASE j \in 1..k
    <3>1. first[j] \in B /\ first[j] # u
      <4> HIDE DEF u, B
      <4> QED BY <1>6, <2>2
    <3>2. a[l].ptr[first[j]] = a[k].ptr[first[j]]
      <4> HIDE DEF u, B, l
      <4> QED BY <1>4, <3>1
    <3>3. UpdatedInPlace(nets[w], first[j]) =>
             a[l].ptr[AliasOf(nets[w], first[j])] = a[k].ptr[AliasOf(nets[w], first[j])]
      <4> HIDE DEF u, B, l
      <4> QED BY <1>4, <2>1
    <3> HIDE DEF l
    <3> QED BY <2>2, <3>2, <3>3 DEF AssignedUpTo
  <2>3. CASE j = l
    <3>1. first[j] = u
      BY <2>3
    <3>2. UpdatedInPlace(nets[w], u) => a[l].ptr[AliasOf(nets[w], u)] = a[k].ptr[AliasOf(nets[w], u)]
      <4> HIDE DEF u, B, l
      <4> QED BY <1>4, <2>1, <3>1
    <3> HIDE DEF l, u
    <3> QED BY <1>4, <3>1, <3>2 DEF Given
  <2> QED BY <1>1, <2>2, <2>3
<1> QED BY <1>10, <1>11 DEF AssignedUpTo

(* What the initialisation of a network leaves on a heap that is large     *)
(* enough.                                                                 *)
AssignedNow(w, first, redirect, own) ==
    /\ HeapHolds(nets, ptr', heap',
                 own \cup {<<w, t>> : t \in {u \in Range(first) : Takes(w, redirect, u)}})
    /\ \A t \in Range(first) :
           /\ UpdatedInPlace(nets[w], t) => ptr'[w][t] = ptr'[w][AliasOf(nets[w], t)]
           /\ ~ UpdatedInPlace(nets[w], t) /\ t \in DOMAIN redirect => ptr'[w][t] = redirect[t]
    /\ ptr' = [v \in Net |-> ptr'[v]] /\ ptr'[w] = [t \in Buffers(nets[w]) |-> ptr'[w][t]]
    /\ \A v \in Net : v # w => ptr'[v] = ptr[v]

LEMMA AssignedHeap ==
    ASSUME NEW w \in Net, WellFormed(nets[w]), NEW first \in Seq(Buffers(nets[w])), Once(first),
           UpdatedBehind(w, first), ptr = [v \in Net |-> ptr[v]],
           NEW redirect, NEW a, AssignSteps(w, first, redirect, a),
           NEW own, \A o \in own : o[1] \in Net /\ o[1] # w,
           HeapHolds(nets, ptr, heap, own), Taken(heap') \subseteq 0..(Top - 1)
    PROVE  AssignedNow(w, first, redirect, own)
<1> DEFINE n == Len(first)
           Good(k) == AssignedUpTo(w, first, redirect, a, k, own)
           P == {k \in Nat : k <= n => Good(k)}
<1>1. n \in Nat /\ DOMAIN first = 1..n
  OBVIOUS
<1>2. /\ a[0] = [ptr |-> ptr[w], heap |-> heap]
      /\ ptr' = [ptr EXCEPT ![w] = a[n].ptr] /\ heap' = a[n].heap
      /\ a[n].ptr = [t \in Buffers(nets[w]) |-> a[n].ptr[t]]
  <2>1. n \in 0..n
    BY <1>1
  <2> QED BY <2>1 DEF AssignSteps
<1>3. Good(0)
  <2>1. [ptr EXCEPT ![w] = a[0].ptr] = ptr
    BY <1>2
  <2>2. {first[j] : j \in 1..0} = {}
    OBVIOUS
  <2>3. OwnersUpTo(w, redirect, first, 0, own) = own
    BY <2>2 DEF OwnersUpTo
  <2> QED BY <1>2, <2>1, <2>3 DEF AssignedUpTo
<1>4. ASSUME NEW k \in Nat, k + 1 <= n, Good(k) PROVE Good(k + 1)
  BY <1>4, AssignedNext
<1> HIDE DEF Good, n
<1>5. P = Nat
  <2>1. 0 \in P
    BY <1>3
  <2>2. ASSUME NEW k \in P PROVE k + 1 \in P
    <3> k \in Nat /\ (k + 1 <= n => k <= n)
      BY <1>1
    <3> QED BY <1>4
  <2> HIDE DEF P
  <2> QED BY <2>1, <2>2, NatInduct DEF P
<1>6. Good(n)
  <2>1. n \in P /\ n <= n
    <3> HIDE DEF P
    <3> QED BY <1>1, <1>5
  <2> QED BY <2>1
<1>7. Range(first) = {first[j] : j \in 1..n}
  BY <1>1 DEF Range
<1>8. ptr' = [v \in Net |-> ptr'[v]] /\ ptr'[w] = a[n].ptr /\ \A v \in Net : v # w => ptr'[v] = ptr[v]
  BY <1>2
<1>9. OwnersUpTo(w, redirect, first, n, own)
         = own \cup {<<w, t>> : t \in {u \in Range(first) : Takes(w, redirect, u)}}
  BY <1>7 DEF OwnersUpTo
<1>10. HeapHolds(nets, ptr', heap', OwnersUpTo(w, redirect, first, n, own))
  BY <1>2, <1>6 DEF Good, AssignedUpTo
<1>11. \A t \in Range(first) :
          /\ UpdatedInPlace(nets[w], t) => ptr'[w][t] = ptr'[w][AliasOf(nets[w], t)]
          /\ ~ UpdatedInPlace(nets[w], t) /\ t \in DOMAIN redirect => ptr'[w][t] = redirect[t]
  BY <1>6, <1>7, <1>8 DEF Good, AssignedUpTo
<1> QED BY <1>2, <1>8, <1>9, <1>10, <1>11 DEF AssignedNow

(* What is updated in place is a weight of the optimiser. *)
LEMMA UpdatedIs ==
    ASSUME Static, NEW w \in Net, NEW t, UpdatedInPlace(nets[w], t)
    PROVE  /\ w = "opt" /\ Training
           /\ AliasOf(nets[w], t) \in Range(nets[w].inputs)
           /\ t \in Range(nets[w].outputs) /\ t \notin Range(nets[w].inputs)
           /\ ~ UpdatedInPlace(nets[w], AliasOf(nets[w], t))
           /\ SharedBuffer(t) <=> SharedBuffer(AliasOf(nets[w], t))
<1>1. PICK i \in Nodes(nets[w]) : nets[w].nodes[i].op = "sgd" /\ nets[w].nodes[i].out = t
  BY DEF UpdatedInPlace
<1>2. WellFormed(nets[w])
  BY NetFacts
<1>3. w = "opt"
  BY <1>1, NetNodes DEF Net
<1>4. Training
  <2>1. t \in Touched(nets["opt"])
    BY <1>1, <1>3, TouchedTensors
  <2> QED BY <2>1, TouchedTensors
<1>5. AliasOf(nets[w], t) = nets[w].nodes[i].ins[1]
  BY <1>1, <1>2, AliasIs DEF AliasingOp
<1>6. /\ nets[w].nodes[i].ins = <<OptWeight(i), OptGrad(i)>> /\ OptWeight(i) \in Range(nets[w].inputs)
      /\ t = OptUpdated(i) /\ OptUpdated(i) \in Range(nets[w].outputs)
  BY <1>1, <1>3, <1>4, OptimizerFacts
<1>7. AliasOf(nets[w], t) = OptWeight(i)
  BY <1>5, <1>6
<1>8. t \notin Range(nets[w].inputs)
  BY <1>1, <1>2, ProducedIs
<1>9. ~ UpdatedInPlace(nets[w], OptWeight(i))
  BY <1>2, <1>6, ProducedIs DEF UpdatedInPlace
<1>10. SharedBuffer(t) <=> SharedBuffer(OptWeight(i))
  BY <1>3, <1>4, <1>6, SharedIs
<1> QED BY <1>3, <1>4, <1>6, <1>7, <1>8, <1>9, <1>10

(* A network is initialised with every input and output once, and with an  *)
(* updated weight behind the weight.                                       *)
LEMMA InitListOnce ==
    ASSUME Static, NEW w \in Net
    PROVE  LET first == nets[w].inputs \o nets[w].outputs
           IN  Once(first) /\ UpdatedBehind(w, first)
<1> DEFINE N == nets[w]
           B == Buffers(N)
           in == N.inputs
           out == nets[w].outputs
           first == in \o out
<1>1. WellFormed(N) /\ in \in Seq(B)
  BY NetFacts, NetworkParts
<1>2. out \in Seq(B) /\ Range(out) = Range(N.outputs)
  BY <1>1 DEF WellFormed
<1>3. Once(in)
  BY <1>1 DEF Once, WellFormed, IsInjective
<1>4. Once(out)
  BY <1>1 DEF Once, WellFormed, IsInjective
<1>5. Range(in) \cap Range(out) = {}
  <2>1. Range(N.outputs) \subseteq Produced(N, Len(N.nodes))
    BY <1>1 DEF WellFormed
  <2>2. \A t \in Produced(N, Len(N.nodes)) : t \notin Range(in)
    <3>1. \A i \in 1..Len(N.nodes) : N.nodes[i].out \notin Range(in)
      BY <1>1, ProducedIs, NetworkParts
    <3> QED BY <3>1 DEF Produced
  <2> QED BY <1>2, <2>1, <2>2
<1>6. Once(first)
  <2> HIDE DEF in, out, B
  <2> QED BY <1>1, <1>2, <1>3, <1>4, <1>5, ConcatOnce
<1>7. /\ Len(in) \in Nat /\ Len(out) \in Nat /\ Len(first) = Len(in) + Len(out)
      /\ \A k \in 1..Len(in) : first[k] = in[k] /\ k \in 1..Len(first)
      /\ DOMAIN in = 1..Len(in)
  <2> HIDE DEF in, out, B
  <2> QED BY <1>1, <1>2
<1>8. ASSUME NEW k \in 1..Len(first), UpdatedInPlace(N, first[k])
      PROVE  \E j \in 1..(k - 1) : first[j] = AliasOf(N, first[k])
  <2>1. AliasOf(N, first[k]) \in Range(in) /\ first[k] \notin Range(in)
    BY <1>8, UpdatedIs
  <2> HIDE DEF in, out, first
  <2>2. PICK j \in 1..Len(in) : in[j] = AliasOf(N, first[k])
    BY <1>7, <2>1 DEF Range
  <2>3. k \notin 1..Len(in)
    BY <1>7, <2>1 DEF Range
  <2>4. j \in 1..(k - 1)
    BY <1>7, <2>3
  <2> QED BY <1>7, <2>2, <2>4
<1> QED BY <1>6, <1>8 DEF UpdatedBehind

(* Whose blocks the heap holds: every input and output of a network that   *)
(* is initialised, unless it is another's buffer, and what the program of  *)
(* the network that runs has allocated and not freed since.                *)
PermanentOf(w) ==
    {t \in Range(nets[w].inputs) \cup Range(nets[w].outputs) :
        ~ UpdatedInPlace(nets[w], t) /\ ~ (w = "opt" /\ SharedBuffer(t))}

PermanentOwners(S) == UNION {{<<w, t>> : t \in PermanentOf(w)} : w \in S}

HeldOwners(S, n) == UNION {{<<w, t>> : t \in HeldBefore(nets[w], program[w], n)} : w \in S}

Started == {w \in Net : Initialised(w)}
AtWork  == {w \in Net : Busy(w)}

Owners == PermanentOwners(Started) \cup HeldOwners(AtWork, ip)

HeapPhase ==
    /\ phase \in Phases \ {"place"} /\ ip \in Nat \ {0}
    /\ phase # "generate" => \A w \in Net : AllGenerated(w)
    /\ ~ Training => phase \notin TrainingPhases

(* The pointers of the inputs and outputs are those of owners, and a       *)
(* network that is not initialised has none.                               *)
HeapPointers ==
    /\ ptr = [w \in Net |-> ptr[w]]
    /\ \A w \in Net : ptr[w] = [t \in Buffers(nets[w]) |-> ptr[w][t]]
    /\ \A w \in Net : ~ Initialised(w) => \A t \in Buffers(nets[w]) : ptr[w][t] = Null
    /\ \A w \in Net : Initialised(w) =>
           \A t \in Range(nets[w].inputs) \cup Range(nets[w].outputs) :
               \E o \in PermanentOwners(Started) : ptr[w][t] = ptr[o[1]][o[2]]

(* A view has the pointer of the buffer that it stands for. *)
HeapViews ==
    \A w \in Net : Busy(w) =>
        /\ ip <= Len(program[w]) + 1
        /\ \A i \in RanBefore(w, ip) :
               LET r == Dealias(nets[w], nets[w].nodes[i].out)
               IN  r \in HeldBefore(nets[w], program[w], ip) => ptr[w][nets[w].nodes[i].out] = ptr[w][r]

HeapBlocks == HeapHolds(nets, ptr, heap, Owners)

HeapInv == HeapPhase /\ HeapPointers /\ HeapViews /\ HeapBlocks

-----------------------------------------------------------------------------
(* What stays. *)
LEMMA HeapFixed ==
    ASSUME Fix
    PROVE  /\ \A w : PermanentOf(w)' = PermanentOf(w)
           /\ \A S : PermanentOwners(S)' = PermanentOwners(S)
           /\ \A S, n : HeldOwners(S, n)' = HeldOwners(S, n)
           /\ \A w, n : HeldBefore(nets[w], program[w], n)' = HeldBefore(nets[w], program[w], n)
<1>1. \A t : SharedBuffer(t)' <=> SharedBuffer(t)
  BY DEF Fix, SharedBuffer
<1>2. \A w : PermanentOf(w)' = PermanentOf(w)
  BY <1>1 DEF Fix, PermanentOf
<1>3. \A S : PermanentOwners(S)' = PermanentOwners(S)
  BY <1>2 DEF PermanentOwners
<1>4. \A w, n : HeldBefore(nets[w], program[w], n)' = HeldBefore(nets[w], program[w], n)
  BY DEF Fix
<1>5. \A S, n : HeldOwners(S, n)' = HeldOwners(S, n)
  BY <1>4 DEF HeldOwners
<1> QED BY <1>2, <1>3, <1>4, <1>5

(* What is said of the programs in full. *)
LEMMA ProgramFacts ==
    ASSUME Static, GenInv, HeapPhase, phase # "generate", NEW w \in Net
    PROVE  /\ WellFormed(nets[w]) /\ program[w] \in Seq(Instr(nets[w])) /\ Len(program[w]) \in Nat
           /\ RunsInOrder(nets[w], program[w], Len(nets[w].nodes))
           /\ generated[w] = Len(nets[w].nodes)
           /\ RanBefore(w, 1) = {}
           /\ HeldBefore(nets[w], program[w], 1) = {}
<1>1. WellFormed(nets[w])
  BY NetFacts
<1>2. generated[w] = Len(nets[w].nodes)
  BY DEF HeapPhase, AllGenerated
<1>3. RunsInOrder(nets[w], program[w], Len(nets[w].nodes))
  BY <1>2 DEF GenInv
<1>4. program[w] \in Seq(Instr(nets[w])) /\ Len(program[w]) \in Nat
  <2>1. program[w] \in Seq(Instr(nets[w]))
    BY <1>3 DEF RunsInOrder
  <2> QED BY <2>1
<1>5. RanBefore(w, 1) = {}
  BY <1>1, <1>3, RanFacts
<1>6. HeldBefore(nets[w], program[w], 1) = {}
  BY DEF HeldBefore
<1> QED BY <1>1, <1>2, <1>3, <1>4, <1>5, <1>6

(* A step between the runs. *)
LEMMA QuietStep ==
    ASSUME Stay, Static, GenInv, HeapInv, phase # "generate",
           HeldOwners(AtWork, ip) = {}, ptr' = ptr, heap' = heap,
           \A w \in Net : Initialised(w)' <=> Initialised(w),
           phase' \in Phases \ {"generate", "place"}, phase' \in TrainingPhases => Training,
           ip' \in Nat \ {0}, \A w \in Net : Busy(w)' => ip' = 1
    PROVE  HeapInv'
<1>1. Fix /\ (\A w : AllGenerated(w)' <=> AllGenerated(w)) /\ nets' = nets /\ program' = program
  BY StayFix DEF Stay, generationVars
<1>2. HeapPhase'
  <2>1. Training' <=> Training
    BY <1>1, Fixed
  <2> QED BY <1>1, <2>1 DEF HeapInv, HeapPhase
<1>3. Started' = Started
  BY DEF Started
<1>4. \A S : PermanentOwners(S)' = PermanentOwners(S)
  BY <1>1, HeapFixed
<1>5. PermanentOwners(Started)' = PermanentOwners(Started)
  <2>1. PermanentOwners(Started)' = UNION {{<<w, t>> : t \in PermanentOf(w)'} : w \in Started'}
    BY DEF PermanentOwners
  <2>2. \A w : PermanentOf(w)' = PermanentOf(w)
    BY <1>1, HeapFixed
  <2> QED BY <1>3, <2>1, <2>2 DEF PermanentOwners
<1>6. HeapPointers'
  BY <1>1, <1>5 DEF HeapInv, HeapPointers
<1>7. \A w \in Net : Busy(w)' => /\ RanBefore(w, ip)' = {}
                                 /\ HeldBefore(nets[w], program[w], ip)' = {}
                                 /\ (ip <= Len(program[w]) + 1)'
  <2> SUFFICES ASSUME NEW w \in Net, Busy(w)'
               PROVE  /\ RanBefore(w, ip)' = {}
                      /\ HeldBefore(nets[w], program[w], ip)' = {}
                      /\ (ip <= Len(program[w]) + 1)'
    OBVIOUS
  <2>1. ip' = 1
    OBVIOUS
  <2>2. RanBefore(w, 1) = {} /\ HeldBefore(nets[w], program[w], 1) = {} /\ Len(program[w]) \in Nat
    BY ProgramFacts DEF HeapInv
  <2>3. RanBefore(w, ip)' = {}
    BY <1>1, <2>1, <2>2 DEF RanBefore
  <2>4. HeldBefore(nets[w], program[w], ip)' = {}
    BY <1>1, <2>1, <2>2
  <2> QED BY <1>1, <2>1, <2>2, <2>3, <2>4
<1>8. HeapViews'
  BY <1>7 DEF HeapViews
<1>9. HeldOwners(AtWork, ip)' = {}
  BY <1>7 DEF HeldOwners, AtWork
<1>10. Owners' = Owners
  BY <1>5, <1>9 DEF Owners
<1>11. HeapBlocks'
  BY <1>1, <1>10 DEF HeapInv, HeapBlocks
<1> QED BY <1>2, <1>6, <1>8, <1>11 DEF HeapInv

-----------------------------------------------------------------------------
(* The run of a program. *)

(* What a program holds stands for itself and is neither input nor output. *)
LEMMA HeldFacts ==
    ASSUME Static, GenInv, strategy = "heap", HeapProgramInv, HeapPhase, phase # "generate",
           NEW w \in Net, NEW n \in Nat, n <= Len(program[w]) + 1,
           NEW t \in HeldBefore(nets[w], program[w], n)
    PROVE  /\ t \in Locals(nets[w]) /\ t \in Buffers(nets[w]) /\ ~ HasAlias(nets[w], t)
           /\ ~ IsGlobal(nets[w], t) /\ <<w, t>> \notin PermanentOwners(Started)
<1> DEFINE N == nets[w]
           p == program[w]
<1>1. WellFormed(N) /\ Len(p) \in Nat
  BY ProgramFacts
<1>2. PICK j \in 1..(n - 1) : p[j] = AllocOf(t)
  BY DEF HeldBefore
<1>3. t \in Locals(N)
  BY DEF HeldBefore
<1>4. j \in 1..Len(p)
  BY <1>1
<1>5. SafeAt(N, p, j)
  BY <1>4 DEF HeapProgramInv
<1>6. ~ HasAlias(N, t)
  BY <1>2, <1>5 DEF SafeAt, AllocOf
<1>7. t \in Buffers(N)
  BY <1>1, <1>3, LocalsFacts
<1>8. ~ IsGlobal(N, t)
  BY <1>1, <1>3, ScratchFacts DEF Locals
<1>9. \A o \in PermanentOwners(Started) : o[1] = w => IsGlobal(N, o[2])
  BY DEF PermanentOwners, PermanentOf, IsGlobal, IsInput, IsOutput
<1> QED BY <1>3, <1>6, <1>7, <1>8, <1>9

(* One network runs. *)
LEMMA OneAtWork ==
    ASSUME NEW w \in Net, Busy(w)
    PROVE  /\ AtWork = {w}
           /\ \A n : HeldOwners(AtWork, n) = {<<w, t>> : t \in HeldBefore(nets[w], program[w], n)}
<1>1. AtWork = {w}
  BY DEF AtWork, Busy, Net
<1> QED BY <1>1 DEF HeldOwners

(* An instruction that leaves the inputs and outputs where they are. *)
LEMMA InstructionStep ==
    ASSUME Stay, Static, GenInv, HeapInv, phase # "generate", NEW w \in Net, Busy(w), ~ Finished(w),
           ip' = ip + 1, harnessVars' = harnessVars,
           ptr' = [v \in Net |-> ptr'[v]], ptr'[w] = [t \in Buffers(nets[w]) |-> ptr'[w][t]],
           \A v \in Net : v # w => ptr'[v] = ptr[v],
           \A t \in Buffers(nets[w]) : IsGlobal(nets[w], t) => ptr'[w][t] = ptr[w][t],
           HeapHolds(nets, ptr', heap', PermanentOwners(Started)
                         \cup {<<w, t>> : t \in HeldBefore(nets[w], program[w], ip + 1)}),
           \A i \in RanBefore(w, ip + 1) :
               LET r == Dealias(nets[w], nets[w].nodes[i].out)
               IN  r \in HeldBefore(nets[w], program[w], ip + 1) => ptr'[w][nets[w].nodes[i].out] = ptr'[w][r]
    PROVE  HeapInv'
<1>1. /\ Fix /\ (\A v : AllGenerated(v)' <=> AllGenerated(v)) /\ nets' = nets /\ program' = program
      /\ phase' = phase /\ deployment' = deployment
  BY StayFix DEF Stay, generationVars, harnessVars
<1>2. Training' <=> Training
  BY <1>1, Fixed
<1>3. HeapPhase'
  BY <1>1, <1>2 DEF HeapInv, HeapPhase
<1>4. (\A v : Initialised(v)' <=> Initialised(v)) /\ (\A v : Busy(v)' <=> Busy(v))
  BY <1>1, <1>2 DEF Initialised, Busy
<1>5. Started' = Started /\ AtWork' = AtWork
  BY <1>4 DEF Started, AtWork
<1>6. Initialised(w)
  BY DEF Busy, Initialised, HeapInv, HeapPhase, Early, TrainingPhases, Net
<1>7. PermanentOwners(Started)' = PermanentOwners(Started)
  <2>1. \A v : PermanentOf(v)' = PermanentOf(v)
    BY <1>1, HeapFixed
  <2> QED BY <1>5, <2>1 DEF PermanentOwners
<1>8. \A v \in Net : \A t \in Range(nets[v].inputs) \cup Range(nets[v].outputs) : ptr'[v][t] = ptr[v][t]
  <2> SUFFICES ASSUME NEW v \in Net, NEW t \in Range(nets[v].inputs) \cup Range(nets[v].outputs)
               PROVE  ptr'[v][t] = ptr[v][t]
    OBVIOUS
  <2>1. t \in Buffers(nets[v]) /\ IsGlobal(nets[v], t)
    BY TouchedTensors DEF IsGlobal, IsInput, IsOutput
  <2> QED BY <2>1
<1>9. \A o \in PermanentOwners(Started) : ptr'[o[1]][o[2]] = ptr[o[1]][o[2]]
  BY <1>8 DEF PermanentOwners, PermanentOf, Started
<1>10. HeapPointers'
  <2>1. \A v \in Net : ptr'[v] = [t \in Buffers(nets[v]) |-> ptr'[v][t]]
    <3> SUFFICES ASSUME NEW v \in Net, v # w PROVE ptr'[v] = [t \in Buffers(nets[v]) |-> ptr'[v][t]]
      OBVIOUS
    <3>1. ptr'[v] = ptr[v] /\ ptr[v] = [t \in Buffers(nets[v]) |-> ptr[v][t]]
      BY DEF HeapInv, HeapPointers
    <3> QED BY <3>1
  <2>2. \A v \in Net : ~ Initialised(v) => \A t \in Buffers(nets[v]) : ptr'[v][t] = Null
    BY <1>6 DEF HeapInv, HeapPointers
  <2>3. \A v \in Net : Initialised(v) =>
           \A t \in Range(nets[v].inputs) \cup Range(nets[v].outputs) :
               \E o \in PermanentOwners(Started) : ptr'[v][t] = ptr'[o[1]][o[2]]
    <3> SUFFICES ASSUME NEW v \in Net, Initialised(v),
                        NEW t \in Range(nets[v].inputs) \cup Range(nets[v].outputs)
                 PROVE  \E o \in PermanentOwners(Started) : ptr'[v][t] = ptr'[o[1]][o[2]]
      OBVIOUS
    <3>1. PICK o \in PermanentOwners(Started) : ptr[v][t] = ptr[o[1]][o[2]]
      BY DEF HeapInv, HeapPointers
    <3>2. ptr'[v][t] = ptr'[o[1]][o[2]]
      BY <3>1, <1>8, <1>9
    <3> QED BY <3>2
  <2> QED BY <1>1, <1>4, <1>7, <2>1, <2>2, <2>3 DEF HeapPointers
<1>11. HeapViews'
  <2> SUFFICES ASSUME NEW v \in Net, Busy(v)'
               PROVE  /\ (ip <= Len(program[v]) + 1)'
                      /\ \A i \in RanBefore(v, ip)' :
                             LET r == Dealias(nets'[v], nets'[v].nodes[i].out)
                             IN  r \in HeldBefore(nets'[v], program'[v], ip') =>
                                     ptr'[v][nets'[v].nodes[i].out] = ptr'[v][r]
    BY DEF HeapViews
  <2>1. v = w
    BY <1>4, OneAtWork DEF AtWork
  <2>2. RanBefore(v, ip)' = RanBefore(w, ip + 1)
    BY <1>1, <2>1 DEF RanBefore
  <2>3. ip \in Nat /\ Len(program[w]) \in Nat
    BY ProgramFacts DEF HeapInv, HeapPhase
  <2>4. (ip <= Len(program[v]) + 1)'
    BY <1>1, <2>1, <2>3 DEF Finished
  <2> QED BY <1>1, <2>1, <2>2, <2>4
<1>12. Owners' = PermanentOwners(Started) \cup {<<w, t>> : t \in HeldBefore(nets[w], program[w], ip + 1)}
  <2>1. HeldOwners(AtWork, ip)' = {<<w, t>> : t \in HeldBefore(nets[w], program[w], ip + 1)}
    BY <1>1, <1>5, OneAtWork DEF HeldOwners
  <2> QED BY <1>7, <2>1 DEF Owners
<1>13. HeapBlocks'
  BY <1>1, <1>12 DEF HeapBlocks
<1> QED BY <1>3, <1>10, <1>11, <1>13 DEF HeapInv

(* What the next instruction does to what is held. *)
LEMMA NextInstruction ==
    ASSUME Static, GenInv, strategy = "heap", HeapProgramInv, HeapInv, NEW w \in Net, Busy(w), ~ Finished(w)
    PROVE  LET N == nets[w]
               p == program[w]
               now == Current(w)
               held == HeldBefore(N, p, ip)
           IN  /\ phase # "generate" /\ WellFormed(N) /\ ip \in 1..Len(p) /\ now = p[ip]
               /\ SafeAt(N, p, ip) /\ RunBefore(N, p, ip) = RanBefore(w, ip)
               /\ now.do \in {"alloc", "free", "run"}
               /\ now.do # "run" =>
                      now.arg \in Locals(N) /\ now.arg \in Buffers(N) /\ RanBefore(w, ip + 1) = RanBefore(w, ip)
               /\ now.do = "alloc" => HeldBefore(N, p, ip + 1) = held \cup {now.arg}
               /\ now.do = "free" => HeldBefore(N, p, ip + 1) = held \ {Dealias(N, now.arg)}
               /\ now.do = "run" =>
                      /\ HeldBefore(N, p, ip + 1) = held
                      /\ now.arg \in Nodes(N)
                      /\ RanBefore(w, ip) = 1..(now.arg - 1) /\ RanBefore(w, ip + 1) = 1..now.arg
               /\ Owners = PermanentOwners(Started) \cup {<<w, t>> : t \in held}
               /\ HeapHolds(nets, ptr, heap, PermanentOwners(Started) \cup {<<w, t>> : t \in held})
<1> DEFINE N == nets[w]
           p == program[w]
<1>1. phase # "generate"
  BY DEF Busy
<1>2. /\ WellFormed(N) /\ p \in Seq(Instr(N)) /\ Len(p) \in Nat
      /\ RunsInOrder(N, p, Len(N.nodes))
  BY <1>1, ProgramFacts DEF HeapInv
<1>3. ip \in 1..Len(p) /\ ip \in Nat /\ ip > 0 /\ ip <= Len(p)
  BY <1>2 DEF HeapInv, HeapPhase, Finished
<1>4. SafeAt(N, p, ip)
  BY <1>3 DEF HeapProgramInv
<1>5. RunBefore(N, p, ip) = RanBefore(w, ip)
  BY DEF RunBefore, RanBefore
<1>6. /\ p[ip] \in Instr(N)
      /\ p[ip].do # "run" => RanBefore(w, ip + 1) = RanBefore(w, ip)
      /\ p[ip].do = "run" =>
             /\ p[ip].arg \in Nodes(N)
             /\ RanBefore(w, ip) = 1..(p[ip].arg - 1) /\ RanBefore(w, ip + 1) = 1..p[ip].arg
  BY <1>2, <1>3, RanFacts
<1>7. /\ p[ip].do \in {"alloc", "free", "run"}
      /\ p[ip].do # "run" => p[ip].arg \in Locals(N)
      /\ p[ip].do = "alloc" => HeldBefore(N, p, ip + 1) = HeldBefore(N, p, ip) \cup {p[ip].arg}
      /\ p[ip].do = "free" => HeldBefore(N, p, ip + 1) = HeldBefore(N, p, ip) \ {Dealias(N, p[ip].arg)}
      /\ p[ip].do = "run" => HeldBefore(N, p, ip + 1) = HeldBefore(N, p, ip)
  <2> HIDE DEF N, p
  <2> QED BY <1>2, <1>3, HeldStep
<1>8. Locals(N) \subseteq Buffers(N)
  BY <1>2, LocalsFacts
<1>9. Owners = PermanentOwners(Started) \cup {<<w, t>> : t \in HeldBefore(N, p, ip)}
  BY OneAtWork DEF Owners
<1>10. HeapHolds(nets, ptr, heap, PermanentOwners(Started) \cup {<<w, t>> : t \in HeldBefore(N, p, ip)})
  BY <1>9 DEF HeapInv, HeapBlocks
<1>11. Current(w) = p[ip]
  BY DEF Current
<1> HIDE DEF N, p
<1>12. p[ip].do # "run" => p[ip].arg \in Buffers(N)
  BY <1>7, <1>8
<1> QED BY <1>1, <1>2, <1>3, <1>4, <1>5, <1>6, <1>7, <1>9, <1>10, <1>11, <1>12 DEF N, p

(* The pointer of one buffer is set. *)
PointsNow(w, t, x) ==
    /\ ptr' = [v \in Net |-> ptr'[v]] /\ ptr'[w] = [u \in Buffers(nets[w]) |-> ptr'[w][u]]
    /\ \A v \in Net : v # w => ptr'[v] = ptr[v]
    /\ ptr'[w][t] = x /\ \A u \in Buffers(nets[w]) : u # t => ptr'[w][u] = ptr[w][u]

LEMMA PointerSet ==
    ASSUME HeapInv, NEW w \in Net, NEW t \in Buffers(nets[w]), NEW x, ptr' = [ptr EXCEPT ![w][t] = x]
    PROVE  PointsNow(w, t, x)
<1>1. ptr = [v \in Net |-> ptr[v]] /\ ptr[w] = [u \in Buffers(nets[w]) |-> ptr[w][u]]
  BY DEF HeapInv, HeapPointers
<1>2. ptr' = [v \in Net |-> IF v = w THEN [ptr[w] EXCEPT ![t] = x] ELSE ptr[v]]
  BY <1>1
<1>3. ptr'[w] = [ptr[w] EXCEPT ![t] = x] /\ \A v \in Net : v # w => ptr'[v] = ptr[v]
  BY <1>2
<1>4. ptr'[w] = [u \in Buffers(nets[w]) |-> IF u = t THEN x ELSE ptr[w][u]]
  BY <1>1, <1>3
<1>5. ptr' = [v \in Net |-> ptr'[v]]
  BY <1>2
<1> HIDE DEF Net
<1> QED BY <1>3, <1>4, <1>5 DEF PointsNow

LEMMA PointersStay ==
    ASSUME HeapInv, ptr' = ptr, NEW w \in Net
    PROVE  /\ ptr' = [v \in Net |-> ptr'[v]] /\ ptr'[w] = [u \in Buffers(nets[w]) |-> ptr'[w][u]]
           /\ \A v \in Net : ptr'[v] = ptr[v]
BY DEF HeapInv, HeapPointers

(* An allocation takes a block that overlaps none, and nothing that is in  *)
(* use stands for the buffer.                                              *)
LEMMA AllocHeap ==
    ASSUME Stay, Static, GenInv, strategy = "heap", HeapProgramInv, HeapInv, NEW w \in Net, Busy(w),
           ~ Finished(w), ip' = ip + 1, harnessVars' = harnessVars,
           Current(w).do = "alloc", AllocBuffer(w, Current(w).arg), Taken(heap') \subseteq 0..(Top - 1)
    PROVE  HeapInv'
<1> DEFINE N == nets[w]
           p == program[w]
           t == Current(w).arg
           held == HeldBefore(N, p, ip)
           perm == PermanentOwners(Started)
           own == perm \cup {<<w, u>> : u \in held}
           words == N.size[t]
<1>1. /\ phase # "generate" /\ WellFormed(N) /\ ip \in 1..Len(p) /\ Current(w) = p[ip]
      /\ SafeAt(N, p, ip) /\ RunBefore(N, p, ip) = RanBefore(w, ip)
      /\ t \in Locals(N) /\ t \in Buffers(N) /\ RanBefore(w, ip + 1) = RanBefore(w, ip)
      /\ HeldBefore(N, p, ip + 1) = held \cup {t}
      /\ HeapHolds(nets, ptr, heap, own)
  BY NextInstruction
<1>2. /\ ptr' = [ptr EXCEPT ![w][t] = HeapAddress(heap, words)]
      /\ heap' = heap \cup {Handed(HeapAddress(heap, words), words)}
  BY DEF AllocBuffer
<1>3. /\ ptr' = [v \in Net |-> ptr'[v]] /\ ptr'[w] = [u \in Buffers(nets[w]) |-> ptr'[w][u]]
      /\ \A v \in Net : v # w => ptr'[v] = ptr[v]
      /\ ptr'[w][t] = HeapAddress(heap, words)
      /\ \A u \in Buffers(nets[w]) : u # t => ptr'[w][u] = ptr[w][u]
  <2> DEFINE x == HeapAddress(heap, words)
  <2>1. ptr' = [ptr EXCEPT ![w][t] = x]
    BY <1>2
  <2>2. t \in Buffers(nets[w])
    BY <1>1
  <2> HIDE DEF t, words, x
  <2>3. PointsNow(w, t, x)
    BY <2>1, <2>2, PointerSet
  <2> QED BY <2>3 DEF x, PointsNow
<1>4. /\ t \notin held /\ ~ HasAlias(N, t)
      /\ \A i \in RanBefore(w, ip) : Dealias(N, N.nodes[i].out) # t
  BY <1>1 DEF SafeAt
<1>5. ip \in Nat /\ ip <= Len(p) + 1 /\ ip + 1 \in Nat /\ ip + 1 <= Len(p) + 1
  <2>1. Len(p) \in Nat
    BY <1>1, ProgramFacts DEF HeapInv
  <2> QED BY <1>1, <2>1
<1>6. t \in HeldBefore(N, p, ip + 1)
  BY <1>1
<1>7. ~ IsGlobal(N, t) /\ <<w, t>> \notin perm
  BY <1>1, <1>5, <1>6, HeldFacts DEF HeapInv
<1>8. \A u \in held : u \in Buffers(N)
  BY <1>1, <1>5, HeldFacts DEF HeapInv
<1>9. \A o \in own : ptr'[o[1]][o[2]] = ptr[o[1]][o[2]] /\ o # <<w, t>>
  <2>1. ASSUME NEW o \in perm PROVE ptr'[o[1]][o[2]] = ptr[o[1]][o[2]] /\ o # <<w, t>>
    <3>1. o[1] \in Net /\ o[2] \in Buffers(nets[o[1]]) /\ o = <<o[1], o[2]>>
      BY TouchedTensors DEF PermanentOwners, PermanentOf, Started
    <3> HIDE DEF t, perm
    <3> QED BY <1>3, <1>7, <3>1
  <2>2. ASSUME NEW o \in {<<w, u>> : u \in held} PROVE ptr'[o[1]][o[2]] = ptr[o[1]][o[2]] /\ o # <<w, t>>
    <3>1. PICK u \in held : o = <<w, u>>
      OBVIOUS
    <3> HIDE DEF t, held
    <3> QED BY <1>3, <1>4, <1>8, <3>1
  <2> QED BY <2>1, <2>2
<1>10. Taken(heap) \subseteq 0..(Top - 1)
  BY <1>2 DEF Taken
<1>11. words \in Nat /\ words > 0
  BY <1>1, NetworkParts
<1>12. HeapHolds(nets, ptr', heap', own \cup {<<w, t>>})
  <2>1. /\ nets[w].size[t] \in Nat /\ nets[w].size[t] > 0
        /\ ptr'[w][t] = HeapAddress(heap, nets[w].size[t])
        /\ heap' = heap \cup {Handed(HeapAddress(heap, nets[w].size[t]), nets[w].size[t])}
    BY <1>2, <1>3, <1>11
  <2>2. HeapHolds(nets, ptr, heap, own) /\ <<w, t>> \notin own
    BY <1>1, <1>9
  <2>3. \A o \in own : ptr'[o[1]][o[2]] = ptr[o[1]][o[2]]
    BY <1>9
  <2> HIDE DEF own, t, N, words
  <2> QED BY <2>1, <2>2, <2>3, <1>10, HeapAdds
<1>13. HeapHolds(nets, ptr', heap', perm \cup {<<w, u>> : u \in HeldBefore(N, p, ip + 1)})
  <2>1. perm \cup {<<w, u>> : u \in HeldBefore(N, p, ip + 1)} = own \cup {<<w, t>>}
    <3> HIDE DEF perm, held, t
    <3> QED BY <1>1
  <2> QED BY <1>12, <2>1
<1>14. ASSUME NEW i \in RanBefore(w, ip + 1), Dealias(N, N.nodes[i].out) \in HeldBefore(N, p, ip + 1)
       PROVE  ptr'[w][N.nodes[i].out] = ptr'[w][Dealias(N, N.nodes[i].out)]
  <2> DEFINE out == N.nodes[i].out
             r == Dealias(N, out)
  <2>1. i \in RanBefore(w, ip) /\ i \in Nodes(N)
    BY <1>1 DEF RanBefore
  <2>2. r # t
    BY <1>4, <2>1
  <2>3. r \in held
    BY <1>1, <1>14, <2>2
  <2>4. out \in Buffers(N) /\ r \in Buffers(N)
    BY <1>1, <2>1, NetworkParts, RootFacts
  <2>5. out # t
    BY <1>1, <1>4, <2>2, RootFacts
  <2>6. ptr[w][out] = ptr[w][r]
    BY <2>1, <2>3 DEF HeapInv, HeapViews
  <2> HIDE DEF out, r, t
  <2> QED BY <1>3, <2>2, <2>4, <2>5, <2>6 DEF out, r
<1>15. \A u \in Buffers(N) : IsGlobal(N, u) => ptr'[w][u] = ptr[w][u]
  <2> HIDE DEF t
  <2> QED BY <1>3, <1>7
<1> HIDE DEF t, held, own, words
<1> QED BY <1>1, <1>3, <1>13, <1>14, <1>15, InstructionStep

(* What a program frees is held: the pointer is that of the block. *)
LEMMA HeldIsFreed ==
    ASSUME Static, GenInv, strategy = "heap", HeapProgramInv, HeapInv, NEW w \in Net, Busy(w),
           ~ Finished(w), Current(w).do = "free"
    PROVE  LET r == Dealias(nets[w], Current(w).arg)
           IN  r \in HeldBefore(nets[w], program[w], ip) /\ ptr[w][Current(w).arg] = ptr[w][r]
<1> DEFINE N == nets[w]
           p == program[w]
           t == Current(w).arg
           r == Dealias(N, t)
           held == HeldBefore(N, p, ip)
<1>1. /\ WellFormed(N) /\ Current(w) = p[ip]
      /\ SafeAt(N, p, ip) /\ RunBefore(N, p, ip) = RanBefore(w, ip) /\ t \in Buffers(N)
  BY NextInstruction
<1>2. /\ r \in held
      /\ HasAlias(N, t) => \E i \in RanBefore(w, ip) : N.nodes[i].out = t
  BY <1>1 DEF SafeAt
<1>3. ptr[w][t] = ptr[w][r]
  <2>1. CASE HasAlias(N, t)
    <3>1. PICK i \in RanBefore(w, ip) : N.nodes[i].out = t
      BY <1>2, <2>1
    <3> QED BY <1>2, <3>1 DEF HeapInv, HeapViews
  <2>2. CASE ~ HasAlias(N, t)
    BY <1>1, <2>2, RootFacts
  <2> QED BY <2>1, <2>2
<1> QED BY <1>2, <1>3

(* A free gives back the block of the root of its buffer. *)
LEMMA FreeHeap ==
    ASSUME Stay, Static, GenInv, strategy = "heap", HeapProgramInv, HeapInv, NEW w \in Net, Busy(w),
           ~ Finished(w), ip' = ip + 1, harnessVars' = harnessVars,
           Current(w).do = "free", FreeBuffer(w, Current(w).arg)
    PROVE  HeapInv'
<1> DEFINE N == nets[w]
           p == program[w]
           t == Current(w).arg
           r == Dealias(N, t)
           held == HeldBefore(N, p, ip)
           perm == PermanentOwners(Started)
           own == perm \cup {<<w, u>> : u \in held}
<1>1. /\ phase # "generate" /\ WellFormed(N) /\ ip \in 1..Len(p) /\ Current(w) = p[ip]
      /\ SafeAt(N, p, ip) /\ RunBefore(N, p, ip) = RanBefore(w, ip)
      /\ t \in Locals(N) /\ t \in Buffers(N) /\ RanBefore(w, ip + 1) = RanBefore(w, ip)
      /\ HeldBefore(N, p, ip + 1) = held \ {r}
      /\ HeapHolds(nets, ptr, heap, own)
  BY NextInstruction
<1>2. r \in held /\ ptr[w][t] = ptr[w][r]
  BY HeldIsFreed
<1>3. ptr' = ptr /\ heap' = heap \ {b \in heap : b.at = ptr[w][t].at}
  BY DEF FreeBuffer
<1>4. /\ ptr' = [v \in Net |-> ptr'[v]] /\ ptr'[w] = [u \in Buffers(nets[w]) |-> ptr'[w][u]]
      /\ \A v \in Net : ptr'[v] = ptr[v]
  BY <1>3, PointersStay
<1>5. <<w, r>> \in own /\ <<w, r>>[1] = w /\ <<w, r>>[2] = r
  BY <1>2
<1>6. HeapHolds(nets, ptr, heap \ {b \in heap : b.at = ptr[w][r].at}, own \ {<<w, r>>})
  <2> HIDE DEF own, r
  <2> QED BY <1>1, <1>5, HeapRemoves
<1>7. HeapHolds(nets, ptr', heap', own \ {<<w, r>>})
  <2> HIDE DEF own, r, t
  <2> QED BY <1>2, <1>3, <1>6
<1>8. ip \in Nat /\ ip <= Len(p) + 1
  <2>1. Len(p) \in Nat
    BY <1>1, ProgramFacts DEF HeapInv
  <2> QED BY <1>1, <2>1
<1>9. <<w, r>> \notin perm
  BY <1>1, <1>2, <1>8, HeldFacts DEF HeapInv
<1>10. own \ {<<w, r>>} = perm \cup {<<w, u>> : u \in HeldBefore(N, p, ip + 1)}
  <2> HIDE DEF perm, held, r
  <2> QED BY <1>1, <1>9
<1>11. HeapHolds(nets, ptr', heap', perm \cup {<<w, u>> : u \in HeldBefore(N, p, ip + 1)})
  BY <1>7, <1>10
<1>12. ASSUME NEW i \in RanBefore(w, ip + 1), Dealias(N, N.nodes[i].out) \in HeldBefore(N, p, ip + 1)
       PROVE  ptr'[w][N.nodes[i].out] = ptr'[w][Dealias(N, N.nodes[i].out)]
  <2>1. i \in RanBefore(w, ip) /\ Dealias(N, N.nodes[i].out) \in held
    BY <1>1, <1>12
  <2> QED BY <1>3, <2>1 DEF HeapInv, HeapViews
<1> HIDE DEF t, r, held, own
<1> QED BY <1>1, <1>4, <1>11, <1>12, InstructionStep

(* A node that is no view leaves every pointer where it is. *)
LEMMA ProducerViews ==
    ASSUME Static, GenInv, strategy = "heap", HeapProgramInv, HeapInv, NEW w \in Net, Busy(w), ~ Finished(w),
           Current(w).do = "run", nets[w].nodes[Current(w).arg].op # "reshape"
    PROVE  LET r == Dealias(nets[w], nets[w].nodes[Current(w).arg].out)
           IN  r \in HeldBefore(nets[w], program[w], ip) => r = nets[w].nodes[Current(w).arg].out
<1> DEFINE N == nets[w]
           i == Current(w).arg
           out == N.nodes[i].out
           r == Dealias(N, out)
<1>1. phase # "generate" /\ WellFormed(N) /\ i \in Nodes(N) /\ ip \in 1..Len(program[w])
  BY NextInstruction
<1>2. Balanced(N)
  BY DeployedBalanced
<1>3. out \in Buffers(N)
  BY <1>1, NetworkParts
<1>4. ip \in Nat /\ ip <= Len(program[w]) + 1
  <2>1. Len(program[w]) \in Nat
    BY <1>1, ProgramFacts DEF HeapInv
  <2> QED BY <1>1, <2>1
<1>5. SUFFICES ASSUME r \in HeldBefore(N, program[w], ip) PROVE r = out
  OBVIOUS
<1>6. ~ IsGlobal(N, r)
  BY <1>1, <1>4, <1>5, HeldFacts DEF HeapInv
<1>7. ~ IsGlobal(N, out)
  BY <1>2, <1>3, <1>6 DEF Balanced
<1>8. N.nodes[i].op \notin AliasingOp
  BY <1>1, <1>2, <1>7 DEF Balanced, AliasingOp
<1>9. ~ HasAlias(N, out)
  <2> SUFFICES ASSUME HasAlias(N, out) PROVE FALSE
    OBVIOUS
  <2>1. PICK k \in Nodes(N) : N.nodes[k].op \in AliasingOp /\ N.nodes[k].out = out
    BY DEF HasAlias
  <2>2. k = i
    BY <1>1, <2>1, OneProducer
  <2> QED BY <1>8, <2>1, <2>2
<1> QED BY <1>1, <1>3, <1>9, RootFacts

(* What a view shows has the pointer of the block in which it lies. *)
LEMMA SourcePointer ==
    ASSUME Static, GenInv, strategy = "heap", HeapProgramInv, HeapInv, NEW w \in Net, Busy(w), ~ Finished(w),
           Current(w).do = "run", nets[w].nodes[Current(w).arg].op = "reshape"
    PROVE  LET N == nets[w]
               node == N.nodes[Current(w).arg]
               r == Dealias(N, node.out)
           IN  /\ node.out \in Buffers(N) /\ ~ IsGlobal(N, node.out) /\ HasAlias(N, node.out)
               /\ node.ins[1] \in Buffers(N)
               /\ r \in HeldBefore(N, program[w], ip) => ptr[w][node.ins[1]] = ptr[w][r]
<1> DEFINE N == nets[w]
           i == Current(w).arg
           node == N.nodes[i]
           from == node.ins[1]
           r == Dealias(N, node.out)
<1>1. /\ phase # "generate" /\ WellFormed(N) /\ i \in Nodes(N) /\ ip \in 1..Len(program[w])
      /\ RanBefore(w, ip) = 1..(i - 1)
  BY NextInstruction
<1>2. Balanced(N) /\ ReturnsAll(N)
  BY DeployedBalanced DEF Balanced
<1>3. /\ HasAlias(N, node.out) /\ AliasOf(N, node.out) = from
      /\ from \in Range(N.inputs) \cup Produced(N, i - 1)
  BY <1>1, AliasIs DEF AliasingOp
<1>4. node.out \in Buffers(N) /\ from \in Buffers(N)
  <2>1. from \in Range(node.ins)
    BY <1>1, AliasIs DEF AliasingOp
  <2> QED BY <1>1, <2>1, NetworkParts
<1>5. ~ IsGlobal(N, node.out)
  BY <1>1, <1>2, ProducedIs DEF ReturnsAll, IsGlobal, IsInput
<1>6. Dealias(N, from) = r
  <2> DEFINE out == node.out
  <2> HIDE DEF N, i, from, out
  <2>1. HasAlias(N, out) => Dealias(N, out) = Dealias(N, AliasOf(N, out))
    BY <1>1, <1>4, RootFacts DEF out
  <2> QED BY <1>3, <2>1 DEF out
<1>7. ASSUME r \in HeldBefore(N, program[w], ip) PROVE ptr[w][from] = ptr[w][r]
  <2>1. ip \in Nat /\ ip <= Len(program[w]) + 1
    <3>1. Len(program[w]) \in Nat
      BY <1>1, ProgramFacts DEF HeapInv
    <3> QED BY <1>1, <3>1
  <2>2. ~ IsGlobal(N, r)
    BY <1>1, <1>7, <2>1, HeldFacts DEF HeapInv
  <2>3. CASE from \in Range(N.inputs)
    <3>1. IsGlobal(N, from)
      BY <2>3 DEF IsGlobal, IsInput
    <3> QED BY <1>2, <1>4, <1>6, <2>2, <3>1 DEF Balanced
  <2>4. CASE from \in Produced(N, i - 1)
    <3>1. PICK j \in 1..(i - 1) : N.nodes[j].out = from
      BY <2>4 DEF Produced
    <3>2. j \in RanBefore(w, ip)
      BY <1>1, <3>1
    <3> QED BY <1>6, <1>7, <3>1, <3>2 DEF HeapInv, HeapViews
  <2> QED BY <1>3, <2>3, <2>4
<1> QED BY <1>3, <1>4, <1>5, <1>7

(* A kernel takes no block and gives none back; a view moves its pointer to *)
(* the block of its source.                                                *)
LEMMA RunHeap ==
    ASSUME Stay, Static, GenInv, strategy = "heap", HeapProgramInv, HeapInv, NEW w \in Net, Busy(w),
           ~ Finished(w), ip' = ip + 1, harnessVars' = harnessVars,
           Current(w).do = "run", NEW want, RunNode(w, nets[w].nodes[Current(w).arg], want)
    PROVE  HeapInv'
<1> DEFINE N == nets[w]
           p == program[w]
           i == Current(w).arg
           out == N.nodes[i].out
           held == HeldBefore(N, p, ip)
           perm == PermanentOwners(Started)
           own == perm \cup {<<w, u>> : u \in held}
<1>1. /\ phase # "generate" /\ WellFormed(N) /\ i \in Nodes(N) /\ ip \in 1..Len(p)
      /\ RanBefore(w, ip) = 1..(i - 1) /\ RanBefore(w, ip + 1) = 1..i
      /\ HeldBefore(N, p, ip + 1) = held
      /\ HeapHolds(nets, ptr, heap, own)
  BY NextInstruction
<1>2. heap' = heap /\ out \in Buffers(N) /\ i \in Nat
  BY <1>1, NetworkParts DEF RunNode
<1>3. ip \in Nat /\ ip <= Len(p) + 1
  <2>1. Len(p) \in Nat
    BY <1>1, ProgramFacts DEF HeapInv
  <2> QED BY <1>1, <2>1
<1>4. \A j \in 1..i : j = i \/ j \in RanBefore(w, ip)
  BY <1>1, <1>2
<1>5. ASSUME NEW u \in held PROVE u \in Buffers(N) /\ ~ HasAlias(N, u)
  BY <1>1, <1>3, HeldFacts DEF HeapInv
<1>6. CASE N.nodes[i].op # "reshape"
  <2>1. ptr' = ptr
    BY <1>6 DEF RunNode, RunKernel, RunAccumulate, RunSGD
  <2>2. /\ ptr' = [v \in Net |-> ptr'[v]] /\ ptr'[w] = [u \in Buffers(nets[w]) |-> ptr'[w][u]]
        /\ \A v \in Net : ptr'[v] = ptr[v]
    BY <2>1, PointersStay
  <2>3. HeapHolds(nets, ptr', heap', perm \cup {<<w, u>> : u \in HeldBefore(N, p, ip + 1)})
    BY <1>1, <1>2, <2>1
  <2>4. ASSUME NEW j \in RanBefore(w, ip + 1), Dealias(N, N.nodes[j].out) \in HeldBefore(N, p, ip + 1)
        PROVE  ptr'[w][N.nodes[j].out] = ptr'[w][Dealias(N, N.nodes[j].out)]
    <3>1. Dealias(N, N.nodes[j].out) \in held
      BY <1>1, <2>4
    <3>2. CASE j = i
      <4>1. Dealias(N, out) = out
        BY <1>6, <3>1, <3>2, ProducerViews
      <4> QED BY <3>2, <4>1
    <3>3. CASE j \in RanBefore(w, ip)
      BY <2>1, <3>1, <3>3 DEF HeapInv, HeapViews
    <3> QED BY <1>1, <1>4, <3>2, <3>3
  <2> HIDE DEF i, held, own
  <2> QED BY <1>1, <2>2, <2>3, <2>4, InstructionStep
<1>7. CASE N.nodes[i].op = "reshape"
  <2> DEFINE from == N.nodes[i].ins[1]
             x == ptr[w][from]
  <2>1. /\ ~ IsGlobal(N, out) /\ HasAlias(N, out) /\ from \in Buffers(N)
        /\ Dealias(N, out) \in held => ptr[w][from] = ptr[w][Dealias(N, out)]
    BY <1>7, SourcePointer
  <2>2. PointsNow(w, out, x)
    <3>1. ptr' = [ptr EXCEPT ![w][out] = x]
      BY <1>7 DEF RunNode, RunReshape
    <3>2. out \in Buffers(nets[w])
      BY <1>2
    <3> HIDE DEF out, x
    <3> QED BY <3>1, <3>2, PointerSet
  <2>3. /\ ptr' = [v \in Net |-> ptr'[v]] /\ ptr'[w] = [u \in Buffers(nets[w]) |-> ptr'[w][u]]
        /\ \A v \in Net : v # w => ptr'[v] = ptr[v]
        /\ ptr'[w][out] = x /\ \A u \in Buffers(N) : u # out => ptr'[w][u] = ptr[w][u]
    BY <2>2 DEF PointsNow
  <2>4. \A u \in held : u # out /\ ptr'[w][u] = ptr[w][u]
    BY <1>5, <2>1, <2>3
  <2>5. \A u \in Buffers(N) : IsGlobal(N, u) => ptr'[w][u] = ptr[w][u]
    BY <2>1, <2>3
  <2>6. \A o \in own : ptr'[o[1]][o[2]] = ptr[o[1]][o[2]]
    <3>1. ASSUME NEW o \in perm PROVE ptr'[o[1]][o[2]] = ptr[o[1]][o[2]]
      <4>1. o[1] \in Net /\ o[2] \in Buffers(nets[o[1]]) /\ IsGlobal(nets[o[1]], o[2])
        BY TouchedTensors DEF PermanentOwners, PermanentOf, Started, IsGlobal, IsInput, IsOutput
      <4> HIDE DEF out, perm, x
      <4> QED BY <2>3, <2>5, <4>1
    <3>2. ASSUME NEW o \in {<<w, u>> : u \in held} PROVE ptr'[o[1]][o[2]] = ptr[o[1]][o[2]]
      <4>1. PICK u \in held : o = <<w, u>>
        OBVIOUS
      <4> HIDE DEF out, held, x
      <4> QED BY <2>4, <4>1
    <3> QED BY <3>1, <3>2
  <2>7. HeapHolds(nets, ptr', heap', own)
    <3> HIDE DEF own
    <3> QED BY <1>1, <1>2, <2>6, HeapSame
  <2>8. HeapHolds(nets, ptr', heap', perm \cup {<<w, u>> : u \in HeldBefore(N, p, ip + 1)})
    BY <1>1, <2>7
  <2>9. ASSUME NEW j \in RanBefore(w, ip + 1), Dealias(N, N.nodes[j].out) \in HeldBefore(N, p, ip + 1)
        PROVE  ptr'[w][N.nodes[j].out] = ptr'[w][Dealias(N, N.nodes[j].out)]
    <3> DEFINE r == Dealias(N, N.nodes[j].out)
    <3>1. r \in held /\ ptr'[w][r] = ptr[w][r]
      BY <1>1, <2>4, <2>9
    <3>2. CASE j = i
      <4>1. ptr'[w][out] = ptr[w][from] /\ ptr[w][from] = ptr[w][r]
        BY <2>1, <2>3, <3>1, <3>2
      <4> QED BY <3>1, <3>2, <4>1
    <3>3. CASE j \in RanBefore(w, ip) /\ j # i
      <4>1. j \in Nodes(N) /\ N.nodes[j].out \in Buffers(N)
        BY <1>1, <3>3, NetworkParts DEF RanBefore
      <4>2. N.nodes[j].out # out
        BY <1>1, <3>3, <4>1, OneProducer
      <4>3. ptr[w][N.nodes[j].out] = ptr[w][r]
        BY <3>1, <3>3 DEF HeapInv, HeapViews
      <4> QED BY <2>3, <3>1, <4>1, <4>2, <4>3
    <3> QED BY <1>1, <1>4, <3>2, <3>3
  <2> HIDE DEF i, held, own, out
  <2> QED BY <1>1, <2>3, <2>5, <2>8, <2>9, InstructionStep
<1> QED BY <1>6, <1>7

(* The step of the program of one network. *)
LEMMA ExecuteHeap ==
    ASSUME Stay, Static, GenInv, strategy = "heap", HeapProgramInv, HeapInv, NEW w \in Net, Busy(w),
           NEW want, Execute(w, want), harnessVars' = harnessVars, Taken(heap') \subseteq 0..(Top - 1)
    PROVE  HeapInv'
<1>1. ~ Finished(w) /\ ip' = ip + 1
  BY DEF Execute
<1>2. CASE Current(w).do = "alloc"
  <2>1. AllocBuffer(w, Current(w).arg)
    BY <1>2 DEF Execute
  <2> QED BY <1>1, <1>2, <2>1, AllocHeap
<1>3. CASE Current(w).do = "free"
  <2>1. FreeBuffer(w, Current(w).arg)
    BY <1>3 DEF Execute
  <2> QED BY <1>1, <1>3, <2>1, FreeHeap
<1>4. CASE Current(w).do = "run"
  <2>1. RunNode(w, nets[w].nodes[Current(w).arg], want)
    BY <1>4 DEF Execute
  <2> QED BY <1>1, <1>4, <2>1, RunHeap
<1> QED BY <1>2, <1>3, <1>4 DEF Execute

(* The initialisation of a network takes a block for every buffer that is  *)
(* neither updated in place nor another network's.                         *)
LEMMA InitHeap ==
    ASSUME Stay, Static, GenInv, strategy = "heap", HeapInv, phase # "generate",
           NEW w \in Net, NEW redirect, ~ Initialised(w), AtWork = {}, AtWork' = {},
           InitNetwork(w, nets[w].inputs \o nets[w].outputs, redirect),
           Started' = Started \cup {w},
           phase' \in Phases \ {"generate", "place"}, phase' \in TrainingPhases => Training,
           \A t \in Range(nets[w].inputs) \cup Range(nets[w].outputs) :
               t \in DOMAIN redirect <=> w = "opt" /\ SharedBuffer(t),
           \A t \in DOMAIN redirect : \E o \in PermanentOwners(Started) : redirect[t] = ptr[o[1]][o[2]],
           Taken(heap') \subseteq 0..(Top - 1)
    PROVE  HeapInv'
<1> DEFINE N == nets[w]
           ends == Range(N.inputs) \cup Range(N.outputs)
           first == N.inputs \o nets[w].outputs
           own == PermanentOwners(Started)
           more == {<<w, t>> : t \in PermanentOf(w)}
<1>1. /\ Fix /\ (\A v : AllGenerated(v)' <=> AllGenerated(v)) /\ nets' = nets /\ program' = program
  BY StayFix DEF Stay, generationVars
<1>2. /\ WellFormed(N) /\ first \in Seq(Buffers(N)) /\ Range(first) = ends
      /\ Once(first) /\ UpdatedBehind(w, first)
  BY NetFacts, InitListFacts, InitListOnce
<1>3. ptr = [v \in Net |-> ptr[v]] /\ ptr[w] = [t \in Buffers(N) |-> ptr[w][t]]
  BY DEF HeapInv, HeapPointers
<1>4. PICK a : AssignSteps(w, first, redirect, a)
  <2>1. first \in Seq(Buffers(nets[w])) /\ InitNetwork(w, first, redirect) /\ WellFormed(nets[w])
        /\ ptr[w] = [t \in Buffers(nets[w]) |-> ptr[w][t]]
    BY <1>2, <1>3
  <2> HIDE DEF first, N
  <2> QED BY <2>1, AssignStepsExist
<1>5. \A o \in own : o[1] \in Net /\ o[1] # w
  BY DEF PermanentOwners, Started
<1>6. HeapHolds(nets, ptr, heap, own)
  BY DEF HeapInv, HeapBlocks, Owners, HeldOwners
<1>7. /\ HeapHolds(nets, ptr', heap', own \cup {<<w, t>> : t \in {u \in Range(first) : Takes(w, redirect, u)}})
      /\ \A t \in Range(first) :
             /\ UpdatedInPlace(N, t) => ptr'[w][t] = ptr'[w][AliasOf(N, t)]
             /\ ~ UpdatedInPlace(N, t) /\ t \in DOMAIN redirect => ptr'[w][t] = redirect[t]
      /\ ptr' = [v \in Net |-> ptr'[v]] /\ ptr'[w] = [t \in Buffers(N) |-> ptr'[w][t]]
      /\ \A v \in Net : v # w => ptr'[v] = ptr[v]
  <2>1. /\ WellFormed(nets[w]) /\ first \in Seq(Buffers(nets[w])) /\ Once(first) /\ UpdatedBehind(w, first)
        /\ ptr = [v \in Net |-> ptr[v]]
    BY <1>2, <1>3
  <2>2. AssignSteps(w, first, redirect, a)
    BY <1>4
  <2> HIDE DEF first, own, N
  <2>3. AssignedNow(w, first, redirect, own)
    BY <2>1, <2>2, <1>5, <1>6, AssignedHeap
  <2> QED BY <2>3 DEF N, AssignedNow
<1>8. {u \in Range(first) : Takes(w, redirect, u)} = PermanentOf(w)
  <2> HIDE DEF first
  <2> QED BY <1>2 DEF Takes, PermanentOf
<1>9. PermanentOwners(Started)' = own \cup more
  <2>1. \A v : PermanentOf(v)' = PermanentOf(v)
    BY <1>1, HeapFixed
  <2>2. PermanentOwners(Started)' = UNION {{<<v, t>> : t \in PermanentOf(v)} : v \in Started \cup {w}}
    BY <2>1 DEF PermanentOwners
  <2> QED BY <2>2 DEF PermanentOwners
<1>10. HeapHolds(nets, ptr', heap', own \cup more)
  BY <1>7, <1>8
<1>11. \A o \in own : ptr'[o[1]][o[2]] = ptr[o[1]][o[2]]
  <2> HIDE DEF own
  <2> QED BY <1>5, <1>7
<1>12. ASSUME NEW t \in ends, ~ UpdatedInPlace(N, t)
       PROVE  \E o \in own \cup more : ptr'[w][t] = ptr'[o[1]][o[2]]
  <2>1. CASE w = "opt" /\ SharedBuffer(t)
    <3>1. t \in DOMAIN redirect /\ ptr'[w][t] = redirect[t]
      BY <1>2, <1>7, <1>12, <2>1
    <3>2. PICK o \in own : redirect[t] = ptr[o[1]][o[2]]
      BY <3>1
    <3> HIDE DEF own, more
    <3> QED BY <1>11, <3>1, <3>2
  <2>2. CASE ~ (w = "opt" /\ SharedBuffer(t))
    <3>1. <<w, t>> \in more
      BY <1>12, <2>2 DEF PermanentOf
    <3> HIDE DEF own, more
    <3> QED BY <3>1
  <2> QED BY <2>1, <2>2
<1>13. ASSUME NEW t \in ends
       PROVE  \E o \in own \cup more : ptr'[w][t] = ptr'[o[1]][o[2]]
  <2>1. CASE UpdatedInPlace(N, t)
    <3>1. AliasOf(N, t) \in ends /\ ~ UpdatedInPlace(N, AliasOf(N, t))
      BY <2>1, UpdatedIs
    <3>2. ptr'[w][t] = ptr'[w][AliasOf(N, t)]
      BY <1>2, <1>7, <2>1
    <3> HIDE DEF own, more, ends
    <3> QED BY <1>12, <3>1, <3>2
  <2>2. CASE ~ UpdatedInPlace(N, t)
    BY <1>12, <2>2
  <2> QED BY <2>1, <2>2
<1>14. ASSUME NEW v \in Net, Initialised(v), NEW t \in Range(nets[v].inputs) \cup Range(nets[v].outputs)
       PROVE  \E o \in own \cup more : ptr'[v][t] = ptr'[o[1]][o[2]]
  <2>1. v # w
    BY <1>14
  <2>2. PICK o \in own : ptr[v][t] = ptr[o[1]][o[2]]
    BY <1>14 DEF HeapInv, HeapPointers
  <2> HIDE DEF own, more
  <2> QED BY <1>7, <1>11, <2>1, <2>2
<1>15. \A v \in Net : Initialised(v)' <=> v = w \/ Initialised(v)
  BY DEF Started
<1>16. HeapPointers'
  <2>1. \A v \in Net : ptr'[v] = [t \in Buffers(nets[v]) |-> ptr'[v][t]]
    <3> SUFFICES ASSUME NEW v \in Net, v # w PROVE ptr'[v] = [t \in Buffers(nets[v]) |-> ptr'[v][t]]
      BY <1>7
    <3>1. ptr'[v] = ptr[v] /\ ptr[v] = [t \in Buffers(nets[v]) |-> ptr[v][t]]
      BY <1>7 DEF HeapInv, HeapPointers
    <3> QED BY <3>1
  <2>2. \A v \in Net : ~ Initialised(v)' => \A t \in Buffers(nets[v]) : ptr'[v][t] = Null
    BY <1>7, <1>15 DEF HeapInv, HeapPointers
  <2>3. \A v \in Net : Initialised(v)' =>
           \A t \in Range(nets[v].inputs) \cup Range(nets[v].outputs) :
               \E o \in own \cup more : ptr'[v][t] = ptr'[o[1]][o[2]]
    <3> HIDE DEF own, more
    <3> QED BY <1>13, <1>14, <1>15
  <2>4. \A v \in Net : ptr'[v] = [t \in Buffers(nets'[v]) |-> ptr'[v][t]]
    BY <1>1, <2>1
  <2>5. \A v \in Net : ~ Initialised(v)' => \A t \in Buffers(nets'[v]) : ptr'[v][t] = Null
    BY <1>1, <2>2
  <2>6. \A v \in Net : Initialised(v)' =>
            \A t \in Range(nets'[v].inputs) \cup Range(nets'[v].outputs) :
                \E o \in PermanentOwners(Started)' : ptr'[v][t] = ptr'[o[1]][o[2]]
    <3> SUFFICES ASSUME NEW v \in Net, Initialised(v)',
                        NEW t \in Range(nets'[v].inputs) \cup Range(nets'[v].outputs)
                 PROVE  \E o \in PermanentOwners(Started)' : ptr'[v][t] = ptr'[o[1]][o[2]]
      OBVIOUS
    <3>1. t \in Range(nets[v].inputs) \cup Range(nets[v].outputs)
      BY <1>1
    <3>2. PICK o \in own \cup more : ptr'[v][t] = ptr'[o[1]][o[2]]
      <4> HIDE DEF own, more
      <4> QED BY <2>3, <3>1
    <3>3. o \in PermanentOwners(Started)'
      BY <1>9
    <3> QED BY <3>2, <3>3
  <2> QED BY <1>7, <2>4, <2>5, <2>6 DEF HeapPointers
<1>17. HeapPhase'
  <2>1. Training' <=> Training
    BY <1>1, Fixed
  <2>2. ip' = 1
    BY <1>4 DEF AssignSteps
  <2> QED BY <1>1, <2>1, <2>2 DEF HeapInv, HeapPhase
<1>18. HeapViews'
  BY DEF HeapViews, AtWork
<1>19. HeapBlocks'
  <2>1. Owners' = own \cup more
    BY <1>9 DEF Owners, HeldOwners
  <2> QED BY <1>1, <1>10, <2>1 DEF HeapBlocks
<1> QED BY <1>16, <1>17, <1>18, <1>19 DEF HeapInv

LEMMA InitNetHeap ==
    ASSUME Stay, Static, GenInv, strategy = "heap", HeapInv, InitNet, Taken(heap') \subseteq 0..(Top - 1)
    PROVE  HeapInv'
<1> DEFINE w == "net"
<1>1. phase = "initNet" /\ w \in Net /\ phase' = IF Training THEN "zeroGrads" ELSE "loadData"
  BY DEF InitNet, Net
<1>2. AtWork = {} /\ AtWork' = {}
  BY <1>1 DEF AtWork, Busy
<1>3. Training' <=> Training
  BY StayFix, Fixed
<1>4. Started' = Started \cup {w} /\ ~ Initialised(w)
  BY <1>1, <1>3 DEF Started, Initialised, Early, Net
<1>5. /\ phase # "generate"
      /\ phase' \in Phases \ {"generate", "place"} /\ (phase' \in TrainingPhases => Training)
  BY <1>1 DEF Phases, TrainingPhases, Early
<1>6. InitNetwork(w, nets[w].inputs \o nets[w].outputs, <<>>)
  BY DEF InitNet
<1>7. DOMAIN <<>> = {}
  OBVIOUS
<1>8. /\ \A t \in Range(nets[w].inputs) \cup Range(nets[w].outputs) :
             t \in DOMAIN <<>> <=> w = "opt" /\ SharedBuffer(t)
      /\ \A t \in DOMAIN <<>> : \E o \in PermanentOwners(Started) : <<>>[t] = ptr[o[1]][o[2]]
  BY <1>7
<1> HIDE DEF w
<1> QED BY <1>1, <1>2, <1>4, <1>5, <1>6, <1>8, InitHeap

LEMMA InitOptHeap ==
    ASSUME Stay, Static, GenInv, strategy = "heap", HeapInv, InitOpt, Taken(heap') \subseteq 0..(Top - 1)
    PROVE  HeapInv'
<1> DEFINE w == "opt"
           redirect == Redirected
<1>1. phase = "initOpt" /\ w \in Net /\ phase' = "initWeights"
  BY DEF InitOpt, Net
<1>2. AtWork = {} /\ AtWork' = {}
  BY <1>1 DEF AtWork, Busy
<1>3. (Training' <=> Training) /\ Training
  BY <1>1, StayFix, Fixed DEF HeapInv, HeapPhase, TrainingPhases
<1>4. Started' = Started \cup {w} /\ ~ Initialised(w) /\ Initialised("net") /\ "net" \in Net
  BY <1>1, <1>3 DEF Started, Initialised, Early, Net
<1>5. /\ phase # "generate"
      /\ phase' \in Phases \ {"generate", "place"} /\ (phase' \in TrainingPhases => Training)
  BY <1>1, <1>3 DEF Phases, TrainingPhases, Early
<1>6. InitNetwork(w, nets[w].inputs \o nets[w].outputs, redirect)
  BY DEF InitOpt
<1>7. /\ DOMAIN redirect = {t \in Range(nets["opt"].inputs) \cup Range(nets["opt"].outputs) : SharedBuffer(t)}
      /\ \A t \in DOMAIN redirect : redirect[t] = ptr["net"][SourceOf(nets["net"], nets["opt"].name[t])]
  BY DEF Redirected, SharedBuffer, SourceOf
<1>8. \A t \in Range(nets[w].inputs) \cup Range(nets[w].outputs) :
          t \in DOMAIN redirect <=> w = "opt" /\ SharedBuffer(t)
  <2> HIDE DEF redirect
  <2> QED BY <1>7
<1>9. ASSUME NEW t \in DOMAIN redirect
      PROVE  \E o \in PermanentOwners(Started) : redirect[t] = ptr[o[1]][o[2]]
  <2> HIDE DEF redirect
  <2>1. t \in Touched(nets["opt"])
    BY <1>1, <1>7, TouchedTensors
  <2>2. PICK wi \in Nodes(nets["opt"]) : t \in {OptWeight(wi), OptGrad(wi), OptUpdated(wi)}
    BY <1>3, <2>1, TouchedTensors
  <2>3. SourceOf(nets["net"], nets["opt"].name[t]) \in {TrainWeight(wi), TrainGrad(wi)}
    BY <1>3, <2>2, SharedIs
  <2>4. SourceOf(nets["net"], nets["opt"].name[t]) \in Range(nets["net"].inputs)
    BY <1>3, <2>3, OptimizerFacts, TrainingInputs
  <2> QED BY <1>4, <1>7, <2>4 DEF HeapInv, HeapPointers
<1> HIDE DEF w, redirect
<1> QED BY <1>1, <1>2, <1>4, <1>5, <1>6, <1>8, <1>9, InitHeap

(* A run gives back all it took. *)
LEMMA FinishedHeld ==
    ASSUME Static, GenInv, strategy = "heap", HeapProgramInv, HeapInv, NEW w \in Net, Busy(w), Finished(w)
    PROVE  phase # "generate" /\ HeldBefore(nets[w], program[w], ip) = {} /\ HeldOwners(AtWork, ip) = {}
<1>1. phase # "generate"
  BY DEF Busy
<1>2. /\ WellFormed(nets[w]) /\ Len(program[w]) \in Nat
      /\ generated[w] = Len(nets[w].nodes)
  BY <1>1, ProgramFacts DEF HeapInv
<1>3. ip = Len(program[w]) + 1
  BY <1>2 DEF HeapInv, HeapPhase, HeapViews, Finished
<1>4. HeldBefore(nets[w], program[w], Len(program[w]) + 1) = Roots(nets[w], generated[w])
  BY DEF HeapProgramInv
<1>5. Roots(nets[w], generated[w]) = {}
  BY <1>2, DeployedBalanced, NothingLeft
<1>6. HeldBefore(nets[w], program[w], ip) = {}
  BY <1>3, <1>4, <1>5
<1>7. HeldOwners(AtWork, ip) = {}
  BY <1>6, OneAtWork
<1> QED BY <1>1, <1>6, <1>7

(* The harness between the runs writes memory and moves no pointer. *)
LEMMA QuietSteps ==
    ASSUME Stay, Static, GenInv, strategy = "heap", HeapProgramInv, HeapInv,
           ZeroGrads \/ InitWeights \/ LoadData \/ StoreLoss \/ CopyIn \/ CopyOut
    PROVE  HeapInv'
<1>1. Training' <=> Training
  BY StayFix, Fixed
<1>2. ip \in Nat \ {0} /\ 1 \in Nat \ {0} /\ (phase \in TrainingPhases => Training)
  BY DEF HeapInv, HeapPhase
<1>3. phase # "generate" /\ ptr' = ptr /\ heap' = heap /\ ip' \in Nat \ {0}
  BY <1>2 DEF ZeroGrads, InitWeights, LoadData, StoreLoss, CopyIn, CopyOut, runtimeVars
<1>4. /\ phase' \in Phases \ {"generate", "place"} /\ (phase' \in TrainingPhases => Training)
      /\ \A w \in Net : Initialised(w)' <=> Initialised(w)
      /\ \A w \in Net : Busy(w)' => ip' = 1
  <2>1. CASE ZeroGrads
    BY <1>1, <1>2, <2>1 DEF ZeroGrads, Initialised, Busy, Phases, Early, TrainingPhases, Net
  <2>2. CASE InitWeights
    BY <1>1, <1>2, <2>2 DEF InitWeights, Initialised, Busy, Phases, Early, TrainingPhases, Net
  <2>3. CASE LoadData
    BY <1>1, <1>2, <2>3 DEF LoadData, Initialised, Busy, Phases, Early, TrainingPhases, Net
  <2>4. CASE StoreLoss
    BY <1>1, <1>2, <2>4 DEF StoreLoss, Initialised, Busy, Phases, Early, TrainingPhases, Net
  <2>5. CASE CopyIn
    BY <1>1, <1>2, <2>5 DEF CopyIn, Initialised, Busy, Phases, Early, TrainingPhases, Net
  <2>6. CASE CopyOut
    BY <1>1, <1>2, <2>6 DEF CopyOut, Initialised, Busy, Phases, Early, TrainingPhases, Net
  <2> QED BY <2>1, <2>2, <2>3, <2>4, <2>5, <2>6
<1>5. \A w \in Net : Busy(w) => Finished(w)
  BY DEF ZeroGrads, InitWeights, LoadData, StoreLoss, CopyIn, CopyOut, Busy, Net
<1>6. HeldOwners(AtWork, ip) = {}
  <2>1. CASE AtWork = {}
    BY <2>1 DEF HeldOwners
  <2>2. CASE AtWork # {}
    <3>1. PICK w \in Net : Busy(w)
      BY <2>2 DEF AtWork
    <3> QED BY <1>5, <3>1, FinishedHeld
  <2> QED BY <2>1, <2>2
<1> QED BY <1>3, <1>4, <1>6, QuietStep

(* While nothing is initialised, the heap is empty. *)
LEMMA EarlyHeap ==
    ASSUME Started = {}, AtWork = {}, Started' = {}, AtWork' = {}, HeapInv, HeapPhase',
           ptr' = ptr, heap' = heap, nets' = nets
    PROVE  HeapInv'
<1>1. Owners = {} /\ Owners' = {}
  BY DEF Owners, PermanentOwners, HeldOwners
<1>2. HeapPointers'
  BY DEF HeapInv, HeapPointers, Started
<1>3. HeapViews'
  BY DEF HeapViews, AtWork
<1>4. HeapBlocks'
  BY <1>1 DEF HeapInv, HeapBlocks
<1> QED BY <1>2, <1>3, <1>4 DEF HeapInv

LEMMA HeapInit ==
    ASSUME Init
    PROVE  HeapInv
<1>1. /\ phase = "generate" /\ ip = 1 /\ heap = {}
      /\ ptr = [w \in Net |-> [t \in DOMAIN nets[w].size |-> Null]]
  BY DEF Init, RuntimeInit
<1>2. HeapPhase
  BY <1>1 DEF HeapPhase, Phases, Early, TrainingPhases
<1>3. Started = {} /\ AtWork = {}
  BY <1>1 DEF Started, AtWork, Initialised, Busy, Early
<1>4. HeapPointers
  BY <1>1, <1>3 DEF HeapPointers, Buffers, Started
<1>5. HeapViews
  BY <1>3 DEF HeapViews, AtWork
<1>6. Owners = {}
  BY <1>3 DEF Owners, PermanentOwners, HeldOwners
<1>7. HeapBlocks
  BY <1>1, <1>6 DEF HeapBlocks, HeapHolds
<1> QED BY <1>2, <1>4, <1>5, <1>7 DEF HeapInv

LEMMA GenerateHeap ==
    ASSUME strategy = "heap", HeapInv, Generate
    PROVE  HeapInv'
<1>1. /\ phase = "generate" /\ phase' \in {"generate", "initNet"}
      /\ runtimeVars' = runtimeVars /\ deployment' = deployment /\ nets' = nets
  BY DEF Generate, GenerateNode
<1>2. ptr' = ptr /\ heap' = heap /\ ip' = ip /\ (Training' <=> Training)
  BY <1>1 DEF runtimeVars, Training
<1>3. phase' # "generate" => \A w \in Net : AllGenerated(w)'
  <2>1. phase' # "generate" => (\A w \in Net : AllGenerated(w)) /\ generationVars' = generationVars
    BY <1>1 DEF Generate
  <2> QED BY <1>1, <2>1 DEF AllGenerated, generationVars
<1>4. HeapPhase'
  BY <1>1, <1>2, <1>3 DEF HeapInv, HeapPhase, Phases, Early, TrainingPhases
<1>5. Started = {} /\ AtWork = {} /\ Started' = {} /\ AtWork' = {}
  BY <1>1 DEF Started, AtWork, Initialised, Busy, Early
<1> QED BY <1>1, <1>2, <1>4, <1>5, EarlyHeap

LEMMA StillHeap ==
    ASSUME HeapInv, UNCHANGED vars
    PROVE  HeapInv'
<1>1. /\ Fix /\ UNCHANGED <<nets, program, ptr, heap, ip, phase, deployment, generated>>
  BY DEF Fix, vars, placementVars, generationVars, runtimeVars, harnessVars
<1>2. (Training' <=> Training) /\ \A w : AllGenerated(w)' <=> AllGenerated(w)
  BY <1>1, Fixed DEF AllGenerated
<1>3. HeapPhase'
  BY <1>1, <1>2 DEF HeapInv, HeapPhase
<1>4. (\A w : Initialised(w)' <=> Initialised(w)) /\ (\A w : Busy(w)' <=> Busy(w))
  BY <1>1, <1>2 DEF Initialised, Busy
<1>5. Started' = Started /\ AtWork' = AtWork
  BY <1>4 DEF Started, AtWork
<1>6. PermanentOwners(Started)' = PermanentOwners(Started)
  <2>1. \A v : PermanentOf(v)' = PermanentOf(v)
    BY <1>1, HeapFixed
  <2> QED BY <1>5, <2>1 DEF PermanentOwners
<1>7. HeldOwners(AtWork, ip)' = HeldOwners(AtWork, ip)
  BY <1>1, <1>5 DEF HeldOwners
<1>8. Owners' = Owners
  BY <1>6, <1>7 DEF Owners
<1>9. HeapPointers'
  BY <1>1, <1>4, <1>6 DEF HeapInv, HeapPointers
<1>10. HeapViews'
  BY <1>1, <1>4 DEF HeapInv, HeapViews, RanBefore
<1>11. HeapBlocks'
  BY <1>1, <1>8 DEF HeapInv, HeapBlocks
<1> QED BY <1>3, <1>9, <1>10, <1>11 DEF HeapInv

(* The heap is as large as it needs to be. *)
HeapFits == strategy = "heap" => Taken(heap) \subseteq 0..(Top - 1)

(* Every step of the deployment keeps the blocks, pointers and views right. *)
LEMMA HeapStep ==
    ASSUME Static, GenInv, strategy = "heap", HeapProgramInv, HeapInv, [Next]_vars, HeapFits'
    PROVE  HeapInv'
<1>1. strategy' = strategy /\ Taken(heap') \subseteq 0..(Top - 1)
  BY StepFrame DEF HeapFits, Taken
<1>2. CASE Generate
  BY <1>2, GenerateHeap
<1>3. CASE Place
  BY <1>3 DEF Place, HeapInv, HeapPhase
<1>4. CASE HarnessStep /\ UNCHANGED <<nets, generationVars, placementVars>>
  <2>1. Stay
    BY <1>4, HarnessFrame DEF Stay
  <2>2. CASE InitNet
    BY <1>1, <2>1, <2>2, InitNetHeap
  <2>3. CASE InitOpt
    BY <1>1, <2>1, <2>3, InitOptHeap
  <2>4. CASE RunNet
    <3>1. Busy("net") /\ "net" \in Net /\ Execute("net", Want("net")) /\ harnessVars' = harnessVars
      BY <2>4 DEF RunNet, Busy, Net
    <3> QED BY <1>1, <2>1, <3>1, ExecuteHeap
  <2>5. CASE RunOpt
    <3>1. Busy("opt") /\ "opt" \in Net /\ Execute("opt", Want("opt")) /\ harnessVars' = harnessVars
      BY <2>5 DEF RunOpt, Busy, Net
    <3> QED BY <1>1, <2>1, <3>1, ExecuteHeap
  <2>6. CASE ZeroGrads \/ InitWeights \/ LoadData \/ StoreLoss \/ CopyIn \/ CopyOut
    BY <2>1, <2>6, QuietSteps
  <2> QED BY <1>4, <2>2, <2>3, <2>4, <2>5, <2>6 DEF HarnessStep
<1>5. CASE UNCHANGED vars
  BY <1>5, StillHeap
<1> QED BY <1>2, <1>3, <1>4, <1>5 DEF Next, Done

(* The deployments in arenas do not use the heap. *)
ArenaHeap ==
    strategy = "arena" =>
        /\ heap = {} /\ ptr = [w \in Net |-> ptr[w]]
        /\ \A w \in Net : ptr[w] = [t \in Buffers(nets[w]) |-> ptr[w][t]]

LEMMA PointerShape ==
    ASSUME ptr = [w \in Net |-> ptr[w]], \A v \in Net : ptr[v] = [t \in Buffers(nets[v]) |-> ptr[v][t]],
           NEW w \in Net, NEW u, NEW x, ptr' = [ptr EXCEPT ![w][u] = x], nets' = nets
    PROVE  /\ ptr' = [v \in Net |-> ptr'[v]]
           /\ \A v \in Net : ptr'[v] = [t \in Buffers(nets'[v]) |-> ptr'[v][t]]
<1>1. ptr' = [v \in Net |-> IF v = w THEN [ptr[w] EXCEPT ![u] = x] ELSE ptr[v]]
  OBVIOUS
<1>2. ptr'[w] = [ptr[w] EXCEPT ![u] = x] /\ \A v \in Net : v # w => ptr'[v] = ptr[v]
  BY <1>1
<1>3. ptr'[w] = [t \in Buffers(nets[w]) |-> IF t = u THEN x ELSE ptr[w][t]]
  BY <1>2
<1>4. \A v \in Net : ptr'[v] = [t \in Buffers(nets[v]) |-> ptr'[v][t]]
  <2> SUFFICES ASSUME NEW v \in Net PROVE ptr'[v] = [t \in Buffers(nets[v]) |-> ptr'[v][t]]
    OBVIOUS
  <2>1. CASE v = w
    BY <1>3, <2>1
  <2>2. CASE v # w
    BY <1>2, <2>2
  <2> QED BY <2>1, <2>2
<1>5. ptr' = [v \in Net |-> ptr'[v]]
  BY <1>1
<1> HIDE DEF Net
<1> QED BY <1>4, <1>5

LEMMA ArenaPointers ==
    ASSUME Static, strategy = "arena", ArenaHeap, NEW w \in Net, NEW redirect,
           InitNetwork(w, nets[w].inputs \o nets[w].outputs, redirect)
    PROVE  heap' = heap /\ \E f : ptr' = [ptr EXCEPT ![w] = [t \in Buffers(nets[w]) |-> f[t]]]
<1> DEFINE B == Buffers(nets[w])
           first == nets[w].inputs \o nets[w].outputs
           A == {ptr[w][t] : t \in B} \cup {Target(w, redirect, t) : t \in B}
<1>1. first \in Seq(B) /\ strategy = "arena"
  BY InitListFacts
<1>2. ptr[w] \in [B -> A] /\ \A t \in B : Target(w, redirect, t) \in A
  <2>1. ptr[w] = [t \in B |-> ptr[w][t]]
    BY DEF ArenaHeap
  <2> QED BY <2>1
<1>3. TargetsGiven(w, first, redirect, B)
  <2> InitNetwork(w, first, redirect)
    OBVIOUS
  <2> B = Buffers(nets[w])
    OBVIOUS
  <2> HIDE DEF B, A, first
  <2> QED BY <1>1, <1>2, InitNetworkFacts
<1> DEFINE f == [t \in B |-> IF t \in Range(first) THEN Target(w, redirect, t) ELSE ptr[w][t]]
<1>4. f = [t \in B |-> f[t]]
  OBVIOUS
<1> HIDE DEF f
<1>5. ptr' = [ptr EXCEPT ![w] = [t \in B |-> f[t]]]
  BY <1>3, <1>4 DEF f, TargetsGiven
<1> QED BY <1>3, <1>5 DEF TargetsGiven

LEMMA InitArena ==
    ASSUME Static, strategy = "arena", ArenaHeap, NEW w \in Net, NEW redirect, nets' = nets,
           InitNetwork(w, nets[w].inputs \o nets[w].outputs, redirect)
    PROVE  ArenaHeap'
<1> DEFINE B == Buffers(nets[w])
<1>1. PICK g : ptr' = [ptr EXCEPT ![w] = [t \in B |-> g[t]]]
  BY ArenaPointers
<1> DEFINE f == [t \in B |-> g[t]]
<1>4. ptr' = [ptr EXCEPT ![w] = f] /\ heap' = heap
  BY <1>1, ArenaPointers
<1>5. ptr = [v \in Net |-> ptr[v]] /\ heap = {}
  BY DEF ArenaHeap
<1>6. ptr' = [v \in Net |-> IF v = w THEN f ELSE ptr[v]]
  <2> HIDE DEF f
  <2> QED BY <1>4, <1>5
<1>7. ptr'[w] = f /\ \A v \in Net : v # w => ptr'[v] = ptr[v]
  <2> HIDE DEF f
  <2> QED BY <1>6
<1>8. ptr'[w] = [t \in B |-> ptr'[w][t]]
  BY <1>7
<1>9. \A v \in Net : ptr'[v] = [t \in Buffers(nets'[v]) |-> ptr'[v][t]]
  <2> SUFFICES ASSUME NEW v \in Net PROVE ptr'[v] = [t \in Buffers(nets[v]) |-> ptr'[v][t]]
    OBVIOUS
  <2>1. CASE v = w
    BY <1>8, <2>1
  <2>2. CASE v # w
    <3>1. ptr[v] = [t \in Buffers(nets[v]) |-> ptr[v][t]]
      BY DEF ArenaHeap
    <3> HIDE DEF f
    <3> QED BY <1>7, <2>2, <3>1
  <2> QED BY <2>1, <2>2
<1>10. ptr' = [v \in Net |-> ptr'[v]]
  <2> HIDE DEF f
  <2> QED BY <1>6
<1> QED BY <1>4, <1>5, <1>9, <1>10 DEF ArenaHeap

LEMMA ExecuteArena ==
    ASSUME strategy = "arena", ArenaHeap, NEW w \in Net, NEW want, Execute(w, want), nets' = nets
    PROVE  ArenaHeap'
<1>1. /\ heap = {} /\ ptr = [v \in Net |-> ptr[v]]
      /\ \A v \in Net : ptr[v] = [t \in Buffers(nets[v]) |-> ptr[v][t]]
  BY DEF ArenaHeap
<1>2. heap' = heap
  BY <1>1 DEF Execute, AllocBuffer, FreeBuffer, RunNode
<1>3. ptr' = ptr \/ \E u, x : ptr' = [ptr EXCEPT ![w][u] = x]
  <2>1. CASE AllocBuffer(w, Current(w).arg)
    BY <2>1 DEF AllocBuffer
  <2>2. CASE FreeBuffer(w, Current(w).arg)
    BY <2>2 DEF FreeBuffer
  <2>3. CASE RunNode(w, nets[w].nodes[Current(w).arg], want)
    BY <2>3 DEF RunNode, RunKernel, RunAccumulate, RunSGD, RunReshape
  <2> QED BY <2>1, <2>2, <2>3 DEF Execute
<1>4. CASE ptr' = ptr
  BY <1>1, <1>2, <1>4 DEF ArenaHeap
<1>5. ASSUME NEW u, NEW x, ptr' = [ptr EXCEPT ![w][u] = x] PROVE ArenaHeap'
  <2>1. /\ ptr' = [v \in Net |-> ptr'[v]]
        /\ \A v \in Net : ptr'[v] = [t \in Buffers(nets'[v]) |-> ptr'[v][t]]
    BY <1>1, <1>5, PointerShape
  <2> QED BY <1>1, <1>2, <2>1 DEF ArenaHeap
<1> QED BY <1>3, <1>4, <1>5

LEMMA ArenaHeapStep ==
    ASSUME Static, ArenaHeap, [Next]_vars
    PROVE  ArenaHeap'
<1>1. nets' = nets /\ strategy' = strategy
  BY StepFrame
<1> SUFFICES ASSUME strategy = "arena" PROVE ArenaHeap'
  BY <1>1 DEF ArenaHeap
<1>2. CASE ptr' = ptr /\ heap' = heap
  BY <1>1, <1>2 DEF ArenaHeap
<1>3. CASE Generate \/ Place \/ UNCHANGED vars
  BY <1>2, <1>3 DEF Generate, Place, vars, runtimeVars
<1>4. CASE HarnessStep
  <2>1. CASE InitNet
    BY <1>1, <2>1, InitArena DEF InitNet, Net
  <2>2. CASE InitOpt
    BY <1>1, <2>2, InitArena DEF InitOpt, Net
  <2>3. CASE RunNet
    BY <1>1, <2>3, ExecuteArena DEF RunNet, Net
  <2>4. CASE RunOpt
    BY <1>1, <2>4, ExecuteArena DEF RunOpt, Net
  <2>5. CASE ZeroGrads \/ InitWeights \/ LoadData \/ StoreLoss \/ CopyIn \/ CopyOut
    BY <1>2, <2>5 DEF ZeroGrads, InitWeights, LoadData, StoreLoss, CopyIn, CopyOut, runtimeVars
  <2> QED BY <1>4, <2>1, <2>2, <2>3, <2>4, <2>5 DEF HarnessStep
<1> QED BY <1>3, <1>4 DEF Next, Done

(* The blocks of the heap while a program runs. *)
LEMMA RunBlocks ==
    ASSUME Static, GenInv, strategy = "heap", HeapProgramInv, HeapInv, NEW w \in Net, Busy(w)
    PROVE  LET held == HeldBefore(nets[w], program[w], ip)
           IN  /\ Permanent = {Chunk(nets, ptr, o) : o \in PermanentOwners(Started)}
               /\ Permanent \subseteq heap
               /\ heap \ Permanent = {Chunk(nets, ptr, <<w, t>>) : t \in held}
               /\ \A t \in held : ptr[w][t].at \in Nat
<1> DEFINE held == HeldBefore(nets[w], program[w], ip)
           perm == PermanentOwners(Started)
           mine == {<<w, t>> : t \in held}
           own == perm \cup mine
           C(o) == Chunk(nets, ptr, o)
<1>1. HeapHolds(nets, ptr, heap, own)
  <2>1. Owners = own
    BY OneAtWork DEF Owners
  <2> QED BY <2>1 DEF HeapInv, HeapBlocks
<1>2. phase # "generate" /\ ip \in Nat /\ ip <= Len(program[w]) + 1
  BY DEF Busy, HeapInv, HeapViews, HeapPhase
<1>3. perm \cap mine = {}
  <2> SUFFICES ASSUME NEW t \in held, <<w, t>> \in perm PROVE FALSE
    OBVIOUS
  <2> QED BY <1>2, HeldFacts DEF HeapInv
<1>4. heap = {C(o) : o \in own}
  BY <1>1 DEF HeapHolds
<1>5. \A o \in own : C(o).at = ptr[o[1]][o[2]].at
  BY DEF Chunk
<1>6. \A o, q \in own : ptr[o[1]][o[2]].at = ptr[q[1]][q[2]].at => o = q
  <2> HIDE DEF own
  <2> QED BY <1>1, HeapApart
<1>7. ASSUME NEW b \in Permanent PROVE \E o \in perm : b = C(o)
  <2>0. PICK v \in Net : \E t \in Range(nets[v].inputs) \cup Range(nets[v].outputs) :
            ptr[v][t] = [area |-> "heap", at |-> b.at]
    BY <1>7 DEF Permanent
  <2>1. PICK t \in Range(nets[v].inputs) \cup Range(nets[v].outputs) :
            ptr[v][t] = [area |-> "heap", at |-> b.at]
    BY <2>0
  <2>2. Initialised(v)
    <3> SUFFICES ASSUME ~ Initialised(v) PROVE FALSE
      OBVIOUS
    <3>1. t \in Buffers(nets[v])
      BY TouchedTensors
    <3>2. ptr[v][t] = Null
      BY <3>1 DEF HeapInv, HeapPointers
    <3> QED BY <2>1, <3>2 DEF Null
  <2>3. PICK o \in perm : ptr[v][t] = ptr[o[1]][o[2]]
    BY <2>2 DEF HeapInv, HeapPointers
  <2>4. PICK q \in own : b = C(q)
    BY <1>4, <1>7 DEF Permanent
  <2>5. ptr[q[1]][q[2]].at = ptr[o[1]][o[2]].at
    BY <1>5, <2>1, <2>3, <2>4
  <2>6. o = q
    <3> HIDE DEF perm, mine
    <3> QED BY <1>6, <2>5
  <2> QED BY <2>4, <2>6
<1>8. ASSUME NEW o \in perm PROVE C(o) \in Permanent
  <2>1. /\ o[1] \in Net /\ o[2] \in Range(nets[o[1]].inputs) \cup Range(nets[o[1]].outputs)
    BY DEF PermanentOwners, PermanentOf, Started
  <2>2. C(o) \in heap /\ C(o).at = ptr[o[1]][o[2]].at
    BY <1>4, <1>5
  <2>3. ptr[o[1]][o[2]] = [area |-> "heap", at |-> ptr[o[1]][o[2]].at]
    <3> HIDE DEF perm, mine
    <3> QED BY <1>1 DEF HeapHolds
  <2> HIDE DEF perm, C
  <2> QED BY <2>1, <2>2, <2>3 DEF Permanent
<1>9. Permanent = {C(o) : o \in perm} /\ Permanent \subseteq heap
  BY <1>7, <1>8 DEF Permanent
<1>10. heap \ Permanent = {C(o) : o \in mine}
  <2>1. \A o, q \in own : C(o) = C(q) => o = q
    BY <1>5, <1>6
  <2> HIDE DEF C, perm, mine
  <2> QED BY <1>3, <1>4, <1>9, <2>1
<1>11. {C(o) : o \in mine} = {C(<<w, t>>) : t \in held}
  <2> HIDE DEF C, held
  <2> QED OBVIOUS
<1>12. \A t \in held : ptr[w][t].at \in Nat
  <2> SUFFICES ASSUME NEW t \in held PROVE ptr[w][t].at \in Nat
    OBVIOUS
  <2> DEFINE o == <<w, t>>
  <2>1. o \in own /\ o[1] = w /\ o[2] = t
    OBVIOUS
  <2> HIDE DEF own, o
  <2>2. ptr[o[1]][o[2]].at \in Nat
    BY <1>1, <2>1 DEF HeapHolds
  <2> QED BY <2>1, <2>2
<1> QED BY <1>9, <1>10, <1>11, <1>12

(* A run holds no more than what is accounted for. *)
LEMMA RunSize ==
    ASSUME Static, GenInv, strategy = "heap", AccountInv, HeapProgramInv, HeapInv, NEW w \in Net, Busy(w)
    PROVE  Cardinality(Taken(heap \ Permanent)) <= maxDynamic[w]
<1> DEFINE N == nets[w]
           held == HeldBefore(N, program[w], ip)
           lo == [t \in held |-> ptr[w][t].at]
           f == N.size
           all == UNION {lo[t]..(lo[t] + f[t] - 1) : t \in held}
<1>1. /\ heap \ Permanent = {Chunk(nets, ptr, <<w, t>>) : t \in held}
      /\ \A t \in held : ptr[w][t].at \in Nat
  BY RunBlocks
<1>2. phase # "generate" /\ ip \in Nat \ {0} /\ ip <= Len(program[w]) + 1
  BY DEF Busy, HeapInv, HeapViews, HeapPhase
<1>3. WellFormed(N) /\ Len(program[w]) \in Nat
  BY <1>2, ProgramFacts DEF HeapInv
<1>4. IsFiniteSet(held) /\ \A t \in held : f[t] \in Nat /\ f[t] > 0
  <2>1. held \subseteq Locals(N)
    BY DEF HeldBefore
  <2>2. IsFiniteSet(Locals(N)) /\ \A t \in Locals(N) : N.size[t] \in Nat /\ N.size[t] > 0
    BY <1>3, LocalsFinite
  <2> HIDE DEF held, N
  <2> QED BY <2>1, <2>2, FS_Subset
<1>5. Taken(heap \ Permanent) = all
  <2> DEFINE B(t) == Chunk(nets, ptr, <<w, t>>)
             R(t) == lo[t]..(lo[t] + f[t] - 1)
  <2>1. \A t \in held : Reach(B(t)) = R(t)
    BY DEF Chunk, Reach
  <2>2. Taken(heap \ Permanent) = UNION {Reach(b) : b \in heap \ Permanent}
    BY DEF Taken, Reach
  <2> HIDE DEF B, R, held
  <2>3. UNION {Reach(b) : b \in {B(t) : t \in held}} = UNION {R(t) : t \in held}
    BY <2>1
  <2> QED BY <1>1, <2>2, <2>3 DEF B, R
<1>6. IsFiniteSet(all) /\ Cardinality(all) <= Total(f, held)
  <2>1. \A t \in held : lo[t] \in Nat
    BY <1>1
  <2> HIDE DEF held, lo, f
  <2> QED BY <1>4, <2>1, RangesCounted
<1>7. Total(f, held) <= maxDynamic[w]
  <2>1. ip \in 1..(Len(program[w]) + 1)
    BY <1>2, <1>3
  <2> QED BY <2>1 DEF HeapProgramInv
<1>8. Cardinality(all) \in Nat /\ Total(f, held) \in Nat /\ maxDynamic[w] \in Nat
  <2>1. Cardinality(all) \in Nat
    <3> HIDE DEF all
    <3> QED BY <1>6, FS_CardinalityType
  <2>2. Total(f, held) \in Nat
    <3>1. held \in SUBSET held
      OBVIOUS
    <3> HIDE DEF held, f
    <3> QED BY <1>4, <3>1, TotalAdd
  <2>3. maxDynamic[w] \in Nat
    BY DEF AccountInv
  <2> QED BY <2>1, <2>2, <2>3
<1> HIDE DEF all, held, f
<1> QED BY <1>5, <1>6, <1>7, <1>8

(* The blocks beside the permanent ones are those that the program holds: *)
(* their sizes add up to no more than what is accounted for.              *)
LEMMA HeapIsSound ==
    ASSUME Static, GenInv, AccountInv, HeapProgramInv, ArenaHeap, strategy = "heap" => HeapInv
    PROVE  HeapSound
<1>1. GenerationAsserts
  BY GenerationAllowed
<1>2. strategy \in {"arena", "heap"}
  BY DeploymentsAssumption DEF Static, Deployable
<1>3. ASSUME NEW w \in Net, Busy(w)
      PROVE  /\ Cardinality(Taken(heap \ Permanent)) <= maxDynamic[w]
             /\ strategy = "heap" /\ ~ Finished(w) /\ Current(w).do = "free" =>
                    \E b \in heap \ Permanent : b.at = ptr[w][Current(w).arg].at
             /\ Finished(w) => heap = Permanent
  <2>1. CASE strategy = "arena"
    <3>1. heap = {} /\ Permanent = {} /\ Taken(heap \ Permanent) = {}
      BY <2>1 DEF ArenaHeap, Permanent, Taken
    <3>2. Cardinality({}) = 0 /\ maxDynamic[w] \in Nat
      BY FS_EmptySet DEF AccountInv
    <3> QED BY <2>1, <3>1, <3>2
  <2>2. CASE strategy = "heap"
    <3> DEFINE held == HeldBefore(nets[w], program[w], ip)
    <3>1. /\ Permanent \subseteq heap
          /\ heap \ Permanent = {Chunk(nets, ptr, <<w, t>>) : t \in held}
      BY <1>3, <2>2, RunBlocks
    <3>2. Cardinality(Taken(heap \ Permanent)) <= maxDynamic[w]
      BY <1>3, <2>2, RunSize
    <3>3. ASSUME ~ Finished(w), Current(w).do = "free"
          PROVE  \E b \in heap \ Permanent : b.at = ptr[w][Current(w).arg].at
      <4> DEFINE r == Dealias(nets[w], Current(w).arg)
      <4>1. r \in held /\ ptr[w][Current(w).arg] = ptr[w][r]
        BY <1>3, <2>2, <3>3, HeldIsFreed
      <4>2. Chunk(nets, ptr, <<w, r>>).at = ptr[w][r].at
        BY DEF Chunk
      <4> HIDE DEF r, held
      <4> QED BY <3>1, <4>1, <4>2
    <3>4. Finished(w) => heap = Permanent
      <4>1. Finished(w) => held = {}
        BY <1>3, <2>2, FinishedHeld
      <4> HIDE DEF held
      <4> QED BY <3>1, <4>1
    <3> QED BY <3>2, <3>3, <3>4
  <2> QED BY <1>2, <2>1, <2>2
<1> QED BY <1>1, <1>3 DEF HeapSound

(* What every step of a deployment preserves, in arenas and on the heap. *)
HeapInvariant ==
    PlanInv /\ GenInv /\ AccountInv /\ HeapProgramInv /\ ArenaHeap /\ (strategy = "heap" => HeapInv)

(* The generated code of every network that can be deployed is sound on a  *)
(* heap that is large enough: the asserts of the generator hold, a run     *)
(* gives back only blocks that it holds, what runs hold beside the inputs  *)
(* and outputs never exceeds the size that the generator accounts for, and *)
(* a run that ends has given back all that it took                         *)
(* (MemoryManagementGeneration in Deeploy/CommonExtensions and the malloc  *)
(* and free that it emits).                                                *)
THEOREM HeapRuns == Spec /\ []HeapFits => []HeapSound
<1>1. Init => HeapInvariant
  <2> SUFFICES ASSUME Init PROVE HeapInvariant
    OBVIOUS
  <2>1. ArenaHeap
    BY DEF Init, RuntimeInit, ArenaHeap, Buffers
  <2> QED BY <2>1, PlanInit, GenInit, AccountInit, HeapProgramInit, HeapInit DEF HeapInvariant
<1>2. HeapInvariant /\ HeapFits' /\ [Next]_vars => HeapInvariant'
  <2> SUFFICES ASSUME HeapInvariant, HeapFits', [Next]_vars PROVE HeapInvariant'
    OBVIOUS
  <2>1. Static /\ strategy' = strategy
    BY StepFrame DEF HeapInvariant, PlanInv
  <2>2. PlanInv' /\ GenInv' /\ AccountInv' /\ HeapProgramInv' /\ ArenaHeap'
    BY <2>1, PlanStep, GenStep, AccountStep, HeapProgramStep, ArenaHeapStep DEF HeapInvariant
  <2>3. strategy = "heap" => HeapInv'
    BY <2>1, HeapStep DEF HeapInvariant
  <2> QED BY <2>1, <2>2, <2>3 DEF HeapInvariant
<1>3. HeapInvariant => HeapSound
  BY HeapIsSound DEF HeapInvariant, PlanInv
<1> QED BY <1>1, <1>2, <1>3, PTL DEF Spec
=============================================================================
